------------------------- MODULE UserService_proofs -------------------------
(***************************************************************************)
(* Theorems about the two compositions of the user service: the sessions   *)
(* of the devices, and the users screens of the admins.  The two share the *)
(* rows of the relation and nothing else, and neither theorem uses the     *)
(* other specification.                                                    *)
(***************************************************************************)
EXTENDS Sessions, UsersScreen, TLAPS

-----------------------------------------------------------------------------
(***************************************************************************)
(* Sessions, for any number of users, tokens, devices and requests.        *)
(***************************************************************************)

SignedTokens == {k \in Token : Signed(k)}

Logins == [email : Email, password : Password, code : HttpCode \cup {NULL},
           token : SignedTokens \cup {NULL}]

Calls == [token : SignedTokens, code : HttpCode \cup {NULL}]

\* The session of one device: its parts have their types, it logs in while it
\* has no token, and what was refused is a token that has expired.
DeviceFits(d) ==
  /\ store[d] \in SignedTokens \cup {NULL}
  /\ disk[d] \in SignedTokens \cup {NULL}
  /\ login[d] \in Logins \cup {NULL}
  /\ calls[d] \subseteq Calls
  /\ login[d] # NULL => store[d] = NULL
  /\ \A c \in calls[d] : c.code = 401 => tokens[c.token] = "expired"

\* The functions of the devices, whatever they hold.
Devices ==
  /\ store = [d \in Device |-> store[d]]
  /\ disk  = [d \in Device |-> disk[d]]
  /\ login = [d \in Device |-> login[d]]
  /\ calls = [d \in Device |-> calls[d]]

SessionInv ==
  /\ users  \in [UserId -> UserRow \cup {NULL}]
  /\ tokens \in [Token -> {"valid", "expired", NULL}]
  /\ Devices
  /\ \A d \in Device : DeviceFits(d)

LEMMA SessionInvTypes == SessionInv => TypeOK
<1> SUFFICES ASSUME SessionInv PROVE TypeOK
  OBVIOUS
<1>1. store \in [Device -> SignedTokens \cup {NULL}]
  BY DEF SessionInv, Devices, DeviceFits
<1>2. disk \in [Device -> SignedTokens \cup {NULL}]
  BY DEF SessionInv, Devices, DeviceFits
<1>3. login \in [Device -> Logins \cup {NULL}]
  BY DEF SessionInv, Devices, DeviceFits
<1>4. calls \in [Device -> SUBSET Calls]
  BY DEF SessionInv, Devices, DeviceFits
<1> QED
  BY <1>1, <1>2, <1>3, <1>4 DEF TypeOK, SessionInv, SignedTokens, Logins, Calls

LEMMA SessionInvInit == Init => SessionInv
BY DEF Init, UsersInit, SessionInv, Devices, DeviceFits

-----------------------------------------------------------------------------
\* A token that was signed stays signed, and an expired one stays expired.
TokensAge ==
  \A k \in Token : /\ Signed(k) => tokens'[k] # NULL
                   /\ tokens[k] = "expired" => tokens'[k] = "expired"

LEMMA AgedFits ==
  ASSUME NEW d \in Device, DeviceFits(d), TokensAge,
         store'[d] = store[d], disk'[d] = disk[d], login'[d] = login[d], calls'[d] = calls[d]
  PROVE  DeviceFits(d)'
<1>1. \A k \in SignedTokens : k \in SignedTokens'
  BY DEF SignedTokens, TokensAge, Signed
<1>2. \A c \in calls[d] : c \in Calls' /\ (c.code = 401 => tokens'[c.token] = "expired")
  BY <1>1 DEF DeviceFits, Calls, TokensAge, SignedTokens
<1>3. login[d] \in Logins' \cup {NULL}
  BY <1>1 DEF DeviceFits, Logins
<1>4. store[d] \in SignedTokens' \cup {NULL} /\ disk[d] \in SignedTokens' \cup {NULL}
  BY <1>1 DEF DeviceFits
<1>5. login[d] # NULL => store[d] = NULL
  BY DEF DeviceFits
<1> QED
  BY <1>2, <1>3, <1>4, <1>5 DEF DeviceFits

\* The device that moves only has to answer for itself.
LEMMA SessionStep ==
  ASSUME SessionInv, NEW d \in Device, users' \in [UserId -> UserRow \cup {NULL}],
         tokens' \in [Token -> {"valid", "expired", NULL}], Devices', TokensAge,
         \A e \in Device \ {d} : /\ store'[e] = store[e] /\ disk'[e] = disk[e]
                                 /\ login'[e] = login[e] /\ calls'[e] = calls[e],
         DeviceFits(d)'
  PROVE  SessionInv'
<1>1. \A e \in Device \ {d} : DeviceFits(e)'
  BY AgedFits DEF SessionInv
<1> QED
  BY <1>1 DEF SessionInv

\* The users and the tokens stay.
LEMMA LocalStep ==
  ASSUME SessionInv, NEW d \in Device, UNCHANGED <<users, tokens>>, Devices',
         \A e \in Device \ {d} : /\ store'[e] = store[e] /\ disk'[e] = disk[e]
                                 /\ login'[e] = login[e] /\ calls'[e] = calls[e],
         DeviceFits(d)'
  PROVE  SessionInv'
BY SessionStep DEF SessionInv, TokensAge, Signed

LEMMA LoginKeeps ==
  ASSUME SessionInv, NEW d \in Device,
         \/ \E email \in Email, password \in Password : LoginSend(d, email, password)
         \/ LoginServe(d) \/ LoginAnswer(d) \/ LoginLost(d)
  PROVE  SessionInv'
<1>1. DeviceFits(d) /\ Devices /\ users \in [UserId -> UserRow \cup {NULL}]
      /\ tokens \in [Token -> {"valid", "expired", NULL}]
  BY DEF SessionInv
<1>2. ASSUME NEW email \in Email, NEW password \in Password, LoginSend(d, email, password)
      PROVE  SessionInv'
  <2> DEFINE r == [email |-> email, password |-> password, code |-> NULL, token |-> NULL]
  <2>1. /\ store[d] = NULL /\ login' = [login EXCEPT ![d] = r]
        /\ UNCHANGED <<users, tokens, store, disk, calls>>
    BY <1>2 DEF LoginSend
  <2>2. r \in Logins
    BY DEF Logins
  <2>3. login'[d] = r /\ \A e \in Device \ {d} : login'[e] = login[e]
    BY <1>1, <2>1 DEF Devices
  <2>4. Devices'
    BY <1>1, <2>1 DEF Devices
  <2>5. SignedTokens' = SignedTokens /\ Logins' = Logins /\ Calls' = Calls
    BY <2>1 DEF SignedTokens, Signed, Logins, Calls
  <2> HIDE DEF r
  <2>6. DeviceFits(d)'
    BY <1>1, <2>1, <2>2, <2>3, <2>5 DEF DeviceFits
  <2> QED
    BY <2>1, <2>3, <2>4, <2>6, LocalStep
<1>3. CASE LoginServe(d)
  <2>1. /\ login[d] # NULL /\ login[d] \in Logins /\ store[d] = NULL
        /\ UNCHANGED <<users, store, disk, calls>>
    BY <1>1, <1>3 DEF LoginServe, DeviceFits
  <2>2. CASE \E code \in {401, 500} : login' = [login EXCEPT ![d].code = code] /\ UNCHANGED tokens
    <3>1. PICK code \in {401, 500} :
            login' = [login EXCEPT ![d].code = code] /\ UNCHANGED tokens
      BY <2>2
    <3> DEFINE r == [login[d] EXCEPT !.code = code]
    <3>2. login' = [login EXCEPT ![d] = r]
      BY <3>1
    <3>3. r \in Logins
      BY <2>1 DEF Logins, HttpCode
    <3> HIDE DEF r
    <3>4. /\ Devices' /\ login'[d] = r
          /\ \A e \in Device \ {d} : login'[e] = login[e]
      BY <1>1, <2>1, <3>2 DEF Devices
    <3>5. SignedTokens' = SignedTokens /\ Logins' = Logins /\ Calls' = Calls
      BY <2>2 DEF SignedTokens, Signed, Logins, Calls
    <3>6. DeviceFits(d)'
      BY <1>1, <2>1, <2>2, <3>3, <3>4, <3>5 DEF DeviceFits
    <3> QED
      BY <2>1, <2>2, <3>4, <3>6, LocalStep
  <2>3. CASE \E k \in Token : /\ ~Signed(k) /\ tokens' = [tokens EXCEPT ![k] = "valid"]
                              /\ login' = [login EXCEPT ![d].code = 200, ![d].token = k]
    <3>1. PICK k \in Token : /\ ~Signed(k) /\ tokens' = [tokens EXCEPT ![k] = "valid"]
                             /\ login' = [login EXCEPT ![d].code = 200, ![d].token = k]
      BY <2>3
    <3>2. tokens' \in [Token -> {"valid", "expired", NULL}] /\ TokensAge
          /\ k \in SignedTokens' /\ SignedTokens \subseteq SignedTokens'
      BY <1>1, <3>1, NoStateIsMissing DEF TokensAge, Signed, SignedTokens
    <3> DEFINE r == [login[d] EXCEPT !.code = 200, !.token = k]
    <3>3. login' = [login EXCEPT ![d] = r]
      BY <3>1
    <3>4. r \in Logins'
      <4>1. r = [email |-> login[d].email, password |-> login[d].password,
                 code |-> 200, token |-> k]
        <5>1. PICK x : x = [login[d] EXCEPT !.code = 200, !.token = k]
          OBVIOUS
        <5>2. x = [email |-> login[d].email, password |-> login[d].password,
                   code |-> 200, token |-> k]
          BY <2>1, <5>1 DEF Logins
        <5> QED
          BY <5>1, <5>2
      <4>2. login[d].email \in Email /\ login[d].password \in Password /\ 200 \in HttpCode
        BY <2>1 DEF Logins, HttpCode
      <4> QED
        BY <3>2, <4>1, <4>2 DEF Logins
    <3> HIDE DEF r
    <3>5. /\ Devices' /\ login'[d] = r
          /\ \A e \in Device \ {d} : login'[e] = login[e]
      BY <1>1, <2>1, <3>3 DEF Devices
    <3>6. \A c \in calls[d] : c \in Calls' /\ (c.code = 401 => tokens'[c.token] = "expired")
      BY <1>1, <3>2 DEF DeviceFits, Calls, TokensAge, SignedTokens
    <3>7. DeviceFits(d)'
      BY <1>1, <2>1, <3>2, <3>4, <3>5, <3>6 DEF DeviceFits
    <3> QED
      BY <1>1, <2>1, <3>2, <3>5, <3>7, SessionStep
  <2> QED
    BY <1>3, <2>2, <2>3 DEF LoginServe
<1>4. CASE LoginAnswer(d) \/ LoginLost(d)
  <2>1. /\ login[d] # NULL /\ login[d] \in Logins /\ login' = [login EXCEPT ![d] = NULL]
        /\ store' = store \/ store' = [store EXCEPT ![d] = login[d].token]
        /\ UNCHANGED <<users, tokens, disk, calls>>
    BY <1>1, <1>4 DEF LoginAnswer, LoginLost, DeviceFits
  <2>2. /\ Devices' /\ login'[d] = NULL
        /\ store'[d] = store[d] \/ store'[d] = login[d].token
        /\ \A e \in Device \ {d} : store'[e] = store[e] /\ login'[e] = login[e]
    BY <1>1, <2>1 DEF Devices
  <2>3. SignedTokens' = SignedTokens /\ Logins' = Logins /\ Calls' = Calls
    BY <2>1 DEF SignedTokens, Signed, Logins, Calls
  <2>4. login[d].token \in SignedTokens \cup {NULL}
    BY <2>1 DEF Logins
  <2>5. DeviceFits(d)'
    BY <1>1, <2>1, <2>2, <2>3, <2>4 DEF DeviceFits
  <2> QED
    BY <2>1, <2>2, <2>5, LocalStep
<1> QED
  BY <1>2, <1>3, <1>4

LEMMA CallKeeps ==
  ASSUME SessionInv, NEW d \in Device,
         CallSend(d) \/ CallServe(d) \/ CallAnswer(d) \/ CallLost(d)
  PROVE  SessionInv'
<1>1. DeviceFits(d) /\ Devices
  BY DEF SessionInv
<1>2. /\ UNCHANGED <<users, tokens, disk, login>>
      /\ SignedTokens' = SignedTokens /\ Logins' = Logins /\ Calls' = Calls
  BY DEF CallSend, CallServe, CallAnswer, CallLost, SignedTokens, Signed, Logins, Calls
<1>3. /\ Devices'
      /\ \A e \in Device \ {d} : store'[e] = store[e] /\ calls'[e] = calls[e]
      /\ store'[d] \in {store[d], NULL}
  BY <1>1 DEF Devices, CallSend, CallServe, CallAnswer, CallLost
<1>4. \A c \in calls'[d] : c \in Calls /\ (c.code = 401 => tokens[c.token] = "expired")
  <2>1. CASE CallSend(d)
    <3> DEFINE c == [token |-> store[d], code |-> NULL]
    <3>1. calls'[d] = calls[d] \cup {c}
      BY <1>1, <2>1 DEF CallSend, Devices
    <3>2. c \in Calls /\ c.code # 401
      BY <1>1, <2>1, NoAnswerIsMissing DEF CallSend, DeviceFits, Calls, HttpCode
    <3> HIDE DEF c
    <3> QED
      BY <1>1, <3>1, <3>2 DEF DeviceFits
  <2>2. CASE CallServe(d)
    <3>1. PICK c \in calls[d] :
            \E code \in IF tokens[c.token] = "expired" THEN {401} ELSE {200, 500} :
              calls' = [calls EXCEPT ![d] = (@ \ {c}) \cup {[c EXCEPT !.code = code]}]
      BY <2>2 DEF CallServe
    <3>2. PICK code \in IF tokens[c.token] = "expired" THEN {401} ELSE {200, 500} :
            calls' = [calls EXCEPT ![d] = (@ \ {c}) \cup {[c EXCEPT !.code = code]}]
      BY <3>1
    <3>3. code \in {200, 401, 500} /\ (code = 401 => tokens[c.token] = "expired")
      OBVIOUS
    <3> DEFINE q == [c EXCEPT !.code = code]
    <3>4. q \in Calls /\ q.code = code /\ q.token = c.token
      BY <1>1, <3>3 DEF DeviceFits, Calls, HttpCode
    <3>5. calls'[d] = (calls[d] \ {c}) \cup {q}
      BY <1>1, <3>2 DEF Devices
    <3> HIDE DEF q
    <3> QED
      BY <1>1, <3>3, <3>4, <3>5 DEF DeviceFits
  <2>3. CASE CallAnswer(d) \/ CallLost(d)
    <3>1. calls'[d] \subseteq calls[d]
      BY <1>1, <2>3 DEF CallAnswer, CallLost, Devices
    <3> QED
      BY <1>1, <3>1 DEF DeviceFits
  <2> QED
    BY <2>1, <2>2, <2>3
<1>5. DeviceFits(d)'
  BY <1>1, <1>2, <1>3, <1>4 DEF DeviceFits
<1> QED
  BY <1>2, <1>3, <1>5, LocalStep

LEMMA StoreKeeps ==
  ASSUME SessionInv, NEW d \in Device, Logout(d) \/ Persist(d) \/ Restart(d)
  PROVE  SessionInv'
<1>1. DeviceFits(d) /\ Devices
  BY DEF SessionInv
<1>2. /\ UNCHANGED <<users, tokens>>
      /\ SignedTokens' = SignedTokens /\ Logins' = Logins /\ Calls' = Calls
  BY DEF Logout, Persist, Restart, SignedTokens, Signed, Logins, Calls
<1>3. /\ Devices'
      /\ \A e \in Device \ {d} : /\ store'[e] = store[e] /\ disk'[e] = disk[e]
                                /\ login'[e] = login[e] /\ calls'[e] = calls[e]
  BY <1>1 DEF Devices, Logout, Persist, Restart
<1>4. CASE Logout(d)
  <2>1. store'[d] = NULL /\ disk'[d] = disk[d] /\ login'[d] = login[d] /\ calls'[d] = calls[d]
    BY <1>1, <1>4 DEF Logout, Devices
  <2> QED
    BY <1>1, <1>2, <1>3, <2>1, LocalStep DEF DeviceFits
<1>5. CASE Persist(d)
  <2>1. store'[d] = store[d] /\ disk'[d] = store[d] /\ login'[d] = login[d] /\ calls'[d] = calls[d]
    BY <1>1, <1>5 DEF Persist, Devices
  <2> QED
    BY <1>1, <1>2, <1>3, <2>1, LocalStep DEF DeviceFits
<1>6. CASE Restart(d)
  <2>1. store'[d] = disk[d] /\ disk'[d] = disk[d] /\ login'[d] = NULL /\ calls'[d] = {}
    BY <1>1, <1>6 DEF Restart, Devices
  <2> QED
    BY <1>1, <1>2, <1>3, <2>1, LocalStep DEF DeviceFits
<1> QED
  BY <1>4, <1>5, <1>6

LEMMA UsersKeep ==
  ASSUME SessionInv, Administer
  PROVE  SessionInv'
<1>1. users \in [UserId -> UserRow \cup {NULL}] /\ UNCHANGED <<tokens, store, disk, login, calls>>
  BY DEF SessionInv, Administer
<1>2. users' \in [UserId -> UserRow \cup {NULL}]
  <2>1. ASSUME NEW u \in UserId, NEW email \in Email, NEW password \in Password,
               CreateUser(u, email, password)
        PROVE  users' \in [UserId -> UserRow \cup {NULL}]
    <3>1. [email |-> email, password |-> password, active |-> TRUE] \in UserRow
      <4>1. TRUE \in BOOLEAN
        OBVIOUS
      <4> QED
        BY <4>1, Zenon DEF UserRow
    <3> QED
      BY <1>1, <2>1, <3>1 DEF CreateUser, UsersCreate
  <2>2. ASSUME NEW u \in UserId, NEW email \in Email, UpdateUser(u, email)
        PROVE  users' \in [UserId -> UserRow \cup {NULL}]
    BY <1>1, <2>2 DEF UpdateUser, UsersUpdate, UserRow
  <2>3. ASSUME NEW u \in UserId, Deactivate(u)
        PROVE  users' \in [UserId -> UserRow \cup {NULL}]
    BY <1>1, <2>3 DEF Deactivate, UsersDeactivate, UserRow
  <2> QED
    BY <2>1, <2>2, <2>3 DEF Administer
<1>3. \A d \in Device : DeviceFits(d)'
  BY <1>1, AgedFits DEF SessionInv, TokensAge, Signed
<1> QED
  BY <1>1, <1>2, <1>3 DEF SessionInv, Devices

LEMMA ExpiryKeeps ==
  ASSUME SessionInv, NEW k \in Token, Expire(k)
  PROVE  SessionInv'
<1>1. /\ UNCHANGED <<users, store, disk, login, calls>>
      /\ tokens' = [tokens EXCEPT ![k] = "expired"]
      /\ tokens \in [Token -> {"valid", "expired", NULL}]
  BY DEF SessionInv, Expire
<1>2. TokensAge /\ tokens' \in [Token -> {"valid", "expired", NULL}]
  BY <1>1, NoStateIsMissing DEF TokensAge, Signed
<1>3. \A d \in Device : DeviceFits(d)'
  BY <1>1, <1>2, AgedFits DEF SessionInv
<1> QED
  BY <1>1, <1>2, <1>3 DEF SessionInv, Devices

LEMMA SessionInvStep == SessionInv /\ [Next]_vars => SessionInv'
<1> SUFFICES ASSUME SessionInv, [Next]_vars PROVE SessionInv'
  OBVIOUS
<1>1. CASE Administer
  BY <1>1, UsersKeep
<1>2. ASSUME NEW d \in Device, DeviceStep(d) PROVE SessionInv'
  BY <1>2, LoginKeeps, CallKeeps, StoreKeeps DEF DeviceStep
<1>3. ASSUME NEW k \in Token, Expire(k) PROVE SessionInv'
  BY <1>3, ExpiryKeeps
<1>4. CASE UNCHANGED vars
  <2>1. UNCHANGED <<users, tokens, store, disk, login, calls>>
    BY <1>4 DEF vars
  <2>2. \A d \in Device : DeviceFits(d)'
    BY <2>1, AgedFits DEF SessionInv, TokensAge, Signed
  <2> QED
    BY <2>1, <2>2 DEF SessionInv, Devices
<1> QED
  BY <1>1, <1>2, <1>3, <1>4 DEF Next

-----------------------------------------------------------------------------
(* A device logs in only while it has no token, and the server refuses     *)
(* expired tokens only.                                                    *)
THEOREM SessionsInductive == Spec => []SessionInv
BY SessionInvInit, SessionInvStep, PTL DEF Spec

(* No device ever holds, keeps on its disk or sends a token the server did *)
(* not sign.                                                               *)
THEOREM SessionsTypeCorrect == Spec => []TypeOK
BY SessionsInductive, SessionInvTypes, PTL

\* What may take a token out of the store of device d.
EndsByExpiry(d) ==
  store[d] # NULL /\ store'[d] # store[d] =>
    \/ calls'[d] = {} /\ store'[d] = disk[d]
    \/ calls'[d] = calls[d] /\ store'[d] = NULL
    \/ store'[d] = NULL /\ \E c \in calls[d] : tokens[c.token] = "expired"

LEMMA EndsByExpiryStep ==
  ASSUME SessionInv, NEW d \in Device, NEW e \in Device, DeviceStep(e)
  PROVE  EndsByExpiry(d)
<1>1. DeviceFits(d) /\ Devices
  BY DEF SessionInv
<1>2. CASE store' = store \/ e # d
  <2>1. \E token : store' = store \/ store' = [store EXCEPT ![e] = token]
    BY DEF DeviceStep, LoginSend, LoginServe, LoginAnswer, LoginLost, CallSend,
           CallServe, CallAnswer, CallLost, Logout, Persist, Restart
  <2>2. store'[d] = store[d]
    BY <1>1, <1>2, <2>1 DEF Devices
  <2> QED
    BY <2>2 DEF EndsByExpiry
<1>3. CASE e = d /\ LoginAnswer(d)
  BY <1>1, <1>3 DEF LoginAnswer, DeviceFits, EndsByExpiry
<1>4. CASE e = d /\ CallAnswer(d)
  BY <1>1, <1>4 DEF CallAnswer, DeviceFits, EndsByExpiry, Devices
<1>5. CASE e = d /\ Logout(d)
  BY <1>1, <1>5 DEF Logout, EndsByExpiry, Devices
<1>6. CASE e = d /\ Restart(d)
  BY <1>1, <1>6 DEF Restart, EndsByExpiry, Devices
<1>7. \/ store' = store \/ LoginAnswer(e) \/ CallAnswer(e) \/ Logout(e) \/ Restart(e)
  BY DEF DeviceStep, LoginSend, LoginServe, LoginLost, CallSend, CallServe, CallLost, Persist
<1> QED
  BY <1>2, <1>3, <1>4, <1>5, <1>6, <1>7

(* Besides a logout and a restart, only the expiry of a token of the       *)
(* device ends its session.                                                *)
THEOREM SessionsEndByExpiry == Spec => SessionEndsByExpiry
<1>1. ASSUME SessionInv, [Next]_vars, NEW d \in Device
      PROVE  EndsByExpiry(d) \/ UNCHANGED vars
  BY <1>1, EndsByExpiryStep DEF Next, Administer, Expire, EndsByExpiry
<1>2. SessionInv /\ [Next]_vars =>
        [\A d \in Device : store[d] # NULL /\ store'[d] # store[d] =>
           \/ calls'[d] = {} /\ store'[d] = disk[d]
           \/ calls'[d] = calls[d] /\ store'[d] = NULL
           \/ store'[d] = NULL /\ \E c \in calls[d] : tokens[c.token] = "expired"]_vars
  BY <1>1 DEF EndsByExpiry
<1> QED
  BY <1>2, SessionsInductive, PTL DEF Spec, SessionEndsByExpiry
-----------------------------------------------------------------------------
(***************************************************************************)
(* The accounts and the users screens, for any number of admins, users and *)
(* requests.                                                               *)
(***************************************************************************)

Inactive(u) == users[u] # NULL /\ ~users[u].active

\* A request names what its route asks for; it belongs to the form that is
\* open, if its own was not dismissed; and a deactivation that succeeded has
\* deactivated.
RequestFits(a, r) ==
  /\ r.op # "create" => r.form \in UserId
  /\ r.op # "deactivate" => r.email \in Email
  /\ r.modal = "open" => form[a] # NULL /\ r.form = form[a].id
  /\ r.op = "deactivate" /\ r.code = 200 => Inactive(r.form)

\* A mounted screen waits for one request at most.
OneAtATime(a) ==
  \A r, q \in saving[a] : r.modal # "unmounted" /\ q.modal # "unmounted" => r = q

\* No list that is on the screen, or on its way, has a user who is gone; what
\* the cache has while the screen is away will be read anew.
GoneFits(a) ==
  \A u \in gone[a] :
    /\ Inactive(u)
    /\ a \notin away /\ fetch[a] = NULL /\ list[a] # NULL => u \notin DOMAIN list[a]
    /\ fetch[a] # NULL /\ fetch[a].rows # NULL => u \notin DOMAIN fetch[a].rows

AdminFits(a) ==
  /\ \A r \in saving[a] : RequestFits(a, r)
  /\ OneAtATime(a)
  /\ GoneFits(a)

UsersInv ==
  /\ UsersTypeOK
  /\ OneAccountPerAddress
  /\ \A a \in Admin : AdminFits(a)

-----------------------------------------------------------------------------
(* The user service *)

\* Users stay, and the deactivated ones stay deactivated.
UserMoves == \A u \in UserId : Inactive(u) => users'[u] # NULL /\ ~users'[u].active

UserRows == users \in [UserId -> UserRow \cup {NULL}]

LEMMA CreateMoves ==
  ASSUME UserRows, OneAccountPerAddress, NEW u \in UserId, NEW email \in Email,
         NEW password \in Password, CreateUser(u, email, password)
  PROVE  UserRows' /\ OneAccountPerAddress' /\ UserMoves
<1> DEFINE row == [email |-> email, password |-> password, active |-> TRUE]
<1>1. row \in UserRow /\ row # NULL /\ row.email = email
  <2>1. TRUE \in BOOLEAN
    OBVIOUS
  <2>2. row \in UserRow
    BY <2>1, Zenon DEF UserRow
  <2> QED
    BY <2>2, NoUserIsMissing
<1>2. users[u] = NULL /\ ~Taken(email, u) /\ users' = [users EXCEPT ![u] = row]
  BY DEF CreateUser, UsersCreate
<1>3. UserRows' /\ UserMoves
  BY <1>1, <1>2 DEF UserRows, UserMoves, Inactive
<1>4. OneAccountPerAddress'
  <2>1. users'[u].email = email /\ \A v \in UserId \ {u} : users'[v] = users[v]
    BY <1>1, <1>2 DEF UserRows
  <2> QED
    BY <1>2, <2>1 DEF OneAccountPerAddress, Taken
<1> QED
  BY <1>3, <1>4

LEMMA UpdateMoves ==
  ASSUME UserRows, OneAccountPerAddress, NEW u \in UserId, NEW email \in Email,
         UpdateUser(u, email)
  PROVE  UserRows' /\ OneAccountPerAddress' /\ UserMoves
<1>1. /\ users[u] \in UserRow /\ ~Taken(email, u)
      /\ users' = [users EXCEPT ![u].email = email]
  BY DEF UpdateUser, UsersUpdate, UserRows
<1>2. /\ users'[u] \in UserRow /\ users'[u].email = email /\ users'[u].active = users[u].active
      /\ \A v \in UserId \ {u} : users'[v] = users[v]
  BY <1>1 DEF UserRows, UserRow
<1>3. UserRows' /\ UserMoves
  BY <1>1, <1>2, NoUserIsMissing DEF UserRows, UserMoves, Inactive
<1>4. OneAccountPerAddress'
  BY <1>1, <1>2 DEF OneAccountPerAddress, Taken
<1> QED
  BY <1>3, <1>4

LEMMA DeactivateMoves ==
  ASSUME UserRows, OneAccountPerAddress, NEW u \in UserId, Deactivate(u)
  PROVE  UserRows' /\ OneAccountPerAddress' /\ UserMoves /\ Inactive(u)'
<1>1. users[u] \in UserRow /\ users' = [users EXCEPT ![u].active = FALSE]
  BY DEF Deactivate, UsersDeactivate, UserRows
<1>2. /\ users'[u] \in UserRow /\ users'[u].email = users[u].email /\ ~users'[u].active
      /\ \A v \in UserId \ {u} : users'[v] = users[v]
  BY <1>1 DEF UserRows, UserRow
<1>3. UserRows' /\ UserMoves /\ Inactive(u)'
  BY <1>1, <1>2, NoUserIsMissing DEF UserRows, UserMoves, Inactive
<1>4. OneAccountPerAddress'
  BY <1>1, <1>2, NoUserIsMissing DEF OneAccountPerAddress
<1> QED
  BY <1>3, <1>4

LEMMA GrantedMoves ==
  ASSUME UserRows, OneAccountPerAddress, NEW r, Granted(r),
         r.op # "create" => r.form \in UserId,
         r.op # "deactivate" => r.email \in Email
  PROVE  /\ UserRows' /\ OneAccountPerAddress' /\ UserMoves
         /\ r.op = "deactivate" => Inactive(r.form)'
<1>1. CASE /\ r.op = "create"
           /\ \E u \in UserId, password \in Password : CreateUser(u, r.email, password)
  BY <1>1, CreateMoves
<1>2. CASE r.op = "update" /\ UpdateUser(r.form, r.email)
  BY <1>2, UpdateMoves
<1>3. CASE r.op = "deactivate" /\ Deactivate(r.form)
  BY <1>3, DeactivateMoves DEF Inactive
<1> QED
  BY <1>1, <1>2, <1>3 DEF Granted

-----------------------------------------------------------------------------
(* The devices *)

\* The other devices are where they were.
OthersStay(a) ==
  \A b \in Admin \ {a} :
    /\ list'[b] = list[b] /\ fetch'[b] = fetch[b] /\ form'[b] = form[b]
    /\ saving'[b] = saving[b] /\ gone'[b] = gone[b]
    /\ b \in away' <=> b \in away

\* The device that moves only has to answer for itself.
LEMMA AdminStep ==
  ASSUME UsersInv, NEW a \in Admin, UsersTypeOK', OneAccountPerAddress', UserMoves,
         OthersStay(a), AdminFits(a)'
  PROVE  UsersInv'
<1>1. ASSUME NEW b \in Admin \ {a} PROVE AdminFits(b)'
  <2>1. AdminFits(b) /\ gone[b] \subseteq UserId
    BY DEF UsersInv, UsersTypeOK
  <2>2. \A r \in saving'[b] : RequestFits(b, r)'
    BY <2>1 DEF OthersStay, AdminFits, RequestFits, UserMoves, Inactive
  <2>3. OneAtATime(b)'
    BY <2>1 DEF OthersStay, AdminFits, OneAtATime
  <2>4. GoneFits(b)'
    BY <2>1 DEF OthersStay, AdminFits, GoneFits, UserMoves, Inactive
  <2> QED
    BY <2>2, <2>3, <2>4 DEF AdminFits
<1> QED
  BY <1>1 DEF UsersInv

\* Only the device's list, its fetch, or its form changes.
LEMMA QuietStep ==
  ASSUME UsersInv, NEW a \in Admin, UsersTypeOK', UNCHANGED users, OthersStay(a),
         AdminFits(a)'
  PROVE  UsersInv'
BY AdminStep DEF UsersInv, UserMoves, Inactive, OneAccountPerAddress

LEMMA FetchKeeps ==
  ASSUME UsersInv, NEW a \in Admin, ListUsers(a) \/ DrawUsers(a) \/ LoadFails(a)
  PROVE  UsersInv'
<1>1. UsersTypeOK /\ AdminFits(a)
  BY DEF UsersInv
<1>2. CASE ListUsers(a)
  <2> DEFINE rows == [u \in ListActive |-> users[u].email]
  <2>1. rows \in Team
    <3>1. ListActive \in SUBSET UserId
      BY DEF ListActive
    <3>2. \A u \in ListActive : users[u].email \in Email
      BY <1>1 DEF ListActive, UsersTypeOK, UserRow
    <3> QED
      BY <3>1, <3>2 DEF Team
  <2>2. /\ fetch[a] # NULL /\ fetch' = [fetch EXCEPT ![a].rows = rows]
        /\ UNCHANGED <<users, gone, list, form, saving, away>>
    BY <1>2 DEF ListUsers, FetchRead
  <2>3. UsersTypeOK'
    BY <1>1, <2>1, <2>2 DEF UsersTypeOK
  <2>4. fetch'[a].rows = rows /\ \A b \in Admin \ {a} : fetch'[b] = fetch[b]
    BY <1>1, <2>2 DEF UsersTypeOK
  <2>5. fetch'[a] # NULL
    <3>1. fetch[a] \in [rows : Team \cup {NULL}]
      BY <1>1, <2>2 DEF UsersTypeOK
    <3>2. fetch'[a] = [rows |-> rows]
      BY <1>1, <2>2, <3>1 DEF UsersTypeOK
    <3> QED
      BY <2>1, <3>2, NoFetchIsMissing
  <2>6. AdminFits(a)'
    BY <1>1, <2>2, <2>4, <2>5
    DEF AdminFits, RequestFits, OneAtATime, GoneFits, Inactive, ListActive
  <2> QED
    BY <2>2, <2>3, <2>4, <2>6, QuietStep DEF OthersStay
<1>3. CASE DrawUsers(a)
  <2>1. /\ fetch[a] # NULL /\ fetch[a].rows # NULL
        /\ list' = [list EXCEPT ![a] = fetch[a].rows] /\ fetch' = [fetch EXCEPT ![a] = NULL]
        /\ UNCHANGED <<users, gone, form, saving, away>>
    BY <1>3 DEF DrawUsers, FetchDrawn
  <2>2. UsersTypeOK'
    BY <1>1, <2>1 DEF UsersTypeOK
  <2>3. /\ list'[a] = fetch[a].rows /\ fetch'[a] = NULL
        /\ \A b \in Admin \ {a} : list'[b] = list[b] /\ fetch'[b] = fetch[b]
    BY <1>1, <2>1 DEF UsersTypeOK
  <2>4. AdminFits(a)'
    BY <1>1, <2>1, <2>3 DEF AdminFits, RequestFits, OneAtATime, GoneFits, Inactive
  <2> QED
    BY <2>1, <2>2, <2>3, <2>4, QuietStep DEF OthersStay
<1>4. CASE LoadFails(a)
  <2>1. /\ fetch' = [fetch EXCEPT ![a] = NULL] /\ gone' = [gone EXCEPT ![a] = {}]
        /\ UNCHANGED <<users, list, form, saving, away>>
    BY <1>4 DEF LoadFails, FetchFails
  <2>2. UsersTypeOK'
    BY <1>1, <2>1 DEF UsersTypeOK
  <2>3. /\ fetch'[a] = NULL /\ gone'[a] = {}
        /\ \A b \in Admin \ {a} : gone'[b] = gone[b] /\ fetch'[b] = fetch[b]
    BY <1>1, <2>1 DEF UsersTypeOK
  <2>4. AdminFits(a)'
    BY <1>1, <2>1, <2>3 DEF AdminFits, RequestFits, OneAtATime, GoneFits, Inactive
  <2> QED
    BY <2>1, <2>2, <2>3, <2>4, QuietStep DEF OthersStay
<1> QED
  BY <1>2, <1>3, <1>4
LEMMA FormKeeps ==
  ASSUME UsersInv, NEW a \in Admin,
         EditUser(a) \/ NewUser(a) \/ FillIn(a) \/ CloseForm(a) \/ LeaveScreen(a)
  PROVE  UsersInv'
<1>1. UsersTypeOK /\ AdminFits(a)
  BY DEF UsersInv
<1> DEFINE Form == [id : UserId \cup {NULL}, email : Email \cup {NULL}]
<1>2. CASE EditUser(a) \/ NewUser(a)
  <2>1. PICK fields \in Form : openModal(a, fields)
    <3>1. CASE EditUser(a)
      <4>1. PICK u \in DOMAIN list[a] : openModal(a, [id |-> u, email |-> list[a][u]])
        BY <3>1 DEF EditUser
      <4>2. list[a] \in Team
        BY <1>1, <3>1 DEF EditUser, UsersTypeOK
      <4>3. u \in UserId /\ list[a][u] \in Email
        BY <4>2 DEF Team
      <4> QED
        BY <4>1, <4>3
    <3>2. CASE NewUser(a)
      BY <3>2 DEF NewUser
    <3> QED
      BY <1>2, <3>1, <3>2
  <2>2. /\ form[a] = NULL /\ form' = [form EXCEPT ![a] = fields]
        /\ UNCHANGED <<users, gone, list, fetch, saving, away>>
    BY <1>2, <2>1 DEF openModal, EditUser, NewUser
  <2>3. UsersTypeOK'
    BY <1>1, <2>2 DEF UsersTypeOK
  <2>4. AdminFits(a)'
    BY <1>1, <2>2 DEF AdminFits, RequestFits, OneAtATime, GoneFits, Inactive
  <2> QED
    BY <1>1, <2>2, <2>3, <2>4, QuietStep DEF OthersStay, UsersTypeOK
<1>3. CASE FillIn(a)
  <2>1. PICK email \in Email : form' = [form EXCEPT ![a] = [id |-> form[a].id, email |-> email]]
    BY <1>3 DEF FillIn, Typed
  <2>2. form[a] # NULL /\ UNCHANGED <<users, gone, list, fetch, saving, away>>
    BY <1>3 DEF FillIn, Typed
  <2>3. UsersTypeOK'
    BY <1>1, <2>1, <2>2 DEF UsersTypeOK
  <2>4. /\ form'[a] = [id |-> form[a].id, email |-> email]
        /\ \A b \in Admin \ {a} : form'[b] = form[b]
    BY <1>1, <2>1 DEF UsersTypeOK
  <2>5. form'[a] # NULL
    BY <2>4, NoFormIsMissing, <1>1, <2>2 DEF UsersTypeOK
  <2>6. AdminFits(a)'
    BY <1>1, <2>2, <2>4, <2>5 DEF AdminFits, RequestFits, OneAtATime, GoneFits, Inactive
  <2> QED
    BY <1>1, <2>2, <2>3, <2>4, <2>6, QuietStep DEF OthersStay
<1>4. CASE CloseForm(a)
  <2> DEFINE d(r) == IF r.modal = "open" THEN [r EXCEPT !.modal = "dismissed"] ELSE r
  <2>1. /\ form' = [form EXCEPT ![a] = NULL]
        /\ saving' = [saving EXCEPT ![a] = {d(r) : r \in saving[a]}]
        /\ UNCHANGED <<users, gone, list, fetch, away>>
    BY <1>4 DEF CloseForm, closeModal
  <2>2. /\ form'[a] = NULL /\ saving'[a] = {d(r) : r \in saving[a]}
        /\ \A b \in Admin \ {a} : form'[b] = form[b] /\ saving'[b] = saving[b]
    BY <1>1, <2>1 DEF UsersTypeOK
  <2>3. \A r \in saving[a] :
          /\ r \in Requests /\ d(r) \in Requests /\ d(r).modal # "open"
          /\ d(r).op = r.op /\ d(r).form = r.form /\ d(r).email = r.email /\ d(r).code = r.code
          /\ d(r).modal = "unmounted" <=> r.modal = "unmounted"
    BY <1>1 DEF UsersTypeOK, Requests
  <2>4. UsersTypeOK'
    BY <1>1, <2>1, <2>3 DEF UsersTypeOK
  <2>5. AdminFits(a)'
    <3> HIDE DEF d
    <3> QED
      BY <1>1, <2>1, <2>2, <2>3 DEF AdminFits, RequestFits, OneAtATime, GoneFits, Inactive
  <2> QED
    BY <2>1, <2>2, <2>4, <2>5, QuietStep DEF OthersStay
<1>5. CASE LeaveScreen(a)
  <2> DEFINE d(r) == [r EXCEPT !.modal = "unmounted"]
  <2>1. /\ form' = [form EXCEPT ![a] = NULL] /\ away' = away \cup {a}
        /\ saving' = [saving EXCEPT ![a] = {d(r) : r \in saving[a]}]
        /\ UNCHANGED <<users, gone, list, fetch>>
    BY <1>5 DEF LeaveScreen, Leave
  <2>2. /\ form'[a] = NULL /\ saving'[a] = {d(r) : r \in saving[a]} /\ a \in away'
        /\ \A b \in Admin \ {a} : /\ form'[b] = form[b] /\ saving'[b] = saving[b]
                                  /\ b \in away' <=> b \in away
    BY <1>1, <2>1 DEF UsersTypeOK
  <2>3. \A r \in saving[a] :
          /\ r \in Requests /\ d(r) \in Requests /\ d(r).modal = "unmounted"
          /\ d(r).op = r.op /\ d(r).form = r.form /\ d(r).email = r.email /\ d(r).code = r.code
    BY <1>1 DEF UsersTypeOK, Requests
  <2>4. UsersTypeOK'
    BY <1>1, <2>1, <2>3 DEF UsersTypeOK
  <2>5. AdminFits(a)'
    <3>1. GoneFits(a)'
      BY <1>1, <2>1, <2>2 DEF AdminFits, GoneFits, Inactive
    <3> HIDE DEF d
    <3> QED
      BY <1>1, <2>1, <2>2, <2>3, <3>1 DEF AdminFits, RequestFits, OneAtATime, Inactive
  <2> QED
    BY <2>1, <2>2, <2>4, <2>5, QuietStep DEF OthersStay
<1> QED
  BY <1>2, <1>3, <1>4, <1>5

\* The screen is away, or back.
LEMMA MountKeeps ==
  ASSUME UsersInv, NEW a \in Admin, ForgetUsers(a) \/ ReturnToScreen(a)
  PROVE  UsersInv'
<1>1. UsersTypeOK /\ AdminFits(a)
  BY DEF UsersInv
<1>2. CASE ForgetUsers(a)
  <2>1. /\ a \in away /\ list' = [list EXCEPT ![a] = NULL]
        /\ UNCHANGED <<users, gone, fetch, form, saving, away>>
    BY <1>2 DEF ForgetUsers, Forget
  <2>2. UsersTypeOK' /\ \A b \in Admin \ {a} : list'[b] = list[b]
    BY <1>1, <2>1 DEF UsersTypeOK
  <2>3. AdminFits(a)'
    BY <1>1, <2>1 DEF AdminFits, RequestFits, OneAtATime, GoneFits, Inactive
  <2> QED
    BY <2>1, <2>2, <2>3, QuietStep DEF OthersStay
<1>3. CASE ReturnToScreen(a)
  <2>1. /\ a \in away /\ away' = away \ {a}
        /\ fetch' = IF fetch[a] = NULL THEN [fetch EXCEPT ![a] = NewFetch] ELSE fetch
        /\ UNCHANGED <<users, gone, list, form, saving>>
    BY <1>3 DEF ReturnToScreen, ComeBack
  <2>2. /\ fetch'[a] # NULL /\ (fetch'[a] = fetch[a] \/ fetch'[a].rows = NULL)
        /\ \A b \in Admin \ {a} : fetch'[b] = fetch[b] /\ (b \in away' <=> b \in away)
    BY <1>1, <2>1, NoFetchIsMissing DEF UsersTypeOK, NewFetch
  <2>3. UsersTypeOK'
    BY <1>1, <2>1 DEF UsersTypeOK, NewFetch
  <2>4. AdminFits(a)'
    BY <1>1, <2>1, <2>2 DEF AdminFits, RequestFits, OneAtATime, GoneFits, Inactive
  <2> QED
    BY <2>1, <2>2, <2>3, <2>4, QuietStep DEF OthersStay
<1> QED
  BY <1>2, <1>3

LEMMA SubmitKeeps ==
  ASSUME UsersInv, NEW a \in Admin, Save(a) \/ DeactivateUser(a)
  PROVE  UsersInv'
<1>1. /\ UsersTypeOK /\ AdminFits(a)
      /\ form[a] # NULL => form[a] \in [id : UserId \cup {NULL}, email : Email \cup {NULL}]
  BY DEF UsersInv, UsersTypeOK
<1>2. PICK op \in {"create", "update", "deactivate"}, email \in Email \cup {NULL} :
        /\ Send(a, op, email) /\ form[a] # NULL
        /\ op # "create" => form[a].id \in UserId
        /\ op # "deactivate" => email \in Email
  <2>1. CASE Save(a)
    BY <1>1, <2>1 DEF Save
  <2>2. CASE DeactivateUser(a)
    BY <1>1, <2>2 DEF DeactivateUser
  <2> QED
    BY <2>1, <2>2
<1> DEFINE r == [op |-> op, form |-> form[a].id, email |-> email, code |-> NULL, modal |-> "open"]
<1>3. /\ ~isPending(a) /\ saving' = [saving EXCEPT ![a] = @ \cup {r}]
      /\ UNCHANGED <<users, gone, list, fetch, form, away>>
  BY <1>2 DEF Send, Submit
<1>4. r \in Requests
  BY <1>1, <1>2 DEF Requests
<1>5. UsersTypeOK'
  BY <1>1, <1>3, <1>4 DEF UsersTypeOK
<1>6. /\ saving'[a] = saving[a] \cup {r}
      /\ \A b \in Admin \ {a} : saving'[b] = saving[b]
  BY <1>1, <1>3 DEF UsersTypeOK
<1>7. RequestFits(a, r)
  BY <1>2, NoCodeIsMissing DEF RequestFits
<1>8. AdminFits(a)'
  <2>1. OneAtATime(a)'
    BY <1>3, <1>6 DEF OneAtATime, isPending
  <2>2. \A q \in saving[a] : RequestFits(a, q)
    BY <1>1 DEF AdminFits
  <2> HIDE DEF r
  <2> QED
    BY <1>1, <1>3, <1>6, <1>7, <2>1, <2>2 DEF AdminFits, RequestFits, GoneFits, Inactive
<1> QED
  BY <1>3, <1>5, <1>6, <1>8, QuietStep DEF OthersStay

LEMMA ServeKeeps ==
  ASSUME UsersInv, NEW a \in Admin, Serve(a)
  PROVE  UsersInv' /\ UserMoves
<1>1. UsersTypeOK /\ AdminFits(a) /\ OneAccountPerAddress
  BY DEF UsersInv
<1>2. PICK r \in saving[a] :
        /\ r.code = NULL
        /\ \E code \in {200, 500} :
             /\ \/ Granted(r)
                \/ code = 500 /\ (Refused(r) \/ UNCHANGED users)
             /\ saving' = [saving EXCEPT ![a] = (@ \ {r}) \cup {[r EXCEPT !.code = code]}]
  BY DEF Serve
<1>3. PICK code \in {200, 500} :
        /\ \/ Granted(r)
           \/ code = 500 /\ (Refused(r) \/ UNCHANGED users)
        /\ saving' = [saving EXCEPT ![a] = (@ \ {r}) \cup {[r EXCEPT !.code = code]}]
  BY <1>2
<1> DEFINE q == [r EXCEPT !.code = code]
<1>4. UNCHANGED <<list, fetch, form, away, gone>>
  BY DEF Serve
<1>5. r \in Requests /\ RequestFits(a, r)
  BY <1>1, <1>2 DEF AdminFits, UsersTypeOK
<1>6. /\ q \in Requests /\ q.code = code
      /\ q.op = r.op /\ q.form = r.form /\ q.email = r.email /\ q.modal = r.modal
  BY <1>5 DEF Requests
<1>7. /\ UserRows' /\ OneAccountPerAddress' /\ UserMoves
      /\ r.op = "deactivate" /\ code = 200 => Inactive(r.form)'
  <2>1. CASE Granted(r)
    BY <1>1, <1>5, <2>1, GrantedMoves DEF RequestFits, UserRows, UsersTypeOK
  <2>2. CASE code = 500 /\ UNCHANGED users
    BY <1>1, <2>2 DEF UserRows, UsersTypeOK, OneAccountPerAddress, UserMoves, Inactive
  <2> QED
    BY <1>3, <2>1, <2>2 DEF Refused
<1>8. UsersTypeOK'
  BY <1>1, <1>3, <1>4, <1>6, <1>7 DEF UsersTypeOK, UserRows
<1>9. /\ saving'[a] = (saving[a] \ {r}) \cup {q}
      /\ \A b \in Admin \ {a} : saving'[b] = saving[b]
  BY <1>1, <1>3 DEF UsersTypeOK
<1>10. AdminFits(a)'
  <2> HIDE DEF q
  <2>1. RequestFits(a, q)'
    BY <1>4, <1>5, <1>6, <1>7 DEF RequestFits, Inactive
  <2>2. \A p \in saving[a] : RequestFits(a, p)'
    BY <1>1, <1>4, <1>7 DEF AdminFits, RequestFits, UserMoves, Inactive
  <2>3. OneAtATime(a)'
    BY <1>1, <1>2, <1>6, <1>9 DEF AdminFits, OneAtATime
  <2>4. GoneFits(a)'
    BY <1>1, <1>4, <1>7 DEF AdminFits, GoneFits, UserMoves, Inactive, UsersTypeOK
  <2> QED
    BY <1>9, <2>1, <2>2, <2>3, <2>4 DEF AdminFits
<1> QED
  BY <1>4, <1>7, <1>8, <1>9, <1>10, AdminStep DEF OthersStay

\* The answer to request r, or the end of the wait for it.
LEMMA SettledKeeps ==
  ASSUME UsersInv, NEW a \in Admin, NEW r \in saving[a], NEW ok \in BOOLEAN,
         Settled(a, r, ok), UNCHANGED users,
         \/ gone' = gone
         \/ /\ ok /\ ReadsAgain(a) /\ r.op = "deactivate" /\ r.code = 200
            /\ gone' = [gone EXCEPT ![a] = @ \cup {r.form}]
  PROVE  UsersInv'
<1>1. UsersTypeOK /\ AdminFits(a) /\ RequestFits(a, r)
  BY DEF UsersInv, AdminFits
<1>2. /\ saving' = [saving EXCEPT ![a] = saving[a] \ {r}]
      /\ fetch' = IF ok THEN [fetch EXCEPT ![a] = Invalidated(a)] ELSE fetch
      /\ form' = IF ok /\ r.modal # "unmounted" THEN [form EXCEPT ![a] = NULL] ELSE form
      /\ list' = list /\ away' = away
  BY DEF Settled
<1>3. UsersTypeOK'
  BY <1>1, <1>2 DEF UsersTypeOK, Invalidated, NewFetch, RequestFits
<1>4. /\ saving'[a] = saving[a] \ {r}
      /\ fetch'[a] = IF ok THEN Invalidated(a) ELSE fetch[a]
      /\ form'[a] = IF ok /\ r.modal # "unmounted" THEN NULL ELSE form[a]
      /\ \A b \in Admin \ {a} : /\ saving'[b] = saving[b] /\ fetch'[b] = fetch[b]
                                /\ form'[b] = form[b] /\ gone'[b] = gone[b]
  BY <1>1, <1>2 DEF UsersTypeOK
<1>5. \A q \in saving'[a] : RequestFits(a, q)'
  BY <1>1, <1>4 DEF AdminFits, OneAtATime, RequestFits, Inactive
<1>6. OneAtATime(a)'
  BY <1>1, <1>4 DEF AdminFits, OneAtATime
<1>7. GoneFits(a)'
  <2>1. NewFetch # NULL /\ NewFetch.rows = NULL
    BY NoFetchIsMissing DEF NewFetch
  <2>2. CASE gone' = gone
    BY <1>1, <1>2, <1>4, <2>1, <2>2 DEF AdminFits, GoneFits, Invalidated, isLoading, Inactive
  <2>3. CASE gone' # gone
    <3>1. gone'[a] = gone[a] \cup {r.form} /\ Inactive(r.form)
      BY <1>1, <2>3 DEF UsersTypeOK, RequestFits
    <3>2. fetch'[a] = IF a \in away THEN NULL ELSE NewFetch
      BY <1>4, <2>3 DEF ReadsAgain, Invalidated
    <3> QED
      BY <1>1, <1>2, <2>1, <3>1, <3>2 DEF AdminFits, GoneFits, Inactive
  <2> QED
    BY <2>2, <2>3
<1> QED
  BY <1>2, <1>3, <1>4, <1>5, <1>6, <1>7, QuietStep DEF OthersStay, AdminFits

LEMMA AnswerKeeps ==
  ASSUME UsersInv, NEW a \in Admin, Answered(a) \/ GiveUp(a)
  PROVE  UsersInv'
<1>1. CASE Answered(a)
  BY <1>1, SettledKeeps DEF Answered
<1>2. CASE GiveUp(a)
  BY <1>2, SettledKeeps DEF GiveUp
<1> QED
  BY <1>1, <1>2

\* The users of other devices: no screen moves, and no user comes back.
LEMMA ServeOtherKeeps ==
  ASSUME UsersInv, ServeOther
  PROVE  UsersInv' /\ UserMoves
<1>1. UsersTypeOK /\ OneAccountPerAddress /\ UNCHANGED <<list, fetch, form, saving, away, gone>>
  BY DEF UsersInv, ServeOther, formVars
<1>2. PICK op \in {"create", "update", "deactivate"}, u \in UserId, email \in Email :
        Granted([op |-> op, form |-> u, email |-> email])
  BY DEF ServeOther
<1> DEFINE r == [op |-> op, form |-> u, email |-> email]
<1>3. r.form \in UserId /\ r.email \in Email
  OBVIOUS
<1>4. UserRows' /\ OneAccountPerAddress' /\ UserMoves
  <2>1. UserRows /\ Granted(r)
    BY <1>1, <1>2 DEF UserRows, UsersTypeOK
  <2> HIDE DEF r
  <2> QED
    BY <1>1, <1>3, <2>1, GrantedMoves
<1>5. UsersTypeOK'
  BY <1>1, <1>4 DEF UsersTypeOK, UserRows
<1>6. ASSUME NEW a \in Admin PROVE AdminFits(a)'
  <2>1. AdminFits(a) /\ gone[a] \subseteq UserId
    BY DEF UsersInv, UsersTypeOK
  <2>2. \A q \in saving[a] : RequestFits(a, q)'
    BY <1>1, <1>4, <2>1 DEF AdminFits, RequestFits, UserMoves, Inactive
  <2>3. GoneFits(a)'
    BY <1>1, <1>4, <2>1 DEF AdminFits, GoneFits, UserMoves, Inactive
  <2> QED
    BY <1>1, <2>1, <2>2, <2>3 DEF AdminFits, OneAtATime
<1> QED
  BY <1>4, <1>5, <1>6 DEF UsersInv

-----------------------------------------------------------------------------
(* The screens *)

LEMMA UsersInvInit ==
  ASSUME ScreenInit
  PROVE  UsersInv
<1>1. UsersTypeOK
  BY DEF ScreenInit, UsersInit, FormInit, UsersTypeOK, NewFetch
<1>2. OneAccountPerAddress
  BY DEF ScreenInit, UsersInit, OneAccountPerAddress
<1>3. \A a \in Admin : saving[a] = {} /\ gone[a] = {}
  BY DEF ScreenInit, FormInit
<1> QED
  BY <1>1, <1>2, <1>3 DEF UsersInv, AdminFits, OneAtATime, GoneFits

LEMMA UsersInvStep ==
  ASSUME UsersInv, [UsersNext]_usersVars
  PROVE  UsersInv' /\ UserMoves
<1>1. CASE ServeOther
  BY <1>1, ServeOtherKeeps
<1>2. ASSUME NEW a \in Admin, ScreenAction(a) PROVE UsersInv' /\ UserMoves
  <2>1. CASE Serve(a)
    BY <2>1, ServeKeeps
  <2>2. CASE ListUsers(a) \/ DrawUsers(a) \/ LoadFails(a)
    <3>1. UNCHANGED users
      BY <2>2 DEF ListUsers, DrawUsers, LoadFails
    <3> QED
      BY <2>2, <3>1, FetchKeeps DEF UserMoves, Inactive
  <2>3. CASE EditUser(a) \/ NewUser(a) \/ FillIn(a) \/ CloseForm(a) \/ LeaveScreen(a)
    <3>1. UNCHANGED users
      BY <2>3 DEF EditUser, NewUser, FillIn, CloseForm, LeaveScreen
    <3> QED
      BY <2>3, <3>1, FormKeeps DEF UserMoves, Inactive
  <2>4. CASE Save(a) \/ DeactivateUser(a)
    <3>1. UNCHANGED users
      BY <2>4 DEF Save, DeactivateUser, Send
    <3> QED
      BY <2>4, <3>1, SubmitKeeps DEF UserMoves, Inactive
  <2>5. CASE Answered(a) \/ GiveUp(a)
    <3>1. UNCHANGED users
      BY <2>5 DEF Answered, GiveUp
    <3> QED
      BY <2>5, <3>1, AnswerKeeps DEF UserMoves, Inactive
  <2>6. CASE ForgetUsers(a) \/ ReturnToScreen(a)
    <3>1. UNCHANGED users
      BY <2>6 DEF ForgetUsers, ReturnToScreen
    <3> QED
      BY <2>6, <3>1, MountKeeps DEF UserMoves, Inactive
  <2> QED
    BY <1>2, <2>1, <2>2, <2>3, <2>4, <2>5, <2>6 DEF ScreenAction
<1>3. CASE UNCHANGED usersVars
  BY <1>3 DEF usersVars, formVars, UsersInv, UsersTypeOK, OneAccountPerAddress, AdminFits,
              RequestFits, OneAtATime, GoneFits, UserMoves, Inactive
<1> QED
  BY <1>1, <1>2, <1>3 DEF UsersNext

(* The accounts are one per address, every request is of the form that     *)
(* waits for it, and no list shows a user that it should not.              *)
THEOREM UsersInductive == UsersSpec => []UsersInv
<1>1. ScreenInit => UsersInv
  BY UsersInvInit
<1>2. UsersInv /\ [UsersNext]_usersVars => UsersInv'
  BY UsersInvStep
<1> QED
  BY <1>1, <1>2, PTL DEF UsersSpec

(* The rows and the screens keep their types, whatever is pressed and sent. *)
THEOREM UsersTypeCorrect == UsersSpec => []UsersTypeOK
<1>1. UsersInv => UsersTypeOK
  BY DEF UsersInv
<1> QED
  BY <1>1, UsersInductive, PTL

(* UNIQUE(email) counts the rows of deactivated users: an address names one *)
(* account for ever.                                                        *)
THEOREM AddressesStayUnique == UsersSpec => []OneAccountPerAddress
<1>1. UsersInv => OneAccountPerAddress
  BY DEF UsersInv
<1> QED
  BY <1>1, UsersInductive, PTL

(* A screen at rest draws no user whose deactivation was acknowledged to   *)
(* it, and the list read anew since: neither a list in the cache, nor one  *)
(* on its way while the screen was away, brings the user back.             *)
THEOREM DeactivatedUsersLeaveTheList == UsersSpec => []DeactivatedLeavesTheList
<1>1. UsersInv => DeactivatedLeavesTheList
  BY DEF UsersInv, AdminFits, GoneFits, DeactivatedLeavesTheList
<1> QED
  BY <1>1, UsersInductive, PTL

(* No request, of a form however old, makes a deactivated user active.     *)
THEOREM DeactivatedUsersStayOut == UsersSpec => DeactivatedStaysOut
<1>1. UsersInv /\ [UsersNext]_usersVars =>
        [\A u \in UserId : users[u] # NULL /\ ~users[u].active => ~users'[u].active]_users
  BY UsersInvStep DEF UserMoves, Inactive
<1> QED
  BY <1>1, UsersInductive, PTL DEF UsersSpec, DeactivatedStaysOut

-----------------------------------------------------------------------------
(* What closes a form *)

OwnAnswer(a) ==
  \A r \in saving[a] :
    saving'[a] = saving[a] \ {r} /\ form[a] # NULL /\ form'[a] = NULL =>
      r.modal = "dismissed" \/ r.form = form[a].id

LEMMA OwnAnswerStep ==
  ASSUME UsersInv, NEW a \in Admin, NEW b \in Admin, ScreenAction(b)
  PROVE  OwnAnswer(a)
<1>1. UsersTypeOK /\ (\A r \in saving[a] : RequestFits(a, r)) /\ OneAtATime(a)
  BY DEF UsersInv, AdminFits
<1>2. CASE form'[a] = form[a] \/ saving'[a] = saving[a]
  BY <1>2 DEF OwnAnswer
<1>3. CASE CloseForm(b) /\ b = a
  <2> DEFINE d(r) == IF r.modal = "open" THEN [r EXCEPT !.modal = "dismissed"] ELSE r
  <2>1. saving'[a] = {d(r) : r \in saving[a]}
    BY <1>1, <1>3 DEF CloseForm, closeModal, UsersTypeOK
  <2>2. \A r \in saving[a] : /\ d(r).modal # "open"
                             /\ r.modal # "open" => d(r) = r
                             /\ r.modal = "open" => d(r).modal = "dismissed"
    BY <1>1 DEF UsersTypeOK, Requests
  <2> HIDE DEF d
  <2> QED
    BY <1>1, <2>1, <2>2 DEF OwnAnswer, RequestFits, OneAtATime
<1>4. CASE LeaveScreen(b) /\ b = a
  <2> DEFINE d(r) == [r EXCEPT !.modal = "unmounted"]
  <2>1. saving'[a] = {d(r) : r \in saving[a]}
    BY <1>1, <1>4 DEF LeaveScreen, Leave, UsersTypeOK
  <2>2. \A r \in saving[a] : r.modal = "unmounted" => d(r) = r
    BY <1>1 DEF UsersTypeOK, Requests
  <2>3. \A r \in saving[a] : r.modal \in {"open", "dismissed", "unmounted"}
    BY <1>1 DEF UsersTypeOK, Requests
  <2> HIDE DEF d
  <2> QED
    BY <1>1, <2>1, <2>2, <2>3 DEF OwnAnswer, RequestFits
<1>5. CASE (Answered(b) \/ GiveUp(b)) /\ b = a
  <2>1. PICK q \in saving[a], ok \in BOOLEAN : Settled(a, q, ok)
    BY <1>5 DEF Answered, GiveUp
  <2>2. /\ saving'[a] = saving[a] \ {q}
        /\ q.modal = "unmounted" => form'[a] = form[a]
    BY <1>1, <2>1 DEF Settled, UsersTypeOK
  <2>3. q.modal \in {"open", "dismissed", "unmounted"}
    BY <1>1 DEF UsersTypeOK, Requests
  <2> QED
    BY <1>1, <2>2, <2>3 DEF OwnAnswer, RequestFits
<1>6. CASE b # a
  <2>1. form'[a] = form[a] \/ saving'[a] = saving[a]
    <3>1. UNCHANGED form \/ UNCHANGED saving
          \/ CloseForm(b) \/ LeaveScreen(b) \/ Answered(b) \/ GiveUp(b)
      BY DEF ScreenAction, ListUsers, FetchRead, DrawUsers, FetchDrawn, LoadFails, FetchFails,
             ForgetUsers, Forget, ReturnToScreen, ComeBack, EditUser, NewUser, openModal, FillIn, Typed, Save, DeactivateUser, Send, Submit, Serve
    <3>2. CloseForm(b) => form'[a] = form[a]
      BY <1>1, <1>6 DEF CloseForm, closeModal, UsersTypeOK
    <3>3. LeaveScreen(b) => form'[a] = form[a]
      BY <1>1, <1>6 DEF LeaveScreen, Leave, UsersTypeOK
    <3>4. Answered(b) \/ GiveUp(b) => form'[a] = form[a]
      BY <1>1, <1>6 DEF Answered, GiveUp, Settled, UsersTypeOK
    <3> QED
      BY <3>1, <3>2, <3>3, <3>4
  <2> QED
    BY <1>2, <2>1
<1>7. CASE b = a /\ (ListUsers(b) \/ DrawUsers(b) \/ LoadFails(b) \/ Serve(b)
                   \/ EditUser(b) \/ NewUser(b) \/ FillIn(b) \/ Save(b) \/ DeactivateUser(b)
                   \/ ForgetUsers(b) \/ ReturnToScreen(b))
  <2>1. UNCHANGED form \/ UNCHANGED saving
    BY <1>7 DEF ListUsers, FetchRead, DrawUsers, FetchDrawn, LoadFails, FetchFails,
                ForgetUsers, Forget, ReturnToScreen, ComeBack, EditUser, NewUser, openModal, FillIn, Typed, Save, DeactivateUser, Send, Submit, Serve
  <2> QED
    BY <1>2, <2>1
<1> QED
  BY <1>3, <1>4, <1>5, <1>6, <1>7 DEF ScreenAction

(* An answer closes the form that asked, or one opened after it was        *)
(* dismissed; never the form of a screen opened since.                     *)
THEOREM FormsCloseByTheirAnswer == UsersSpec => FormClosedByOwnAnswer
<1>1. ASSUME UsersInv, [UsersNext]_usersVars, NEW a \in Admin
      PROVE  OwnAnswer(a) \/ UNCHANGED formVars
  BY <1>1, OwnAnswerStep DEF UsersNext, ServeOther, usersVars
<1>2. UsersInv /\ [UsersNext]_usersVars =>
        [\A a \in Admin : \A r \in saving[a] :
           saving'[a] = saving[a] \ {r} /\ form[a] # NULL /\ form'[a] = NULL =>
             r.modal = "dismissed" \/ r.form = form[a].id]_formVars
  BY <1>1 DEF OwnAnswer
<1> QED
  BY <1>2, UsersInductive, PTL DEF UsersSpec, FormClosedByOwnAnswer
=============================================================================
