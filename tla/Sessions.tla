------------------------------ MODULE Sessions ------------------------------
(***************************************************************************)
(* Accounts, tokens and the sessions of the devices.  The server keeps the *)
(* users and nothing of the tokens it signs: a token carries the claims of *)
(* its login until it expires, and the middleware asks nothing else.  A    *)
(* device keeps the token in a store that is written to disk after each    *)
(* change and read back when the app starts.  Each request carries the     *)
(* token the store had when it was sent, and any 401 empties the store     *)
(* there is when the answer arrives.                                       *)
(*                                                                         *)
(* Each user request is one SQL statement.  Refused ones change nothing.   *)
(* Names, roles and the claims of a token are left out: nothing the server *)
(* answers depends on them.                                                *)
(***************************************************************************)
EXTENDS UserService

CONSTANTS Token, Device,
          MaxCalls     \* requests of one device on their way at once

VARIABLES
  tokens,   \* whether a token was signed, and whether it has expired since
  store,    \* the token in the store of each device
  disk,     \* the token the device would find after a restart
  login,    \* the login request of each device
  calls     \* its requests with a token

vars == <<users, tokens, store, disk, login, calls>>

Signed(k) == tokens[k] # NULL
HttpCode  == {200, 401, 500}

Init ==
  /\ UsersInit
  /\ tokens = [k \in Token |-> NULL]
  /\ store  = [d \in Device |-> NULL]
  /\ disk   = [d \in Device |-> NULL]
  /\ login  = [d \in Device |-> NULL]
  /\ calls  = [d \in Device |-> {}]

-----------------------------------------------------------------------------
\* The requests of the users screen.
Administer ==
  /\ \E u \in UserId :
       \/ \E email \in Email, password \in Password : CreateUser(u, email, password)
       \/ \E email \in Email : UpdateUser(u, email)
       \/ Deactivate(u)
  /\ UNCHANGED <<tokens, store, disk, login, calls>>

-----------------------------------------------------------------------------
(* POST /auth/login *)

\* The login screen is drawn while the store is empty, one login at a time.
LoginSend(d, email, password) ==
  /\ store[d] = NULL /\ login[d] = NULL
  /\ login' = [login EXCEPT ![d] =
                 [email |-> email, password |-> password, code |-> NULL, token |-> NULL]]
  /\ UNCHANGED <<users, tokens, store, disk, calls>>

\* No such user is ErrInvalidCredentials; a wrong password is an error of no
\* kind, so an internal one.  Otherwise a token is signed.
LoginServe(d) ==
  /\ login[d] # NULL /\ login[d].code = NULL
  /\ \/ /\ GetByEmail(login[d].email) = {}
        /\ login' = [login EXCEPT ![d].code = 401]
        /\ UNCHANGED tokens
     \/ \E u \in GetByEmail(login[d].email) :
          /\ users[u].password # login[d].password
          /\ login' = [login EXCEPT ![d].code = 500]
          /\ UNCHANGED tokens
     \/ \E u \in GetByEmail(login[d].email), k \in Token :
          /\ users[u].password = login[d].password
          /\ ~Signed(k)
          /\ tokens' = [tokens EXCEPT ![k] = "valid"]
          /\ login' = [login EXCEPT ![d].code = 200, ![d].token = k]
  /\ UNCHANGED <<users, store, disk, calls>>

\* The login does not go through the client with the 401 interceptor.
LoginAnswer(d) ==
  /\ login[d] # NULL /\ login[d].code # NULL
  /\ login' = [login EXCEPT ![d] = NULL]
  /\ store' = IF login[d].code = 200 THEN [store EXCEPT ![d] = login[d].token] ELSE store
  /\ UNCHANGED <<users, tokens, disk, calls>>

\* The client waits ten seconds.
LoginLost(d) ==
  /\ login[d] # NULL
  /\ login' = [login EXCEPT ![d] = NULL]
  /\ UNCHANGED <<users, tokens, store, disk, calls>>

-----------------------------------------------------------------------------
(* The requests with a token. *)

\* Mutant: the screens load their data once and do not poll.
CallSend_Once(d) ==
  /\ store[d] # NULL /\ Cardinality(calls[d]) < MaxCalls /\ tokens[store[d]] = "valid"
  /\ calls' = [calls EXCEPT ![d] = @ \cup {[token |-> store[d], code |-> NULL]}]
  /\ UNCHANGED <<users, tokens, store, disk, login>>

CallSend(d) ==
  /\ store[d] # NULL /\ Cardinality(calls[d]) < MaxCalls
  /\ calls' = [calls EXCEPT ![d] = @ \cup {[token |-> store[d], code |-> NULL]}]
  /\ UNCHANGED <<users, tokens, store, disk, login>>

\* IsAuthenticated: the signature is good, so only the expiry counts.  The
\* request itself may fail in the database.
CallServe(d) ==
  /\ \E c \in calls[d] :
       /\ c.code = NULL
       /\ \E code \in IF tokens[c.token] = "expired" THEN {401} ELSE {200, 500} :
            calls' = [calls EXCEPT ![d] = (@ \ {c}) \cup {[c EXCEPT !.code = code]}]
  /\ UNCHANGED <<users, tokens, store, disk, login>>

\* Mutant: the interceptor takes every error for a 401.
CallAnswer_AnyError(d) ==
  /\ \E c \in calls[d] :
       /\ c.code # NULL
       /\ calls' = [calls EXCEPT ![d] = @ \ {c}]
       /\ store' = IF c.code # 200 THEN [store EXCEPT ![d] = NULL] ELSE store
  /\ UNCHANGED <<users, tokens, disk, login>>

\* The interceptor empties the store on 401, whoever's token was refused.
CallAnswer(d) ==
  /\ \E c \in calls[d] :
       /\ c.code # NULL
       /\ calls' = [calls EXCEPT ![d] = @ \ {c}]
       /\ store' = IF c.code = 401 THEN [store EXCEPT ![d] = NULL] ELSE store
  /\ UNCHANGED <<users, tokens, disk, login>>

CallLost(d) ==
  /\ \E c \in calls[d] : calls' = [calls EXCEPT ![d] = @ \ {c}]
  /\ UNCHANGED <<users, tokens, store, disk, login>>

-----------------------------------------------------------------------------
Logout(d) ==
  /\ store[d] # NULL
  /\ store' = [store EXCEPT ![d] = NULL]
  /\ UNCHANGED <<users, tokens, disk, login, calls>>

\* The persist middleware writes the store behind the app's back.
Persist(d) ==
  /\ disk[d] # store[d]
  /\ disk' = [disk EXCEPT ![d] = store[d]]
  /\ UNCHANGED <<users, tokens, store, login, calls>>

\* The app is killed and started again.
Restart(d) ==
  /\ store' = [store EXCEPT ![d] = disk[d]]
  /\ login' = [login EXCEPT ![d] = NULL]
  /\ calls' = [calls EXCEPT ![d] = {}]
  /\ UNCHANGED <<users, tokens, disk>>

\* JWT_TTL_HOURS have passed since the login.
Expire(k) ==
  /\ tokens[k] = "valid"
  /\ tokens' = [tokens EXCEPT ![k] = "expired"]
  /\ UNCHANGED <<users, store, disk, login, calls>>

DeviceStep(d) ==
  \/ \E email \in Email, password \in Password : LoginSend(d, email, password)
  \/ LoginServe(d) \/ LoginAnswer(d) \/ LoginLost(d)
  \/ CallSend(d) \/ CallServe(d) \/ CallAnswer(d) \/ CallLost(d)
  \/ Logout(d) \/ Persist(d) \/ Restart(d)

Next ==
  \/ Administer
  \/ \E d \in Device : DeviceStep(d)
  \/ \E k \in Token : Expire(k)

Spec == Init /\ [][Next]_vars

\* The screens poll, and not every request or answer is lost.
FairSpec ==
  Spec /\ \A d \in Device : WF_vars(CallSend(d)) /\ SF_vars(CallServe(d)) /\ SF_vars(CallAnswer(d))

-----------------------------------------------------------------------------
ASSUME NoStateIsMissing == NULL \notin {"valid", "expired"}
ASSUME NoAnswerIsMissing == NULL \notin HttpCode

\* Type invariant: no device ever holds a token that was not signed.
TypeOK ==
  /\ users  \in [UserId -> UserRow \cup {NULL}]
  /\ tokens \in [Token -> {"valid", "expired", NULL}]
  /\ store  \in [Device -> {k \in Token : Signed(k)} \cup {NULL}]
  /\ disk   \in [Device -> {k \in Token : Signed(k)} \cup {NULL}]
  /\ login  \in [Device -> [email : Email, password : Password, code : HttpCode \cup {NULL},
                            token : {k \in Token : Signed(k)} \cup {NULL}] \cup {NULL}]
  /\ calls  \in [Device -> SUBSET [token : {k \in Token : Signed(k)},
                                   code : HttpCode \cup {NULL}]]

(* Besides a logout and a restart, which falls back to what the disk has,  *)
(* a session ends only because a token of this device has expired: no      *)
(* failure of a request takes it away, and no session replaces another     *)
(* without the login screen in between.                                    *)
SessionEndsByExpiry ==
  [][\A d \in Device : store[d] # NULL /\ store'[d] # store[d] =>
       \/ calls'[d] = {} /\ store'[d] = disk[d]
       \/ calls'[d] = calls[d] /\ store'[d] = NULL
       \/ store'[d] = NULL /\ \E c \in calls[d] : tokens[c.token] = "expired"]_vars

(* A device does not stay with an expired token: as long as its screens    *)
(* poll, one of the 401s gets through, even across restarts of the app.    *)
ExpiredSessionEnds ==
  \A d \in Device, k \in Token :
    store[d] = k /\ tokens[k] = "expired" ~> store[d] # k

(* The test of the login with a wrong password: ErrInvalidCredentials,     *)
(* which is a 401.                                                         *)
WrongPasswordIsUnauthorized ==
  \A d \in Device : login[d] # NULL => login[d].code # 500
=============================================================================
