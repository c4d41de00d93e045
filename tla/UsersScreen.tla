----------------------------- MODULE UsersScreen -----------------------------
(***************************************************************************)
(* The users screens of the admins over the user service.  Each request is *)
(* one statement: it is sent, served and answered.  The screen says        *)
(* nothing of an error: the form stays, its buttons enabled again.  Other  *)
(* clients send what they like at any time, and the server goes on with    *)
(* the requests whose client has given up, which looks the same.           *)
(*                                                                         *)
(* gone observes: gone[a] are the users whose deactivation was             *)
(* acknowledged to admin a, and the list read anew since.  Those           *)
(* acknowledged while the first list is loading, or while the screen is    *)
(* away and a list on its way, are not counted, for that list, which may   *)
(* have been read before, is not replaced; nor are those after which a     *)
(* list could not be read.                                                 *)
(***************************************************************************)
EXTENDS UserService, AdminForm

CONSTANT MaxRequests   \* requests of one device at once

VARIABLE gone

usersVars == <<users, formVars, gone>>

ScreenInit ==
  /\ UsersInit /\ FormInit
  /\ gone = [a \in Admin |-> {}]

-----------------------------------------------------------------------------
(* GET /users *)

ListUsers(a) ==
  /\ FetchRead(a, [u \in ListActive |-> users[u].email])
  /\ UNCHANGED <<users, gone>>

DrawUsers(a) == FetchDrawn(a) /\ UNCHANGED <<users, gone>>

LoadFails(a) ==
  /\ FetchFails(a)
  /\ gone' = [gone EXCEPT ![a] = {}]
  /\ UNCHANGED users

-----------------------------------------------------------------------------
(* The form *)

EditUser(a) ==
  /\ list[a] # NULL
  /\ \E u \in DOMAIN list[a] : openModal(a, [id |-> u, email |-> list[a][u]])
  /\ UNCHANGED <<users, gone>>

NewUser(a) == openModal(a, [id |-> NULL, email |-> NULL]) /\ UNCHANGED <<users, gone>>

FillIn(a) ==
  /\ \E email \in Email : Typed(a, [id |-> form[a].id, email |-> email])
  /\ UNCHANGED <<users, gone>>

CloseForm(a) == closeModal(a) /\ UNCHANGED <<users, gone>>

Send(a, op, email) ==
  /\ Cardinality(saving[a]) < MaxRequests
  /\ Submit(a, [op |-> op, form |-> form[a].id, email |-> email, code |-> NULL,
                modal |-> "open"])
  /\ UNCHANGED <<users, gone>>

\* handleSave returns at once when a field is empty.
Save(a) ==
  /\ form[a] # NULL /\ form[a].email # NULL
  /\ Send(a, IF form[a].id = NULL THEN "create" ELSE "update", form[a].email)

DeactivateUser(a) ==
  /\ form[a] # NULL /\ form[a].id # NULL
  /\ Send(a, "deactivate", NULL)

-----------------------------------------------------------------------------
(* POST /users, PATCH /users/:id and PATCH /users/:id/deactivate *)

Granted(r) ==
  \/ /\ r.op = "create"
     /\ \E u \in UserId, password \in Password : CreateUser(u, r.email, password)
  \/ r.op = "update" /\ UpdateUser(r.form, r.email)
  \/ r.op = "deactivate" /\ Deactivate(r.form)

\* ErrEmailAlreadyExists, and ErrUserNotFound for a user deactivated before.
Refused(r) ==
  /\ \/ r.op = "create" /\ \A u \in UserId : Taken(r.email, u)
     \/ r.op = "update" /\ Taken(r.email, r.form)
     \/ r.op = "deactivate" /\ ~users[r.form].active
  /\ UNCHANGED users

\* The statement fails, or it succeeds and the server never hears of it.
Serve(a) ==
  /\ \E r \in saving[a] :
       /\ r.code = NULL
       /\ \E code \in {200, 500} :
            /\ \/ Granted(r)
               \/ code = 500 /\ (Refused(r) \/ UNCHANGED users)
            /\ saving' = [saving EXCEPT ![a] = (@ \ {r}) \cup {[r EXCEPT !.code = code]}]
  /\ UNCHANGED <<list, fetch, form, away, gone>>

\* The list will be read again, now or when the screen is back.
ReadsAgain(a) == IF a \in away THEN fetch[a] = NULL ELSE ~isLoading(a)

Answered(a) ==
  /\ \E r \in saving[a] :
       /\ r.code # NULL
       /\ Settled(a, r, r.code = 200)
       /\ gone' = IF r.op = "deactivate" /\ r.code = 200 /\ ReadsAgain(a)
                  THEN [gone EXCEPT ![a] = @ \cup {r.form}] ELSE gone
  /\ UNCHANGED users

\* The client waits ten seconds.
GiveUp(a) ==
  /\ \E r \in saving[a] : Settled(a, r, FALSE)
  /\ UNCHANGED <<users, gone>>

LeaveScreen(a) == Leave(a) /\ UNCHANGED <<users, gone>>

ForgetUsers(a) == Forget(a) /\ UNCHANGED <<users, gone>>

ReturnToScreen(a) == ComeBack(a) /\ UNCHANGED <<users, gone>>

-----------------------------------------------------------------------------
ScreenAction(a) ==
  \/ ListUsers(a) \/ DrawUsers(a) \/ LoadFails(a)
  \/ EditUser(a) \/ NewUser(a) \/ FillIn(a) \/ CloseForm(a)
  \/ Save(a) \/ DeactivateUser(a)
  \/ Serve(a) \/ Answered(a) \/ GiveUp(a)
  \/ LeaveScreen(a) \/ ForgetUsers(a) \/ ReturnToScreen(a)

\* A request of another client, or one that was given up, is served.
ServeOther ==
  /\ \E op \in {"create", "update", "deactivate"}, u \in UserId, email \in Email :
       Granted([op |-> op, form |-> u, email |-> email])
  /\ UNCHANGED <<formVars, gone>>

UsersNext == ServeOther \/ \E a \in Admin : ScreenAction(a)

UsersSpec == ScreenInit /\ [][UsersNext]_usersVars

-----------------------------------------------------------------------------
Team == UNION {[us -> Email] : us \in SUBSET UserId}

ASSUME NoFetchIsMissing == \A rows \in Team \cup {NULL} : [rows |-> rows] # NULL
ASSUME NoFormIsMissing ==
  \A id \in UserId \cup {NULL}, email \in Email \cup {NULL} : [id |-> id, email |-> email] # NULL

ASSUME NoCodeIsMissing == NULL \notin {200, 500}

Requests == [op : {"create", "update", "deactivate"}, form : UserId \cup {NULL},
             email : Email \cup {NULL}, code : {200, 500, NULL},
             modal : {"open", "dismissed", "unmounted"}]

\* Type invariant: the rows of the relation, and what the screens hold.
UsersTypeOK ==
  /\ users  \in [UserId -> UserRow \cup {NULL}]
  /\ list   \in [Admin -> Team \cup {NULL}]
  /\ fetch  \in [Admin -> [rows : Team \cup {NULL}] \cup {NULL}]
  /\ form   \in [Admin -> [id : UserId \cup {NULL}, email : Email \cup {NULL}] \cup {NULL}]
  /\ saving \in [Admin -> SUBSET Requests]
  /\ away   \in SUBSET Admin
  /\ gone   \in [Admin -> SUBSET UserId]

(* A deactivation that was acknowledged takes the user off the list of a   *)
(* screen at rest: neither a list read before it, drawn from the cache or  *)
(* still on its way, nor an old form, of this admin or of another, brings  *)
(* the user back, however often the screen is left and opened again.       *)
DeactivatedLeavesTheList ==
  \A a \in Admin \ away : \A u \in gone[a] :
    fetch[a] = NULL => list[a] = NULL \/ u \notin DOMAIN list[a]
=============================================================================
