----------------------------- MODULE UserService -----------------------------
(***************************************************************************)
(* The users relation and the user service.  Each request is one SQL       *)
(* statement: an action is enabled when the request is granted, and the    *)
(* refused ones change nothing.  Names and roles are left out: nothing the *)
(* server answers depends on them.                                         *)
(***************************************************************************)
EXTENDS Naturals, FiniteSets, Absent

CONSTANTS UserId, Email, Password,
          SeedUsers   \* the users the migration inserts

ASSUME SeedRows == SeedUsers \subseteq UserId /\ Cardinality(SeedUsers) <= Cardinality(Email)

VARIABLE users   \* the rows of the relation, NULL before their creation

UserRow == [email : Email, password : Password, active : BOOLEAN]

ASSUME NoUserIsMissing == NULL \notin UserRow

\* The seeded users are active and have an address each.
UsersInit ==
  /\ users \in [UserId -> UserRow \cup {NULL}]
  /\ \A u \in UserId : users[u] # NULL <=> u \in SeedUsers
  /\ \A u \in SeedUsers : users[u].active
  /\ \A u, v \in SeedUsers : users[u].email = users[v].email => u = v

-----------------------------------------------------------------------------
(* UserPGRepository *)

\* Mutant: the address of a deactivated user is free again.
Taken_ActiveOnly(email, u) ==
  \E v \in UserId \ {u} : users[v] # NULL /\ users[v].email = email /\ users[v].active

\* UNIQUE(email), the rows of deactivated users included.
Taken(email, u) == \E v \in UserId \ {u} : users[v] # NULL /\ users[v].email = email

\* The login finds active users only, and so does the list.
GetByEmail(email) == {u \in UserId : users[u] # NULL /\ users[u].email = email /\ users[u].active}
ListActive == {u \in UserId : users[u] # NULL /\ users[u].active}

\* No write makes a user active again, and a deactivated user may be updated.
UsersCreate(u, row) ==
  /\ users[u] = NULL /\ ~Taken(row.email, u)
  /\ users' = [users EXCEPT ![u] = row]

\* Mutant: the row is written as a whole, active by default.
UsersUpdate_WholeRow(u, email) ==
  /\ users[u] # NULL /\ ~Taken(email, u)
  /\ users' = [users EXCEPT ![u].email = email, ![u].active = TRUE]

UsersUpdate(u, email) ==
  /\ users[u] # NULL /\ ~Taken(email, u)
  /\ users' = [users EXCEPT ![u].email = email]

UsersDeactivate(u) ==
  /\ users[u] # NULL /\ users[u].active
  /\ users' = [users EXCEPT ![u].active = FALSE]

-----------------------------------------------------------------------------
(* UserService *)

\* Mutant: the arguments in the wrong order.
CreateUser_Swapped(u, email, password) ==
  UsersCreate(u, [email |-> password, password |-> email, active |-> TRUE])

CreateUser(u, email, password) ==
  UsersCreate(u, [email |-> email, password |-> password, active |-> TRUE])

UpdateUser(u, email) == UsersUpdate(u, email)

Deactivate(u) == UsersDeactivate(u)

-----------------------------------------------------------------------------
(* An address names one account for ever, that of a deactivated user       *)
(* included: a login never has two rows to choose from.                    *)
OneAccountPerAddress ==
  \A u, v \in UserId :
    users[u] # NULL /\ users[v] # NULL /\ users[u].email = users[v].email => u = v

(* Nothing brings a deactivated user back, whatever old form is saved.     *)
DeactivatedStaysOut ==
  [][\A u \in UserId : users[u] # NULL /\ ~users[u].active => ~users'[u].active]_users
=============================================================================
