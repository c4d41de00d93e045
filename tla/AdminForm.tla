------------------------------ MODULE AdminForm ------------------------------
(***************************************************************************)
(* What ProductsScreen.tsx and UsersScreen.tsx have in common: a list that *)
(* is read from the server when the screen appears and after each success, *)
(* one modal form over it, and the requests the form has sent.  A request  *)
(* outlives its form: the field modal of a request says whether the form   *)
(* that sent it is "open", was "dismissed", or went with its screen        *)
(* ("unmounted").  The list outlives the screen as well, and so does a     *)
(* fetch of it: both are in the cache of the device.  What a list, a form  *)
(* or a request holds is the business of the modules that extend this one. *)
(***************************************************************************)
EXTENDS Absent

CONSTANT Admin   \* the devices with the screen

VARIABLES
  list,    \* the rows in the cache of each device, NULL before the first
  fetch,   \* the list on its way: a record with the rows once they are read
  form,    \* the fields of the form, NULL while it is not visible
  saving,  \* the requests the device waits for
  away     \* the devices on which another screen is shown

formVars == <<list, fetch, form, saving, away>>

NewFetch == [rows |-> NULL]

FormInit ==
  /\ list   = [a \in Admin |-> NULL]
  /\ fetch  = [a \in Admin |-> NewFetch]
  /\ form   = [a \in Admin |-> NULL]
  /\ saving = [a \in Admin |-> {}]
  /\ away   = {}

\* The spinner instead of the list and the form.
isLoading(a) == list[a] = NULL /\ fetch[a] # NULL

\* The buttons of the form are disabled while a request of any of its three
\* mutations is pending; mounted anew, the screen knows nothing of the old ones.
isPending(a) == \E r \in saving[a] : r.modal # "unmounted"

-----------------------------------------------------------------------------
(* The query *)

FetchRead(a, rows) ==
  /\ fetch[a] # NULL /\ fetch[a].rows = NULL
  /\ fetch' = [fetch EXCEPT ![a].rows = rows]
  /\ UNCHANGED <<list, form, saving, away>>

\* The rows go to the cache, and to the screen if there is one.
FetchDrawn(a) ==
  /\ fetch[a] # NULL /\ fetch[a].rows # NULL
  /\ list'  = [list EXCEPT ![a] = fetch[a].rows]
  /\ fetch' = [fetch EXCEPT ![a] = NULL]
  /\ UNCHANGED <<form, saving, away>>

\* The query has tried three times more and gives up.
FetchFails(a) ==
  /\ fetch[a] # NULL
  /\ fetch' = [fetch EXCEPT ![a] = NULL]
  /\ UNCHANGED <<list, form, saving, away>>

\* Mutant: the fetch on its way is waited for, not replaced.
Invalidated_Joined(a) == IF a \in away \/ fetch[a] # NULL THEN fetch[a] ELSE NewFetch

\* invalidateQueries cancels the fetch on its way and starts another, unless
\* there is no list yet: then it joins the one on its way.  While no screen
\* draws the list it starts and cancels nothing.
Invalidated(a) == IF a \in away \/ isLoading(a) THEN fetch[a] ELSE NewFetch

-----------------------------------------------------------------------------
(* The form, a record with the id of the row it edits, NULL for a new one *)

openModal(a, fields) ==
  /\ a \notin away /\ ~isLoading(a) /\ form[a] = NULL
  /\ form' = [form EXCEPT ![a] = fields]
  /\ UNCHANGED <<list, fetch, saving, away>>

\* Dismissing the form cancels nothing.
closeModal(a) ==
  /\ ~isLoading(a) /\ form[a] # NULL
  /\ form'   = [form EXCEPT ![a] = NULL]
  /\ saving' = [saving EXCEPT ![a] =
                  {IF r.modal = "open" THEN [r EXCEPT !.modal = "dismissed"] ELSE r : r \in @}]
  /\ UNCHANGED <<list, fetch, away>>

\* The text fields and switches, which nothing disables.
Typed(a, fields) ==
  /\ ~isLoading(a) /\ form[a] # NULL
  /\ form' = [form EXCEPT ![a] = fields]
  /\ UNCHANGED <<list, fetch, saving, away>>

\* Mutant: the buttons stay enabled.
Submit_AlwaysEnabled(a, r) ==
  /\ ~isLoading(a) /\ form[a] # NULL
  /\ saving' = [saving EXCEPT ![a] = @ \cup {r}]
  /\ UNCHANGED <<list, fetch, form, away>>

Submit(a, r) ==
  /\ ~isLoading(a) /\ form[a] # NULL /\ ~isPending(a)
  /\ saving' = [saving EXCEPT ![a] = @ \cup {r}]
  /\ UNCHANGED <<list, fetch, form, away>>

\* Mutant: the answer closes the form of a screen mounted since.
Settled_AnyForm(a, r, ok) ==
  /\ saving' = [saving EXCEPT ![a] = @ \ {r}]
  /\ fetch'  = IF ok THEN [fetch EXCEPT ![a] = Invalidated(a)] ELSE fetch
  /\ form'   = IF ok THEN [form EXCEPT ![a] = NULL] ELSE form
  /\ UNCHANGED <<list, away>>

\* A success reads the list again and closes the form that is visible, though
\* it be another than the one that sent the request.  An error does neither.
Settled(a, r, ok) ==
  /\ saving' = [saving EXCEPT ![a] = @ \ {r}]
  /\ fetch'  = IF ok THEN [fetch EXCEPT ![a] = Invalidated(a)] ELSE fetch
  /\ form'   = IF ok /\ r.modal # "unmounted" THEN [form EXCEPT ![a] = NULL] ELSE form
  /\ UNCHANGED <<list, away>>

\* Leaving the screen takes the form away, and cancels neither the fetch nor
\* the requests.
Leave(a) ==
  /\ a \notin away
  /\ away'   = away \cup {a}
  /\ form'   = [form EXCEPT ![a] = NULL]
  /\ saving' = [saving EXCEPT ![a] = {[r EXCEPT !.modal = "unmounted"] : r \in @}]
  /\ UNCHANGED <<list, fetch>>

\* After five minutes the cache forgets a list that nothing draws or fetches.
Forget(a) ==
  /\ a \in away /\ fetch[a] = NULL
  /\ list' = [list EXCEPT ![a] = NULL]
  /\ UNCHANGED <<fetch, form, saving, away>>

\* The screen is mounted anew: it draws what the cache has and reads the list
\* again, or waits for the fetch that is on its way since before.
ComeBack(a) ==
  /\ a \in away
  /\ away'  = away \ {a}
  /\ fetch' = IF fetch[a] = NULL THEN [fetch EXCEPT ![a] = NewFetch] ELSE fetch
  /\ UNCHANGED <<list, form, saving>>

-----------------------------------------------------------------------------
(* A form is not closed under the admin's hands by the answer to another   *)
(* request, however often the screen was left and opened again: only a     *)
(* form dismissed while its request was pending does that to the next one. *)
FormClosedByOwnAnswer ==
  [][\A a \in Admin : \A r \in saving[a] :
       saving'[a] = saving[a] \ {r} /\ form[a] # NULL /\ form'[a] = NULL =>
         r.modal = "dismissed" \/ r.form = form[a].id]_formVars
=============================================================================
