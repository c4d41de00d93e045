--------------------------- MODULE ProductsScreen ---------------------------
(***************************************************************************)
(* The products screen of the admins over the server it talks to.  A form  *)
(* sends every field it has, so its request writes back what it was opened *)
(* with.                                                                   *)
(*                                                                         *)
(* stored observes: stored[a][p] is the row the last save of p from admin  *)
(* a's screen was acknowledged to have stored, DELETED after a deletion,   *)
(* NULL when nothing certain is known (a save acknowledged while the first *)
(* list is loading is not read again, so it does not count) and when the   *)
(* list could not be read since.                                           *)
(***************************************************************************)
EXTENDS RestaurantAPI, AdminForm

VARIABLE stored

screen      == <<formVars, stored>>
productVars == <<vars, screen>>

NothingStored == [p \in ProductId |-> NULL]

ScreenInit ==
  /\ Init /\ FormInit
  /\ stored = [a \in Admin |-> NothingStored]

Free(w) == \A a \in Admin : \A r \in saving[a] : r.w # w

\* Worker w handles a request on the row of product p.
On(w, p) ==
  /\ pc[w] \in ProductLabels
  /\ IF pc[w] = "product.insert" THEN req[w].new = p ELSE req[w].product = p

\* A request on p that no screen waits for is still being handled.
Abandoned(p) ==
  \E w \in Worker :
    On(w, p) /\ \A a \in Admin : \A r \in saving[a] : r.w = w => r.modal = "unmounted"

-----------------------------------------------------------------------------
(* GET /products *)

\* Mutant: the rows that were deleted are listed as well.
ListProducts_Deleted(a) ==
  /\ FetchRead(a, [p \in {q \in ProductId : products[q] # NULL} |-> products[p]])
  /\ UNCHANGED <<vars, stored>>

ListProducts(a) ==
  /\ FetchRead(a, [p \in {q \in ProductId : Exists(products[q])} |-> products[p]])
  /\ UNCHANGED <<vars, stored>>

DrawProducts(a) ==
  /\ FetchDrawn(a)
  /\ UNCHANGED <<vars, stored>>

LoadFails(a) ==
  /\ Faults /\ FetchFails(a)
  /\ stored' = [stored EXCEPT ![a] = NothingStored]
  /\ UNCHANGED vars

-----------------------------------------------------------------------------
(* The form *)

EditProduct(a) ==
  /\ list[a] # NULL
  /\ \E p \in DOMAIN list[a] :
       openModal(a, [id |-> p, price |-> list[a][p].price, available |-> list[a][p].available])
  /\ UNCHANGED <<vars, stored>>

NewProduct(a) ==
  /\ openModal(a, [id |-> NULL, price |-> NULL, available |-> TRUE])
  /\ UNCHANGED <<vars, stored>>

\* A price that is no number becomes NaN, and null in the request: NULL.
FillIn(a) ==
  /\ \E price \in Price \cup {NULL}, available \in BOOLEAN :
       Typed(a, [id |-> form[a].id, price |-> price, available |-> available])
  /\ UNCHANGED <<vars, stored>>

CloseForm(a) == closeModal(a) /\ UNCHANGED <<vars, stored>>

\* The row a save asks for, if nothing else can write the product meanwhile.
Certain(p, row) == IF Abandoned(p) THEN NULL ELSE row

\* What handleSave does with the form: PATCH for the product it edits,
\* POST for a new one.  The server refuses a creation without a price or
\* with the price 0 before its first statement, and the form stays.
Save(a) ==
  /\ form[a] # NULL
  /\ \E w \in Worker : Free(w) /\
       LET f == form[a] row == [price |-> f.price, available |-> f.available] IN
         \/ /\ f.id # NULL
            /\ Receive(w, "products.Update", "product.read",
                       [product |-> f.id, price |-> f.price, available |-> f.available])
            /\ Submit(a, [w |-> w, form |-> f.id, product |-> f.id, modal |-> "open",
                          row |-> IF f.price = NULL THEN NULL ELSE Certain(f.id, row)])
         \/ /\ f.id = NULL /\ f.price \notin {NULL, 0}
            /\ \E p \in Fresh(products) :
                 /\ Receive(w, "products.Create", "product.insert",
                            [new |-> p, price |-> f.price, available |-> f.available])
                 /\ Submit(a, [w |-> w, form |-> NULL, product |-> p, modal |-> "open",
                               row |-> row])
  /\ UNCHANGED stored

Delete(a) ==
  /\ form[a] # NULL /\ form[a].id # NULL
  /\ \E w \in Worker :
       /\ Free(w)
       /\ Receive(w, "products.Delete", "drop.items", [product |-> form[a].id])
       /\ Submit(a, [w |-> w, form |-> form[a].id, product |-> form[a].id, modal |-> "open",
                     row |-> Certain(form[a].id, DELETED)])
  /\ UNCHANGED stored

SaveAnswered(a) ==
  /\ \E r \in saving[a] :
       /\ pc[r.w] = "idle"
       /\ Settled(a, r, reply[r.w] = 200)
       /\ stored' = IF r.modal = "unmounted" \/ IsRefusal(reply[r.w]) THEN stored
                    ELSE [stored EXCEPT ![a][r.product] =
                            IF reply[r.w] = 200 /\ ~isLoading(a) THEN r.row ELSE NULL]
  /\ UNCHANGED vars

\* The client waits ten seconds; the handler goes on.
SaveGivenUp(a) ==
  /\ Faults
  /\ \E r \in saving[a] :
       /\ Settled(a, r, FALSE)
       /\ stored' = [stored EXCEPT ![a][r.product] = NULL]
  /\ UNCHANGED vars

\* With the screen goes what its pending saves were to store.
LeaveScreen(a) ==
  /\ Leave(a)
  /\ stored' = [stored EXCEPT ![a] = [p \in ProductId |->
                  IF \E r \in saving[a] : r.product = p THEN NULL ELSE @[p]]]
  /\ UNCHANGED vars

ForgetProducts(a) == Forget(a) /\ UNCHANGED <<vars, stored>>

ReturnToScreen(a) == ComeBack(a) /\ UNCHANGED <<vars, stored>>

-----------------------------------------------------------------------------
ScreenAction(a) ==
  \/ ListProducts(a) \/ DrawProducts(a) \/ LoadFails(a)
  \/ EditProduct(a) \/ NewProduct(a) \/ FillIn(a) \/ CloseForm(a)
  \/ Save(a) \/ Delete(a) \/ SaveAnswered(a) \/ SaveGivenUp(a)
  \/ LeaveScreen(a) \/ ForgetProducts(a) \/ ReturnToScreen(a)

ServerStep(w) == (ProductStep(w) \/ StatementFails(w)) /\ UNCHANGED screen

ScreenNext == (\E a \in Admin : ScreenAction(a)) \/ (\E w \in Worker : ServerStep(w))

ScreenSpec == ScreenInit /\ [][ScreenNext]_productVars

-----------------------------------------------------------------------------
Menu == UNION {[ps -> ProductRow] : ps \in SUBSET ProductId}

\* A fetch and a form are not what marks their absence.
ASSUME NoFetchIsMissing == \A rows \in Menu \cup {NULL} : [rows |-> rows] # NULL
ASSUME NoFormIsMissing ==
  \A id \in ProductId \cup {NULL}, price \in Price \cup {NULL}, available \in BOOLEAN :
    [id |-> id, price |-> price, available |-> available] # NULL

\* Type invariant of the screens.
ScreenTypeOK ==
  /\ list   \in [Admin -> Menu \cup {NULL}]
  /\ fetch  \in [Admin -> [rows : Menu \cup {NULL}] \cup {NULL}]
  /\ form   \in [Admin -> [id : ProductId \cup {NULL}, price : Price \cup {NULL},
                           available : BOOLEAN] \cup {NULL}]
  /\ saving \in [Admin -> SUBSET [w : Worker, form : ProductId \cup {NULL},
                    product : ProductId, modal : {"open", "dismissed", "unmounted"},
                    row : ProductRow \cup {DELETED, NULL}]]
  /\ away   \in SUBSET Admin
  /\ stored \in [Admin -> [ProductId -> ProductRow \cup {DELETED, NULL}]]

\* Some save of p is on its way, at the server or back.
Busy(p) ==
  \/ \E w \in Worker : On(w, p)
  \/ \E a \in Admin : \E r \in saving[a] : r.product = p

(* With one admin at work, what a save was acknowledged to have stored is  *)
(* what the menu has, for good: no earlier save of the same screen comes   *)
(* in after it, and a form still open brings no deleted product back.      *)
AcknowledgedSaveStays ==
  \A a \in Admin, p \in ProductId :
    stored[a][p] # NULL /\ ~Busy(p) => products[p] = stored[a][p]

\* What admin a sees of product p.
Drawn(a, p) == IF list[a] # NULL /\ p \in DOMAIN list[a] THEN list[a][p] ELSE DELETED

(* A screen at rest shows the saves it was told of, although a list that   *)
(* was read before the save may arrive after it, or while the screen is    *)
(* away, and be drawn when it is back.                                     *)
RestingListShowsSaves ==
  \A a \in Admin \ away, p \in ProductId :
    fetch[a] = NULL /\ stored[a][p] # NULL /\ ~Busy(p) => Drawn(a, p) = stored[a][p]
=============================================================================
