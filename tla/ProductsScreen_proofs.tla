----------------------- MODULE ProductsScreen_proofs -----------------------
(***************************************************************************)
(* Theorems about the products screens over the server, for any number of  *)
(* products, workers and failures.  What a save was acknowledged to have   *)
(* stored is safe from three writers, each for a reason of its own: from a *)
(* request of a screen that was left or gave up (then nothing was taken    *)
(* for stored), from the next request of the same screen (which is alone,  *)
(* and ends what is taken for stored with its answer), and from the        *)
(* requests of other admins only where there are none.                     *)
(***************************************************************************)
EXTENDS ProductsScreen, RestaurantAPI_proofs

(* AcknowledgedSaveStays is about a restaurant with one admin at work.     *)
OneAdmin == \A a, b \in Admin : a = b

-----------------------------------------------------------------------------
(* The screens, for any number of admins *)

Saves == [w : Worker, form : ProductId \cup {NULL}, product : ProductId,
          modal : {"open", "dismissed", "unmounted"}, row : ProductRow \cup {DELETED, NULL}]

Known(p) == products[p] # NULL

\* What an admin was shown may be gone, but it has been there.
RowsFit(rows) == rows # NULL => \A p \in DOMAIN rows : Known(p)

Dropping == {"drop.items", "drop.product"}

\* The worker's request asks for the row that the screen would take for stored.
Carries(r) ==
  r.row # NULL =>
    IF pc[r.w] \in Dropping
      THEN r.row = DELETED
      ELSE /\ req[r.w].price # NULL /\ req[r.w].available # NULL
           /\ r.row = [price |-> req[r.w].price, available |-> req[r.w].available]

\* A request belongs to the form that is open, if its own was not dismissed,
\* and its worker handles it or has answered.
SaveFits(a, r) ==
  /\ r.modal = "open" => form[a] # NULL /\ r.form = form[a].id
  /\ pc[r.w] # "idle" => On(r.w, r.product) /\ Carries(r)

\* A mounted screen waits for one request at most.
OneAtATime(a) ==
  \A r, q \in saving[a] : r.modal # "unmounted" /\ q.modal # "unmounted" => r = q

DeviceFits(a) ==
  /\ RowsFit(list[a])
  /\ fetch[a] # NULL => RowsFit(fetch[a].rows)
  /\ form[a] # NULL /\ form[a].id # NULL => Known(form[a].id)
  /\ \A r \in saving[a] : SaveFits(a, r)
  /\ OneAtATime(a)
  /\ a \in away => form[a] = NULL /\ \A r \in saving[a] : r.modal = "unmounted"

\* A worker handles one request.
OneScreenEach ==
  \A a, b \in Admin : \A r \in saving[a], q \in saving[b] : r.w = q.w => a = b /\ r = q

\* Only the id of a new product has no row yet.
HandledKnown ==
  \A w \in Worker, p \in ProductId : On(w, p) /\ pc[w] # "product.insert" => Known(p)

ScreenInv ==
  /\ IInv
  /\ ScreenTypeOK
  /\ OneScreenEach
  /\ HandledKnown
  /\ \A a \in Admin : DeviceFits(a)

-----------------------------------------------------------------------------
(* What the one admin was told *)

\* The answer on its way to the mounted screen may be to a write of p.
Superseded(a, p) ==
  \E r \in saving[a] : /\ r.modal # "unmounted" /\ r.product = p
                       /\ pc[r.w] = "idle" /\ ~IsRefusal(reply[r.w])

\* What a list has of product p.
Listed(rows, p) == IF p \in DOMAIN rows THEN rows[p] ELSE DELETED

StoredFits(a, p) ==
  stored[a][p] # NULL =>
    /\ ~Abandoned(p)
    /\ ~Superseded(a, p) =>
         /\ products[p] = stored[a][p]
         /\ a \notin away /\ fetch[a] = NULL => Drawn(a, p) = stored[a][p]
         /\ fetch[a] # NULL /\ fetch[a].rows # NULL => Listed(fetch[a].rows, p) = stored[a][p]

\* A request that will be taken for stored is alone on its product.
AwaitedFits(a) ==
  \A r \in saving[a] :
    r.modal # "unmounted" /\ r.row # NULL =>
      /\ ~Abandoned(r.product)
      /\ pc[r.w] = "idle" /\ reply[r.w] = 200 => products[r.product] = r.row

SavedInv ==
  /\ ScreenInv
  /\ \A a \in Admin : AwaitedFits(a) /\ \A p \in ProductId : StoredFits(a, p)

-----------------------------------------------------------------------------
(* The handlers *)

\* One statement of worker w: the request goes on, or it ends, and only the
\* statement that ends it writes the row it is on.
HandlerActs(w) ==
  /\ pc[w] # "idle"
  /\ \A v \in Worker \ {w} : pc'[v] = pc[v] /\ req'[v] = req[v] /\ reply'[v] = reply[v]
  /\ pc'[w] # "idle" =>
       /\ req'[w] = req[w] /\ pc[w] # "product.insert" /\ pc'[w] # "product.insert"
       /\ {pc[w], pc'[w]} \subseteq ProductLabels
       /\ pc[w] \in Dropping <=> pc'[w] \in Dropping
  /\ \A p \in ProductId :
       /\ Known(p) => Known(p)'
       /\ products'[p] # products[p] =>
            On(w, p) /\ pc'[w] = "idle" /\ ~IsRefusal(reply'[w])
       /\ On(w, p) /\ pc'[w] = "idle" /\ reply'[w] = 200 =>
            IF pc[w] \in Dropping THEN products'[p] = DELETED
            ELSE req[w].price # NULL /\ req[w].available # NULL =>
                   products'[p] = [price |-> req[w].price, available |-> req[w].available]

\* An error answer of a request that wrote nothing.
LEMMA FailedMoves ==
  ASSUME IInv, NEW w \in Worker, pc[w] # "idle", NEW err, err # "nil", Answer(w, err),
         UNCHANGED db
  PROVE  HandlerActs(w)
<1>1. HttpStatus(err) # 200
  BY DEF HttpStatus
<1>2. /\ pc'[w] = "idle" /\ reply'[w] = HttpStatus(err) /\ products' = products
      /\ \A v \in Worker \ {w} : pc'[v] = pc[v] /\ req'[v] = req[v] /\ reply'[v] = reply[v]
  BY DEF Answer, Return, db, IInv, TypeOK, RequestsOK
<1> QED
  BY <1>1, <1>2 DEF HandlerActs, Known

\* The last statement has written the row of the request.
LEMMA WrittenMoves ==
  ASSUME IInv, NEW w \in Worker, pc[w] \in ProductLabels, NEW p \in ProductId, On(w, p),
         NEW row \in ProductRow \cup {DELETED}, AnswerWrite(w),
         products' = [products EXCEPT ![p] = row],
         IF pc[w] \in Dropping THEN row = DELETED
         ELSE req[w].price # NULL /\ req[w].available # NULL =>
                row = [price |-> req[w].price, available |-> req[w].available]
  PROVE  HandlerActs(w)
<1>1. PICK err \in {"nil", "ErrConnectionLost"} : Return(w, err)
  BY DEF AnswerWrite
<1>2. ~IsRefusal(HttpStatus(err))
  BY NotRefused
<1>3. /\ pc'[w] = "idle" /\ reply'[w] = HttpStatus(err)
      /\ \A v \in Worker \ {w} : pc'[v] = pc[v] /\ req'[v] = req[v] /\ reply'[v] = reply[v]
  BY <1>1 DEF Return, IInv, TypeOK, RequestsOK
<1>4. products'[p] = row /\ \A q \in ProductId \ {p} : products'[q] = products[q]
  BY DEF IInv, TypeOK, SchemaOK
<1>5. row # NULL
  BY MarkersAreNoValues
<1>6. \A q \in ProductId : On(w, q) => q = p
  BY DEF On
<1>7. pc[w] # "idle"
  BY DEF ProductLabels
<1>8. \A q \in ProductId : Known(q) => Known(q)'
  BY <1>4, <1>5 DEF Known
<1> QED
  BY <1>2, <1>3, <1>4, <1>6, <1>7, <1>8 DEF HandlerActs

LEMMA InsertMoves ==
  ASSUME IInv, NEW w \in Worker, ProductInsert(w)
  PROVE  HandlerActs(w)
<1> DEFINE row == [price |-> req[w].price, available |-> req[w].available]
<1>1. pc[w] = "product.insert" /\ req[w] \in NewProductRequest
  BY DEF ProductInsert, IInv, RequestFits
<1>2. CASE req[w].price >= 0 /\ ProductsCreate(req[w].new, row) /\ AnswerWrite(w)
  <2>1. req[w].new \in ProductId /\ row \in ProductRow
    BY <1>1, <1>2 DEF NewProductRequest, ProductRow
  <2>2. On(w, req[w].new) /\ pc[w] \in ProductLabels /\ pc[w] \notin Dropping
    BY <1>1 DEF On, ProductLabels, Dropping
  <2> QED
    BY <1>2, <2>1, <2>2, WrittenMoves DEF ProductsCreate
<1>3. CASE Answer(w, "ErrInvalidProductPrice") /\ UNCHANGED db
  BY <1>1, <1>3, FailedMoves
<1> QED
  BY <1>2, <1>3 DEF ProductInsert

LEMMA PatchMoves ==
  ASSUME IInv, NEW w \in Worker, ProductRead(w) \/ ProductWrite(w)
  PROVE  HandlerActs(w)
<1>1. CASE ProductRead(w)
  <2> DEFINE row == ProductsGetByID(req[w].product)
             err == IF row = NULL THEN "ErrProductNotFound"
                    ELSE IF Merged(row, req[w]).price < 0 THEN "ErrInvalidProductPrice"
                    ELSE "nil"
  <2>1. pc[w] = "product.read" /\ Checked(w, err, "product.write", row)
    BY <1>1 DEF ProductRead
  <2> HIDE DEF err, row
  <2>2. CASE err # "nil" /\ Answer(w, err) /\ UNCHANGED db
    BY <2>1, <2>2, FailedMoves
  <2>3. CASE Continue(w, "product.write", row) /\ UNCHANGED db
    <3>1. /\ pc'[w] = "product.write" /\ req' = req /\ reply' = reply /\ products' = products
          /\ \A v \in Worker \ {w} : pc'[v] = pc[v]
      BY <2>3 DEF Continue, db, IInv, TypeOK, RequestsOK
    <3> QED
      BY <2>1, <3>1 DEF HandlerActs, Known, ProductLabels, Dropping
  <2> QED
    BY <2>1, <2>2, <2>3 DEF Checked
<1>2. CASE ProductWrite(w)
  <2>1. /\ pc[w] = "product.write" /\ req[w].product \in ProductId
        /\ Merged(seen[w], req[w]) \in ProductRow
    BY <1>2 DEF ProductWrite, IInv, RequestFits, RowFits, ProductPatchRequest
  <2>2. CASE ProductsUpdate(req[w].product, Merged(seen[w], req[w])) /\ AnswerWrite(w)
    <3>1. On(w, req[w].product) /\ pc[w] \in ProductLabels /\ pc[w] \notin Dropping
      BY <2>1 DEF On, ProductLabels, Dropping
    <3>2. req[w].price # NULL /\ req[w].available # NULL =>
            Merged(seen[w], req[w]) = [price |-> req[w].price, available |-> req[w].available]
      BY DEF Merged
    <3> QED
      BY <2>1, <2>2, <3>1, <3>2, WrittenMoves DEF ProductsUpdate
  <2>3. CASE Answer(w, "ErrProductNotFound") /\ UNCHANGED db
    BY <2>1, <2>3, FailedMoves
  <2> QED
    BY <1>2, <2>2, <2>3 DEF ProductWrite
<1> QED
  BY <1>1, <1>2

LEMMA DropMoves ==
  ASSUME IInv, NEW w \in Worker, ProductDropItems(w) \/ ProductDrop(w)
  PROVE  HandlerActs(w)
<1>1. CASE ProductDropItems(w)
  <2>1. /\ pc[w] = "drop.items" /\ pc'[w] = "drop.product"
        /\ req' = req /\ reply' = reply /\ products' = products
        /\ \A v \in Worker \ {w} : pc'[v] = pc[v]
    BY <1>1 DEF ProductDropItems, db, IInv, TypeOK, RequestsOK
  <2> QED
    BY <2>1 DEF HandlerActs, Known, ProductLabels, Dropping
<1>2. CASE ProductDrop(w)
  <2>1. pc[w] = "drop.product" /\ req[w].product \in ProductId
    BY <1>2 DEF ProductDrop, IInv, RequestFits, ProductDeleteRequest
  <2>2. CASE ProductsDelete(req[w].product, locked[w]) /\ AnswerWrite(w)
    <3>1. On(w, req[w].product) /\ pc[w] \in ProductLabels /\ pc[w] \in Dropping
      BY <2>1 DEF On, ProductLabels, Dropping
    <3> QED
      BY <2>1, <2>2, <3>1, WrittenMoves DEF ProductsDelete
  <2>3. CASE /\ Answer(w, "ErrProductNotFound") \/ Answer(w, "ErrForeignKeyViolation")
             /\ UNCHANGED db
    BY <2>1, <2>3, FailedMoves
  <2> QED
    BY <1>2, <2>2, <2>3 DEF ProductDrop
<1> QED
  BY <1>1, <1>2

LEMMA ServerMoves ==
  ASSUME IInv, NEW w \in Worker, ServerStep(w)
  PROVE  IInv' /\ HandlerActs(w)
<1>1. Next
  BY DEF ServerStep, Next, Step
<1>2. IInv'
  BY <1>1, NextKeeps
<1>3. StatementFails(w) => HandlerActs(w)
  BY FailedMoves DEF StatementFails
<1> QED
  BY <1>2, <1>3, InsertMoves, PatchMoves, DropMoves DEF ServerStep, ProductStep

\* Who handles p after the statement has handled it before.
LEMMA StillOn ==
  ASSUME NEW w \in Worker, HandlerActs(w), NEW v \in Worker, NEW p, On(v, p)'
  PROVE  /\ On(v, p) /\ req'[v] = req[v]
         /\ pc[v] = "product.insert" <=> pc'[v] = "product.insert"
         /\ pc[v] \in Dropping <=> pc'[v] \in Dropping
<1>1. CASE v # w
  BY <1>1 DEF HandlerActs, On
<1>2. CASE v = w
  <2>1. pc'[w] # "idle"
    BY <1>2 DEF On, ProductLabels
  <2> QED
    BY <1>2, <2>1 DEF HandlerActs, On
<1> QED
  BY <1>1, <1>2
LEMMA ScreenTypes ==
  ASSUME ScreenTypeOK, NEW a \in Admin
  PROVE  /\ list[a] \in Menu \cup {NULL}
         /\ fetch[a] \in [rows : Menu \cup {NULL}] \cup {NULL}
         /\ form[a] \in [id : ProductId \cup {NULL}, price : Price \cup {NULL},
                         available : BOOLEAN] \cup {NULL}
         /\ \A r \in saving[a] :
              /\ r \in Saves /\ r.w \in Worker /\ r.product \in ProductId
              /\ r.modal \in {"open", "dismissed", "unmounted"}
              /\ r.row \in ProductRow \cup {DELETED, NULL}
         /\ \A p \in ProductId : stored[a][p] \in ProductRow \cup {DELETED, NULL}
<1>1. saving[a] \subseteq Saves
  BY DEF ScreenTypeOK, Saves
<1>2. \A r \in Saves : /\ r.w \in Worker /\ r.product \in ProductId
                       /\ r.modal \in {"open", "dismissed", "unmounted"}
                       /\ r.row \in ProductRow \cup {DELETED, NULL}
  BY DEF Saves
<1> QED
  BY <1>1, <1>2 DEF ScreenTypeOK

LEMMA MenuRows ==
  ASSUME NEW rows \in Menu
  PROVE  /\ DOMAIN rows \subseteq ProductId
         /\ \A p \in DOMAIN rows : rows[p] \in ProductRow
BY DEF Menu

\* What a list reads.
LEMMA MenuRead ==
  ASSUME IInv
  PROVE  [p \in {q \in ProductId : Exists(products[q])} |-> products[p]] \in Menu
<1> DEFINE ps == {q \in ProductId : Exists(products[q])}
<1>1. \A p \in ps : products[p] \in ProductRow
  BY DEF IInv, TypeOK, SchemaOK, Exists
<1>2. [p \in ps |-> products[p]] \in [ps -> ProductRow]
  BY <1>1
<1>3. ps \in SUBSET ProductId
  OBVIOUS
<1> HIDE DEF ps
<1>4. [p \in ps |-> products[p]] \in Menu
  BY <1>2, <1>3 DEF Menu
<1> QED
  BY <1>4 DEF ps

\* A statement of the server moves no screen, and takes no product away
\* without a trace.
LEMMA ServeKeeps ==
  ASSUME ScreenInv, NEW w \in Worker, ServerStep(w)
  PROVE  ScreenInv'
<1>1. IInv' /\ HandlerActs(w)
  BY ServerMoves DEF ScreenInv
<1>2. UNCHANGED <<list, fetch, form, saving, away, stored>>
  BY DEF ServerStep, screen, formVars
<1>3. ScreenTypeOK'
  BY <1>2 DEF ScreenInv, ScreenTypeOK
<1>4. OneScreenEach'
  BY <1>2 DEF ScreenInv, OneScreenEach
<1>5. \A p \in ProductId : Known(p) => Known(p)'
  BY <1>1 DEF HandlerActs
<1>6. HandledKnown'
  BY <1>1, <1>5, StillOn DEF ScreenInv, HandledKnown
<1>7. ASSUME NEW a \in Admin PROVE DeviceFits(a)'
  <2>1. DeviceFits(a) /\ ScreenTypeOK
    BY DEF ScreenInv
  <2>2. ASSUME NEW rows \in Menu \cup {NULL}, RowsFit(rows) PROVE RowsFit(rows)'
    BY <1>5, <2>2, MenuRows DEF RowsFit
  <2>3. RowsFit(list[a])' /\ (fetch[a] # NULL => RowsFit(fetch[a].rows))'
    <3>1. list[a] \in Menu \cup {NULL} /\ fetch[a] \in [rows : Menu \cup {NULL}] \cup {NULL}
      BY <2>1, ScreenTypes
    <3>2. RowsFit(list[a])'
      <4>1. PICK rows \in Menu \cup {NULL} : rows = list[a]
        BY <3>1
      <4>2. RowsFit(rows)'
        BY <2>1, <2>2, <4>1 DEF DeviceFits
      <4> QED
        BY <1>2, <4>1, <4>2 DEF RowsFit
    <3>3. ASSUME fetch[a] # NULL PROVE RowsFit(fetch[a].rows)'
      <4>1. PICK rows \in Menu \cup {NULL} : rows = fetch[a].rows
        BY <3>1, <3>3
      <4>2. RowsFit(rows)'
        BY <2>1, <2>2, <3>3, <4>1 DEF DeviceFits
      <4> QED
        BY <1>2, <4>1, <4>2 DEF RowsFit
    <3> QED
      BY <1>2, <3>2, <3>3
  <2>4. (form[a] # NULL /\ form[a].id # NULL => Known(form[a].id))'
    <3>1. form[a] # NULL /\ form[a].id # NULL => form[a].id \in ProductId
      BY <2>1, ScreenTypes
    <3> QED
      BY <1>2, <1>5, <2>1, <3>1 DEF DeviceFits, Known
  <2>5. ASSUME NEW r \in saving[a] PROVE SaveFits(a, r)'
    <3>1. SaveFits(a, r) /\ r.w \in Worker /\ r.product \in ProductId
      BY <2>1, ScreenTypes DEF DeviceFits
    <3>2. (r.modal = "open" => form[a] # NULL /\ r.form = form[a].id)'
      BY <1>2, <3>1 DEF SaveFits
    <3>3. ASSUME pc'[r.w] # "idle" PROVE On(r.w, r.product)' /\ Carries(r)'
      <4>1. pc[r.w] # "idle"
        BY <1>1, <3>1, <3>3 DEF HandlerActs
      <4>2. On(r.w, r.product) /\ Carries(r)
        BY <3>1, <4>1 DEF SaveFits
      <4>3. /\ req'[r.w] = req[r.w] /\ (pc[r.w] \in Dropping <=> pc'[r.w] \in Dropping)
            /\ pc[r.w] = "product.insert" <=> pc'[r.w] = "product.insert"
        BY <1>1, <3>1, <3>3 DEF HandlerActs
      <4>4. pc'[r.w] \in ProductLabels
        BY <1>1, <3>1, <3>3, <4>2 DEF HandlerActs, On
      <4>5. On(r.w, r.product)'
        BY <4>2, <4>3, <4>4 DEF On
      <4>6. Carries(r)'
        BY <4>2, <4>3 DEF Carries
      <4> QED
        BY <4>5, <4>6
    <3> QED
      BY <3>2, <3>3 DEF SaveFits
  <2>6. OneAtATime(a)'
    BY <1>2, <2>1 DEF DeviceFits, OneAtATime
  <2>7. a \in away => form[a] = NULL /\ \A r \in saving[a] : r.modal = "unmounted"
    BY <2>1 DEF DeviceFits
  <2> QED
    BY <1>2, <2>3, <2>4, <2>5, <2>6, <2>7 DEF DeviceFits
<1> QED
  BY <1>1, <1>3, <1>4, <1>6, <1>7 DEF ScreenInv
-----------------------------------------------------------------------------
(* The devices *)

\* The other devices are where they were.
DevicesStay(a) ==
  \A b \in Admin \ {a} : /\ list'[b] = list[b] /\ fetch'[b] = fetch[b]
                         /\ form'[b] = form[b] /\ saving'[b] = saving[b]
                         /\ b \in away' <=> b \in away

\* The screen that moves only has to answer for itself.
LEMMA DeviceStep ==
  ASSUME ScreenInv, NEW a \in Admin, UNCHANGED vars, ScreenTypeOK', DevicesStay(a),
         OneScreenEach', DeviceFits(a)'
  PROVE  ScreenInv'
<1>1. /\ products' = products /\ pc' = pc /\ req' = req
      /\ IInv'
  BY StutterKeeps DEF ScreenInv, vars, db, request
<1>2. HandledKnown'
  BY <1>1 DEF ScreenInv, HandledKnown, On, Known
<1>3. ASSUME NEW b \in Admin \ {a} PROVE DeviceFits(b)'
  BY <1>1 DEF ScreenInv, DeviceFits, DevicesStay, RowsFit, SaveFits, OneAtATime, Known, On, Carries
<1> QED
  BY <1>1, <1>2, <1>3 DEF ScreenInv

\* The requests of the screen stay as they are.
LEMMA QuietDevice ==
  ASSUME ScreenInv, NEW a \in Admin, UNCHANGED vars, ScreenTypeOK', DevicesStay(a),
         saving' = saving, away' = away, a \in away => form'[a] = NULL,
         RowsFit(list[a])', (fetch[a] # NULL => RowsFit(fetch[a].rows))',
         (form[a] # NULL /\ form[a].id # NULL => Known(form[a].id))',
         \A r \in saving[a] : r.modal = "open" => form'[a] # NULL /\ r.form = form'[a].id
  PROVE  ScreenInv'
<1>1. products' = products /\ pc' = pc /\ req' = req
  BY DEF vars, db, request
<1>2. DeviceFits(a)'
  BY <1>1 DEF ScreenInv, DeviceFits, SaveFits, OneAtATime, On, Carries
<1>3. OneScreenEach'
  BY DEF ScreenInv, OneScreenEach
<1> QED
  BY <1>2, <1>3, DeviceStep

LEMMA FetchKeeps ==
  ASSUME ScreenInv, NEW a \in Admin, ListProducts(a) \/ DrawProducts(a) \/ LoadFails(a)
  PROVE  ScreenInv'
<1>1. ScreenTypeOK /\ DeviceFits(a) /\ IInv
  BY DEF ScreenInv
<1>2. /\ UNCHANGED <<vars, form, saving, away>> /\ products' = products
  BY DEF ListProducts, FetchRead, DrawProducts, FetchDrawn, LoadFails, FetchFails, vars, db
<1>3. CASE ListProducts(a)
  <2> DEFINE rows == [p \in {q \in ProductId : Exists(products[q])} |-> products[p]]
  <2>1. rows \in Menu /\ RowsFit(rows)
    BY <1>1, MenuRead DEF RowsFit, Exists, Known
  <2>2. /\ fetch[a] # NULL /\ fetch' = [fetch EXCEPT ![a].rows = rows]
        /\ list' = list /\ stored' = stored
    BY <1>3 DEF ListProducts, FetchRead
  <2>3. fetch[a] \in [rows : Menu \cup {NULL}]
    BY <1>1, <2>2, ScreenTypes
  <2> HIDE DEF rows
  <2>4. fetch'[a] = [rows |-> rows] /\ \A b \in Admin \ {a} : fetch'[b] = fetch[b]
    BY <1>1, <2>2, <2>3 DEF ScreenTypeOK
  <2>5. ScreenTypeOK'
    <3>1. fetch' \in [Admin -> [rows : Menu \cup {NULL}] \cup {NULL}]
      BY <1>1, <2>1, <2>2, <2>3 DEF ScreenTypeOK
    <3> QED
      BY <1>1, <1>2, <2>2, <3>1 DEF ScreenTypeOK
  <2>6. RowsFit(list[a])' /\ RowsFit(fetch[a].rows)'
    BY <1>1, <1>2, <2>1, <2>2, <2>4 DEF DeviceFits, RowsFit, Known
  <2> QED
    BY <1>1, <1>2, <2>2, <2>4, <2>5, <2>6, QuietDevice DEF DevicesStay, DeviceFits, SaveFits, Known
<1>4. CASE DrawProducts(a)
  <2>1. /\ fetch[a] # NULL /\ fetch[a].rows # NULL
        /\ list' = [list EXCEPT ![a] = fetch[a].rows] /\ fetch' = [fetch EXCEPT ![a] = NULL]
        /\ stored' = stored
    BY <1>4 DEF DrawProducts, FetchDrawn
  <2>2. ScreenTypeOK'
    BY <1>1, <1>2, <2>1 DEF ScreenTypeOK
  <2>3. /\ list'[a] = fetch[a].rows /\ fetch'[a] = NULL
        /\ \A b \in Admin \ {a} : list'[b] = list[b] /\ fetch'[b] = fetch[b]
    BY <1>1, <2>1 DEF ScreenTypeOK
  <2>4. RowsFit(list[a])'
    BY <1>1, <1>2, <2>1, <2>3 DEF DeviceFits, RowsFit, Known
  <2> QED
    BY <1>1, <1>2, <2>2, <2>3, <2>4, QuietDevice DEF DevicesStay, DeviceFits, SaveFits, Known
<1>5. CASE LoadFails(a)
  <2>1. /\ fetch' = [fetch EXCEPT ![a] = NULL] /\ list' = list
        /\ stored' = [stored EXCEPT ![a] = NothingStored]
    BY <1>5 DEF LoadFails, FetchFails
  <2>2. ScreenTypeOK'
    BY <1>1, <1>2, <2>1 DEF ScreenTypeOK, NothingStored
  <2>3. fetch'[a] = NULL /\ \A b \in Admin \ {a} : fetch'[b] = fetch[b]
    BY <1>1, <2>1 DEF ScreenTypeOK
  <2>4. RowsFit(list[a])'
    BY <1>1, <1>2, <2>1 DEF DeviceFits, RowsFit, Known
  <2> QED
    BY <1>1, <1>2, <2>1, <2>2, <2>3, <2>4, QuietDevice
    DEF DevicesStay, DeviceFits, SaveFits, Known
<1> QED
  BY <1>3, <1>4, <1>5

LEMMA FormKeeps ==
  ASSUME ScreenInv, NEW a \in Admin, EditProduct(a) \/ NewProduct(a) \/ FillIn(a)
  PROVE  ScreenInv'
<1>1. ScreenTypeOK /\ DeviceFits(a)
  BY DEF ScreenInv
<1> DEFINE Form == [id : ProductId \cup {NULL}, price : Price \cup {NULL}, available : BOOLEAN]
<1>2. /\ UNCHANGED <<vars, list, fetch, saving, away, stored>> /\ products' = products
  BY DEF EditProduct, NewProduct, FillIn, openModal, Typed, vars, db
<1>3. PICK fields \in Form :
        /\ form' = [form EXCEPT ![a] = fields]
        /\ form[a] # NULL => fields.id = form[a].id
        /\ form[a] = NULL => (fields.id = NULL \/ Known(fields.id))
  <2>1. CASE EditProduct(a)
    <3>1. PICK p \in DOMAIN list[a] :
            openModal(a, [id |-> p, price |-> list[a][p].price,
                          available |-> list[a][p].available])
      BY <2>1 DEF EditProduct
    <3>2. list[a] \in Menu /\ Known(p)
      BY <1>1, <2>1, ScreenTypes DEF EditProduct, DeviceFits, RowsFit
    <3>3. p \in ProductId /\ list[a][p] \in ProductRow
      BY <3>2, MenuRows
    <3>4. [id |-> p, price |-> list[a][p].price, available |-> list[a][p].available] \in Form
      BY <3>3 DEF ProductRow
    <3> QED
      BY <3>1, <3>2, <3>4 DEF openModal
  <2>2. CASE NewProduct(a)
    <3> DEFINE f == [id |-> NULL, price |-> NULL, available |-> TRUE]
    <3>1. f \in Form
      <4>1. TRUE \in BOOLEAN /\ NULL \in ProductId \cup {NULL} /\ NULL \in Price \cup {NULL}
        OBVIOUS
      <4> QED
        BY <4>1, Zenon
    <3>2. f.id = NULL /\ openModal(a, f)
      BY <2>2 DEF NewProduct
    <3> HIDE DEF f
    <3> QED
      BY <3>1, <3>2 DEF openModal
  <2>3. CASE FillIn(a)
    <3>1. PICK price \in Price \cup {NULL}, available \in BOOLEAN :
            Typed(a, [id |-> form[a].id, price |-> price, available |-> available])
      BY <2>3 DEF FillIn
    <3>2. form[a] # NULL /\ form[a] \in Form
      BY <1>1, <3>1, ScreenTypes DEF Typed
    <3>3. [id |-> form[a].id, price |-> price, available |-> available] \in Form
      BY <3>2
    <3> QED
      BY <3>1, <3>2, <3>3 DEF Typed
  <2> QED
    BY <2>1, <2>2, <2>3
<1>4. fields # NULL
  <2>1. /\ fields.id \in ProductId \cup {NULL} /\ fields.price \in Price \cup {NULL}
        /\ fields.available \in BOOLEAN
        /\ fields = [id |-> fields.id, price |-> fields.price, available |-> fields.available]
    OBVIOUS
  <2> QED
    BY <2>1, NoFormIsMissing
<1>5. ScreenTypeOK'
  BY <1>1, <1>2, <1>3 DEF ScreenTypeOK
<1>6. form'[a] = fields /\ \A b \in Admin \ {a} : form'[b] = form[b]
  BY <1>1, <1>3 DEF ScreenTypeOK
<1>7. RowsFit(list[a])' /\ (fetch[a] # NULL => RowsFit(fetch[a].rows))'
  BY <1>1, <1>2 DEF DeviceFits, RowsFit, Known
<1>8. fields.id # NULL => Known(fields.id)
  BY <1>1, <1>3 DEF DeviceFits
<1>9. \A r \in saving[a] : r.modal = "open" => form'[a] # NULL /\ r.form = form'[a].id
  BY <1>1, <1>3, <1>4, <1>6 DEF DeviceFits, SaveFits
<1>10. a \notin away
  BY <1>1 DEF EditProduct, NewProduct, openModal, FillIn, Typed, DeviceFits
<1> QED
  BY <1>1, <1>2, <1>5, <1>6, <1>7, <1>8, <1>9, <1>10, QuietDevice DEF DevicesStay, Known
\* d says of each request of the screen that its form is not open any more.
Marks(a, d) ==
  /\ saving' = [saving EXCEPT ![a] = {d[r] : r \in saving[a]}]
  /\ \A r \in saving[a] :
       /\ d[r] \in Saves
       /\ d[r].w = r.w /\ d[r].form = r.form /\ d[r].product = r.product /\ d[r].row = r.row
       /\ d[r].modal # "open"
       /\ r.modal = "unmounted" => d[r].modal = "unmounted"

LEMMA CloseMarks ==
  ASSUME ScreenInv, NEW a \in Admin, CloseForm(a)
  PROVE  \E d : Marks(a, d) /\ \A r \in saving[a] : d[r].modal = "unmounted" => r.modal = "unmounted"
<1> DEFINE d == [r \in saving[a] |->
                   IF r.modal = "open" THEN [r EXCEPT !.modal = "dismissed"] ELSE r]
<1>1. saving[a] \subseteq Saves
  BY DEF ScreenInv, ScreenTypeOK, Saves
<1>2. ASSUME NEW r \in saving[a]
      PROVE  /\ d[r] \in Saves /\ d[r].modal # "open"
             /\ d[r].w = r.w /\ d[r].form = r.form /\ d[r].product = r.product /\ d[r].row = r.row
             /\ d[r].modal = "unmounted" <=> r.modal = "unmounted"
  BY <1>1 DEF Saves
<1>3. saving' = [saving EXCEPT ![a] = {d[r] : r \in saving[a]}]
  <2>1. {d[r] : r \in saving[a]}
          = {IF r.modal = "open" THEN [r EXCEPT !.modal = "dismissed"] ELSE r : r \in saving[a]}
    OBVIOUS
  <2> QED
    BY <2>1 DEF CloseForm, closeModal
<1> HIDE DEF d
<1> QED
  BY <1>2, <1>3 DEF Marks

LEMMA LeaveMarks ==
  ASSUME ScreenInv, NEW a \in Admin, LeaveScreen(a)
  PROVE  \E d : Marks(a, d) /\ \A r \in saving[a] : d[r].modal = "unmounted"
<1> DEFINE d == [r \in saving[a] |-> [r EXCEPT !.modal = "unmounted"]]
<1>1. saving[a] \subseteq Saves
  BY DEF ScreenInv, ScreenTypeOK, Saves
<1>2. ASSUME NEW r \in saving[a]
      PROVE  /\ d[r] \in Saves /\ d[r].modal = "unmounted"
             /\ d[r].w = r.w /\ d[r].form = r.form /\ d[r].product = r.product /\ d[r].row = r.row
  BY <1>1 DEF Saves
<1>3. saving' = [saving EXCEPT ![a] = {d[r] : r \in saving[a]}]
  <2>1. {d[r] : r \in saving[a]} = {[r EXCEPT !.modal = "unmounted"] : r \in saving[a]}
    OBVIOUS
  <2> QED
    BY <2>1 DEF LeaveScreen, Leave
<1> HIDE DEF d
<1> QED
  BY <1>2, <1>3 DEF Marks

\* A screen whose form goes keeps its requests, whatever it marks them with.
LEMMA MarkedKeeps ==
  ASSUME ScreenInv, NEW a \in Admin, NEW d, Marks(a, d), UNCHANGED vars,
         form' = [form EXCEPT ![a] = NULL], UNCHANGED <<list, fetch>>,
         \/ away' = away
         \/ away' = away \cup {a} /\ \A r \in saving[a] : d[r].modal = "unmounted",
         stored' \in [Admin -> [ProductId -> ProductRow \cup {DELETED, NULL}]]
  PROVE  ScreenInv'
<1>1. ScreenTypeOK /\ DeviceFits(a) /\ OneScreenEach
  BY DEF ScreenInv
<1>2. products' = products /\ pc' = pc /\ req' = req
  BY DEF vars, db, request
<1>3. /\ saving'[a] = {d[r] : r \in saving[a]} /\ form'[a] = NULL
      /\ DevicesStay(a)
  BY <1>1 DEF Marks, ScreenTypeOK, DevicesStay
<1>4. ScreenTypeOK'
  <2>1. saving' \in [Admin -> SUBSET Saves]
    BY <1>1 DEF Marks, ScreenTypeOK, Saves
  <2>2. away' \in SUBSET Admin
    BY <1>1 DEF ScreenTypeOK
  <2>3. form' \in [Admin -> [id : ProductId \cup {NULL}, price : Price \cup {NULL},
                           available : BOOLEAN] \cup {NULL}]
    BY <1>1 DEF ScreenTypeOK
  <2> QED
    BY <1>1, <2>1, <2>2, <2>3 DEF ScreenTypeOK, Saves
<1>5. OneScreenEach'
  <2> SUFFICES ASSUME NEW b \in Admin, NEW c \in Admin, NEW r \in saving'[b],
                      NEW q \in saving'[c], r.w = q.w
               PROVE  b = c /\ r = q
    BY DEF OneScreenEach
  <2>1. PICK r0 \in saving[b] : r0.w = r.w /\ r = IF b = a THEN d[r0] ELSE r0
    BY <1>3 DEF Marks, DevicesStay
  <2>2. PICK q0 \in saving[c] : q0.w = q.w /\ q = IF c = a THEN d[q0] ELSE q0
    BY <1>3 DEF Marks, DevicesStay
  <2> QED
    BY <1>1, <2>1, <2>2 DEF OneScreenEach
<1>6. DeviceFits(a)'
  <2>1. RowsFit(list[a])' /\ (fetch[a] # NULL => RowsFit(fetch[a].rows))'
    BY <1>1, <1>2 DEF DeviceFits, RowsFit, Known
  <2>2. a \in away' => \A r \in saving[a] : d[r].modal = "unmounted"
    BY <1>1 DEF DeviceFits, Marks
  <2>3. ASSUME NEW r \in saving[a] PROVE SaveFits(a, d[r])'
    <3>1. /\ SaveFits(a, r) /\ d[r].modal # "open"
          /\ d[r].w = r.w /\ d[r].product = r.product /\ d[r].row = r.row
      BY <1>1 DEF Marks, DeviceFits
    <3> QED
      BY <1>2, <3>1 DEF SaveFits, On, Carries
  <2>4. OneAtATime(a)'
    BY <1>1, <1>3 DEF Marks, DeviceFits, OneAtATime
  <2> QED
    BY <1>3, <2>1, <2>2, <2>3, <2>4 DEF DeviceFits
<1> QED
  BY <1>3, <1>4, <1>5, <1>6, DeviceStep

LEMMA LeavingKeeps ==
  ASSUME ScreenInv, NEW a \in Admin, CloseForm(a) \/ LeaveScreen(a)
  PROVE  ScreenInv'
<1>1. ScreenTypeOK
  BY DEF ScreenInv
<1>2. CASE CloseForm(a)
  <2>1. PICK d : Marks(a, d)
    BY <1>2, CloseMarks
  <2> QED
    BY <1>1, <1>2, <2>1, MarkedKeeps DEF CloseForm, closeModal, ScreenTypeOK
<1>3. CASE LeaveScreen(a)
  <2>1. PICK d : Marks(a, d) /\ \A r \in saving[a] : d[r].modal = "unmounted"
    BY <1>3, LeaveMarks
  <2>2. stored' \in [Admin -> [ProductId -> ProductRow \cup {DELETED, NULL}]]
    BY <1>1, <1>3 DEF LeaveScreen, ScreenTypeOK
  <2> QED
    BY <1>3, <2>1, <2>2, MarkedKeeps DEF LeaveScreen, Leave
<1> QED
  BY <1>2, <1>3

\* The answer to request r, or the end of the wait for it.
LEMMA SettledKeeps ==
  ASSUME ScreenInv, NEW a \in Admin, NEW r \in saving[a], NEW ok \in BOOLEAN,
         Settled(a, r, ok), UNCHANGED vars,
         stored' \in [Admin -> [ProductId -> ProductRow \cup {DELETED, NULL}]]
  PROVE  ScreenInv'
<1>1. ScreenTypeOK /\ DeviceFits(a) /\ OneScreenEach /\ SaveFits(a, r)
  BY DEF ScreenInv, DeviceFits
<1>2. products' = products /\ pc' = pc /\ req' = req
  BY DEF vars, db, request
<1>3. /\ saving' = [saving EXCEPT ![a] = saving[a] \ {r}] /\ list' = list /\ away' = away
      /\ fetch' = fetch \/ fetch' = [fetch EXCEPT ![a] = NewFetch]
      /\ form' = IF ok /\ r.modal # "unmounted" THEN [form EXCEPT ![a] = NULL] ELSE form
  <2>1. fetch' = IF ok THEN [fetch EXCEPT ![a] = Invalidated(a)] ELSE fetch
    BY DEF Settled
  <2>2. Invalidated(a) = fetch[a] \/ Invalidated(a) = NewFetch
    BY DEF Invalidated
  <2>3. [fetch EXCEPT ![a] = fetch[a]] = fetch
    BY <1>1 DEF ScreenTypeOK
  <2>4. fetch' = fetch \/ fetch' = [fetch EXCEPT ![a] = NewFetch]
    BY <2>1, <2>2, <2>3
  <2> QED
    BY <2>4 DEF Settled
<1>4. /\ saving'[a] = saving[a] \ {r}
      /\ fetch'[a] = fetch[a] \/ fetch'[a] = NewFetch
      /\ form'[a] = IF ok /\ r.modal # "unmounted" THEN NULL ELSE form[a]
      /\ DevicesStay(a)
  BY <1>1, <1>3 DEF ScreenTypeOK, DevicesStay
<1>5. ScreenTypeOK'
  <2>1. fetch' \in [Admin -> [rows : Menu \cup {NULL}] \cup {NULL}]
    <3>1. NewFetch \in [rows : Menu \cup {NULL}]
      BY DEF NewFetch
    <3> QED
      BY <1>1, <1>3, <3>1 DEF ScreenTypeOK
  <2>2. saving' \in [Admin -> SUBSET Saves]
    BY <1>1, <1>3 DEF ScreenTypeOK, Saves
  <2>3. form' \in [Admin -> [id : ProductId \cup {NULL}, price : Price \cup {NULL},
                           available : BOOLEAN] \cup {NULL}]
    BY <1>1, <1>3 DEF ScreenTypeOK
  <2> QED
    BY <1>1, <1>3, <2>1, <2>2, <2>3 DEF ScreenTypeOK, Saves
<1>6. OneScreenEach'
  BY <1>1, <1>4 DEF OneScreenEach, DevicesStay
<1>7. DeviceFits(a)'
  <2>1. NewFetch.rows = NULL
    BY DEF NewFetch
  <2>2. RowsFit(list[a])' /\ (fetch[a] # NULL => RowsFit(fetch[a].rows))'
    BY <1>1, <1>2, <1>3, <1>4, <2>1 DEF DeviceFits, RowsFit, Known
  <2>3. \A q \in saving'[a] : SaveFits(a, q)'
    BY <1>1, <1>2, <1>4 DEF DeviceFits, SaveFits, OneAtATime, On, Carries
  <2>4. OneAtATime(a)'
    BY <1>1, <1>4 DEF DeviceFits, OneAtATime
  <2>5. (form[a] # NULL /\ form[a].id # NULL => Known(form[a].id))'
    BY <1>1, <1>2, <1>4 DEF DeviceFits, Known
  <2>6. a \in away' => form'[a] = NULL /\ \A q \in saving'[a] : q.modal = "unmounted"
    BY <1>1, <1>3, <1>4 DEF DeviceFits
  <2> QED
    BY <2>2, <2>3, <2>4, <2>5, <2>6 DEF DeviceFits
<1> QED
  BY <1>4, <1>5, <1>6, <1>7, DeviceStep

\* Neither the cache that forgets nor the screen that is back moves a request.
LEMMA MountKeeps ==
  ASSUME ScreenInv, NEW a \in Admin, ForgetProducts(a) \/ ReturnToScreen(a)
  PROVE  ScreenInv'
<1>1. ScreenTypeOK /\ DeviceFits(a) /\ OneScreenEach
  BY DEF ScreenInv
<1>2. UNCHANGED <<vars, form, saving, stored, products, pc, req>>
  BY DEF ForgetProducts, Forget, ReturnToScreen, ComeBack, vars, db, request
<1>3. CASE ForgetProducts(a)
  <2>1. list' = [list EXCEPT ![a] = NULL] /\ UNCHANGED <<fetch, away>>
    BY <1>3 DEF ForgetProducts, Forget
  <2>2. ScreenTypeOK' /\ list'[a] = NULL /\ \A b \in Admin \ {a} : list'[b] = list[b]
    BY <1>1, <1>2, <2>1 DEF ScreenTypeOK
  <2>3. RowsFit(list[a])' /\ (fetch[a] # NULL => RowsFit(fetch[a].rows))'
    BY <1>1, <1>2, <2>1, <2>2 DEF DeviceFits, RowsFit, Known
  <2> QED
    BY <1>1, <1>2, <2>1, <2>2, <2>3, QuietDevice DEF DevicesStay, DeviceFits, SaveFits, Known
<1>4. CASE ReturnToScreen(a)
  <2>1. NewFetch \in [rows : Menu \cup {NULL}] /\ NewFetch.rows = NULL
    BY DEF NewFetch
  <2>2. /\ away' = away \ {a} /\ list' = list
        /\ fetch' = fetch \/ fetch' = [fetch EXCEPT ![a] = NewFetch]
    BY <1>4 DEF ReturnToScreen, ComeBack
  <2>3. /\ fetch'[a] = fetch[a] \/ fetch'[a] = NewFetch
        /\ DevicesStay(a)
    BY <1>1, <1>2, <2>2 DEF ScreenTypeOK, DevicesStay
  <2>4. ScreenTypeOK'
    <3>1. fetch' \in [Admin -> [rows : Menu \cup {NULL}] \cup {NULL}]
      BY <1>1, <2>1, <2>2 DEF ScreenTypeOK
    <3> QED
      BY <1>1, <1>2, <2>2, <3>1 DEF ScreenTypeOK
  <2>5. RowsFit(list[a])' /\ (fetch[a] # NULL => RowsFit(fetch[a].rows))'
    BY <1>1, <1>2, <2>1, <2>2, <2>3 DEF DeviceFits, RowsFit, Known
  <2>6. DeviceFits(a)'
    BY <1>1, <1>2, <2>2, <2>5 DEF DeviceFits, SaveFits, OneAtATime, On, Carries, Known
  <2>7. OneScreenEach'
    BY <1>1, <1>2 DEF OneScreenEach
  <2> QED
    BY <1>2, <2>3, <2>4, <2>6, <2>7, DeviceStep
<1> QED
  BY <1>3, <1>4

LEMMA AnswerSettles ==
  ASSUME ScreenInv, NEW a \in Admin, SaveAnswered(a) \/ SaveGivenUp(a)
  PROVE  ScreenInv'
<1>1. ScreenTypeOK
  BY DEF ScreenInv
<1>2. CASE SaveAnswered(a)
  <2>1. PICK r \in saving[a] :
          /\ Settled(a, r, reply[r.w] = 200)
          /\ stored' = IF r.modal = "unmounted" \/ IsRefusal(reply[r.w]) THEN stored
                       ELSE [stored EXCEPT ![a][r.product] =
                               IF reply[r.w] = 200 /\ ~isLoading(a) THEN r.row ELSE NULL]
    BY <1>2 DEF SaveAnswered
  <2>2. stored' \in [Admin -> [ProductId -> ProductRow \cup {DELETED, NULL}]]
    BY <1>1, <2>1, ScreenTypes DEF ScreenTypeOK
  <2>3. (reply[r.w] = 200) \in BOOLEAN
    OBVIOUS
  <2> QED
    BY <1>2, <2>1, <2>2, <2>3, SettledKeeps DEF SaveAnswered
<1>3. CASE SaveGivenUp(a)
  <2>1. PICK r \in saving[a] :
          Settled(a, r, FALSE) /\ stored' = [stored EXCEPT ![a][r.product] = NULL]
    BY <1>3 DEF SaveGivenUp
  <2>2. stored' \in [Admin -> [ProductId -> ProductRow \cup {DELETED, NULL}]]
    BY <1>1, <2>1, ScreenTypes DEF ScreenTypeOK
  <2> QED
    BY <1>3, <2>1, <2>2, SettledKeeps DEF SaveGivenUp
<1> QED
  BY <1>2, <1>3
-----------------------------------------------------------------------------
(* The requests *)

\* Admin a sends request r, which worker w receives as q.
Sends(a, w, label, q, r) ==
  /\ Free(w)
  /\ label \in First /\ label \in ProductLabels /\ q \in Request /\ RequestFits(label, q)
  /\ \E endpoint \in Endpoint : Receive(w, endpoint, label, q)
  /\ r \in Saves /\ r.w = w /\ r.modal = "open" /\ r.form = form[a].id
  /\ Submit(a, r)
  /\ stored' = stored
  /\ IF label = "product.insert"
       THEN q.new = r.product /\ products[r.product] = NULL
       ELSE q.product = r.product /\ Known(r.product)
  /\ r.row # NULL =>
       IF label \in Dropping
         THEN r.row = DELETED
         ELSE q.price # NULL /\ q.available # NULL
                /\ r.row = [price |-> q.price, available |-> q.available]
  /\ r.row # NULL => ~Abandoned(r.product)

\* Nobody else draws the id of a request that is still to insert it.
LEMMA FreshAbandonsNothing ==
  ASSUME ScreenInv, NEW p \in Fresh(products), p \in ProductId
  PROVE  ~Abandoned(p) /\ products[p] = NULL
<1>1. /\ products[p] = NULL
      /\ \A w \in Worker : pc[w] \in Inserting => req[w].new # p
  BY DEF Fresh
<1>2. \A w \in Worker : ~On(w, p)
  <2> SUFFICES ASSUME NEW w \in Worker, On(w, p) PROVE FALSE
    OBVIOUS
  <2>1. CASE pc[w] = "product.insert"
    BY <1>1, <2>1 DEF On, Inserting
  <2>2. CASE pc[w] # "product.insert"
    BY <1>1, <2>2 DEF ScreenInv, HandledKnown, Known
  <2> QED
    BY <2>1, <2>2
<1> QED
  BY <1>1, <1>2 DEF Abandoned

LEMMA SaveSends ==
  ASSUME ScreenInv, NEW a \in Admin, Save(a)
  PROVE  \E w \in Worker : \E label, q, r : Sends(a, w, label, q, r)
<1>1. /\ ScreenTypeOK /\ DeviceFits(a) /\ form[a] # NULL /\ stored' = stored
      /\ form[a] \in [id : ProductId \cup {NULL}, price : Price \cup {NULL}, available : BOOLEAN]
      /\ DOMAIN products = ProductId
  BY ScreenTypes DEF ScreenInv, Save, IInv, TypeOK, SchemaOK
<1> DEFINE f == form[a]
           row == [price |-> f.price, available |-> f.available]
<1>2. PICK w \in Worker :
        /\ Free(w)
        /\ \/ /\ f.id # NULL
              /\ Receive(w, "products.Update", "product.read",
                         [product |-> f.id, price |-> f.price, available |-> f.available])
              /\ Submit(a, [w |-> w, form |-> f.id, product |-> f.id, modal |-> "open",
                            row |-> IF f.price = NULL THEN NULL ELSE Certain(f.id, row)])
           \/ /\ f.id = NULL /\ f.price \notin {NULL, 0}
              /\ \E p \in Fresh(products) :
                   /\ Receive(w, "products.Create", "product.insert",
                              [new |-> p, price |-> f.price, available |-> f.available])
                   /\ Submit(a, [w |-> w, form |-> NULL, product |-> p, modal |-> "open",
                                 row |-> row])
  BY DEF Save
<1>3. row.price = f.price /\ row.available = f.available
      /\ (f.price # NULL => row \in ProductRow)
  BY <1>1 DEF ProductRow
<1>4. f.available # NULL
  BY <1>1, MarkersAreNoValues
<1> USE DEF First, Request, RequestFits, CreateLabels, AddLabels, EditLabels, RemoveLabels,
            StatusLabels, KitchenLabels, ProductLabels
<1>5. CASE f.id # NULL
  <2> DEFINE new == IF f.price = NULL THEN NULL ELSE Certain(f.id, row)
             q == [product |-> f.id, price |-> f.price, available |-> f.available]
             r == [w |-> w, form |-> f.id, product |-> f.id, modal |-> "open", row |-> new]
  <2>1. Receive(w, "products.Update", "product.read", q) /\ Submit(a, r)
    BY <1>2, <1>5
  <2>2. new \in ProductRow \cup {DELETED, NULL}
    BY <1>3 DEF Certain
  <2>3. f.id \in ProductId /\ Known(f.id)
    BY <1>1, <1>5 DEF DeviceFits
  <2>4. q \in ProductPatchRequest
    BY <1>1, <2>3 DEF ProductPatchRequest
  <2>5. r \in Saves
    BY <2>2, <2>3 DEF Saves
  <2>6. new # NULL => f.price # NULL /\ new = row /\ ~Abandoned(f.id)
    BY DEF Certain
  <2>7. "products.Update" \in Endpoint
    BY <2>1 DEF Receive
  <2>8. /\ q.product = f.id /\ q.price = f.price /\ q.available = f.available
        /\ r.w = w /\ r.form = f.id /\ r.product = f.id /\ r.modal = "open" /\ r.row = new
    OBVIOUS
  <2> HIDE DEF q, r, new
  <2>9. Sends(a, w, "product.read", q, r)
    BY <1>1, <1>2, <1>4, <2>1, <2>3, <2>4, <2>5, <2>6, <2>7, <2>8 DEF Sends, Dropping
  <2> QED
    BY <2>9
<1>6. CASE f.id = NULL
  <2>1. PICK p \in Fresh(products) :
          /\ f.price \notin {NULL, 0}
          /\ Receive(w, "products.Create", "product.insert",
                     [new |-> p, price |-> f.price, available |-> f.available])
          /\ Submit(a, [w |-> w, form |-> NULL, product |-> p, modal |-> "open", row |-> row])
    BY <1>2, <1>6
  <2> DEFINE q == [new |-> p, price |-> f.price, available |-> f.available]
             r == [w |-> w, form |-> NULL, product |-> p, modal |-> "open", row |-> row]
  <2>2. p \in ProductId
    BY <1>1 DEF Fresh
  <2>3. ~Abandoned(p) /\ products[p] = NULL
    BY <2>2, FreshAbandonsNothing
  <2>4. q \in NewProductRequest
    BY <1>1, <2>1, <2>2 DEF NewProductRequest
  <2>5. r \in Saves
    <3>1. row \in ProductRow \cup {DELETED, NULL}
      BY <1>3, <2>1
    <3> HIDE DEF row
    <3> QED
      BY <2>2, <3>1 DEF Saves
  <2>6. "products.Create" \in Endpoint
    BY <2>1 DEF Receive
  <2>7. /\ q.new = p /\ q.price = f.price /\ q.available = f.available
        /\ r.w = w /\ r.form = NULL /\ r.product = p /\ r.modal = "open" /\ r.row = row
        /\ Receive(w, "products.Create", "product.insert", q) /\ Submit(a, r)
    BY <2>1
  <2> HIDE DEF q, r
  <2>8. Sends(a, w, "product.insert", q, r)
    BY <1>1, <1>2, <1>4, <1>6, <2>1, <2>3, <2>4, <2>5, <2>6, <2>7 DEF Sends, Dropping
  <2> QED
    BY <2>8
<1> QED
  BY <1>5, <1>6

LEMMA DeleteSends ==
  ASSUME ScreenInv, NEW a \in Admin, Delete(a)
  PROVE  \E w \in Worker : \E label, q, r : Sends(a, w, label, q, r)
<1>1. /\ ScreenTypeOK /\ DeviceFits(a) /\ form[a] # NULL /\ stored' = stored
      /\ form[a] \in [id : ProductId \cup {NULL}, price : Price \cup {NULL}, available : BOOLEAN]
  BY ScreenTypes DEF ScreenInv, Delete
<1> DEFINE p == form[a].id
           new == Certain(p, DELETED)
           q == [product |-> p]
<1>2. PICK w \in Worker :
        /\ Free(w)
        /\ Receive(w, "products.Delete", "drop.items", q)
        /\ Submit(a, [w |-> w, form |-> p, product |-> p, modal |-> "open", row |-> new])
  BY DEF Delete
<1> DEFINE r == [w |-> w, form |-> p, product |-> p, modal |-> "open", row |-> new]
<1>3. p \in ProductId /\ Known(p)
  BY <1>1 DEF Delete, DeviceFits
<1>4. new \in {DELETED, NULL} /\ (new # NULL => new = DELETED /\ ~Abandoned(p))
  BY DEF Certain
<1>5. q \in ProductDeleteRequest
  BY <1>3 DEF ProductDeleteRequest
<1>6. r \in Saves
  BY <1>3, <1>4 DEF Saves
<1>7. /\ q.product = p /\ "products.Delete" \in Endpoint /\ Submit(a, r)
      /\ r.w = w /\ r.form = p /\ r.product = p /\ r.modal = "open" /\ r.row = new
  BY <1>2 DEF Receive
<1> HIDE DEF q, r, new
<1> USE DEF First, Request, RequestFits, CreateLabels, AddLabels, EditLabels, RemoveLabels,
            StatusLabels, KitchenLabels, ProductLabels
<1>8. Sends(a, w, "drop.items", q, r)
  BY <1>1, <1>2, <1>3, <1>4, <1>5, <1>6, <1>7 DEF Sends, Dropping
<1> QED
  BY <1>8
\* The other workers are where they were, and no row is written.
LEMMA SendsMoves ==
  ASSUME ScreenInv, NEW a \in Admin, NEW w \in Worker, NEW label, NEW q, NEW r,
         Sends(a, w, label, q, r)
  PROVE  /\ IInv'
         /\ UNCHANGED <<products, list, fetch, form, away, stored>> /\ a \notin away
         /\ pc[w] = "idle" /\ pc'[w] = label /\ pc'[w] # "idle" /\ req'[w] = q
         /\ \A v \in Worker \ {w} : pc'[v] = pc[v] /\ req'[v] = req[v] /\ reply'[v] = reply[v]
         /\ On(w, r.product)' /\ Carries(r)'
         /\ \A p : On(w, p)' => p = r.product
         /\ saving' = [saving EXCEPT ![a] = saving[a] \cup {r}]
         /\ \A s \in saving[a] : s.modal = "unmounted"
<1>1. PICK endpoint \in Endpoint : Receive(w, endpoint, label, q)
  BY DEF Sends
<1>2. IInv'
  BY <1>1, ReceiveKeeps DEF Sends, ScreenInv
<1>3. /\ pc[w] = "idle" /\ pc'[w] = label /\ req'[w] = q /\ products' = products
      /\ \A v \in Worker \ {w} : pc'[v] = pc[v] /\ req'[v] = req[v] /\ reply'[v] = reply[v]
  BY <1>1 DEF Receive, db, ScreenInv, IInv, TypeOK, RequestsOK
<1>4. label # "idle"
  BY DEF Sends, ProductLabels
<1>5. On(w, r.product)' /\ \A p : On(w, p)' => p = r.product
  BY <1>3 DEF Sends, On
<1>6. Carries(r)'
  BY <1>3 DEF Sends, Carries
<1>7. a \notin away
  BY DEF Sends, Submit, ScreenInv, DeviceFits
<1> QED
  BY <1>2, <1>3, <1>4, <1>5, <1>6, <1>7 DEF Sends, Submit, isPending

LEMMA SendsKeeps ==
  ASSUME ScreenInv, NEW a \in Admin, NEW w \in Worker, NEW label, NEW q, NEW r,
         Sends(a, w, label, q, r)
  PROVE  ScreenInv'
<1>1. ScreenTypeOK /\ OneScreenEach /\ HandledKnown /\ DeviceFits(a)
  BY DEF ScreenInv
<1>2. /\ IInv' /\ UNCHANGED <<products, list, fetch, form, away, stored>> /\ a \notin away
      /\ pc[w] = "idle" /\ pc'[w] = label /\ pc'[w] # "idle" /\ req'[w] = q
      /\ \A v \in Worker \ {w} : pc'[v] = pc[v] /\ req'[v] = req[v] /\ reply'[v] = reply[v]
      /\ On(w, r.product)' /\ Carries(r)'
      /\ \A p : On(w, p)' => p = r.product
      /\ \A s \in saving[a] : s.modal = "unmounted"
  BY SendsMoves
<1>3. /\ r \in Saves /\ r.w = w /\ r.modal = "open" /\ form[a] # NULL /\ r.form = form[a].id
      /\ Free(w)
  BY DEF Sends, Submit
<1>4. /\ saving'[a] = saving[a] \cup {r}
      /\ \A b \in Admin \ {a} : saving'[b] = saving[b]
      /\ saving' \in [Admin -> SUBSET Saves]
  <2>1. saving' = [saving EXCEPT ![a] = saving[a] \cup {r}]
    BY SendsMoves
  <2> QED
    BY <1>1, <1>3, <2>1 DEF ScreenTypeOK, Saves
<1>5. ScreenTypeOK'
  BY <1>1, <1>2, <1>4 DEF ScreenTypeOK, Saves
<1>6. OneScreenEach'
  <2> SUFFICES ASSUME NEW b \in Admin, NEW c \in Admin, NEW s \in saving'[b],
                      NEW u \in saving'[c], s.w = u.w
               PROVE  b = c /\ s = u
    BY DEF OneScreenEach
  <2>1. s \in saving[b] \/ (b = a /\ s = r)
    BY <1>4
  <2>2. u \in saving[c] \/ (c = a /\ u = r)
    BY <1>4
  <2> QED
    BY <1>1, <1>3, <2>1, <2>2 DEF OneScreenEach, Free
<1>7. HandledKnown'
  <2> SUFFICES ASSUME NEW v \in Worker, NEW p \in ProductId,
                      On(v, p)', pc'[v] # "product.insert"
               PROVE  Known(p)
    BY <1>2 DEF HandledKnown, Known
  <2>1. CASE v = w
    BY <1>2, <2>1 DEF Sends
  <2>2. CASE v # w
    BY <1>1, <1>2, <2>2 DEF HandledKnown, On
  <2> QED
    BY <2>1, <2>2
<1>8. ASSUME NEW b \in Admin PROVE DeviceFits(b)'
  <2>1. DeviceFits(b)
    BY DEF ScreenInv
  <2>2. ASSUME NEW s \in saving[b] PROVE SaveFits(b, s)'
    <3>1. SaveFits(b, s) /\ s.w \in Worker /\ s.w # w
      BY <1>1, <1>3, <2>1, ScreenTypes DEF DeviceFits, Free
    <3> QED
      BY <1>2, <3>1 DEF SaveFits, On, Carries
  <2>3. b = a => SaveFits(b, r)'
    BY <1>2, <1>3 DEF SaveFits
  <2>4. \A s \in saving'[b] : SaveFits(b, s)'
    BY <1>4, <2>2, <2>3
  <2>5. OneAtATime(b)'
    BY <1>2, <1>4, <2>1 DEF DeviceFits, OneAtATime
  <2>6. RowsFit(list[b])' /\ (fetch[b] # NULL => RowsFit(fetch[b].rows))'
        /\ (form[b] # NULL /\ form[b].id # NULL => Known(form[b].id))'
    BY <1>2, <2>1 DEF DeviceFits, RowsFit, Known
  <2>7. b \in away' => form'[b] = NULL /\ \A s \in saving'[b] : s.modal = "unmounted"
    BY <1>2, <1>4, <2>1 DEF DeviceFits
  <2> QED
    BY <2>4, <2>5, <2>6, <2>7 DEF DeviceFits
<1> QED
  BY <1>2, <1>5, <1>6, <1>7, <1>8 DEF ScreenInv

LEMMA ScreenInvInit ==
  ASSUME ScreenInit
  PROVE  ScreenInv
<1>1. IInv
  BY InitIInv DEF ScreenInit
<1>2. ScreenTypeOK
  BY DEF ScreenInit, FormInit, ScreenTypeOK, NewFetch, NothingStored
<1>3. HandledKnown
  BY DEF ScreenInit, Init, HandledKnown, On, ProductLabels
<1>4. OneScreenEach
  BY DEF ScreenInit, FormInit, OneScreenEach
<1>5. \A a \in Admin : DeviceFits(a)
  BY DEF ScreenInit, FormInit, NewFetch, DeviceFits, RowsFit, OneAtATime
<1> QED
  BY <1>1, <1>2, <1>3, <1>4, <1>5 DEF ScreenInv

LEMMA ScreenInvStep ==
  ASSUME ScreenInv, [ScreenNext]_productVars
  PROVE  ScreenInv'
<1>1. ASSUME NEW w \in Worker, ServerStep(w) PROVE ScreenInv'
  BY <1>1, ServeKeeps
<1>2. ASSUME NEW a \in Admin, ScreenAction(a) PROVE ScreenInv'
  <2>1. Save(a) \/ Delete(a) => ScreenInv'
    BY SaveSends, DeleteSends, SendsKeeps
  <2> QED
    BY <1>2, <2>1, FetchKeeps, FormKeeps, LeavingKeeps, AnswerSettles, MountKeeps
    DEF ScreenAction
<1>3. CASE UNCHANGED productVars
  <2>1. UNCHANGED <<vars, list, fetch, form, saving, away, stored>>
    BY <1>3 DEF productVars, screen, formVars
  <2>2. IInv' /\ UNCHANGED <<products, pc, req>>
    BY <2>1, StutterKeeps DEF ScreenInv, vars, db, request
  <2> QED
    BY <2>1, <2>2 DEF ScreenInv, ScreenTypeOK, OneScreenEach, HandledKnown, DeviceFits, RowsFit,
                      SaveFits, OneAtATime, Known, On, Carries
<1> QED
  BY <1>1, <1>2, <1>3 DEF ScreenNext

(* Every request is of the form that waits for it, a mounted screen waits  *)
(* for one at most, and only products that have been there are shown and   *)
(* edited.                                                                 *)
THEOREM ProductsInductive == ScreenSpec => []ScreenInv
<1>1. ScreenInit => ScreenInv
  BY ScreenInvInit
<1>2. ScreenInv /\ [ScreenNext]_productVars => ScreenInv'
  BY ScreenInvStep
<1> QED
  BY <1>1, <1>2, PTL DEF ScreenSpec

(* The screens keep their types, whatever is typed, pressed and answered.  *)
THEOREM ScreenTypeCorrect == ScreenSpec => []ScreenTypeOK
<1>1. ScreenInv => ScreenTypeOK
  BY DEF ScreenInv
<1> QED
  BY <1>1, ProductsInductive, PTL
-----------------------------------------------------------------------------
(* What was acknowledged, with one admin at work *)

\* A request that the mounted screen waits for is not abandoned, and there
\* is no other such request.
LEMMA Awaited ==
  ASSUME OneAdmin, ScreenInv, NEW a \in Admin, NEW p \in ProductId, ~Abandoned(p),
         NEW w \in Worker, On(w, p)
  PROVE  \E r \in saving[a] :
           /\ r.w = w /\ r.product = p /\ r.modal # "unmounted"
           /\ \A q \in saving[a] : q.modal # "unmounted" => q = r
<1>1. PICK b \in Admin : \E r \in saving[b] : r.w = w /\ r.modal # "unmounted"
  BY DEF Abandoned
<1>2. b = a
  BY DEF OneAdmin
<1>3. PICK r \in saving[a] : r.w = w /\ r.modal # "unmounted"
  BY <1>1, <1>2
<1>4. pc[w] # "idle"
  BY DEF On, ProductLabels
<1>5. SaveFits(a, r) /\ OneAtATime(a)
  BY DEF ScreenInv, DeviceFits
<1>6. r.product = p
  BY <1>3, <1>4, <1>5 DEF SaveFits, On
<1> QED
  BY <1>3, <1>5, <1>6 DEF OneAtATime

\* There is one screen to answer for.
LEMMA OneScreen ==
  ASSUME OneAdmin, NEW a \in Admin, ScreenInv', AwaitedFits(a)',
         \A p \in ProductId : StoredFits(a, p)'
  PROVE  SavedInv'
<1>1. \A b \in Admin : b = a
  BY DEF OneAdmin
<1> QED
  BY <1>1 DEF SavedInv

LEMMA ServeSaves ==
  ASSUME OneAdmin, SavedInv, NEW w \in Worker, ServerStep(w)
  PROVE  SavedInv'
<1>1. ScreenInv /\ ScreenInv' /\ HandlerActs(w)
  BY ServeKeeps, ServerMoves DEF SavedInv, ScreenInv
<1>2. UNCHANGED <<list, fetch, form, saving, away, stored>>
  BY DEF ServerStep, screen, formVars
<1>3. \A p \in ProductId : ~Abandoned(p) => ~Abandoned(p)'
  BY <1>1, <1>2, StillOn DEF Abandoned
<1> SUFFICES ASSUME NEW a \in Admin PROVE AwaitedFits(a)' /\ \A p \in ProductId : StoredFits(a, p)'
  BY <1>1 DEF SavedInv
<1>4. /\ AwaitedFits(a) /\ ScreenTypeOK /\ DeviceFits(a)
      /\ \A r \in saving[a] : r \in Saves /\ r.w \in Worker /\ r.product \in ProductId
  BY ScreenTypes DEF SavedInv, ScreenInv
<1>5. AwaitedFits(a)'
  <2> SUFFICES ASSUME NEW r \in saving[a], r.modal # "unmounted", r.row # NULL
               PROVE  /\ ~Abandoned(r.product)'
                      /\ pc'[r.w] = "idle" /\ reply'[r.w] = 200 =>
                           products'[r.product] = r.row
    BY <1>2 DEF AwaitedFits
  <2>1. /\ ~Abandoned(r.product) /\ r.w \in Worker /\ r.product \in ProductId
        /\ pc[r.w] = "idle" /\ reply[r.w] = 200 => products[r.product] = r.row
    BY <1>4 DEF AwaitedFits
  <2>2. ASSUME pc'[r.w] = "idle", reply'[r.w] = 200
        PROVE  products'[r.product] = r.row
    <3>1. CASE r.w = w
      <4>1. On(w, r.product) /\ Carries(r)
        BY <1>1, <1>4, <3>1 DEF HandlerActs, DeviceFits, SaveFits
      <4> QED
        BY <1>1, <2>1, <2>2, <3>1, <4>1 DEF HandlerActs, Carries
    <3>2. CASE r.w # w
      <4>1. pc[r.w] = "idle" /\ reply[r.w] = 200
        BY <1>1, <2>1, <2>2, <3>2 DEF HandlerActs
      <4>2. ASSUME products'[r.product] # products[r.product] PROVE FALSE
        <5>1. On(w, r.product)
          BY <1>1, <2>1, <4>2 DEF HandlerActs
        <5> QED
          BY <1>1, <2>1, <3>2, <5>1, Awaited
      <4> QED
        BY <2>1, <4>1, <4>2
    <3> QED
      BY <3>1, <3>2
  <2> QED
    BY <1>3, <2>1, <2>2
<1>6. ASSUME NEW p \in ProductId PROVE StoredFits(a, p)'
  <2> SUFFICES ASSUME stored[a][p] # NULL
               PROVE  /\ ~Abandoned(p)'
                      /\ ~Superseded(a, p)' => /\ ~Superseded(a, p)
                                               /\ products'[p] = products[p]
    BY <1>2 DEF SavedInv, StoredFits, Drawn
  <2>1. ~Abandoned(p)
    BY DEF SavedInv, StoredFits
  <2>2. Superseded(a, p) => Superseded(a, p)'
    BY <1>1, <1>2, <1>4 DEF Superseded, HandlerActs
  <2>3. ASSUME products'[p] # products[p] PROVE Superseded(a, p)'
    <3>1. On(w, p) /\ pc'[w] = "idle" /\ ~IsRefusal(reply'[w])
      BY <1>1, <2>3 DEF HandlerActs
    <3>2. PICK r \in saving[a] : r.w = w /\ r.product = p /\ r.modal # "unmounted"
      BY <1>1, <2>1, <3>1, Awaited
    <3> QED
      BY <1>2, <3>1, <3>2 DEF Superseded
  <2> QED
    BY <1>3, <2>1, <2>2, <2>3
<1> QED
  BY <1>5, <1>6

\* The requests stay as they are; only the list, its fetch or the form moves.
LEMMA QuietSaves ==
  ASSUME OneAdmin, SavedInv, NEW a \in Admin, ScreenInv', UNCHANGED <<vars, saving, away, stored>>,
         \A p \in ProductId :
           /\ products[p] = stored[a][p]
           /\ a \notin away /\ fetch[a] = NULL => Drawn(a, p) = stored[a][p]
           /\ fetch[a] # NULL /\ fetch[a].rows # NULL => Listed(fetch[a].rows, p) = stored[a][p]
           => /\ a \notin away /\ fetch'[a] = NULL => Drawn(a, p)' = stored[a][p]
              /\ fetch'[a] # NULL /\ fetch'[a].rows # NULL =>
                   Listed(fetch'[a].rows, p) = stored[a][p]
  PROVE  SavedInv'
<1>1. UNCHANGED <<products, pc, req, reply>>
  BY DEF vars, db, request
<1>2. \A p : Abandoned(p)' <=> Abandoned(p)
  BY <1>1 DEF Abandoned, On
<1>3. AwaitedFits(a)'
  BY <1>1, <1>2 DEF SavedInv, AwaitedFits
<1>4. ASSUME NEW p \in ProductId PROVE StoredFits(a, p)'
  <2>1. Superseded(a, p)' <=> Superseded(a, p)
    BY <1>1 DEF Superseded
  <2> QED
    BY <1>1, <1>2, <2>1 DEF SavedInv, StoredFits
<1> QED
  BY <1>3, <1>4, OneScreen
LEMMA FetchSaves ==
  ASSUME OneAdmin, SavedInv, NEW a \in Admin, ListProducts(a) \/ DrawProducts(a)
  PROVE  SavedInv'
<1>1. ScreenInv /\ ScreenInv' /\ ScreenTypeOK
  BY FetchKeeps DEF SavedInv, ScreenInv
<1>2. CASE ListProducts(a)
  <2> DEFINE rows == [p \in {q \in ProductId : Exists(products[q])} |-> products[p]]
  <2>1. /\ fetch[a] # NULL /\ fetch' = [fetch EXCEPT ![a].rows = rows]
        /\ UNCHANGED <<vars, saving, away, stored>>
    BY <1>2 DEF ListProducts, FetchRead
  <2>2. \A p \in ProductId : products[p] # NULL => Listed(rows, p) = products[p]
    BY DEF Listed, Exists
  <2>3. fetch[a] \in [rows : Menu \cup {NULL}]
    BY <1>1, <2>1, ScreenTypes
  <2>4. rows \in Menu
    BY <1>1, MenuRead DEF ScreenInv
  <2> HIDE DEF rows
  <2>5. fetch'[a] = [rows |-> rows]
    BY <1>1, <2>1, <2>3 DEF ScreenTypeOK
  <2>6. fetch'[a] # NULL
    BY <2>4, <2>5, NoFetchIsMissing
  <2>7. \A p \in ProductId : stored[a][p] # NULL /\ products[p] = stored[a][p] =>
          Listed(fetch'[a].rows, p) = stored[a][p]
    BY <2>2, <2>5
  <2>8. ASSUME NEW p \in ProductId PROVE StoredFits(a, p)'
    <3>1. UNCHANGED <<products, pc, req, reply, saving, stored>>
      BY <2>1 DEF vars, db, request
    <3>2. Abandoned(p)' <=> Abandoned(p)
      BY <3>1 DEF Abandoned, On
    <3>3. Superseded(a, p)' <=> Superseded(a, p)
      BY <3>1 DEF Superseded
    <3>4. stored[a][p] # NULL => StoredFits(a, p)'
      <4>1. StoredFits(a, p)
        BY DEF SavedInv
      <4> QED
        BY <2>6, <2>7, <3>1, <3>2, <3>3, <4>1 DEF StoredFits
    <3> QED
      BY <3>1, <3>4 DEF StoredFits
  <2>9. AwaitedFits(a)'
    BY <2>1 DEF SavedInv, AwaitedFits, Abandoned, On, vars, db, request
  <2> QED
    BY <1>1, <2>8, <2>9, OneScreen
<1>3. CASE DrawProducts(a)
  <2>1. /\ fetch[a] # NULL /\ fetch[a].rows # NULL
        /\ list' = [list EXCEPT ![a] = fetch[a].rows] /\ fetch' = [fetch EXCEPT ![a] = NULL]
        /\ UNCHANGED <<vars, saving, away, stored>>
    BY <1>3 DEF DrawProducts, FetchDrawn
  <2>2. list'[a] = fetch[a].rows /\ fetch'[a] = NULL
    BY <1>1, <2>1 DEF ScreenTypeOK
  <2>3. \A p : Drawn(a, p)' = Listed(fetch[a].rows, p)
    BY <2>1, <2>2 DEF Drawn, Listed
  <2> QED
    BY <1>1, <2>1, <2>2, <2>3, QuietSaves
<1> QED
  BY <1>2, <1>3

\* A list that was not read says nothing, and nothing is taken for stored.
LEMMA LoadFailsSaves ==
  ASSUME OneAdmin, SavedInv, NEW a \in Admin, LoadFails(a)
  PROVE  SavedInv'
<1>1. ScreenInv' /\ ScreenTypeOK
  BY FetchKeeps DEF SavedInv, ScreenInv
<1>2. UNCHANGED <<products, pc, req, reply, saving>>
  BY DEF LoadFails, FetchFails, vars, db, request
<1>3. AwaitedFits(a)'
  BY <1>2 DEF SavedInv, AwaitedFits, Abandoned, On
<1>4. stored'[a] = NothingStored
  BY <1>1 DEF LoadFails, ScreenTypeOK
<1>5. \A p \in ProductId : StoredFits(a, p)'
  BY <1>4 DEF StoredFits, NothingStored
<1> QED
  BY <1>1, <1>3, <1>5, OneScreen

LEMMA FormSaves ==
  ASSUME OneAdmin, SavedInv, NEW a \in Admin, EditProduct(a) \/ NewProduct(a) \/ FillIn(a)
  PROVE  SavedInv'
<1>1. ScreenInv'
  BY FormKeeps DEF SavedInv
<1>2. UNCHANGED <<vars, list, fetch, saving, away, stored>>
  BY DEF EditProduct, NewProduct, FillIn, openModal, Typed
<1>3. \A p : Drawn(a, p)' = Drawn(a, p)
  BY <1>2 DEF Drawn
<1> QED
  BY <1>1, <1>2, <1>3, QuietSaves

\* The form is dismissed: its request is awaited as before.
LEMMA CloseSaves ==
  ASSUME OneAdmin, SavedInv, NEW a \in Admin, CloseForm(a)
  PROVE  SavedInv'
<1>1. ScreenInv /\ ScreenInv' /\ ScreenTypeOK
  BY LeavingKeeps DEF SavedInv, ScreenInv
<1>2. PICK d : Marks(a, d) /\ \A r \in saving[a] : d[r].modal = "unmounted" => r.modal = "unmounted"
  BY <1>1, CloseMarks
<1>3. UNCHANGED <<products, pc, req, reply, list, fetch, away, stored>>
  BY DEF CloseForm, closeModal, vars, db, request
<1>4. /\ saving'[a] = {d[r] : r \in saving[a]}
      /\ \A r \in saving[a] : /\ d[r].w = r.w /\ d[r].product = r.product /\ d[r].row = r.row
                              /\ d[r].modal = "unmounted" <=> r.modal = "unmounted"
  BY <1>1, <1>2 DEF Marks, ScreenTypeOK
<1>5. \A b \in Admin : b = a
  BY DEF OneAdmin
<1>6. \A p : Abandoned(p)' <=> Abandoned(p)
  <2>1. ASSUME NEW w \in Worker
        PROVE  (\A r \in saving'[a] : r.w = w => r.modal = "unmounted")
                 <=> (\A r \in saving[a] : r.w = w => r.modal = "unmounted")
    BY <1>4
  <2>2. \A w, p : On(w, p)' <=> On(w, p)
    BY <1>3 DEF On
  <2> QED
    BY <1>5, <2>1, <2>2 DEF Abandoned
<1>7. \A p : Superseded(a, p)' <=> Superseded(a, p)
  BY <1>3, <1>4 DEF Superseded
<1>8. AwaitedFits(a)'
  BY <1>3, <1>4, <1>6 DEF SavedInv, AwaitedFits
<1>9. \A p \in ProductId : StoredFits(a, p)'
  BY <1>3, <1>6, <1>7 DEF SavedInv, StoredFits, Drawn
<1> QED
  BY <1>1, <1>8, <1>9, OneScreen

\* The screen is left: its requests are abandoned, and with them what was
\* taken for stored of their products.
LEMMA LeaveSaves ==
  ASSUME OneAdmin, SavedInv, NEW a \in Admin, LeaveScreen(a)
  PROVE  SavedInv'
<1>1. ScreenInv /\ ScreenInv' /\ ScreenTypeOK
  BY LeavingKeeps DEF SavedInv, ScreenInv
<1>2. PICK d : Marks(a, d) /\ \A r \in saving[a] : d[r].modal = "unmounted"
  BY <1>1, LeaveMarks
<1>3. UNCHANGED <<products, pc, req, reply>>
  BY DEF LeaveScreen, vars, db, request
<1>4. /\ saving'[a] = {d[r] : r \in saving[a]}
      /\ \A r \in saving'[a] : r.modal = "unmounted"
  BY <1>1, <1>2 DEF Marks, ScreenTypeOK
<1>5. AwaitedFits(a)'
  BY <1>4 DEF AwaitedFits
<1>6. ASSUME NEW p \in ProductId PROVE StoredFits(a, p)'
  <2>1. stored'[a][p] = IF \E r \in saving[a] : r.product = p THEN NULL ELSE stored[a][p]
    BY <1>1 DEF LeaveScreen, ScreenTypeOK
  <2> SUFFICES ASSUME stored[a][p] # NULL, \A r \in saving[a] : r.product # p,
                      stored'[a][p] = stored[a][p]
               PROVE  StoredFits(a, p)'
    BY <2>1 DEF StoredFits
  <2>2. ~Abandoned(p) /\ ~Superseded(a, p)
    BY DEF SavedInv, StoredFits, Superseded
  <2>3. \A w \in Worker : ~On(w, p)
    BY <1>1, <2>2, Awaited
  <2>4. ~Abandoned(p)'
    BY <1>3, <2>3 DEF Abandoned, On
  <2>5. fetch' = fetch /\ a \in away'
    BY DEF LeaveScreen, Leave
  <2> QED
    BY <1>3, <2>2, <2>4, <2>5 DEF SavedInv, StoredFits
<1> QED
  BY <1>1, <1>5, <1>6, OneScreen

\* A list that is forgotten is not drawn, and the screen that is back reads it
\* again or waits for rows that had what is taken for stored.
LEMMA MountSaves ==
  ASSUME OneAdmin, SavedInv, NEW a \in Admin, ForgetProducts(a) \/ ReturnToScreen(a)
  PROVE  SavedInv'
<1>1. ScreenInv' /\ ScreenTypeOK
  BY MountKeeps DEF SavedInv, ScreenInv
<1>2. UNCHANGED <<products, pc, req, reply, saving, stored>>
  BY DEF ForgetProducts, Forget, ReturnToScreen, ComeBack, vars, db, request
<1>3. \A p : /\ Abandoned(p)' <=> Abandoned(p)
             /\ Superseded(a, p)' <=> Superseded(a, p)
  BY <1>2 DEF Abandoned, On, Superseded
<1>4. AwaitedFits(a)'
  BY <1>2, <1>3 DEF SavedInv, AwaitedFits
<1>5. \/ a \in away' /\ fetch' = fetch
      \/ fetch'[a] # NULL /\ (fetch'[a] = fetch[a] \/ fetch'[a].rows = NULL)
  <2>1. NewFetch # NULL /\ NewFetch.rows = NULL
    BY NoFetchIsMissing DEF NewFetch
  <2> QED
    BY <1>1, <2>1 DEF ForgetProducts, Forget, ReturnToScreen, ComeBack, ScreenTypeOK
<1>6. \A p \in ProductId : StoredFits(a, p)'
  BY <1>2, <1>3, <1>5 DEF SavedInv, StoredFits
<1> QED
  BY <1>1, <1>4, <1>6, OneScreen

LEMMA AnswerSaves ==
  ASSUME OneAdmin, SavedInv, NEW a \in Admin, SaveAnswered(a)
  PROVE  SavedInv'
<1>1. /\ ScreenInv /\ ScreenInv' /\ ScreenTypeOK /\ AwaitedFits(a)
      /\ \A p \in ProductId : StoredFits(a, p)
  BY AnswerSettles DEF SavedInv, ScreenInv
<1>2. PICK r \in saving[a] :
        /\ pc[r.w] = "idle"
        /\ Settled(a, r, reply[r.w] = 200)
        /\ stored' = IF r.modal = "unmounted" \/ IsRefusal(reply[r.w]) THEN stored
                     ELSE [stored EXCEPT ![a][r.product] =
                             IF reply[r.w] = 200 /\ ~isLoading(a) THEN r.row ELSE NULL]
  BY DEF SaveAnswered
<1>3. /\ UNCHANGED <<products, pc, req, reply, list, away>>
      /\ saving'[a] = saving[a] \ {r}
      /\ fetch'[a] = IF reply[r.w] = 200 THEN Invalidated(a) ELSE fetch[a]
  BY <1>1, <1>2 DEF SaveAnswered, Settled, ScreenTypeOK, vars, db, request
<1>4. \A b \in Admin : b = a
  BY DEF OneAdmin
<1>5. NewFetch # NULL /\ NewFetch.rows = NULL
  BY NoFetchIsMissing DEF NewFetch
<1>6. \A p : Abandoned(p)' <=> Abandoned(p)
  <2>1. \A w \in Worker : \A p : On(w, p) => w # r.w
    BY <1>2 DEF On, ProductLabels
  <2>2. \A w, p : On(w, p)' <=> On(w, p)
    BY <1>3 DEF On
  <2> QED
    BY <1>3, <1>4, <2>1, <2>2 DEF Abandoned
<1>7. AwaitedFits(a)'
  BY <1>1, <1>3, <1>6 DEF AwaitedFits
<1>8. ASSUME NEW p \in ProductId PROVE StoredFits(a, p)'
  <2>1. r.product \in ProductId
    BY <1>1, ScreenTypes
  <2>2. CASE r.modal # "unmounted" /\ ~IsRefusal(reply[r.w]) /\ p = r.product
    <3>1. stored'[a][p] = IF reply[r.w] = 200 /\ ~isLoading(a) THEN r.row ELSE NULL
      BY <1>1, <1>2, <2>1, <2>2 DEF ScreenTypeOK
    <3>2. ASSUME stored'[a][p] # NULL
          PROVE  /\ ~Abandoned(p) /\ products[p] = stored'[a][p]
                 /\ fetch'[a] = NewFetch
      <4>1. a \notin away
        BY <1>1, <2>2 DEF ScreenInv, DeviceFits
      <4> QED
        BY <1>1, <1>2, <1>3, <2>2, <3>1, <3>2, <4>1 DEF AwaitedFits, Invalidated
    <3> QED
      BY <1>3, <1>5, <1>6, <3>2 DEF StoredFits
  <2>3. CASE ~(r.modal # "unmounted" /\ ~IsRefusal(reply[r.w]) /\ p = r.product)
    <3>1. stored'[a][p] = stored[a][p]
      BY <1>1, <1>2, <2>1, <2>3 DEF ScreenTypeOK
    <3>2. Superseded(a, p) => Superseded(a, p)'
      BY <1>3, <2>3 DEF Superseded
    <3>3. fetch'[a] = fetch[a] \/ fetch'[a] = NewFetch
      BY <1>3 DEF Invalidated
    <3>4. Drawn(a, p)' = Drawn(a, p)
      BY <1>3 DEF Drawn
    <3> QED
      BY <1>1, <1>3, <1>5, <1>6, <3>1, <3>2, <3>3, <3>4 DEF StoredFits
  <2> QED
    BY <2>2, <2>3
<1> QED
  BY <1>1, <1>7, <1>8, OneScreen

\* The screen waits no longer for r, whose handler may go on.
LEMMA GivenUpSaves ==
  ASSUME OneAdmin, SavedInv, NEW a \in Admin, SaveGivenUp(a)
  PROVE  SavedInv'
<1>1. /\ ScreenInv /\ ScreenInv' /\ ScreenTypeOK /\ AwaitedFits(a) /\ DeviceFits(a)
      /\ \A p \in ProductId : StoredFits(a, p)
  BY AnswerSettles DEF SavedInv, ScreenInv
<1>2. PICK r \in saving[a] :
        Settled(a, r, FALSE) /\ stored' = [stored EXCEPT ![a][r.product] = NULL]
  BY DEF SaveGivenUp
<1>3. /\ UNCHANGED <<products, pc, req, reply, list, fetch, away>>
      /\ saving'[a] = saving[a] \ {r}
      /\ r.product \in ProductId /\ SaveFits(a, r)
  BY <1>1, <1>2, ScreenTypes DEF SaveGivenUp, Settled, ScreenTypeOK, DeviceFits, vars, db, request
<1>4. \A b \in Admin : b = a
  BY DEF OneAdmin
<1>5. ASSUME NEW p \in ProductId, ~Abandoned(p), NEW w \in Worker, On(w, p)
      PROVE  \E q \in saving[a] :
               /\ q.w = w /\ q.product = p /\ q.modal # "unmounted"
               /\ \A s \in saving[a] : s.modal # "unmounted" => s = q
  BY <1>1, <1>5, Awaited
<1>6. \A w, p : On(w, p)' <=> On(w, p)
  BY <1>3 DEF On
<1>7. ASSUME NEW p \in ProductId, ~Abandoned(p),
             p # r.product \/ \E q \in saving'[a] : q.modal # "unmounted"
      PROVE  ~Abandoned(p)'
  <2> SUFFICES ASSUME NEW w \in Worker, On(w, p)
               PROVE  \E q \in saving'[a] : q.w = w /\ q.modal # "unmounted"
    BY <1>6 DEF Abandoned
  <2>1. PICK q \in saving[a] :
          /\ q.w = w /\ q.product = p /\ q.modal # "unmounted"
          /\ \A s \in saving[a] : s.modal # "unmounted" => s = q
    BY <1>5, <1>7
  <2> QED
    BY <1>3, <1>7, <2>1
<1>8. AwaitedFits(a)'
  <2> SUFFICES ASSUME NEW q \in saving'[a], q.modal # "unmounted", q.row # NULL
               PROVE  /\ ~Abandoned(q.product)'
                      /\ pc[q.w] = "idle" /\ reply[q.w] = 200 => products[q.product] = q.row
    BY <1>3 DEF AwaitedFits
  <2>1. q \in saving[a] /\ q.product \in ProductId
    BY <1>1, <1>3, ScreenTypes
  <2> QED
    BY <1>1, <1>7, <2>1 DEF AwaitedFits
<1>9. ASSUME NEW p \in ProductId PROVE StoredFits(a, p)'
  <2>1. stored'[a][p] = IF p = r.product THEN NULL ELSE stored[a][p]
    BY <1>1, <1>2, <1>3 DEF ScreenTypeOK
  <2>2. p # r.product => (Superseded(a, p) => Superseded(a, p)')
    BY <1>3 DEF Superseded
  <2>3. Drawn(a, p)' = Drawn(a, p)
    BY <1>3 DEF Drawn
  <2> QED
    BY <1>1, <1>3, <1>7, <2>1, <2>2, <2>3 DEF StoredFits
<1> QED
  BY <1>1, <1>8, <1>9, OneScreen

LEMMA SendsSaves ==
  ASSUME OneAdmin, SavedInv, NEW a \in Admin, NEW w \in Worker, NEW label, NEW q, NEW r,
         Sends(a, w, label, q, r)
  PROVE  SavedInv'
<1>1. ScreenInv /\ ScreenInv' /\ ScreenTypeOK /\ \A p \in ProductId : StoredFits(a, p)
  BY SendsKeeps DEF SavedInv, ScreenInv
<1>2. /\ UNCHANGED <<products, list, fetch, away, stored>>
      /\ pc[w] = "idle" /\ pc'[w] # "idle"
      /\ \A v \in Worker \ {w} : pc'[v] = pc[v] /\ req'[v] = req[v]
      /\ saving' = [saving EXCEPT ![a] = saving[a] \cup {r}]
      /\ \A s \in saving[a] : s.modal = "unmounted"
  BY <1>1, SendsMoves
<1>3. /\ r.w = w /\ r.modal = "open" /\ saving'[a] = saving[a] \cup {r}
      /\ r.row # NULL => ~Abandoned(r.product)
  BY <1>1, <1>2 DEF Sends, ScreenTypeOK
<1>4. \A b \in Admin : b = a
  BY DEF OneAdmin
<1>5. \A p : Abandoned(p)' => Abandoned(p)
  <2> SUFFICES ASSUME NEW p, NEW v \in Worker, On(v, p)',
                      \A s \in saving'[a] : s.w = v => s.modal = "unmounted"
               PROVE  Abandoned(p)
    BY <1>4 DEF Abandoned
  <2>1. v # w
    BY <1>3
  <2>2. On(v, p)
    BY <1>2, <2>1 DEF On
  <2> QED
    BY <1>3, <1>4, <2>2 DEF Abandoned
<1>6. \A p : ~Superseded(a, p)
  BY <1>2 DEF Superseded
<1>7. AwaitedFits(a)'
  BY <1>2, <1>3, <1>5 DEF AwaitedFits
<1>8. \A p \in ProductId : StoredFits(a, p)'
  BY <1>1, <1>2, <1>5, <1>6 DEF StoredFits, Drawn
<1> QED
  BY <1>1, <1>7, <1>8, OneScreen

-----------------------------------------------------------------------------
LEMMA SavedInvInit ==
  ASSUME ScreenInit
  PROVE  SavedInv
<1>1. ScreenInv
  BY ScreenInvInit
<1>2. \A a \in Admin : saving[a] = {} /\ \A p \in ProductId : stored[a][p] = NULL
  BY DEF ScreenInit, FormInit, NothingStored
<1> QED
  BY <1>1, <1>2 DEF SavedInv, AwaitedFits, StoredFits

LEMMA SavedInvStep ==
  ASSUME OneAdmin, SavedInv, [ScreenNext]_productVars
  PROVE  SavedInv'
<1>1. ASSUME NEW w \in Worker, ServerStep(w) PROVE SavedInv'
  BY <1>1, ServeSaves
<1>2. ASSUME NEW a \in Admin, ScreenAction(a) PROVE SavedInv'
  <2>1. Save(a) \/ Delete(a) => SavedInv'
    BY SaveSends, DeleteSends, SendsSaves DEF SavedInv
  <2> QED
    BY <1>2, <2>1, FetchSaves, LoadFailsSaves, FormSaves, CloseSaves, LeaveSaves, AnswerSaves,
       GivenUpSaves, MountSaves DEF ScreenAction
<1>3. CASE UNCHANGED productVars
  <2>1. ScreenInv'
    BY <1>3, ScreenInvStep DEF SavedInv
  <2>2. UNCHANGED <<products, pc, req, reply, list, fetch, saving, away, stored>>
    BY <1>3 DEF productVars, screen, formVars, vars, db, request
  <2>3. /\ \A p : Abandoned(p)' <=> Abandoned(p)
        /\ \A a, p : Superseded(a, p)' <=> Superseded(a, p)
        /\ \A a, p : Drawn(a, p)' = Drawn(a, p)
    BY <2>2 DEF Abandoned, On, Superseded, Drawn
  <2> QED
    BY <2>1, <2>2, <2>3 DEF SavedInv, AwaitedFits, StoredFits
<1> QED
  BY <1>1, <1>2, <1>3 DEF ScreenNext

(* What the one admin's screen takes for stored is what the table has, and *)
(* what the list shows or is about to be read, until another write of the  *)
(* same product answers.                                                   *)
THEOREM SavesInductive ==
  ASSUME OneAdmin
  PROVE  ScreenSpec => []SavedInv
<1>1. ScreenInit => SavedInv
  BY SavedInvInit
<1>2. SavedInv /\ [ScreenNext]_productVars => SavedInv'
  BY SavedInvStep
<1> QED
  BY <1>1, <1>2, PTL DEF ScreenSpec

\* Nothing is on its way, so no answer supersedes what is stored.
LEMMA RestingIsNotSuperseded ==
  ASSUME NEW a \in Admin, NEW p, ~Busy(p)
  PROVE  ~Superseded(a, p)
BY DEF Busy, Superseded

(* With one admin at work, what a save was acknowledged to have stored is  *)
(* what the menu has as long as no other save of the product is made, for  *)
(* any number of products, abandoned requests, failures and lost answers.  *)
THEOREM AcknowledgedSavesStay ==
  ASSUME OneAdmin
  PROVE  ScreenSpec => []AcknowledgedSaveStays
<1>1. SavedInv => AcknowledgedSaveStays
  BY RestingIsNotSuperseded DEF SavedInv, StoredFits, AcknowledgedSaveStays
<1> QED
  BY <1>1, SavesInductive, PTL

(* With one admin at work, a list at rest shows the saves it was told of.  *)
THEOREM RestingListsShowSaves ==
  ASSUME OneAdmin
  PROVE  ScreenSpec => []RestingListShowsSaves
<1>1. SavedInv => RestingListShowsSaves
  BY RestingIsNotSuperseded DEF SavedInv, StoredFits, RestingListShowsSaves
<1> QED
  BY <1>1, SavesInductive, PTL
-----------------------------------------------------------------------------
(* What closes a form *)

OwnAnswer(a) ==
  \A r \in saving[a] :
    saving'[a] = saving[a] \ {r} /\ form[a] # NULL /\ form'[a] = NULL =>
      r.modal = "dismissed" \/ r.form = form[a].id

LEMMA OwnAnswerStep ==
  ASSUME ScreenInv, NEW a \in Admin, NEW b \in Admin, ScreenAction(b)
  PROVE  OwnAnswer(a)
<1>1. /\ ScreenTypeOK /\ DeviceFits(a)
      /\ \A r \in saving[a] : r \in Saves /\ r.modal \in {"open", "dismissed", "unmounted"}
  BY ScreenTypes DEF ScreenInv
<1>2. CASE form'[a] = form[a] \/ saving'[a] = saving[a]
  BY <1>2 DEF OwnAnswer
<1>3. CASE CloseForm(b) /\ b = a
  <2> DEFINE d == [r \in saving[a] |->
                     IF r.modal = "open" THEN [r EXCEPT !.modal = "dismissed"] ELSE r]
  <2>1. saving'[a] = {d[r] : r \in saving[a]}
    BY <1>1, <1>3 DEF CloseForm, closeModal, ScreenTypeOK
  <2>2. \A r \in saving[a] : /\ d[r].modal # "open"
                             /\ r.modal # "open" => d[r] = r
    BY <1>1 DEF Saves
  <2> HIDE DEF d
  <2> QED
    BY <1>1, <2>1, <2>2 DEF OwnAnswer, DeviceFits, SaveFits
<1>4. CASE LeaveScreen(b) /\ b = a
  <2> DEFINE d == [r \in saving[a] |-> [r EXCEPT !.modal = "unmounted"]]
  <2>1. saving'[a] = {d[r] : r \in saving[a]}
    <3>1. {d[r] : r \in saving[a]} = {[r EXCEPT !.modal = "unmounted"] : r \in saving[a]}
      OBVIOUS
    <3>2. saving'[a] = {[r EXCEPT !.modal = "unmounted"] : r \in saving[a]}
      BY <1>1, <1>4 DEF LeaveScreen, Leave, ScreenTypeOK
    <3> QED
      BY <3>1, <3>2
  <2>2. \A r \in saving[a] : d[r].modal = "unmounted" /\ (r.modal = "unmounted" => d[r] = r)
    BY <1>1 DEF Saves
  <2> HIDE DEF d
  <2> QED
    BY <1>1, <2>1, <2>2 DEF OwnAnswer, DeviceFits, SaveFits
<1>5. CASE (SaveAnswered(b) \/ SaveGivenUp(b)) /\ b = a
  <2>1. PICK q \in saving[a], ok \in BOOLEAN : Settled(a, q, ok)
    BY <1>5 DEF SaveAnswered, SaveGivenUp
  <2>2. /\ saving'[a] = saving[a] \ {q}
        /\ q.modal = "unmounted" => form'[a] = form[a]
    BY <1>1, <2>1 DEF Settled, ScreenTypeOK
  <2> QED
    BY <1>1, <2>2 DEF OwnAnswer, DeviceFits, SaveFits
<1>6. CASE Save(b) \/ Delete(b)
  <2>1. form' = form
    BY <1>6 DEF Save, Delete, Submit
  <2> QED
    BY <1>2, <2>1
<1>7. CASE b # a
  <2>1. \/ UNCHANGED form \/ UNCHANGED saving
        \/ CloseForm(b) \/ LeaveScreen(b) \/ SaveAnswered(b) \/ SaveGivenUp(b)
    BY DEF ScreenAction, ListProducts, FetchRead, DrawProducts, FetchDrawn, LoadFails, FetchFails,
           EditProduct, NewProduct, openModal, FillIn, Typed, Save, Delete, Submit,
           ForgetProducts, Forget, ReturnToScreen, ComeBack
  <2>2. CloseForm(b) \/ LeaveScreen(b) => form'[a] = form[a]
    <3>1. form' = [form EXCEPT ![b] = NULL] \/ ~(CloseForm(b) \/ LeaveScreen(b))
      BY DEF CloseForm, closeModal, LeaveScreen, Leave
    <3> QED
      BY <1>1, <1>7, <3>1 DEF ScreenTypeOK
  <2>3. SaveAnswered(b) \/ SaveGivenUp(b) => form'[a] = form[a]
    BY <1>1, <1>7 DEF SaveAnswered, SaveGivenUp, Settled, ScreenTypeOK
  <2> QED
    BY <1>2, <2>1, <2>2, <2>3
<1>8. CASE \/ ListProducts(b) \/ DrawProducts(b) \/ LoadFails(b)
           \/ EditProduct(b) \/ NewProduct(b) \/ FillIn(b)
           \/ ForgetProducts(b) \/ ReturnToScreen(b)
  <2>1. UNCHANGED form \/ UNCHANGED saving
    BY <1>8 DEF ListProducts, FetchRead, DrawProducts, FetchDrawn, LoadFails, FetchFails,
                EditProduct, NewProduct, openModal, FillIn, Typed,
                ForgetProducts, Forget, ReturnToScreen, ComeBack
  <2> QED
    BY <1>2, <2>1
<1> QED
  BY <1>3, <1>4, <1>5, <1>6, <1>7, <1>8 DEF ScreenAction

(* An answer closes the form that asked, or one opened after it was        *)
(* dismissed; never the form of a screen opened since.                     *)
THEOREM FormsCloseByTheirAnswer == ScreenSpec => FormClosedByOwnAnswer
<1>1. ASSUME ScreenInv, [ScreenNext]_productVars, NEW a \in Admin
      PROVE  OwnAnswer(a) \/ UNCHANGED formVars
  <2>1. ASSUME NEW w \in Worker, ServerStep(w) PROVE UNCHANGED formVars
    BY <2>1 DEF ServerStep, screen
  <2>2. CASE UNCHANGED productVars
    BY <2>2 DEF productVars, screen
  <2> QED
    BY <1>1, <2>1, <2>2, OwnAnswerStep DEF ScreenNext
<1>2. ScreenInv /\ [ScreenNext]_productVars =>
        [\A a \in Admin : \A r \in saving[a] :
           saving'[a] = saving[a] \ {r} /\ form[a] # NULL /\ form'[a] = NULL =>
             r.modal = "dismissed" \/ r.form = form[a].id]_formVars
  BY <1>1 DEF OwnAnswer
<1> QED
  BY <1>2, ProductsInductive, PTL DEF ScreenSpec, FormClosedByOwnAnswer
=============================================================================
