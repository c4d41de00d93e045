--------------------------- MODULE ProductService ---------------------------
(***************************************************************************)
(* POST, PATCH and DELETE of /products.  The handler of PATCH reads the    *)
(* product, merges the fields of the request into it and writes the whole  *)
(* row back.  DELETE is the one transaction of the program: the items with *)
(* the product go first, then the product, all or nothing.                 *)
(***************************************************************************)
EXTENDS Requests

ProductLabels == {"product.insert", "product.read", "product.write",
                  "drop.items", "drop.product"}

\* binding:"required" refuses the price 0 in a creation; a negative price
\* passes the binding and is refused by the service.
NewProductRequest    == [new : ProductId, price : (Price \ {0}) \cup {-1}, available : BOOLEAN]
ProductPatchRequest  == [product : ProductId, price : Price \cup {-1, NULL},
                         available : BOOLEAN \cup {NULL}]
ProductDeleteRequest == [product : ProductId]

ReceiveNewProduct(w) ==
  \E p \in Fresh(products), x \in (Price \ {0}) \cup {-1}, a \in BOOLEAN :
    Receive(w, "products.Create", "product.insert",
            [new |-> p, price |-> x, available |-> a])

ProductInsert(w) ==
  /\ pc[w] = "product.insert"
  /\ \/ /\ req[w].price >= 0
        /\ ProductsCreate(req[w].new, [price |-> req[w].price, available |-> req[w].available])
        /\ AnswerWrite(w)
     \/ /\ req[w].price < 0
        /\ Answer(w, "ErrInvalidProductPrice")
        /\ UNCHANGED db

-----------------------------------------------------------------------------
ReceiveProductPatch(w) ==
  \E p \in Named(products), x \in Price \cup {-1, NULL}, a \in BOOLEAN \cup {NULL} :
    Receive(w, "products.Update", "product.read",
            [product |-> p, price |-> x, available |-> a])

\* Mutant: a request that does not say so makes the product available.
Merged_Available(current, r) ==
  [price     |-> IF r.price = NULL THEN current.price ELSE r.price,
   available |-> IF r.available = NULL THEN TRUE ELSE r.available]

\* The fields the request leaves out keep the values that were read.
Merged(current, r) ==
  [price     |-> IF r.price = NULL THEN current.price ELSE r.price,
   available |-> IF r.available = NULL THEN current.available ELSE r.available]

\* Mutant: a negative price is not refused.
ProductRead_AnyPrice(w) ==
  /\ pc[w] = "product.read"
  /\ LET row == ProductsGetByID(req[w].product)
     IN  Checked(w, IF row = NULL THEN "ErrProductNotFound" ELSE "nil", "product.write", row)

ProductRead(w) ==
  /\ pc[w] = "product.read"
  /\ LET row == ProductsGetByID(req[w].product)
         err == IF row = NULL THEN "ErrProductNotFound"
                ELSE IF Merged(row, req[w]).price < 0 THEN "ErrInvalidProductPrice"
                ELSE "nil"
     IN  Checked(w, err, "product.write", row)

ProductWrite(w) ==
  /\ pc[w] = "product.write"
  /\ \/ /\ Exists(products[req[w].product])
        /\ ProductsUpdate(req[w].product, Merged(seen[w], req[w]))
        /\ AnswerWrite(w)
     \/ /\ ~Exists(products[req[w].product])
        /\ Answer(w, "ErrProductNotFound")
        /\ UNCHANGED db

-----------------------------------------------------------------------------
ReceiveProductDelete(w) ==
  \E p \in Named(products) :
    Receive(w, "products.Delete", "drop.items", [product |-> p])

\* DELETE FROM order_items: waits for the rows another transaction has
\* deleted, and keeps the rows it deletes locked until the transaction ends.
ProductDropItems(w) ==
  /\ pc[w] = "drop.items"
  /\ \A i \in ItemsWithProduct(req[w].product) : Unlocked(i)
  /\ pc'     = [pc EXCEPT ![w] = "drop.product"]
  /\ locked' = [locked EXCEPT ![w] = ItemsWithProduct(req[w].product)]
  /\ UNCHANGED <<db, req, seen, reply, wrote, told>>

\* An item inserted since the first DELETE still refers to the product: the
\* second DELETE violates the foreign key and the deferred Rollback undoes
\* the first.
ProductDrop(w) ==
  /\ pc[w] = "drop.product"
  /\ \/ /\ Exists(products[req[w].product])
        /\ ProductsDelete(req[w].product, locked[w])
        /\ AnswerWrite(w)
     \/ /\ ~Exists(products[req[w].product])
        /\ Answer(w, "ErrProductNotFound")
        /\ UNCHANGED db
     \/ /\ Exists(products[req[w].product])
        /\ ~(ItemsWithProduct(req[w].product) \subseteq locked[w])
        /\ Answer(w, "ErrForeignKeyViolation")
        /\ UNCHANGED db

ProductStep(w) ==
  \/ ProductInsert(w)
  \/ ProductRead(w) \/ ProductWrite(w)
  \/ ProductDropItems(w) \/ ProductDrop(w)
=============================================================================
