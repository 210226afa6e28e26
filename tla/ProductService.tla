--------------------------- MODULE ProductService ---------------------------
(***************************************************************************)
(* internal/product/service.go: the administrator's catalogue.             *)
(***************************************************************************)
EXTENDS CartService

\* The bodies validateProduct accepts.
ProductBodies == [price : Prices, currency : Currencies, stock : Stocks]

BeginOnProduct(r, m) ==
    /\ \E p \in ProductIDs : Begin(r, m, None, NoOrder, Only(p, 1), "product")
    /\ UNCHANGED payment

BeginCreateProduct(r) ==
    /\ Begin(r, "CreateProduct", None, NoOrder, Nothing, "product")
    /\ UNCHANGED payment
BeginUpdateProduct(r) == BeginOnProduct(r, "UpdateProduct")
BeginDeleteProduct(r) == BeginOnProduct(r, "DeleteProduct")

CreateProduct(r) ==
    /\ At(r, "CreateProduct", "product")
    /\ \E row \in ProductBodies : CreateRow(r, row)
    /\ Goto(r, "commit")
    /\ UNCHANGED <<tables, ordersW, itemsW, orderLock, nextOrder,
                   op, user, target, want, seen, current, lines, payment>>

\* The row is locked and then overwritten, its stock included, whatever it
\* was when the administrator looked at it.
UpdateProduct(r) ==
    /\ At(r, "UpdateProduct", "product")
    /\ \E p \in ProductIDs, row \in ProductBodies :
          /\ want[r][p] > 0
          /\ ProductExists(p)
          /\ ProductAvailable(r, p)
          /\ LockProduct(r, p)
          /\ UpdateRow(p, row)
    /\ Goto(r, "commit")
    /\ UNCHANGED <<tables, ordersW, itemsW, orderLock, ids,
                   op, user, target, want, seen, current, lines, payment>>

ProductNotFound(r) ==
    /\ pc[r] = "product"
    /\ op[r] \in {"UpdateProduct", "DeleteProduct"}
    /\ \E p \in ProductIDs : want[r][p] > 0 /\ ~ProductExists(p)
    /\ Reject(r)

DeleteProduct(r) ==
    /\ At(r, "DeleteProduct", "product")
    /\ \E p \in ProductIDs :
          /\ want[r][p] > 0
          /\ ProductExists(p)
          /\ ProductAvailable(r, p)
          /\ DeleteRow(r, p)
    /\ Goto(r, "references")
    /\ UNCHANGED <<tables, ordersW, itemsW, orderLock, ids,
                   op, user, target, want, seen, current, lines, payment>>

\* Fault: order_items has no foreign key to products.
DeleteProductChecked_NoForeignKey(r) ==
    /\ At(r, "DeleteProduct", "references")
    /\ Goto(r, "commit")
    /\ UNCHANGED <<database, op, user, target, want, seen, current, lines, payment>>

\* The foreign key is checked at the end of the DELETE.
DeleteProductChecked(r) ==
    /\ At(r, "DeleteProduct", "references")
    /\ \E p \in ProductIDs :
          want[r][p] > 0 /\ ~Referenced(p) /\ ~RemovalPending(p)
    /\ Goto(r, "commit")
    /\ UNCHANGED <<database, op, user, target, want, seen, current, lines, payment>>

DeleteProductRefuse(r) ==
    /\ At(r, "DeleteProduct", "references")
    /\ \E p \in ProductIDs : want[r][p] > 0 /\ Referenced(p)
    /\ Reject(r)

ProductServiceBegin(r) ==
    BeginCreateProduct(r) \/ BeginUpdateProduct(r) \/ BeginDeleteProduct(r)

ProductServiceStep(r) ==
    \/ CreateProduct(r) \/ UpdateProduct(r) \/ ProductNotFound(r)
    \/ DeleteProduct(r) \/ DeleteProductChecked(r) \/ DeleteProductRefuse(r)

=============================================================================
