--------------------------- MODULE OrderRepository ---------------------------
(***************************************************************************)
(* internal/order/postgres_repository.go and cart/postgres_repository.go:  *)
(* the statements on tables orders and order_items, which the two services *)
(* share (a cart is an order with status draft).  The lines of an order    *)
(* are kept in the order of their ids.                                     *)
(***************************************************************************)
EXTENDS ProductRepository

OrderExists(o) == o \in OrderIDs /\ orders[o] # NoRow
OrderAvailable(r, o) == orderLock[o] \in {None, r}

\* SELECT ... FROM orders WHERE id = o FOR UPDATE.
LockOrder(r, o) == orderLock' = [orderLock EXCEPT ![o] = r]

\* INSERT INTO orders: the new row is invisible to others until r commits.
InsertOrder(r, row) ==
    /\ nextOrder \in OrderIDs
    /\ ordersW' = [ordersW EXCEPT ![nextOrder] = row]
    /\ LockOrder(r, nextOrder)
    /\ nextOrder' = nextOrder + 1
    /\ target' = [target EXCEPT ![r] = nextOrder]

\* UPDATE orders SET status.
WithStatus(row, status) == [row EXCEPT !.status = status]
SetStatus(o, status) ==
    ordersW' = [ordersW EXCEPT ![o] = WithStatus(@, status)]

\* SELECT ... FROM order_items WHERE order_id = o: r reads its own version
\* of the order it has locked and the committed lines of any other order.
LinesSeenBy(r, o) == IF orderLock[o] = r THEN itemsW[o] ELSE items[o]

=============================================================================
