---------------------------- MODULE OrderService ----------------------------
(***************************************************************************)
(* internal/order/service.go: the methods of the order service, one action *)
(* per statement that another transaction can be interleaved with.  A step *)
(* that the code ends with an error rolls the transaction back (Reject).   *)
(* Argument checks made before the transaction opens refuse a call without *)
(* touching the database and are left out.                                 *)
(***************************************************************************)
EXTENDS Payment

\* The method returns an error; WithinTransaction rolls back.
Reject(r) == Rollback(r) /\ UNCHANGED payment

-----------------------------------------------------------------------------
(* The state machine of an order: status.go.                               *)

\* Fault: a paid order can still be cancelled.
CanTransition_CancelPaid(from, new) ==
    \/ from \in {"pending", "paid"} /\ new = "cancelled"
    \/ from = "pending" /\ new = "paid"
    \/ from = "paid" /\ new = "processing"

CanTransition(from, new) ==
    \/ from = "pending" /\ new \in {"paid", "cancelled"}
    \/ from = "paid" /\ new = "processing"
    \/ from = "processing" /\ new = "shipped"
    \/ from = "shipped" /\ new = "completed"

-----------------------------------------------------------------------------
(* Locking the products of a sale: the loop is the same in CreateOrder and *)
(* in the cart's Checkout.                                                 *)

\* Fault: the products are locked in the order the request names them.
IsNextToLock_Unsorted(r, p) == want[r][p] > 0 /\ seen[r][p] = NoRow

\* p is the first product of the sale, in increasing order of ids, whose row
\* r has not locked and read.
IsNextToLock(r, p) ==
    LET left == {q \in ProductIDs : want[r][q] > 0 /\ seen[r][q] = NoRow}
    IN  p \in left /\ \A q \in left : p <= q

\* p is the first locked product whose stock r has not taken yet.
IsNextToTake(r, p) ==
    /\ seen[r][p] # NoRow
    /\ \A q \in ProductIDs : seen[r][q] # NoRow => p <= q

CurrencyMatches(r, p) ==
    \A q \in ProductIDs :
        seen[r][q] # NoRow => seen[r][q].currency = productsW[p].currency

\* Fault: SELECT without FOR UPDATE.
ReadForSale_NoLock(r, p) ==
    /\ ProductExists(p)
    /\ ProductAvailable(r, p)
    /\ productsW[p].stock >= want[r][p]
    /\ CurrencyMatches(r, p)
    /\ UNCHANGED productLock
    /\ seen' = [seen EXCEPT ![r] = [@ EXCEPT ![p] = productsW[p]]]

\* SELECT ... FOR UPDATE of p, the stock check and the currency check.
ReadForSale(r, p) ==
    /\ ProductExists(p)
    /\ ProductAvailable(r, p)
    /\ productsW[p].stock >= want[r][p]
    /\ CurrencyMatches(r, p)
    /\ LockProduct(r, p)
    /\ seen' = [seen EXCEPT ![r] = [@ EXCEPT ![p] = productsW[p]]]

\* p is gone, or the row that r gets to lock fails a check.
SaleRefused(r, p) ==
    \/ ~ProductExists(p)
    \/ /\ ProductExists(p)
       /\ ProductAvailable(r, p)
       /\ \/ productsW[p].stock < want[r][p]
          \/ ~CurrencyMatches(r, p)

AllLocked(r) == \A p \in ProductIDs : want[r][p] > 0 => seen[r][p] # NoRow
AllTaken(r)  == \A p \in ProductIDs : seen[r][p] = NoRow

SaleTotal(r) ==
    Sum([p \in ProductIDs |-> IF seen[r][p] = NoRow THEN 0
                              ELSE seen[r][p].price * want[r][p]])
IsSaleCurrency(r, c) ==
    \E p \in ProductIDs : seen[r][p] # NoRow /\ seen[r][p].currency = c

LockSaleProduct(r, done) ==
    /\ pc[r] = "lock"
    /\ \/ \E p \in ProductIDs :
            /\ IsNextToLock(r, p)
            /\ ReadForSale(r, p)
            /\ UNCHANGED <<op, pc, user, target, want, current, lines>>
       \/ /\ AllLocked(r)
          /\ Goto(r, done)
          /\ UNCHANGED <<productLock, op, user, target, want, seen, current, lines>>
    /\ UNCHANGED <<tables, working, orderLock, ids, payment>>

RefuseSale(r) ==
    /\ pc[r] = "lock"
    /\ \E p \in ProductIDs : IsNextToLock(r, p) /\ SaleRefused(r, p)
    /\ Reject(r)

-----------------------------------------------------------------------------
(* CreateOrder.                                                            *)

\* w is the request with the lines of one product merged.
BeginCreateOrder(r) ==
    /\ \E u \in Users, w \in [ProductIDs -> Quantities \cup {0}] :
          w # Nothing /\ Begin(r, "CreateOrder", u, NoOrder, w, "lock")
    /\ UNCHANGED payment

CreateOrderLock(r)   == op[r] = "CreateOrder" /\ LockSaleProduct(r, "insert")
CreateOrderRefuse(r) == op[r] = "CreateOrder" /\ RefuseSale(r)

CreateOrderInsert(r) ==
    /\ At(r, "CreateOrder", "insert")
    /\ IsAmount(SaleTotal(r))
    /\ \E c \in Currencies :
          /\ IsSaleCurrency(r, c)
          /\ InsertOrder(r, [user |-> user[r], status |-> "pending",
                             total |-> SaleTotal(r), currency |-> c])
    /\ Goto(r, "lines")
    /\ UNCHANGED <<tables, productsW, itemsW, productLock, nextProduct,
                   op, user, want, seen, current, lines, payment>>

\* CreateItem and DecreaseStock of the next product.
CreateOrderLine(r) ==
    /\ At(r, "CreateOrder", "lines")
    /\ \E p \in ProductIDs, s \in Slots :
          /\ IsNextToTake(r, p)
          /\ IsFreeSlot(itemsW[target[r]], s)
          /\ itemsW' = [itemsW EXCEPT ![target[r]] =
                          AppendLine(@, s, p, want[r][p], seen[r][p].price)]
          /\ StockAllows(p, want[r][p])
          /\ DecreaseStock(p, want[r][p])
          /\ seen' = [seen EXCEPT ![r] = [@ EXCEPT ![p] = NoRow]]
    /\ UNCHANGED <<tables, ordersW, locks, ids,
                   op, pc, user, target, want, current, lines, payment>>

CreateOrderDone(r) ==
    /\ At(r, "CreateOrder", "lines")
    /\ AllTaken(r)
    /\ Goto(r, "commit")
    /\ UNCHANGED <<database, op, user, target, want, seen, current, lines, payment>>

-----------------------------------------------------------------------------
(* Methods on one existing order.                                          *)

BeginOnOrder(r, m) ==
    /\ \E u \in Users, o \in OrderIDs : Begin(r, m, u, o, Nothing, "order")
    /\ UNCHANGED payment

\* Fault: the status is not checked.
OwnPending_AnyStatus(r, row) == row.user = user[r]

\* The owner and status checks of CancelOrder and PayOrder.
OwnPending(r, row) == row.user = user[r] /\ row.status = "pending"

\* Fault: SELECT ... FOR UPDATE SKIP LOCKED finds no row that another locks.
OrderMissing_SkipLocked(r) ==
    \/ ~OrderExists(target[r])
    \/ op[r] # "GetOrder" /\ ~OrderAvailable(r, target[r])

\* GetByIDForUpdate, or GetByID in GetOrder, returns no row.
OrderMissing(r) == ~OrderExists(target[r])

\* Fault: GetByID where GetByIDForUpdate is meant.
ReadOrderForUpdate_NoLock(r, next) ==
    /\ pc[r] = "order"
    /\ OrderExists(target[r])
    /\ OwnPending(r, orders[target[r]])
    /\ current' = [current EXCEPT ![r] = orders[target[r]]]
    /\ Goto(r, next)
    /\ UNCHANGED <<database, op, user, target, want, seen, payment>>

\* GetByIDForUpdate returns the row, which passes the checks.
ReadOrderForUpdate(r, next) ==
    /\ pc[r] = "order"
    /\ OrderExists(target[r])
    /\ OrderAvailable(r, target[r])
    /\ OwnPending(r, ordersW[target[r]])
    /\ LockOrder(r, target[r])
    /\ current' = [current EXCEPT ![r] = ordersW[target[r]]]
    /\ Goto(r, next)
    /\ UNCHANGED <<tables, working, productLock, ids, op, user, target, want,
                   seen, payment>>

\* There is no such row, or it fails a check.
RefuseOrder(r) ==
    /\ pc[r] = "order"
    /\ \/ OrderMissing(r)
       \/ /\ OrderExists(target[r])
          /\ OrderAvailable(r, target[r])
          /\ ~OwnPending(r, ordersW[target[r]])
    /\ Reject(r)

\* UpdateStatus, the last statement of the method.
Mark(r, status) ==
    /\ pc[r] = "mark"
    /\ SetStatus(target[r], status)
    /\ Goto(r, "commit")
    /\ UNCHANGED <<tables, productsW, itemsW, locks, ids,
                   op, user, target, want, seen, current, lines, payment>>

-----------------------------------------------------------------------------
(* CancelOrder: the stock of the lines is given back in the order of their *)
(* ids, each UPDATE locking its product.                                   *)

BeginCancelOrder(r) == BeginOnOrder(r, "CancelOrder")

CancelOrderRead(r) ==
    /\ op[r] = "CancelOrder"
    /\ ReadOrderForUpdate(r, "restock")
    /\ lines' = [lines EXCEPT ![r] = LinesSeenBy(r, target[r])]

CancelOrderRefuse(r) == op[r] = "CancelOrder" /\ RefuseOrder(r)

IsNextLine(r, s) ==
    /\ lines[r][s] # NoRow
    /\ \A t \in Slots : lines[r][t] # NoRow => s <= t

CancelOrderRestock(r) ==
    /\ At(r, "CancelOrder", "restock")
    /\ \E s \in Slots :
          /\ IsNextLine(r, s)
          /\ IncreaseStock(r, lines[r][s].product, lines[r][s].quantity)
          /\ lines' = [lines EXCEPT ![r] = [@ EXCEPT ![s] = NoRow]]
    /\ UNCHANGED <<tables, ordersW, itemsW, orderLock, ids,
                   op, pc, user, target, want, seen, current, payment>>

CancelOrderRestocked(r) ==
    /\ At(r, "CancelOrder", "restock")
    /\ lines[r] = NoLines
    /\ Goto(r, "mark")
    /\ UNCHANGED <<database, op, user, target, want, seen, current, lines, payment>>

CancelOrderMark(r) == op[r] = "CancelOrder" /\ Mark(r, "cancelled")

-----------------------------------------------------------------------------
(* PayOrder: the provider is called while the order row is locked.         *)

BeginPayOrder(r) == BeginOnOrder(r, "PayOrder")

PayOrderRead(r) ==
    /\ op[r] = "PayOrder"
    /\ ReadOrderForUpdate(r, "charge")
    /\ UNCHANGED lines

PayOrderRefuse(r) == op[r] = "PayOrder" /\ RefuseOrder(r)

\* Fault: the status is not updated after a successful payment.
PayOrderSucceeds_Unmarked(r) ==
    /\ At(r, "PayOrder", "charge")
    /\ Charge(target[r])
    /\ Goto(r, "commit")
    /\ UNCHANGED <<database, op, user, target, want, seen, current, lines,
                   unsettled>>

PayOrderSucceeds(r) ==
    /\ At(r, "PayOrder", "charge")
    /\ Charge(target[r])
    /\ Goto(r, "mark")
    /\ UNCHANGED <<database, op, user, target, want, seen, current, lines,
                   unsettled>>

\* The provider answers failed, or timeout without having charged.
PayOrderFails(r) == At(r, "PayOrder", "charge") /\ Reject(r)

\* The provider's late charge: it answers timeout, and takes the money.
PayOrderTimesOut(r) ==
    /\ At(r, "PayOrder", "charge")
    /\ Charge(target[r])
    /\ ChargeLost(target[r])
    /\ Rollback(r)

PayOrderMark(r) == op[r] = "PayOrder" /\ Mark(r, "paid")

-----------------------------------------------------------------------------
(* UpdateOrderStatus: an administrator moves the order to any status the   *)
(* state machine allows.  Stock is not touched.                            *)

BeginUpdateOrderStatus(r) == BeginOnOrder(r, "UpdateOrderStatus")

UpdateOrderStatusRun(r) ==
    /\ At(r, "UpdateOrderStatus", "order")
    /\ OrderExists(target[r])
    /\ OrderAvailable(r, target[r])
    /\ \E new \in NewStatuses :
          /\ CanTransition(ordersW[target[r]].status, new)
          /\ SetStatus(target[r], new)
    /\ LockOrder(r, target[r])
    /\ Goto(r, "commit")
    /\ UNCHANGED <<tables, productsW, itemsW, productLock, ids,
                   op, user, target, want, seen, current, lines, payment>>

\* No such order, or a status it cannot move to.
UpdateOrderStatusRefuse(r) ==
    /\ At(r, "UpdateOrderStatus", "order")
    /\ \/ OrderMissing(r)
       \/ /\ OrderExists(target[r])
          /\ OrderAvailable(r, target[r])
          /\ \E new \in NewStatuses : ~CanTransition(ordersW[target[r]].status, new)
    /\ Reject(r)

-----------------------------------------------------------------------------
(* GetOrder: two plain reads, of the order and then of its lines; nothing  *)
(* is locked, and another transaction may commit between them.             *)

BeginGetOrder(r) == BeginOnOrder(r, "GetOrder")

GetOrderRow(r) ==
    /\ At(r, "GetOrder", "order")
    /\ OrderExists(target[r])
    /\ orders[target[r]].user = user[r]
    /\ current' = [current EXCEPT ![r] = orders[target[r]]]
    /\ Goto(r, "items")
    /\ UNCHANGED <<database, op, user, target, want, seen, lines, payment>>

GetOrderRefuse(r) ==
    /\ At(r, "GetOrder", "order")
    /\ \/ OrderMissing(r)
       \/ OrderExists(target[r]) /\ orders[target[r]].user # user[r]
    /\ Reject(r)

GetOrderItems(r) ==
    /\ At(r, "GetOrder", "items")
    /\ lines' = [lines EXCEPT ![r] = LinesSeenBy(r, target[r])]
    /\ Goto(r, "commit")
    /\ UNCHANGED <<database, op, user, target, want, seen, current, payment>>

-----------------------------------------------------------------------------
OrderServiceBegin(r) ==
    \/ BeginCreateOrder(r) \/ BeginCancelOrder(r) \/ BeginPayOrder(r)
    \/ BeginUpdateOrderStatus(r) \/ BeginGetOrder(r)

OrderServiceStep(r) ==
    \/ CreateOrderLock(r) \/ CreateOrderRefuse(r) \/ CreateOrderInsert(r)
    \/ CreateOrderLine(r) \/ CreateOrderDone(r)
    \/ CancelOrderRead(r) \/ CancelOrderRefuse(r) \/ CancelOrderRestock(r)
    \/ CancelOrderRestocked(r) \/ CancelOrderMark(r)
    \/ PayOrderRead(r) \/ PayOrderRefuse(r) \/ PayOrderSucceeds(r) \/ PayOrderFails(r)
    \/ PayOrderTimesOut(r) \/ PayOrderMark(r)
    \/ UpdateOrderStatusRun(r) \/ UpdateOrderStatusRefuse(r)
    \/ GetOrderRow(r) \/ GetOrderRefuse(r) \/ GetOrderItems(r)

=============================================================================
