-------------------------------- MODULE Shop --------------------------------
(***************************************************************************)
(* The FinCart backend: requests of the three services run concurrently    *)
(* over one database.                                                      *)
(***************************************************************************)
EXTENDS ProductService

vars == <<database, session, payment>>

Init == StoreInit /\ PaymentInit

\* A request runs its transaction to the end ...
CommitRequest(r) == Commit(r) /\ UNCHANGED payment

\* ... unless it is cut short before the commit: the client goes away and
\* cancels the context, a statement fails, the connection drops, the server
\* stops, or PostgreSQL picks it as the victim of a deadlock.  Money the
\* provider has taken by then is not given back.
Abort(r) ==
    /\ pc[r] # "idle"
    /\ Rollback(r)
    /\ IF op[r] = "PayOrder" /\ pc[r] \in {"mark", "commit"}
       THEN ChargeLost(target[r]) /\ UNCHANGED charged
       ELSE UNCHANGED payment

\* An INSERT past MaxOrders or MaxProducts fails: the bound of the model.
TableFull(r) ==
    /\ \/ At(r, "CreateProduct", "product") /\ nextProduct \notin ProductIDs
       \/ pc[r] \in {"insert", "create"} /\ nextOrder \notin OrderIDs
    /\ Reject(r)

Begins(r) ==
    OrderServiceBegin(r) \/ CartServiceBegin(r) \/ ProductServiceBegin(r)

Step(r) ==
    \/ OrderServiceStep(r) \/ CartServiceStep(r) \/ ProductServiceStep(r)
    \/ CommitRequest(r) \/ TableFull(r)

Next == \E r \in Requests : Begins(r) \/ Step(r) \/ Abort(r)

Spec == Init /\ [][Next]_vars

-----------------------------------------------------------------------------
(* Safety.                                                                 *)

TypeOK ==
    /\ products \in Products /\ productsW \in Products
    /\ orders \in Orders /\ ordersW \in Orders
    /\ items \in [OrderIDs -> Lines] /\ itemsW \in [OrderIDs -> Lines]
    /\ productLock \in [ProductIDs -> Requests \cup {None}]
    /\ orderLock \in [OrderIDs -> Requests \cup {None}]
    /\ nextProduct \in Nat /\ nextOrder \in Nat
    /\ op \in [Requests -> Methods \cup {"none"}]
    /\ pc \in [Requests -> Labels]
    /\ user \in [Requests -> Users \cup {None}]
    /\ target \in [Requests -> OrderIDs \cup {NoOrder}]
    /\ want \in [Requests -> [ProductIDs -> Nat]]
    /\ seen \in [Requests -> Products]
    /\ current \in [Requests -> OrderRow \cup {NoRow}]
    /\ lines \in [Requests -> Lines]
    /\ charged \subseteq OrderIDs \cup {NoOrder}
    /\ unsettled \subseteq OrderIDs \cup {NoOrder}

IsPlaced(row) == row # NoRow /\ row.status # "draft"

\* What a sale has read it still owns: from the SELECT ... FOR UPDATE of a
\* product to the UPDATE that takes its stock, in CreateOrder and Checkout,
\* nobody else locks the row or writes it, and it has the stock the sale
\* takes.  So stock is never oversold and CHECK (stock >= 0) never fires.
ClaimsHold ==
    \A r \in Requests, p \in ProductIDs :
        seen[r][p] # NoRow =>
            /\ productLock[p] = r
            /\ productsW[p] = seen[r][p]
            /\ seen[r][p].stock >= want[r][p]

\* Between the answer of the payment provider and the commit of PayOrder the
\* order stays what was paid for: pending, with the same lines and total,
\* and nobody else can cancel it or move it on.
PaidOrderIsTheChargedOne ==
    \A r \in Requests :
        At(r, "PayOrder", "charge") \/ At(r, "PayOrder", "mark") =>
            /\ orders[target[r]] = current[r]
            /\ current[r].status = "pending"
            /\ current[r].total = LinesTotal(items[target[r]])

\* Money is taken only for an order that is paid or about to be, but for the
\* money that a rolled-back PayOrder leaves behind.
ChargedOrdersGetPaid ==
    \A o \in charged \ unsettled :
        \/ orders[o].status \in {"paid", "processing", "shipped", "completed"}
        \/ \E r \in Requests : op[r] = "PayOrder" /\ target[r] = o
                               /\ pc[r] \in {"mark", "commit"}

\* No order is paid for twice: the provider is never about to be called for
\* an order whose money it has taken and whose PayOrder has committed or may
\* still commit, whether two PayOrders of it race or one is sent again after
\* the answer of its commit was lost.  Only the money that a rolled-back
\* PayOrder leaves behind can be taken again.
NoSecondCharge ==
    \A r \in Requests :
        At(r, "PayOrder", "charge") => target[r] \notin charged \ unsettled

\* In every committed order, a cart or a placed one, total_amount is the sum
\* over its lines of quantity times unit price, and no order is placed
\* without lines, although three services of transactions write the two.
TotalsMatchLines ==
    \A o \in OrderIDs :
        orders[o] # NoRow =>
            /\ orders[o].total = LinesTotal(items[o])
            /\ IsPlaced(orders[o]) => items[o] # NoLines

\* An order has at most one line per product, which no constraint of the
\* schema requires: AddItem looks for the line before it inserts one.
OneLinePerProduct ==
    \A o \in OrderIDs : \A s, t \in Slots :
        s # t /\ items[o][s] # NoRow /\ items[o][t] # NoRow =>
            items[o][s].product # items[o][t].product

\* "A user always has at most one active cart", however his first AddItem
\* calls race with each other and with Checkout.
OneDraftPerUser ==
    \A u \in Users : \A o, q \in OrderIDs :
        IsDraft(orders[o], u) /\ IsDraft(orders[q], u) => o = q

\* Every committed line is of a product that exists, however DeleteProduct
\* races with AddItem, CreateOrder and DeleteItem; so CancelOrder never
\* restocks a product that is gone.
LinesHaveProducts ==
    \A o \in OrderIDs, s \in Slots :
        items[o][s] # NoRow => products[items[o][s].product] # NoRow

\* What GetCart returns, and what GetOrder returns of an order that was
\* placed when its row was read, is one state of the order: the lines add
\* up to the total, although the two reads lock nothing in GetOrder.
RepliesAreConsistent ==
    \A r \in Requests :
        /\ pc[r] = "commit"
        /\ \/ op[r] = "GetCart" /\ target[r] # NoOrder /\ current[r] # NoRow
           \/ op[r] = "GetOrder" /\ IsPlaced(current[r])
        => current[r].total = LinesTotal(lines[r])

-----------------------------------------------------------------------------
(* What a step may do.                                                     *)

\* A placed order keeps its owner, lines, prices, total and currency for
\* ever; only its status moves.
PlacedOrdersAreFixed ==
    [][\A o \in OrderIDs :
          IsPlaced(orders[o]) =>
              /\ IsPlaced(orders'[o])
              /\ items'[o] = items[o]
              /\ [orders'[o] EXCEPT !.status = orders[o].status] = orders[o]]_vars

\* The units of product p that placed orders hold.
Held(os, is, p) ==
    Sum([o \in OrderIDs |->
           IF IsPlaced(os[o]) /\ os[o].status # "cancelled"
           THEN QuantityOf(is[o], p) ELSE 0])

\* The administrator overwrites the stock, or cancels an order by its status.
StockOverwritten(p) ==
    \E r \in Requests : At(r, "UpdateProduct", "commit") /\ productLock[p] = r
CancelledByStatus ==
    \E r \in Requests, o \in OrderIDs :
        /\ At(r, "UpdateOrderStatus", "commit")
        /\ orderLock[o] = r /\ ordersW[o].status = "cancelled"

\* Units are neither made nor lost: what a commit takes from the stock of a
\* product it gives to orders and the other way round, across CreateOrder,
\* Checkout, CancelOrder and every rollback.  The two ways an administrator
\* has round this are named above.
StockFollowsOrders ==
    [][\A p \in ProductIDs :
          products[p] # NoRow /\ products'[p] # NoRow =>
              \/ products'[p].stock + Held(orders', items', p)
                     = products[p].stock + Held(orders, items, p)
              \/ StockOverwritten(p)
              \/ CancelledByStatus]_vars

\* An order is placed at the prices its products have when it is placed:
\* "the price is fixed at the moment of checkout", not when the item went
\* into the cart, and an UpdateProduct in between is not missed.
SoldAtCurrentPrice ==
    [][\A o \in OrderIDs, s \in Slots :
          /\ IsPlaced(orders'[o]) /\ ~IsPlaced(orders[o])
          /\ items'[o][s] # NoRow
          => /\ products'[items'[o][s].product].price = items'[o][s].price
             /\ products'[items'[o][s].product].currency = orders'[o].currency]_vars

\* "To lower the risk of deadlock the product ids are sorted before they are
\* locked": a transaction locks products in increasing order of their ids.
ProductLocksAscending ==
    [][\A r \in Requests, p \in ProductIDs :
          productLock[p] # r /\ productLock'[p] = r =>
              \A q \in ProductIDs : productLock[q] = r => q < p]_vars

-----------------------------------------------------------------------------
(* Refinement: the status of the committed orders is an OrderLifecycle.    *)

Absent == "absent"

Lifecycle == INSTANCE OrderLifecycle WITH
    status <- [o \in OrderIDs |-> IF orders[o] = NoRow THEN Absent
                                  ELSE orders[o].status]

\* The committed orders follow the state machine of status.go, whatever the
\* transactions that Checkout, PayOrder, CancelOrder and an administrator
\* run against the same order.
RefinesLifecycle == Lifecycle!LifecycleSpec

Atomic == INSTANCE AtomicShop

\* Requests are serializable, in the order in which they commit: although
\* transactions run at READ COMMITTED, and each of their statements sees
\* what has been committed by then, the tables change as if every call had
\* read and written all its rows at the moment of its commit.  (Of a cart's
\* currency AtomicShop promises less.)
RefinesAtomicShop == Atomic!AtomicSpec

=============================================================================
