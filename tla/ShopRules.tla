------------------------------ MODULE ShopRules ------------------------------
(***************************************************************************)
(* The second inductive invariant of Shop, on top of IInv: what the two    *)
(* versions of an order have to do with each other, and what a request may *)
(* rely on of the order it works on.  The rules of the shop follow from    *)
(* it: carts, the state machine of an order, prices, payments.             *)
(***************************************************************************)
EXTENDS ShopInvariant

StatusOf(row) == IF row = NoRow THEN Absent ELSE row.status

-----------------------------------------------------------------------------
(* Rows.                                                                   *)

\* A transaction moves the status of an order at most once.
OneMove(o) ==
    StatusOf(ordersW[o]) \in {StatusOf(orders[o])}
                             \cup Lifecycle!Successors(StatusOf(orders[o]))

\* Of an order that was placed before the transaction only the status.
OnlyStatusMoves(o) ==
    IsPlaced(orders[o]) =>
        /\ itemsW[o] = items[o]
        /\ [ordersW[o] EXCEPT !.status = orders[o].status] = orders[o]

\* No two lines are of one product.
OnceEach(ls) ==
    \A s, t \in Slots :
        s # t /\ ls[s] # NoRow /\ ls[t] # NoRow => ls[s].product # ls[t].product

\* Who adds a line keeps its product locked until he commits.
NewLinesLocked(o) ==
    \A p \in ProductIDs :
        References(itemsW[o], p) /\ ~References(items[o], p) =>
            orderLock[o] # None /\ productLock[p] = orderLock[o]

\* The owner of the order has locked the products of its lines, and the
\* lines have their prices.
Priced(o) ==
    \A s \in Slots :
        LET line == itemsW[o][s]
        IN  line # NoRow =>
                /\ productLock[line.product] = orderLock[o]
                /\ productsW[line.product].price = line.price
                /\ productsW[line.product].currency = ordersW[o].currency

SoldPriced(o) == IsPlaced(ordersW[o]) /\ ~IsPlaced(orders[o]) => Priced(o)

\* The lines that everyone sees are of products that everyone sees.
CommittedLinesExist(o) ==
    \A p \in ProductIDs : References(items[o], p) => products[p] # NoRow

OrderRules(o) ==
    /\ OneMove(o)
    /\ OnlyStatusMoves(o)
    /\ OnceEach(items[o]) /\ OnceEach(itemsW[o])
    /\ NewLinesLocked(o)
    /\ SoldPriced(o)
    /\ CommittedLinesExist(o)
    /\ o >= nextOrder => items[o] = NoLines

\* A user has one order that is a draft, in either version.
MayBeDraft(o, u) == IsDraft(orders[o], u) \/ IsDraft(ordersW[o], u)
DraftRule ==
    \A u \in Users : \A o, q \in OrderIDs :
        MayBeDraft(o, u) /\ MayBeDraft(q, u) => o = q

PaidStatuses == {"paid", "processing", "shipped", "completed"}
IsPaid(row) == row # NoRow /\ row.status \in PaidStatuses

\* r has the money for order o and is about to say so.
IsSettling(r, o) == op[r] = "PayOrder" /\ target[r] = o /\ pc[r] \in {"mark", "commit"}

ChargeRule ==
    \A o \in charged \ unsettled :
        /\ o \in OrderIDs
        /\ IsPaid(orders[o]) \/ \E r \in Requests : IsSettling(r, o)

-----------------------------------------------------------------------------
(* Requests.                                                               *)

\* Where r has locked no order.
HoldsNoOrder(r) ==
    \/ pc[r] \in {"idle", "order", "snapshot", "draft", "create"}
    \/ op[r] = "CreateOrder" /\ pc[r] \in {"lock", "insert"}
    \/ op[r] \in {"CreateProduct", "UpdateProduct", "DeleteProduct"}

\* r locks one order only.
LocksItsOrder(r) ==
    \A o \in OrderIDs : orderLock[o] = r => o = target[r] /\ ~HoldsNoOrder(r)

EditMethods == {"AddItem", "UpdateItem", "DeleteItem", "Checkout"}

\* What a method of the cart edits has not been placed.
EditsDraft(r) ==
    (op[r] \in EditMethods /\ OwnsTarget(r)) \/ pc[r] = "recalculate" =>
        /\ ordersW[target[r]].status = "draft"
        /\ ~IsPlaced(orders[target[r]])

\* CreateOrder adds lines of other products than those it has, to an order
\* that nobody else sees.
FillsNewOrder(r) ==
    At(r, "CreateOrder", "lines") =>
        /\ orders[target[r]] = NoRow
        /\ IsPlaced(ordersW[target[r]])
        /\ \A p \in ProductIDs :
              seen[r][p] # NoRow =>
                  /\ ~References(itemsW[target[r]], p)
                  /\ seen[r][p].currency = ordersW[target[r]].currency

\* What CancelOrder and PayOrder have read they have not changed yet.
MovesPending(r) ==
    op[r] \in {"CancelOrder", "PayOrder"} /\ OwnsTarget(r) =>
        /\ ordersW[target[r]] = orders[target[r]]
        /\ orders[target[r]] # NoRow
        /\ orders[target[r]].status = "pending"

MarksPaid(r) ==
    At(r, "PayOrder", "commit") =>
        /\ target[r] \in OrderIDs
        /\ orderLock[target[r]] = r
        /\ IsPaid(ordersW[target[r]])

\* A sale is in one currency.
OneCurrency(r) ==
    \A p, q \in ProductIDs :
        seen[r][p] # NoRow /\ seen[r][q] # NoRow =>
            seen[r][p].currency = seen[r][q].currency

\* Once Checkout has fixed the prices of the lines they stay those of the
\* products.
KeepsPrices(r) == At(r, "Checkout", "take") => Priced(target[r])

\* DeleteProduct locks the one product it was asked for, and commits only
\* when no committed line is of it.
DeletesUnused(r) ==
    op[r] = "DeleteProduct" =>
        /\ \A p, q \in ProductIDs : want[r][p] > 0 /\ want[r][q] > 0 => p = q
        /\ \A p \in ProductIDs :
              productLock[p] = r =>
                  /\ want[r][p] > 0
                  /\ pc[r] = "commit" =>
                        \A o \in OrderIDs : ~References(items[o], p)

RequestRules(r) ==
    /\ LocksItsOrder(r)
    /\ EditsDraft(r)
    /\ FillsNewOrder(r)
    /\ MovesPending(r)
    /\ MarksPaid(r)
    /\ OneCurrency(r)
    /\ KeepsPrices(r)
    /\ DeletesUnused(r)

Rules ==
    /\ \A o \in OrderIDs : OrderRules(o)
    /\ DraftRule
    /\ ChargeRule
    /\ \A r \in Requests : RequestRules(r)

=============================================================================
