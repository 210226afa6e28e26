---------------------------- MODULE CartService ----------------------------
(***************************************************************************)
(* internal/cart/service.go: a cart is the user's order with status draft. *)
(* Every method first reads the draft FOR UPDATE, so the requests of one   *)
(* user on his cart take turns.                                            *)
(***************************************************************************)
EXTENDS OrderService

\* The quantity q of product p, and nothing else.
Only(p, q) == [Nothing EXCEPT ![p] = q]

-----------------------------------------------------------------------------
(* GetDraft: SELECT ... WHERE user AND draft ORDER BY id LIMIT 1 FOR       *)
(* UPDATE.  The statement picks a row of its snapshot, waits for the lock, *)
(* and then looks again whether the row is still a draft: if it is not,    *)
(* it returns no row, even when a newer draft exists.                      *)

GetDraftSnapshot(r) ==
    /\ pc[r] = "snapshot"
    /\ \E o \in OrderIDs :
          /\ IsDraft(orders[o], user[r])
          /\ \A q \in OrderIDs : IsDraft(orders[q], user[r]) => o <= q
          /\ target' = [target EXCEPT ![r] = o]
    /\ Goto(r, "draft")
    /\ UNCHANGED <<database, op, user, want, seen, current, lines, payment>>

AfterDraft(m) ==
    CASE m \in {"AddItem", "UpdateItem"} -> "product"
      [] m = "DeleteItem"                -> "remove"
      [] OTHER                           -> "items"

\* Fault: the draft is not looked at again once its lock is granted.
GetDraftLock_Stale(r) ==
    /\ pc[r] = "draft"
    /\ OrderAvailable(r, target[r])
    /\ LockOrder(r, target[r])
    /\ current' = [current EXCEPT ![r] = ordersW[target[r]]]
    /\ Goto(r, AfterDraft(op[r]))
    /\ UNCHANGED <<tables, working, productLock, ids, op, user, target, want,
                   seen, lines, payment>>

\* Fault: GetCart, which writes nothing, reads the draft without FOR UPDATE.
GetDraftLock_NoLock(r) ==
    /\ pc[r] = "draft"
    /\ IF op[r] = "GetCart"
       THEN /\ current' = [current EXCEPT ![r] = orders[target[r]]]
            /\ UNCHANGED orderLock
       ELSE /\ OrderAvailable(r, target[r])
            /\ IsDraft(ordersW[target[r]], user[r])
            /\ LockOrder(r, target[r])
            /\ current' = [current EXCEPT ![r] = ordersW[target[r]]]
    /\ Goto(r, AfterDraft(op[r]))
    /\ UNCHANGED <<tables, working, productLock, ids, op, user, target, want,
                   seen, lines, payment>>

GetDraftLock(r) ==
    /\ pc[r] = "draft"
    /\ OrderAvailable(r, target[r])
    /\ IsDraft(ordersW[target[r]], user[r])
    /\ LockOrder(r, target[r])
    /\ current' = [current EXCEPT ![r] = ordersW[target[r]]]
    /\ Goto(r, AfterDraft(op[r]))
    /\ UNCHANGED <<tables, working, productLock, ids, op, user, target, want,
                   seen, lines, payment>>

\* Fault: FOR UPDATE SKIP LOCKED, and a locked draft is no draft.
NoDraft_SkipLocked(r) ==
    \/ /\ pc[r] = "snapshot"
       /\ \A o \in OrderIDs : ~IsDraft(orders[o], user[r])
    \/ /\ pc[r] = "draft"
       /\ OrderAvailable(r, target[r]) => ~IsDraft(ordersW[target[r]], user[r])

\* GetDraft returns no row.
NoDraft(r) ==
    \/ /\ pc[r] = "snapshot"
       /\ \A o \in OrderIDs : ~IsDraft(orders[o], user[r])
    \/ /\ pc[r] = "draft"
       /\ OrderAvailable(r, target[r])
       /\ ~IsDraft(ordersW[target[r]], user[r])

CartNotFound(r) ==
    /\ op[r] \in {"UpdateItem", "DeleteItem", "Checkout"}
    /\ NoDraft(r)
    /\ Reject(r)

-----------------------------------------------------------------------------
(* GetCart.                                                                *)

BeginCart(r, m, w) ==
    /\ \E u \in Users : Begin(r, m, u, NoOrder, w, "snapshot")
    /\ UNCHANGED payment

BeginGetCart(r) == BeginCart(r, "GetCart", Nothing)

\* A user without a cart gets an empty one; none is created.
GetCartEmpty(r) ==
    /\ op[r] = "GetCart"
    /\ NoDraft(r)
    /\ Goto(r, "commit")
    /\ UNCHANGED <<database, op, user, target, want, seen, current, lines, payment>>

GetCartItems(r) ==
    /\ At(r, "GetCart", "items")
    /\ lines' = [lines EXCEPT ![r] = LinesSeenBy(r, target[r])]
    /\ Goto(r, "commit")
    /\ UNCHANGED <<database, op, user, target, want, seen, current, payment>>

-----------------------------------------------------------------------------
(* getOrCreateDraft and the unique index on one draft per user.            *)

\* Another transaction has made a draft of u, or stopped a draft of u from
\* being one, and has not committed: the insertion waits for it.
DraftUndecided(r, u) ==
    \E o \in OrderIDs :
        /\ ~OrderAvailable(r, o)
        /\ IsDraft(orders[o], u) # IsDraft(ordersW[o], u)

HasDraft(u) == \E o \in OrderIDs : IsDraft(orders[o], u) /\ IsDraft(ordersW[o], u)

AddItemNoDraft(r) ==
    /\ op[r] = "AddItem"
    /\ NoDraft(r)
    /\ Goto(r, "create")
    /\ UNCHANGED <<database, op, user, target, want, seen, current, lines, payment>>

\* Fault: no unique index on the drafts of a user.
CreateDraft_NoIndex(r) ==
    /\ At(r, "AddItem", "create")
    /\ InsertOrder(r, [user |-> user[r], status |-> "draft",
                       total |-> 0, currency |-> NoCurrency])
    /\ Goto(r, "product")
    /\ UNCHANGED <<tables, productsW, itemsW, productLock, nextProduct,
                   op, user, want, seen, current, lines, payment>>

CreateDraft(r) ==
    /\ At(r, "AddItem", "create")
    /\ ~DraftUndecided(r, user[r])
    /\ ~HasDraft(user[r])
    /\ InsertOrder(r, [user |-> user[r], status |-> "draft",
                       total |-> 0, currency |-> NoCurrency])
    /\ Goto(r, "product")
    /\ UNCHANGED <<tables, productsW, itemsW, productLock, nextProduct,
                   op, user, want, seen, current, lines, payment>>

\* The unique index refuses a second draft.
CreateDraftRefuse(r) ==
    /\ At(r, "AddItem", "create")
    /\ HasDraft(user[r])
    /\ Reject(r)

-----------------------------------------------------------------------------
(* recalculate: the total of the cart from the prices its lines have, its  *)
(* currency from the products.                                             *)

LineCurrencies(r, ls) ==
    {ProductSeenBy(r, ls[s].product).currency : s \in {t \in Slots : ls[t] # NoRow}}

WithTotal(row, total, c) == [row EXCEPT !.total = total, !.currency = c]
UpdateTotal(o, total, c) ==
    ordersW' = [ordersW EXCEPT ![o] = WithTotal(@, total, c)]

Recalculate(r) ==
    LET ls == itemsW[target[r]]
    IN  /\ pc[r] = "recalculate"
        /\ \/ ls = NoLines /\ UpdateTotal(target[r], 0, NoCurrency)
           \/ \E c \in Currencies :
                /\ LineCurrencies(r, ls) = {c}
                /\ IsAmount(LinesTotal(ls))
                /\ UpdateTotal(target[r], LinesTotal(ls), c)
        /\ Goto(r, "commit")
        /\ UNCHANGED <<tables, productsW, itemsW, locks, ids,
                       op, user, target, want, seen, current, lines, payment>>

RecalculateRefuse(r) ==
    /\ pc[r] = "recalculate"
    /\ \E c, d \in LineCurrencies(r, itemsW[target[r]]) : c # d
    /\ Reject(r)

-----------------------------------------------------------------------------
(* AddItem, UpdateItem and DeleteItem.                                     *)

BeginOnItem(r, m, quantities) ==
    \E p \in ProductIDs, q \in quantities : BeginCart(r, m, Only(p, q))

BeginAddItem(r)    == BeginOnItem(r, "AddItem", Quantities)
BeginUpdateItem(r) == BeginOnItem(r, "UpdateItem", Quantities)
BeginDeleteItem(r) == BeginOnItem(r, "DeleteItem", {1})

\* GetByIDForUpdate of the product, the check of its stock against q, and
\* the line written.
WriteLine(r, p, q, ls) ==
    /\ ProductExists(p)
    /\ ProductAvailable(r, p)
    /\ productsW[p].stock >= q
    /\ LockProduct(r, p)
    /\ itemsW' = [itemsW EXCEPT ![target[r]] = ls]
    /\ Goto(r, "recalculate")
    /\ UNCHANGED <<tables, productsW, ordersW, orderLock, ids,
                   op, user, target, want, seen, current, lines, payment>>

\* The product is gone, or has less stock than q.
LineRefused(r, p, q) ==
    \/ ~ProductExists(p)
    \/ ProductExists(p) /\ ProductAvailable(r, p) /\ productsW[p].stock < q

\* AddItem adds to the line there is, which keeps its price.
AddItemToLine(r) ==
    /\ At(r, "AddItem", "product")
    /\ \E p \in ProductIDs :
         LET ls == itemsW[target[r]]
             q  == want[r][p] + LineQuantity(ls, p)
         IN  /\ want[r][p] > 0
             /\ References(ls, p)
             /\ WriteLine(r, p, q, WithQuantity(ls, p, q))

\* Fault: AddItem inserts a line without looking for one.
AddItemNewLine_Always(r) ==
    /\ At(r, "AddItem", "product")
    /\ \E p \in ProductIDs, s \in Slots :
         LET ls == itemsW[target[r]]
             q  == want[r][p]
         IN  /\ q > 0
             /\ IsFreeSlot(ls, s)
             /\ WriteLine(r, p, q, AppendLine(ls, s, p, q, productsW[p].price))

\* AddItem makes a line at the product's price where there is none.
AddItemNewLine(r) ==
    /\ At(r, "AddItem", "product")
    /\ \E p \in ProductIDs, s \in Slots :
         LET ls == itemsW[target[r]]
             q  == want[r][p]
         IN  /\ q > 0
             /\ ~References(ls, p)
             /\ IsFreeSlot(ls, s)
             /\ WriteLine(r, p, q, AppendLine(ls, s, p, q, productsW[p].price))

AddItemRefuse(r) ==
    /\ At(r, "AddItem", "product")
    /\ \E p \in ProductIDs :
          /\ want[r][p] > 0
          /\ LineRefused(r, p, want[r][p] + LineQuantity(itemsW[target[r]], p))
    /\ Reject(r)

UpdateItemRun(r) ==
    /\ At(r, "UpdateItem", "product")
    /\ \E p \in ProductIDs :
         LET ls == itemsW[target[r]]
             q  == want[r][p]
         IN  /\ q > 0
             /\ References(ls, p)
             /\ WriteLine(r, p, q, WithQuantity(ls, p, q))

UpdateItemRefuse(r) ==
    /\ At(r, "UpdateItem", "product")
    /\ \E p \in ProductIDs :
          /\ want[r][p] > 0
          /\ \/ LineRefused(r, p, want[r][p])
             \/ /\ ProductExists(p)
                /\ ProductAvailable(r, p)
                /\ ~References(itemsW[target[r]], p)
    /\ Reject(r)

\* Fault: the total is not recalculated.
DeleteItemRun_NoRecalculate(r) ==
    /\ At(r, "DeleteItem", "remove")
    /\ \E p \in ProductIDs :
          /\ want[r][p] > 0
          /\ References(itemsW[target[r]], p)
          /\ itemsW' = [itemsW EXCEPT ![target[r]] = WithoutProduct(@, p)]
    /\ Goto(r, "commit")
    /\ UNCHANGED <<tables, productsW, ordersW, locks, ids,
                   op, user, target, want, seen, current, lines, payment>>

DeleteItemRun(r) ==
    /\ At(r, "DeleteItem", "remove")
    /\ \E p \in ProductIDs :
          /\ want[r][p] > 0
          /\ References(itemsW[target[r]], p)
          /\ itemsW' = [itemsW EXCEPT ![target[r]] = WithoutProduct(@, p)]
    /\ Goto(r, "recalculate")
    /\ UNCHANGED <<tables, productsW, ordersW, locks, ids,
                   op, user, target, want, seen, current, lines, payment>>

DeleteItemRefuse(r) ==
    /\ At(r, "DeleteItem", "remove")
    /\ \E p \in ProductIDs :
          want[r][p] > 0 /\ ~References(itemsW[target[r]], p)
    /\ Reject(r)

-----------------------------------------------------------------------------
(* Checkout: the lines are read, their products locked in increasing order *)
(* and checked again, the prices fixed, the stock taken.                   *)

BeginCheckout(r) == BeginCart(r, "Checkout", Nothing)

CheckoutItems(r) ==
    /\ At(r, "Checkout", "items")
    /\ itemsW[target[r]] # NoLines
    /\ want' = [want EXCEPT ![r] =
                  [p \in ProductIDs |-> LineQuantity(itemsW[target[r]], p)]]
    /\ Goto(r, "lock")
    /\ UNCHANGED <<database, op, user, target, seen, current, lines, payment>>

EmptyCart(r) ==
    /\ At(r, "Checkout", "items")
    /\ itemsW[target[r]] = NoLines
    /\ Reject(r)

CheckoutLock(r)   == op[r] = "Checkout" /\ LockSaleProduct(r, "price")
CheckoutRefuse(r) == op[r] = "Checkout" /\ RefuseSale(r)

\* Fault: the lines keep the prices they had in the cart.
AtCurrentPrices_FromCart(ls) == ls

\* UpdateItemPrice: every line at the price its product has when it is read
\* again.
AtCurrentPrices(ls) ==
    [s \in Slots |-> IF ls[s] = NoRow THEN NoRow
                     ELSE LineWithPrice(ls[s], productsW[ls[s].product].price)]

CheckoutPrice(r) ==
    /\ At(r, "Checkout", "price")
    /\ itemsW' = [itemsW EXCEPT ![target[r]] = AtCurrentPrices(@)]
    /\ IsAmount(SaleTotal(r))
    /\ \E c \in Currencies :
          IsSaleCurrency(r, c) /\ UpdateTotal(target[r], SaleTotal(r), c)
    /\ Goto(r, "take")
    /\ UNCHANGED <<tables, productsW, locks, ids,
                   op, user, target, want, seen, current, lines, payment>>

CheckoutTake(r) ==
    /\ At(r, "Checkout", "take")
    /\ \E p \in ProductIDs :
          /\ IsNextToTake(r, p)
          /\ StockAllows(p, want[r][p])
          /\ DecreaseStock(p, want[r][p])
          /\ seen' = [seen EXCEPT ![r] = [@ EXCEPT ![p] = NoRow]]
    /\ UNCHANGED <<tables, ordersW, itemsW, locks, ids,
                   op, pc, user, target, want, current, lines, payment>>

\* Fault: the draft becomes pending before all its stock is taken.
CheckoutSubmit_Early(r) ==
    /\ At(r, "Checkout", "take")
    /\ SetStatus(target[r], "pending")
    /\ Goto(r, "commit")
    /\ UNCHANGED <<tables, productsW, itemsW, locks, ids,
                   op, user, target, want, seen, current, lines, payment>>

CheckoutSubmit(r) ==
    /\ At(r, "Checkout", "take")
    /\ AllTaken(r)
    /\ SetStatus(target[r], "pending")
    /\ Goto(r, "commit")
    /\ UNCHANGED <<tables, productsW, itemsW, locks, ids,
                   op, user, target, want, seen, current, lines, payment>>

-----------------------------------------------------------------------------
CartServiceBegin(r) ==
    \/ BeginGetCart(r) \/ BeginAddItem(r) \/ BeginUpdateItem(r)
    \/ BeginDeleteItem(r) \/ BeginCheckout(r)

CartServiceStep(r) ==
    \/ GetDraftSnapshot(r) \/ GetDraftLock(r) \/ CartNotFound(r)
    \/ GetCartEmpty(r) \/ GetCartItems(r)
    \/ AddItemNoDraft(r) \/ CreateDraft(r) \/ CreateDraftRefuse(r)
    \/ Recalculate(r) \/ RecalculateRefuse(r)
    \/ AddItemToLine(r) \/ AddItemNewLine(r) \/ AddItemRefuse(r)
    \/ UpdateItemRun(r) \/ UpdateItemRefuse(r)
    \/ DeleteItemRun(r) \/ DeleteItemRefuse(r)
    \/ CheckoutItems(r) \/ EmptyCart(r) \/ CheckoutLock(r) \/ CheckoutRefuse(r)
    \/ CheckoutPrice(r) \/ CheckoutTake(r) \/ CheckoutSubmit(r)

=============================================================================
