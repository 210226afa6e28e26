----------------------------- MODULE HttpProofs -----------------------------
(***************************************************************************)
(* The answers of the backend, for every number of requests, users,        *)
(* products, orders and lines: they are those the API document lists, the  *)
(* refusals among them are true, and PayOrder is answered as it went.      *)
(*                                                                         *)
(* Http runs Shop (HttpRunsTheShop), so the four invariants of Shop hold   *)
(* behind it.  Two more are added: CallRules, of requests and orders,      *)
(* which is an invariant of Shop, and KnowsCartless, of the variable that  *)
(* Http keeps of the past.  A refusal is true because what it is about is  *)
(* read under a lock, or is still as it is committed: each refusing step   *)
(* has a lemma that says which.                                            *)
(***************************************************************************)
EXTENDS HttpRules, BooksProofs

-----------------------------------------------------------------------------
(* The calls: CallRules is preserved by every step of the backend.         *)

\* The calls of t are about its session, its locks and money that is taken.
LEMMA OthersKeepCalls ==
    ASSUME IInv, Rules, CallRules, NEW r \in Requests, NEW t \in Requests, t # r,
           Others(r), KeepsLocked(t), charged \subseteq charged'
    PROVE  IsCall(t)' /\ HasPaid(t)' /\ EditsAsAsked(t)'
<1> USE NullAssumption
<1>1. op'[t] = op[t] /\ pc'[t] = pc[t] /\ target'[t] = target[t] /\ want'[t] = want[t]
  BY DEF Others, OtherSessions
<1>2. /\ IsCall(t) /\ HasPaid(t) /\ EditsAsAsked(t)
      /\ RequestInv(t) /\ MarksPaid(t)
  BY DEF CallRules, IInv, Rules, RequestRules
<1>3. ASSUME NEW o \in OrderIDs, orderLock[o] = t
      PROVE  ordersW'[o] = ordersW[o] /\ itemsW'[o] = itemsW[o] /\ items'[o] = items[o]
  BY <1>3 DEF Others, OtherRows, KeepsLocked
<1>4. IsCall(t)'
  BY <1>1, <1>2 DEF IsCall
<1>5. HasPaid(t)'
  BY <1>1, <1>2, <1>3 DEF HasPaid, MarksPaid, At
<1>6. EditsAsAsked(t)'
  BY <1>1, <1>2, <1>3 DEF EditsAsAsked, Asked, References, RequestInv, OwnsTarget
<1> QED
  BY <1>4, <1>5, <1>6

\* It suffices to look at the request that steps and at the owners.
LEMMA CallsPreserved ==
    ASSUME IInv, Rules, CallRules, NEW r \in Requests, Preserved(r),
           \A t \in Requests \ {r} : KeepsLocked(t), charged \subseteq charged',
           IsCall(r)', HasPaid(r)', EditsAsAsked(r)',
           \A o \in OrderIDs : KeepsOwner(o)' /\ LinesHaveOrder(o)'
    PROVE  CallRules'
<1>1. ASSUME NEW t \in Requests PROVE IsCall(t)' /\ HasPaid(t)' /\ EditsAsAsked(t)'
  <2>1. CASE t = r
    BY <2>1
  <2>2. CASE t # r
    BY <2>2, OthersKeepCalls DEF Preserved
  <2> QED
    BY <2>1, <2>2
<1> QED
  BY <1>1 DEF CallRules

\* A statement that leaves the owners of orders alone.
LEMMA StatementCalls ==
    ASSUME IInv, Rules, CallRules, NEW r \in Requests, Preserved(r),
           UNCHANGED tables, charged \subseteq charged',
           \A o \in OrderIDs : orders[o] # NoRow => ordersW'[o].user = ordersW[o].user,
           IsCall(r)', HasPaid(r)', EditsAsAsked(r)'
    PROVE  CallRules'
<1>1. \A t \in Requests \ {r} : KeepsLocked(t)
  BY DEF KeepsLocked, tables
<1>2. \A o \in OrderIDs : KeepsOwner(o)' /\ LinesHaveOrder(o)'
  BY DEF CallRules, KeepsOwner, LinesHaveOrder, tables
<1> QED
  BY <1>1, <1>2, CallsPreserved

\* A statement that is neither one of PayOrder's last nor an edit of lines.
LEMMA PlainCalls ==
    ASSUME IInv, Rules, CallRules, NEW r \in Requests, Preserved(r),
           UNCHANGED tables, UNCHANGED payment, op'[r] = op[r], pc[r] # "idle",
           pc'[r] \notin {"order", "recalculate"},
           op[r] # "PayOrder" \/ pc'[r] \notin {"mark", "commit"},
           \A o \in OrderIDs : orders[o] # NoRow => ordersW'[o].user = ordersW[o].user
    PROVE  CallRules'
<1>1. IsCall(r)
  BY DEF CallRules
<1>2. IsCall(r)' /\ HasPaid(r)' /\ EditsAsAsked(r)'
  BY <1>1 DEF IsCall, HasPaid, EditsAsAsked
<1> QED
  BY <1>2, StatementCalls DEF payment

\* A request that ends.
LEMMA EndedCalls ==
    ASSUME NEW r \in Requests, pc'[r] = "idle"
    PROVE  IsCall(r)' /\ HasPaid(r)' /\ EditsAsAsked(r)'
  BY DEF IsCall, HasPaid, EditsAsAsked

\* A rollback gives the rows back to their owners.
LEMMA RollbackCalls ==
    ASSUME IInv, Rules, CallRules, NEW r \in Requests, Preserved(r), Rollback(r),
           charged \subseteq charged'
    PROVE  CallRules'
<1>1. pc'[r] = "idle" /\ UNCHANGED tables
  BY DEF Rollback, Return, Goto, IInv, TypeOK
<1>2. \A t \in Requests \ {r} : KeepsLocked(t)
  BY <1>1 DEF KeepsLocked, tables
<1>3. \A o \in OrderIDs : KeepsOwner(o)' /\ LinesHaveOrder(o)'
  BY <1>1 DEF Rollback, CallRules, KeepsOwner, LinesHaveOrder, tables
<1> QED
  BY <1>1, <1>2, <1>3, EndedCalls, CallsPreserved

\* What a request commits is an order, or nothing.
LEMMA CommitsAnOrder ==
    ASSUME IInv, Rules, Books, Effects, NEW r \in Requests, pc[r] = "commit",
           NEW o \in OrderIDs, orderLock[o] = r
    PROVE  \/ ordersW[o] # NoRow
           \/ ordersW[o] = orders[o] /\ itemsW[o] = items[o]
<1>1. o = target[r] /\ ~HoldsNoOrder(r)
  BY DEF Rules, RequestRules, LocksItsOrder
<1>2. op[r] \in Methods /\ EditsOwnCart(r) /\ OnlyReads(r) /\ Decides(r) /\ MarksPaid(r)
      /\ OrdersStay
  BY DEF Effects, RequestEffects, Asks, CartEffects, Books, RequestBooks, Rules, RequestRules,
     IInv, RowInv
<1>3. CASE op[r] \in Sales \cup {"CancelOrder", "UpdateOrderStatus"}
  BY <1>1, <1>2, <1>3 DEF Decides, MovesStatus, OrdersStay, IsPlaced
<1>4. CASE op[r] = "PayOrder"
  BY <1>1, <1>2, <1>4 DEF MarksPaid, At, IsPaid
<1>5. CASE op[r] \in EditMethods
  BY <1>1, <1>2, <1>5 DEF EditsOwnCart, HasOrder
<1>6. CASE op[r] \in {"GetCart", "GetOrder"}
  BY <1>2, <1>6 DEF OnlyReads
<1> QED
  BY <1>1, <1>2, <1>3, <1>4, <1>5, <1>6 DEF Methods, Sales, EditMethods, HoldsNoOrder

\* A commit leaves orders to their owners.
LEMMA CommitCalls ==
    ASSUME IInv, Rules, Books, Effects, CallRules, NEW r \in Requests, Preserved(r),
           CommitRequest(r)
    PROVE  CallRules'
<1>1. pc[r] = "commit" /\ pc'[r] = "idle"
  BY DEF CommitRequest, Commit, Return, Goto, IInv, TypeOK
<1>2. \A t \in Requests \ {r} : KeepsLocked(t)
  BY DEF CommitRequest, Commit, KeepsLocked
<1>3. \A o \in OrderIDs : KeepsOwner(o)'
  BY DEF CommitRequest, Commit, CallRules, KeepsOwner, working
<1>4. \A o \in OrderIDs : LinesHaveOrder(o)'
  BY <1>1, CommitsAnOrder DEF CommitRequest, Commit, CallRules, LinesHaveOrder
<1>5. charged \subseteq charged'
  BY DEF CommitRequest, payment
<1> QED
  BY <1>1, <1>2, <1>3, <1>4, <1>5, EndedCalls, CallsPreserved

\* A request comes in for one of the methods.
LEMMA BeginsCalls ==
    ASSUME IInv, Rules, CallRules, NEW r \in Requests, Preserved(r), Begins(r)
    PROVE  CallRules'
<1> DEFINE Legal(m, o, l) ==
               /\ m \in Methods
               /\ l \in {"lock", "order", "snapshot", "product"}
               /\ l = "order" => o \in OrderIDs
<1>1. UNCHANGED payment /\ \E m, u, o, w, l : Begin(r, m, u, o, w, l) /\ Legal(m, o, l)
  <2>1. CASE BeginCreateOrder(r)
    BY <2>1 DEF BeginCreateOrder, Methods
  <2>2. CASE BeginCancelOrder(r) \/ BeginPayOrder(r) \/ BeginUpdateOrderStatus(r) \/ BeginGetOrder(r)
    <3>1. PICK m \in {"CancelOrder", "PayOrder", "UpdateOrderStatus", "GetOrder"} :
              BeginOnOrder(r, m)
      BY <2>2 DEF BeginCancelOrder, BeginPayOrder, BeginUpdateOrderStatus, BeginGetOrder
    <3> QED
      BY <3>1 DEF BeginOnOrder, Methods
  <2>3. CASE CartServiceBegin(r)
    <3>1. PICK m \in {"GetCart", "AddItem", "UpdateItem", "DeleteItem", "Checkout"} :
              \E w : BeginCart(r, m, w)
      BY <2>3 DEF CartServiceBegin, BeginGetCart, BeginCheckout, BeginAddItem,
         BeginUpdateItem, BeginDeleteItem, BeginOnItem
    <3> QED
      BY <3>1 DEF BeginCart, Methods
  <2>4. CASE BeginCreateProduct(r)
    BY <2>4 DEF BeginCreateProduct, Methods
  <2>5. CASE BeginUpdateProduct(r) \/ BeginDeleteProduct(r)
    <3>1. PICK m \in {"UpdateProduct", "DeleteProduct"} : BeginOnProduct(r, m)
      BY <2>5 DEF BeginUpdateProduct, BeginDeleteProduct
    <3> QED
      BY <3>1 DEF BeginOnProduct, Methods
  <2> QED
    BY <2>1, <2>2, <2>3, <2>4, <2>5 DEF Begins, OrderServiceBegin, ProductServiceBegin
<1>2. PICK m, u, o, w, l : Begin(r, m, u, o, w, l) /\ Legal(m, o, l)
  BY <1>1
<1>3. op'[r] = m /\ pc'[r] = l /\ target'[r] = o /\ UNCHANGED database
  BY <1>2 DEF Begin, Goto, IInv, TypeOK
<1>4. IsCall(r)' /\ HasPaid(r)' /\ EditsAsAsked(r)'
  BY <1>2, <1>3 DEF IsCall, HasPaid, EditsAsAsked
<1>5. UNCHANGED tables /\ UNCHANGED ordersW
  BY <1>3 DEF database, working
<1> QED
  BY <1>1, <1>4, <1>5, StatementCalls DEF payment

\* The owner of a row stays when its status or total is written.
LEMMA OwnerStays ==
    ASSUME NEW row \in OrderRow, NEW status, NEW total, NEW c
    PROVE  WithStatus(row, status).user = row.user /\ WithTotal(row, total, c).user = row.user
  BY DEF WithStatus, WithTotal, OrderRow

\* The lines without those of p have no line of p.
LEMMA RemovedProduct ==
    ASSUME NEW ls \in Lines, OnceEach(ls), NEW p
    PROVE  ~References(WithoutProduct(ls, p), p)
<1> DEFINE gone(s) == ls[s] # NoRow /\ ls[s].product = p
<1> SUFFICES ASSUME NEW s \in Slots, WithoutProduct(ls, p)[s] # NoRow,
                    WithoutProduct(ls, p)[s].product = p
             PROVE  FALSE
  BY DEF References
<1>1. s \in Nat /\ s >= 1
  BY BoundsAssumption DEF Slots
<1>2. CASE \A t \in 1..s : ~gone(t)
  <2>1. WithoutProduct(ls, p)[s] = ls[s]
    BY <1>2 DEF WithoutProduct
  <2>2. s \in 1..s
    BY <1>1
  <2> QED
    BY <1>2, <2>1, <2>2
<1>3. CASE ~ \A t \in 1..s : ~gone(t)
  <2>1. PICK t \in 1..s : gone(t)
    BY <1>3
  <2>2. s + 1 \in Slots /\ WithoutProduct(ls, p)[s] = ls[s + 1]
    BY <1>3 DEF WithoutProduct
  <2>3. t \in Slots /\ t # s + 1
    BY <1>1, <2>2, BoundsAssumption DEF Slots
  <2> QED
    BY <2>1, <2>2, <2>3 DEF OnceEach
<1> QED
  BY <1>2, <1>3

\* The last statement of CancelOrder and PayOrder.
LEMMA MarkKeepsOwners ==
    ASSUME IInv, NEW r \in Requests, NEW status, Mark(r, status)
    PROVE  /\ \A o \in OrderIDs : ordersW'[o].user = ordersW[o].user
           /\ ordersW'[target[r]].status = status
<1>1. target[r] \in OrderIDs /\ ordersW[target[r]] \in OrderRow
  BY DEF Mark, IInv, RequestInv, OwnsTarget, TypeOK, Orders
<1>2. /\ ordersW'[target[r]] = WithStatus(ordersW[target[r]], status)
      /\ \A o \in OrderIDs : o # target[r] => ordersW'[o] = ordersW[o]
  BY <1>1 DEF Mark, SetStatus, IInv, TypeOK, Orders
<1>3. WithStatus(ordersW[target[r]], status).status = status
  BY <1>1 DEF WithStatus, OrderRow
<1> QED
  BY <1>1, <1>2, <1>3, OwnerStays

\* Every step of the order service.
LEMMA OrderServiceStepCalls ==
    ASSUME IInv, Rules, CallRules, NEW r \in Requests, Preserved(r), OrderServiceStep(r)
    PROVE  CallRules'
<1> USE NoRowAssumption
<1>1. TypeOK /\ RequestInv(r) /\ RequestRules(r) /\ OrdersStay
  BY DEF IInv, Rules, RowInv
<1>2. CASE \/ CreateOrderLock(r) \/ CreateOrderLine(r) \/ CreateOrderDone(r)
           \/ CancelOrderRead(r) \/ CancelOrderRestock(r) \/ CancelOrderRestocked(r)
           \/ PayOrderRead(r) \/ GetOrderRow(r) \/ GetOrderItems(r)
  <2>1. UNCHANGED tables /\ UNCHANGED ordersW /\ UNCHANGED payment
    BY <1>2 DEF CreateOrderLock, LockSaleProduct, CreateOrderLine, CreateOrderDone,
       CancelOrderRead, CancelOrderRestock, CancelOrderRestocked, PayOrderRead,
       ReadOrderForUpdate, GetOrderRow, GetOrderItems, database, working
  <2>2. /\ op'[r] = op[r] /\ pc[r] # "idle"
        /\ pc'[r] \notin {"order", "recalculate"}
        /\ op[r] # "PayOrder" \/ pc'[r] \notin {"mark", "commit"}
    BY <1>1, <1>2 DEF CreateOrderLock, LockSaleProduct, CreateOrderLine, CreateOrderDone,
       CancelOrderRead, CancelOrderRestock, CancelOrderRestocked, PayOrderRead,
       ReadOrderForUpdate, GetOrderRow, GetOrderItems, At, Goto, TypeOK
  <2> QED
    BY <2>1, <2>2, PlainCalls
<1>3. CASE CreateOrderInsert(r)
  <2>1. nextOrder \in OrderIDs /\ orders[nextOrder] = NoRow
    BY <1>1, <1>3 DEF CreateOrderInsert, InsertOrder, IInv, RowInv, FreshIds, OrderIDs
  <2>2. \A o \in OrderIDs : o # nextOrder => ordersW'[o] = ordersW[o]
    BY <1>1, <1>3 DEF CreateOrderInsert, InsertOrder, TypeOK, Orders
  <2>3. UNCHANGED tables /\ UNCHANGED payment /\ op'[r] = op[r] /\ pc[r] # "idle"
        /\ op[r] # "PayOrder" /\ pc'[r] = "lines"
    BY <1>1, <1>3 DEF CreateOrderInsert, At, Goto, TypeOK
  <2> QED
    BY <2>1, <2>2, <2>3, PlainCalls
<1>4. CASE CancelOrderMark(r)
  <2>1. UNCHANGED tables /\ UNCHANGED payment /\ op'[r] = op[r] /\ op[r] # "PayOrder"
        /\ pc[r] = "mark" /\ pc'[r] = "commit"
    BY <1>1, <1>4 DEF CancelOrderMark, Mark, Goto, TypeOK
  <2>2. \A o \in OrderIDs : ordersW'[o].user = ordersW[o].user
    BY <1>4, MarkKeepsOwners DEF CancelOrderMark
  <2> QED
    BY <2>1, <2>2, PlainCalls
<1>5. CASE PayOrderMark(r)
  <2>1. /\ UNCHANGED tables /\ UNCHANGED payment /\ UNCHANGED <<op, target, want>>
        /\ op[r] = "PayOrder" /\ pc[r] = "mark" /\ pc'[r] = "commit"
    BY <1>1, <1>5 DEF PayOrderMark, Mark, Goto, TypeOK
  <2>2. /\ \A o \in OrderIDs : ordersW'[o].user = ordersW[o].user
        /\ ordersW'[target[r]].status = "paid"
    BY <1>5, MarkKeepsOwners DEF PayOrderMark
  <2>3. target[r] \in charged'
    BY <2>1 DEF CallRules, HasPaid, payment
  <2>4. IsCall(r)' /\ HasPaid(r)' /\ EditsAsAsked(r)'
    BY <2>1, <2>2, <2>3 DEF IsCall, HasPaid, EditsAsAsked, Methods
  <2> QED
    BY <2>1, <2>2, <2>4, StatementCalls DEF payment
<1>6. CASE PayOrderSucceeds(r)
  <2>1. /\ UNCHANGED tables /\ UNCHANGED ordersW /\ UNCHANGED <<op, target, want>>
        /\ op[r] = "PayOrder" /\ pc[r] = "charge" /\ pc'[r] = "mark"
        /\ charged' = charged \cup {target[r]}
    BY <1>1, <1>6 DEF PayOrderSucceeds, Charge, At, Goto, TypeOK, database, working
  <2>2. IsCall(r)' /\ HasPaid(r)' /\ EditsAsAsked(r)'
    BY <2>1 DEF IsCall, HasPaid, EditsAsAsked, Methods
  <2> QED
    BY <2>1, <2>2, StatementCalls
<1>7. CASE UpdateOrderStatusRun(r)
  <2>1. UNCHANGED tables /\ UNCHANGED payment /\ op'[r] = op[r] /\ op[r] # "PayOrder"
        /\ pc[r] # "idle" /\ pc'[r] = "commit"
    BY <1>1, <1>7 DEF UpdateOrderStatusRun, At, Goto, TypeOK
  <2>2. target[r] \in OrderIDs /\ ordersW[target[r]] \in OrderRow
    BY <1>1, <1>7, LockedOrderExists DEF UpdateOrderStatusRun, OrderExists
  <2>3. PICK new : SetStatus(target[r], new)
    BY <1>7 DEF UpdateOrderStatusRun
  <2>4. \A o \in OrderIDs : ordersW'[o].user = ordersW[o].user
    BY <1>1, <2>2, <2>3, OwnerStays DEF SetStatus, TypeOK, Orders
  <2> QED
    BY <2>1, <2>4, PlainCalls
<1>8. CASE PayOrderTimesOut(r)
  <2>1. Rollback(r) /\ charged \subseteq charged'
    BY <1>8 DEF PayOrderTimesOut, Charge
  <2> QED
    BY <2>1, RollbackCalls
<1>9. CASE CreateOrderRefuse(r) \/ CancelOrderRefuse(r) \/ PayOrderRefuse(r) \/ PayOrderFails(r)
           \/ UpdateOrderStatusRefuse(r) \/ GetOrderRefuse(r)
  <2>1. Rollback(r) /\ charged \subseteq charged'
    BY <1>9 DEF CreateOrderRefuse, RefuseSale, CancelOrderRefuse, PayOrderRefuse, RefuseOrder,
       PayOrderFails, UpdateOrderStatusRefuse, GetOrderRefuse, Reject, payment
  <2> QED
    BY <2>1, RollbackCalls
<1> QED
  BY <1>2, <1>3, <1>4, <1>5, <1>6, <1>7, <1>8, <1>9 DEF OrderServiceStep

\* An edit of the lines of a cart.
LEMMA EditCalls ==
    ASSUME IInv, Rules, CallRules, NEW r \in Requests, Preserved(r),
           op[r] \in ItemMethods, pc[r] # "idle", pc'[r] = "recalculate",
           UNCHANGED <<tables, ordersW, op, target, want, payment>>,
           \A p \in ProductIDs :
               References(itemsW'[target[r]], p) =>
                   /\ References(items[target[r]], p) \/ p \in Asked(r)
                   /\ op[r] = "DeleteItem" => p \notin Asked(r)
    PROVE  CallRules'
<1>1. IsCall(r)' /\ HasPaid(r)'
  BY DEF IsCall, HasPaid, ItemMethods, Methods
<1>2. EditsAsAsked(r)'
  BY DEF EditsAsAsked, Asked, References, tables
<1> QED
  BY <1>1, <1>2, StatementCalls DEF payment, tables

\* AddItem and UpdateItem write lines of the cart and of the product asked for.
LEMMA WriteLineCalls ==
    ASSUME IInv, Rules, Effects, CallRules, NEW r \in Requests, Preserved(r),
           AddItemToLine(r) \/ AddItemNewLine(r) \/ UpdateItemRun(r)
    PROVE  CallRules'
<1> DEFINE ls == itemsW[target[r]]
<1>1. op[r] \in {"AddItem", "UpdateItem"} /\ pc[r] = "product"
  BY DEF AddItemToLine, AddItemNewLine, UpdateItemRun, At
<1>2. /\ target[r] \in OrderIDs /\ ls \in Lines /\ OnceEach(ls) /\ ls = items[target[r]]
  BY <1>1, CartIsOwn DEF OwnsTarget, EditMethods
<1>3. PICK p, q, new :
          /\ p \in ProductIDs /\ WriteLine(r, p, q, new) /\ want[r][p] > 0
          /\ \A x \in ProductIDs : References(new, x) => References(ls, x) \/ x = p
  <2>1. CASE AddItemToLine(r) \/ UpdateItemRun(r)
    <3>1. PICK p, q : /\ p \in ProductIDs /\ want[r][p] > 0
                      /\ WriteLine(r, p, q, WithQuantity(ls, p, q))
      BY <2>1 DEF AddItemToLine, UpdateItemRun
    <3> QED
      BY <1>2, <3>1, WithQuantityRules
  <2>2. CASE AddItemNewLine(r)
    <3>1. PICK p \in ProductIDs, s \in Slots :
              /\ want[r][p] > 0 /\ ~References(ls, p) /\ IsFreeSlot(ls, s)
              /\ WriteLine(r, p, want[r][p],
                           AppendLine(ls, s, p, want[r][p], productsW[p].price))
      BY <2>2 DEF AddItemNewLine
    <3> QED
      BY <1>2, <3>1, AppendLineRules
  <2> QED
    BY <2>1, <2>2
<1>4. /\ itemsW'[target[r]] = new /\ pc'[r] = "recalculate"
      /\ UNCHANGED <<tables, ordersW, op, target, want, payment>>
  BY <1>2, <1>3 DEF WriteLine, Goto, IInv, TypeOK
<1> QED
  BY <1>1, <1>2, <1>3, <1>4, EditCalls DEF Asked, ItemMethods

\* DeleteItem leaves no line of the product it was asked for.
LEMMA DeleteItemCalls ==
    ASSUME IInv, Rules, Effects, CallRules, NEW r \in Requests, Preserved(r), DeleteItemRun(r)
    PROVE  CallRules'
<1> DEFINE ls == itemsW[target[r]]
<1>1. op[r] = "DeleteItem" /\ pc[r] = "remove"
  BY DEF DeleteItemRun, At
<1>2. /\ target[r] \in OrderIDs /\ ls \in Lines /\ OnceEach(ls) /\ ls = items[target[r]]
  BY <1>1, CartIsOwn DEF OwnsTarget, EditMethods
<1>3. PICK p \in ProductIDs :
          want[r][p] > 0 /\ itemsW' = [itemsW EXCEPT ![target[r]] = WithoutProduct(@, p)]
  BY DEF DeleteItemRun
<1>4. /\ itemsW'[target[r]] = WithoutProduct(ls, p) /\ pc'[r] = "recalculate"
      /\ UNCHANGED <<tables, ordersW, op, target, want, payment>>
  BY <1>2, <1>3 DEF DeleteItemRun, Goto, IInv, TypeOK
<1>5. Asked(r) = {p}
  <2>1. PICK x \in ProductIDs : want[r] = Only(x, 1)
    BY <1>1 DEF Effects, RequestEffects, Asks
  <2> QED
    BY <1>3, <2>1, OnlyOne DEF Asked
<1>6. \A x \in ProductIDs : References(itemsW'[target[r]], x) => References(ls, x) /\ x # p
  BY <1>2, <1>4, WithoutProductRules, RemovedProduct
<1> QED
  BY <1>1, <1>2, <1>4, <1>5, <1>6, EditCalls DEF ItemMethods

\* Every step of the cart service.
LEMMA CartServiceStepCalls ==
    ASSUME IInv, Rules, Books, Effects, CallRules, NEW r \in Requests, Preserved(r),
           CartServiceStep(r)
    PROVE  CallRules'
<1> USE NoRowAssumption
<1>1. TypeOK /\ RequestInv(r) /\ RequestRules(r) /\ Edits(r)
  BY DEF IInv, Rules, Books, RequestBooks
<1>2. CASE \/ GetDraftSnapshot(r) \/ GetDraftLock(r) \/ GetCartEmpty(r) \/ GetCartItems(r)
           \/ AddItemNoDraft(r) \/ CheckoutItems(r) \/ CheckoutLock(r) \/ CheckoutTake(r)
  <2>1. UNCHANGED tables /\ UNCHANGED ordersW /\ UNCHANGED payment
    BY <1>2 DEF GetDraftSnapshot, GetDraftLock, GetCartEmpty, GetCartItems, AddItemNoDraft,
       CheckoutItems, CheckoutLock, LockSaleProduct, CheckoutTake, database, working
  <2>2. /\ op'[r] = op[r] /\ pc[r] # "idle"
        /\ pc'[r] \notin {"order", "recalculate"}
        /\ op[r] # "PayOrder" \/ pc'[r] \notin {"mark", "commit"}
    BY <1>1, <1>2 DEF GetDraftSnapshot, GetDraftLock, AfterDraft, GetCartEmpty, NoDraft,
       GetCartItems, AddItemNoDraft, CheckoutItems, CheckoutLock, LockSaleProduct,
       CheckoutTake, At, Goto, TypeOK
  <2> QED
    BY <2>1, <2>2, PlainCalls
<1>3. CASE CreateDraft(r)
  <2>1. nextOrder \in OrderIDs /\ orders[nextOrder] = NoRow
    BY <1>1, <1>3 DEF CreateDraft, InsertOrder, IInv, RowInv, FreshIds, OrderIDs
  <2>2. \A o \in OrderIDs : o # nextOrder => ordersW'[o] = ordersW[o]
    BY <1>1, <1>3 DEF CreateDraft, InsertOrder, TypeOK, Orders
  <2>3. UNCHANGED tables /\ UNCHANGED payment /\ op'[r] = op[r] /\ pc[r] # "idle"
        /\ op[r] # "PayOrder" /\ pc'[r] = "product"
    BY <1>1, <1>3 DEF CreateDraft, At, Goto, TypeOK
  <2> QED
    BY <2>1, <2>2, <2>3, PlainCalls
<1>4. CASE Recalculate(r) \/ CheckoutPrice(r)
  <2>1. target[r] \in OrderIDs /\ ordersW[target[r]] \in OrderRow
    BY <1>1, <1>4 DEF Recalculate, CheckoutPrice, At, RequestInv, OwnsTarget, TypeOK, Orders
  <2>2. PICK n, c : UpdateTotal(target[r], n, c)
    BY <1>4 DEF Recalculate, CheckoutPrice
  <2>3. \A o \in OrderIDs : ordersW'[o].user = ordersW[o].user
    <3>1. /\ ordersW'[target[r]] = WithTotal(ordersW[target[r]], n, c)
          /\ \A o \in OrderIDs : o # target[r] => ordersW'[o] = ordersW[o]
      BY <1>1, <2>1, <2>2 DEF UpdateTotal, TypeOK, Orders
    <3> QED
      BY <2>1, <3>1, OwnerStays
  <2>4. UNCHANGED tables /\ UNCHANGED payment /\ op'[r] = op[r] /\ pc[r] # "idle"
        /\ op[r] # "PayOrder" /\ pc'[r] \in {"commit", "take"}
    BY <1>1, <1>4 DEF Recalculate, CheckoutPrice, Edits, At, Goto, TypeOK
  <2> QED
    BY <2>3, <2>4, PlainCalls
<1>5. CASE CheckoutSubmit(r)
  <2>1. target[r] \in OrderIDs /\ ordersW[target[r]] \in OrderRow
    BY <1>1, <1>5 DEF CheckoutSubmit, At, RequestInv, OwnsTarget, TypeOK, Orders
  <2>2. \A o \in OrderIDs : ordersW'[o].user = ordersW[o].user
    BY <1>1, <1>5, <2>1, OwnerStays DEF CheckoutSubmit, SetStatus, TypeOK, Orders
  <2>3. UNCHANGED tables /\ UNCHANGED payment /\ op'[r] = op[r] /\ pc[r] # "idle"
        /\ op[r] # "PayOrder" /\ pc'[r] = "commit"
    BY <1>1, <1>5 DEF CheckoutSubmit, At, Goto, TypeOK
  <2> QED
    BY <2>2, <2>3, PlainCalls
<1>6. CASE AddItemToLine(r) \/ AddItemNewLine(r) \/ UpdateItemRun(r)
  BY <1>6, WriteLineCalls
<1>7. CASE DeleteItemRun(r)
  BY <1>7, DeleteItemCalls
<1>8. CASE CartNotFound(r) \/ CreateDraftRefuse(r) \/ RecalculateRefuse(r)
           \/ AddItemRefuse(r) \/ UpdateItemRefuse(r) \/ DeleteItemRefuse(r)
           \/ EmptyCart(r) \/ CheckoutRefuse(r)
  <2>1. Rollback(r) /\ charged \subseteq charged'
    BY <1>8 DEF CartNotFound, CreateDraftRefuse, RecalculateRefuse, AddItemRefuse,
       UpdateItemRefuse, DeleteItemRefuse, EmptyCart, CheckoutRefuse, RefuseSale, Reject, payment
  <2> QED
    BY <2>1, RollbackCalls
<1> QED
  BY <1>2, <1>3, <1>4, <1>5, <1>6, <1>7, <1>8 DEF CartServiceStep

\* Every step of the product service.
LEMMA ProductServiceStepCalls ==
    ASSUME IInv, Rules, CallRules, NEW r \in Requests, Preserved(r), ProductServiceStep(r)
    PROVE  CallRules'
<1>1. CASE CreateProduct(r) \/ UpdateProduct(r) \/ DeleteProduct(r) \/ DeleteProductChecked(r)
  <2>1. UNCHANGED tables /\ UNCHANGED ordersW /\ UNCHANGED payment
    BY <1>1 DEF CreateProduct, UpdateProduct, DeleteProduct, DeleteProductChecked,
       database, working
  <2>2. /\ op'[r] = op[r] /\ pc[r] # "idle" /\ op[r] # "PayOrder"
        /\ pc'[r] \in {"references", "commit"}
    BY <1>1 DEF CreateProduct, UpdateProduct, DeleteProduct, DeleteProductChecked, At, Goto,
       IInv, TypeOK
  <2> QED
    BY <2>1, <2>2, PlainCalls
<1>2. CASE ProductNotFound(r) \/ DeleteProductRefuse(r)
  <2>1. Rollback(r) /\ charged \subseteq charged'
    BY <1>2 DEF ProductNotFound, DeleteProductRefuse, Reject, payment
  <2> QED
    BY <2>1, RollbackCalls
<1> QED
  BY <1>1, <1>2 DEF ProductServiceStep

\* No request runs, and there are no orders.
LEMMA InitCalls == Init => CallRules
  BY DEF Init, StoreInit, CallRules, IsCall, HasPaid, EditsAsAsked, KeepsOwner, LinesHaveOrder

\* Every step of the backend preserves CallRules, given the other four.
LEMMA NextCalls == IInv /\ Rules /\ Books /\ Effects /\ CallRules /\ [Next]_vars => CallRules'
<1> SUFFICES ASSUME IInv, Rules, Books, Effects, CallRules, [Next]_vars PROVE CallRules'
  OBVIOUS
<1>1. CASE Next
  <2>1. PICK r \in Requests : Begins(r) \/ Step(r) \/ Abort(r)
    BY <1>1 DEF Next
  <2>2. CASE Begins(r)
    BY <2>2, BeginsPreserve, BeginsCalls
  <2>3. CASE Abort(r)
    <3>1. Rollback(r) /\ charged \subseteq charged'
      BY <2>3 DEF Abort, payment
    <3> QED
      BY <2>3, <3>1, AbortPreserves, RollbackCalls
  <2>4. CASE OrderServiceStep(r)
    BY <2>4, OrderServiceStepPreserves, OrderServiceStepCalls
  <2>5. CASE CartServiceStep(r)
    BY <2>5, CartServiceStepPreserves, CartServiceStepCalls
  <2>6. CASE ProductServiceStep(r)
    BY <2>6, ProductServiceStepPreserves, ProductServiceStepCalls
  <2>7. CASE CommitRequest(r)
    BY <2>7, CommitPreserves, CommitCalls
  <2>8. CASE TableFull(r)
    <3>1. Rollback(r) /\ charged \subseteq charged'
      BY <2>8 DEF TableFull, Reject, payment
    <3> QED
      BY <2>8, <3>1, RejectPreserves, RollbackCalls DEF TableFull
  <2> QED
    BY <2>1, <2>2, <2>3, <2>4, <2>5, <2>6, <2>7, <2>8 DEF Step
<1>2. CASE UNCHANGED vars
  BY <1>2 DEF CallRules, IsCall, HasPaid, EditsAsAsked, Asked, References, KeepsOwner,
     LinesHaveOrder, vars, database, tables, working, session, payment
<1> QED
  BY <1>1, <1>2

\* What a request was called for is so in every state of every run.
THEOREM CallRulesHold == Spec => []CallRules
<1>1. IInv /\ Rules /\ Books /\ Effects /\ CallRules /\ [Next]_vars => CallRules'
  BY NextCalls
<1> QED
  BY <1>1, InitCalls, InvariantHolds, RulesHold, BooksHold, EffectsHold, PTL DEF Spec

-----------------------------------------------------------------------------
(* The backend behind the handlers is the one of Shop.                     *)

\* A step of Http is one of Shop, or leaves all of Shop alone.
LEMMA HttpSteps ==
    ASSUME HttpNext
    PROVE  \/ UNCHANGED <<vars, cartless>>
           \/ NoteCarts /\ \E r \in Requests : Begins(r) \/ Step(r) \/ Abort(r)
<1>1. PICK r \in Requests :
          \/ Unauthorized(r) \/ BadRequest(r) \/ Receive(r) \/ Proceed(r)
          \/ Succeed(r) \/ Refuse(r) \/ Fail(r) \/ CommitLost(r)
          \/ GetProducts(r) \/ GetProductByID(r) \/ ListOrders(r)
  BY DEF HttpNext
<1>2. CASE \/ Unauthorized(r) \/ BadRequest(r)
           \/ GetProducts(r) \/ GetProductByID(r) \/ ListOrders(r)
  BY <1>2 DEF Unauthorized, BadRequest, GetProducts, GetProductByID, ListOrders
<1>3. CASE Receive(r) \/ Proceed(r) \/ Succeed(r) \/ Refuse(r) \/ Fail(r) \/ CommitLost(r)
  BY <1>3 DEF Receive, Proceed, Succeed, Refuse, Fail, CommitLost, Step
<1> QED
  BY <1>1, <1>2, <1>3

\* What is proved of Shop holds behind the handlers: they add no step to it.
THEOREM HttpRunsTheShop == HttpSpec => Spec
<1>1. HttpInit => Init
  BY DEF HttpInit
<1>2. [HttpNext]_httpVars => [Next]_vars
  BY HttpSteps DEF httpVars, Next
<1> QED
  BY <1>1, <1>2, PTL DEF HttpSpec, Spec

-----------------------------------------------------------------------------
(* Who has been without a cart.                                            *)

\* Only the statement that picks a draft comes to wait for its lock.
LEMMA ComesToDraft ==
    ASSUME TypeOK, NEW r \in Requests, Begins(r) \/ Step(r) \/ Abort(r), pc'[r] = "draft"
    PROVE  GetDraftSnapshot(r)
<1>1. CASE Begins(r)
  <2>1. \E m, u, o, w, l : Begin(r, m, u, o, w, l) /\ l # "draft"
    BY <1>1 DEF Begins, OrderServiceBegin, CartServiceBegin, ProductServiceBegin,
       BeginCreateOrder, BeginCancelOrder, BeginPayOrder, BeginUpdateOrderStatus,
       BeginGetOrder, BeginOnOrder, BeginGetCart, BeginAddItem, BeginUpdateItem,
       BeginDeleteItem, BeginCheckout, BeginOnItem, BeginCart, BeginCreateProduct,
       BeginUpdateProduct, BeginDeleteProduct, BeginOnProduct
  <2> QED
    BY <2>1 DEF Begin, Goto, TypeOK
<1>2. ASSUME Rollback(r) \/ Commit(r) PROVE FALSE
  BY <1>2 DEF Rollback, Commit, Return, Goto, TypeOK
<1>3. CASE Abort(r) \/ CommitRequest(r) \/ TableFull(r)
  BY <1>2, <1>3 DEF Abort, CommitRequest, TableFull, Reject
<1>4. CASE OrderServiceStep(r)
  <2>1. CASE \/ CreateOrderRefuse(r) \/ CancelOrderRefuse(r) \/ PayOrderRefuse(r)
             \/ PayOrderFails(r) \/ PayOrderTimesOut(r)
             \/ UpdateOrderStatusRefuse(r) \/ GetOrderRefuse(r)
    BY <1>2, <2>1 DEF CreateOrderRefuse, RefuseSale, CancelOrderRefuse, PayOrderRefuse,
       RefuseOrder, PayOrderFails, PayOrderTimesOut, UpdateOrderStatusRefuse,
       GetOrderRefuse, Reject
  <2>2. CASE \/ CreateOrderLock(r) \/ CreateOrderInsert(r) \/ CreateOrderLine(r)
             \/ CreateOrderDone(r)
    BY <2>2 DEF CreateOrderLock, LockSaleProduct, CreateOrderInsert, CreateOrderLine,
       CreateOrderDone, At, Goto, TypeOK
  <2>3. CASE \/ CancelOrderRead(r) \/ CancelOrderRestock(r) \/ CancelOrderRestocked(r)
             \/ CancelOrderMark(r) \/ PayOrderRead(r) \/ PayOrderSucceeds(r)
             \/ PayOrderMark(r) \/ UpdateOrderStatusRun(r) \/ GetOrderRow(r)
             \/ GetOrderItems(r)
    BY <2>3 DEF CancelOrderRead, ReadOrderForUpdate, CancelOrderRestock,
       CancelOrderRestocked, CancelOrderMark, Mark, PayOrderRead, PayOrderSucceeds,
       PayOrderMark, UpdateOrderStatusRun, GetOrderRow, GetOrderItems, At, Goto, TypeOK
  <2> QED
    BY <1>4, <2>1, <2>2, <2>3 DEF OrderServiceStep
<1>5. CASE CartServiceStep(r)
  <2>1. CASE CartNotFound(r) \/ CreateDraftRefuse(r) \/ RecalculateRefuse(r)
             \/ AddItemRefuse(r) \/ UpdateItemRefuse(r) \/ DeleteItemRefuse(r)
             \/ EmptyCart(r) \/ CheckoutRefuse(r)
    BY <1>2, <2>1 DEF CartNotFound, CreateDraftRefuse, RecalculateRefuse,
       AddItemRefuse, UpdateItemRefuse, DeleteItemRefuse, EmptyCart, CheckoutRefuse,
       RefuseSale, Reject
  <2>2. CASE GetDraftLock(r) \/ GetCartEmpty(r) \/ GetCartItems(r) \/ AddItemNoDraft(r)
             \/ CreateDraft(r) \/ Recalculate(r)
    BY <2>2 DEF GetDraftLock, AfterDraft, GetCartEmpty, GetCartItems, AddItemNoDraft,
       CreateDraft, Recalculate, At, Goto, TypeOK
  <2>3. CASE AddItemToLine(r) \/ AddItemNewLine(r) \/ UpdateItemRun(r) \/ DeleteItemRun(r)
    BY <2>3 DEF AddItemToLine, AddItemNewLine, UpdateItemRun, DeleteItemRun, WriteLine,
       Goto, TypeOK
  <2>4. CASE CheckoutItems(r) \/ CheckoutLock(r) \/ CheckoutPrice(r) \/ CheckoutTake(r)
             \/ CheckoutSubmit(r)
    BY <2>4 DEF CheckoutItems, CheckoutLock, LockSaleProduct, CheckoutPrice, CheckoutTake,
       CheckoutSubmit, At, Goto, TypeOK
  <2> QED
    BY <1>5, <2>1, <2>2, <2>3, <2>4 DEF CartServiceStep
<1>6. CASE ProductServiceStep(r)
  <2>1. CASE ProductNotFound(r) \/ DeleteProductRefuse(r)
    BY <1>2, <2>1 DEF ProductNotFound, DeleteProductRefuse, Reject
  <2>2. CASE CreateProduct(r) \/ UpdateProduct(r) \/ DeleteProduct(r) \/ DeleteProductChecked(r)
    BY <2>2 DEF CreateProduct, UpdateProduct, DeleteProduct, DeleteProductChecked, Goto, TypeOK
  <2> QED
    BY <1>6, <2>1, <2>2 DEF ProductServiceStep
<1> QED
  BY <1>1, <1>3, <1>4, <1>5, <1>6 DEF Step

\* A commit that takes the draft of a waiting request away leaves its user
\* without a cart.
LEMMA LosesItsCart ==
    ASSUME IInv, Rules, [Next]_vars, NEW u \in Users, NEW o \in OrderIDs,
           IsDraft(orders[o], u), ~IsDraft(orders'[o], u)
    PROVE  ~ \E q \in OrderIDs : IsDraft(orders'[q], u)
<1> SUFFICES ASSUME NEW q \in OrderIDs, IsDraft(orders'[q], u) PROVE FALSE
  OBVIOUS
<1>1. orders'[q] \in {orders[q], ordersW[q]}
  BY StepOrCommit
<1>2. MayBeDraft(q, u) /\ MayBeDraft(o, u)
  BY <1>1 DEF MayBeDraft
<1>3. q = o
  BY <1>2 DEF Rules, DraftRule
<1> QED
  BY <1>3

\* Every step of Http preserves AnswerRules, given the four invariants.
LEMMA NextCartless ==
    ASSUME IInv, Rules, Effects, AnswerRules, NoteCarts,
           NEW r \in Requests, Begins(r) \/ Step(r) \/ Abort(r), Others(r)
    PROVE  \A t \in Requests : KnowsCartless(t)'
<1> SUFFICES ASSUME NEW t \in Requests, op'[t] \in CartMethods
             PROVE  /\ ~HasCart(user[t])' => t \in cartless'
                    /\ pc'[t] = "draft" =>
                          IsDraft(orders'[target'[t]], user'[t]) \/ t \in cartless'
  BY DEF KnowsCartless
<1>1. t \in cartless \/ ~HasCart(user[t])' => t \in cartless'
  BY DEF NoteCarts
<1>2. ASSUME pc'[t] = "draft", ~IsDraft(orders'[target'[t]], user'[t])
      PROVE  t \in cartless'
  <2>1. CASE t = r
    <3>1. GetDraftSnapshot(r)
      BY <1>2, <2>1, ComesToDraft DEF IInv
    <3>2. PICK o \in OrderIDs : IsDraft(orders[o], user[r]) /\ target' = [target EXCEPT ![r] = o]
      BY <3>1 DEF GetDraftSnapshot
    <3>3. target'[r] = o /\ user'[r] = user[r] /\ orders' = orders
      BY <3>1, <3>2 DEF GetDraftSnapshot, database, tables, IInv, TypeOK
    <3> QED
      BY <1>2, <2>1, <3>2, <3>3
  <2>2. CASE t # r
    <3>1. op'[t] = op[t] /\ pc'[t] = pc[t] /\ user'[t] = user[t] /\ target'[t] = target[t]
      BY <2>2 DEF Others, OtherSessions
    <3>2. t \in cartless \/ IsDraft(orders[target[t]], user[t])
      BY <1>2, <3>1 DEF AnswerRules, KnowsCartless
    <3>3. user[t] \in Users /\ target[t] \in OrderIDs
      BY <1>2, <3>1 DEF Effects, RequestEffects, Asks, CartMethods, CartCalls, EditMethods,
         IInv, RequestInv
    <3>4. CASE IsDraft(orders[target[t]], user[t])
      <4>1. ~ \E q \in OrderIDs : IsDraft(orders'[q], user[t])
        BY <1>2, <3>1, <3>3, <3>4, LosesItsCart DEF Next
      <4>2. ~HasCart(user[t])'
        BY <3>1, <4>1 DEF HasCart
      <4> QED
        BY <1>1, <4>2
    <3> QED
      BY <1>1, <3>2, <3>4
  <2> QED
    BY <2>1, <2>2
<1> QED
  BY <1>1, <1>2

\* What a step of r guarantees to the others.
LEMMA StepIsPreserved ==
    ASSUME IInv, NEW r \in Requests, Begins(r) \/ Step(r) \/ Abort(r)
    PROVE  Preserved(r)
  BY BeginsPreserve, AbortPreserves, OrderServiceStepPreserves, CartServiceStepPreserves,
     ProductServiceStepPreserves, CommitPreserves, RejectPreserves DEF Step, TableFull

\* Nobody has come in.
LEMMA InitAnswers == HttpInit => AnswerRules
<1>1. HttpInit => \A r \in Requests : op[r] \notin CartMethods
  BY DEF HttpInit, Init, StoreInit, CartMethods
<1> QED
  BY <1>1, InitCalls DEF HttpInit, AnswerRules, KnowsCartless

\* Every step of Http preserves AnswerRules, given the other four.
LEMMA NextAnswers ==
    IInv /\ Rules /\ Books /\ Effects /\ AnswerRules /\ [HttpNext]_httpVars => AnswerRules'
<1> SUFFICES ASSUME IInv, Rules, Books, Effects, AnswerRules, [HttpNext]_httpVars
             PROVE  AnswerRules'
  OBVIOUS
<1>1. CASE UNCHANGED <<vars, cartless>>
  <2>1. CallRules'
    BY <1>1, NextCalls DEF AnswerRules
  <2>2. UNCHANGED <<op, pc, user, target, orders, cartless>>
    BY <1>1 DEF vars, database, tables, session
  <2>3. \A r \in Requests : KnowsCartless(r)'
    BY <2>2 DEF AnswerRules, KnowsCartless, HasCart
  <2> QED
    BY <2>1, <2>3 DEF AnswerRules
<1>2. CASE NoteCarts /\ \E r \in Requests : Begins(r) \/ Step(r) \/ Abort(r)
  <2>1. PICK r \in Requests : Begins(r) \/ Step(r) \/ Abort(r)
    BY <1>2
  <2>2. CallRules'
    BY <2>1, NextCalls DEF AnswerRules, Next
  <2>3. Others(r)
    BY <2>1, StepIsPreserved DEF Preserved
  <2>4. \A t \in Requests : KnowsCartless(t)'
    BY <1>2, <2>1, <2>3, NextCartless
  <2> QED
    BY <2>2, <2>4 DEF AnswerRules
<1> QED
  BY <1>1, <1>2, HttpSteps DEF httpVars

\* The invariants of Shop and AnswerRules hold together behind the handlers.
THEOREM AnswerRulesHold == HttpSpec => []AnswerRules
<1>1. IInv /\ Rules /\ Books /\ Effects /\ AnswerRules /\ [HttpNext]_httpVars => AnswerRules'
  BY NextAnswers
<1> QED
  BY <1>1, InitAnswers, HttpRunsTheShop, InvariantHolds, RulesHold, BooksHold, EffectsHold,
     PTL DEF HttpSpec

-----------------------------------------------------------------------------
(* The steps that refuse a call.                                           *)

OrderRefusals(r) ==
    \/ CreateOrderRefuse(r) \/ CancelOrderRefuse(r) \/ PayOrderRefuse(r)
    \/ PayOrderFails(r) \/ PayOrderTimesOut(r)
    \/ UpdateOrderStatusRefuse(r) \/ GetOrderRefuse(r)
CartRefusals(r) ==
    \/ CartNotFound(r) \/ CreateDraftRefuse(r) \/ RecalculateRefuse(r)
    \/ AddItemRefuse(r) \/ UpdateItemRefuse(r) \/ DeleteItemRefuse(r)
    \/ EmptyCart(r) \/ CheckoutRefuse(r)
ProductRefusals(r) == ProductNotFound(r) \/ DeleteProductRefuse(r)

\* A method ends before its commit by a refusal.
LEMMA RefusingSteps ==
    ASSUME TypeOK, NEW r \in Requests, Step(r), pc[r] # "commit", pc'[r] = "idle"
    PROVE  OrderRefusals(r) \/ CartRefusals(r) \/ ProductRefusals(r) \/ TableFull(r)
<1>1. CASE OrderServiceStep(r)
  <2>1. ASSUME \/ CreateOrderLock(r) \/ CreateOrderInsert(r) \/ CreateOrderLine(r)
               \/ CreateOrderDone(r)
        PROVE  FALSE
    BY <2>1 DEF CreateOrderLock, LockSaleProduct, CreateOrderInsert, CreateOrderLine,
       CreateOrderDone, At, Goto, TypeOK
  <2>2. ASSUME \/ CancelOrderRead(r) \/ CancelOrderRestock(r) \/ CancelOrderRestocked(r)
               \/ CancelOrderMark(r) \/ PayOrderRead(r) \/ PayOrderSucceeds(r)
               \/ PayOrderMark(r) \/ UpdateOrderStatusRun(r) \/ GetOrderRow(r)
               \/ GetOrderItems(r)
        PROVE  FALSE
    BY <2>2 DEF CancelOrderRead, ReadOrderForUpdate, CancelOrderRestock,
       CancelOrderRestocked, CancelOrderMark, Mark, PayOrderRead, PayOrderSucceeds,
       PayOrderMark, UpdateOrderStatusRun, GetOrderRow, GetOrderItems, At, Goto, TypeOK
  <2> QED
    BY <1>1, <2>1, <2>2 DEF OrderServiceStep, OrderRefusals
<1>2. CASE CartServiceStep(r)
  <2>1. ASSUME \/ GetDraftSnapshot(r) \/ GetDraftLock(r) \/ GetCartEmpty(r) \/ GetCartItems(r)
               \/ AddItemNoDraft(r) \/ CreateDraft(r) \/ Recalculate(r)
        PROVE  FALSE
    BY <2>1 DEF GetDraftSnapshot, GetDraftLock, AfterDraft, GetCartEmpty, GetCartItems,
       AddItemNoDraft, CreateDraft, Recalculate, At, Goto, TypeOK
  <2>2. ASSUME AddItemToLine(r) \/ AddItemNewLine(r) \/ UpdateItemRun(r) \/ DeleteItemRun(r)
        PROVE  FALSE
    BY <2>2 DEF AddItemToLine, AddItemNewLine, UpdateItemRun, DeleteItemRun, WriteLine,
       Goto, TypeOK
  <2>3. ASSUME \/ CheckoutItems(r) \/ CheckoutLock(r) \/ CheckoutPrice(r) \/ CheckoutTake(r)
               \/ CheckoutSubmit(r)
        PROVE  FALSE
    BY <2>3 DEF CheckoutItems, CheckoutLock, LockSaleProduct, CheckoutPrice, CheckoutTake,
       CheckoutSubmit, At, Goto, TypeOK
  <2> QED
    BY <1>2, <2>1, <2>2, <2>3 DEF CartServiceStep, CartRefusals
<1>3. CASE ProductServiceStep(r)
  <2>1. ASSUME CreateProduct(r) \/ UpdateProduct(r) \/ DeleteProduct(r)
               \/ DeleteProductChecked(r)
        PROVE  FALSE
    BY <2>1 DEF CreateProduct, UpdateProduct, DeleteProduct, DeleteProductChecked, Goto, TypeOK
  <2> QED
    BY <1>3, <2>1 DEF ProductServiceStep, ProductRefusals
<1> QED
  BY <1>1, <1>2, <1>3 DEF Step, CommitRequest, Commit

\* What an answer says.
LEMMA AnswerSays ==
    ASSUME NEW r, NEW m, NEW status, NEW e, Answer(r, m, status, e)
    PROVE  reply'.to = r /\ reply'.method = m /\ reply'.status = status /\ reply'.error = e
  BY DEF Answer

\* What the answer to an error is.
LEMMA ErrorAnswer ==
    ASSUME NEW r \in Requests, NEW e, AnswerError(r, e)
    PROVE  /\ reply'.to = r /\ reply'.method = op[r] /\ reply'.error = e
           /\ reply'.status = IF e \in DOMAIN Switch(op[r]) THEN Switch(op[r])[e] ELSE 500
  BY DEF AnswerError, Answer

\* A failure that no handler names.
LEMMA FailureAnswer ==
    ASSUME NEW r \in Requests, NEW e \in {"aborted", "commit_lost"}, AnswerError(r, e)
    PROVE  reply'.to = r /\ reply'.method = op[r] /\ reply'.status = 500 /\ reply'.error = e
<1>1. e \notin DOMAIN Switch(op[r])
  BY DEF Switch, CreateOrderStatus, CancelOrderStatus, GetOrderStatus, PayOrderStatus,
     UpdateOrderStatusStatus, CartStatus, ProductStatus
<1> QED
  BY <1>1, ErrorAnswer

-----------------------------------------------------------------------------
(* Only documented answers.                                                *)

\* The switches name documented statuses, but for the methods of which some
\* error of the switch cannot happen.
LEMMA SwitchesAreDocumented ==
    ASSUME NEW m \in Methods \ {"Checkout", "GetCart", "DeleteItem", "CreateProduct"},
           NEW e \in DOMAIN Switch(m)
    PROVE  Switch(m)[e] \in Documented(m)
<1>1. CASE m = "CreateOrder"
  BY <1>1 DEF Switch, CreateOrderStatus, Documented
<1>2. CASE m = "CancelOrder"
  BY <1>2 DEF Switch, CancelOrderStatus, Documented
<1>3. CASE m = "GetOrder"
  BY <1>3 DEF Switch, GetOrderStatus, Documented
<1>4. CASE m = "PayOrder"
  BY <1>4 DEF Switch, PayOrderStatus, Documented
<1>5. CASE m = "UpdateOrderStatus"
  BY <1>5 DEF Switch, UpdateOrderStatusStatus, Documented
<1>6. CASE m \in {"AddItem", "UpdateItem"}
  BY <1>6 DEF Switch, CartStatus, Documented
<1>7. CASE m \in {"UpdateProduct", "DeleteProduct"}
  BY <1>7 DEF Switch, ProductStatus, Documented
<1> QED
  BY <1>1, <1>2, <1>3, <1>4, <1>5, <1>6, <1>7 DEF Methods

\* An internal error and success are documented for every method, a refused
\* token for those that ask for one.
LEMMA CommonAnswers ==
    ASSUME NEW m \in Methods \cup Reads
    PROVE  /\ 500 \in Documented(m)
           /\ m \in Methods => Success(m) \in Documented(m)
           /\ m \notin Public => 401 \in Documented(m)
           /\ m \in AdminOnly => 403 \in Documented(m)
           /\ m \in TakesArguments => 400 \in Documented(m)
<1>1. CASE m = "CreateOrder"
  BY <1>1 DEF Methods, Documented, Success, Public, AdminOnly, TakesArguments
<1>2. CASE m = "CancelOrder"
  BY <1>2 DEF Methods, Documented, Success, Public, AdminOnly, TakesArguments
<1>3. CASE m = "PayOrder"
  BY <1>3 DEF Methods, Documented, Success, Public, AdminOnly, TakesArguments
<1>4. CASE m = "UpdateOrderStatus"
  BY <1>4 DEF Methods, Documented, Success, Public, AdminOnly, TakesArguments
<1>5. CASE m = "GetOrder"
  BY <1>5 DEF Methods, Documented, Success, Public, AdminOnly, TakesArguments
<1>6. CASE m = "AddItem"
  BY <1>6 DEF Methods, Documented, Success, Public, AdminOnly, TakesArguments
<1>7. CASE m = "UpdateItem"
  BY <1>7 DEF Methods, Documented, Success, Public, AdminOnly, TakesArguments
<1>8. CASE m = "DeleteItem"
  BY <1>8 DEF Methods, Documented, Success, Public, AdminOnly, TakesArguments
<1>9. CASE m = "Checkout"
  BY <1>9 DEF Methods, Documented, Success, Public, AdminOnly, TakesArguments
<1>10. CASE m = "GetCart"
  BY <1>10 DEF Methods, Documented, Success, Public, AdminOnly, TakesArguments
<1>11. CASE m = "CreateProduct"
  BY <1>11 DEF Methods, Documented, Success, Public, AdminOnly, TakesArguments
<1>12. CASE m = "UpdateProduct"
  BY <1>12 DEF Methods, Documented, Success, Public, AdminOnly, TakesArguments
<1>13. CASE m = "DeleteProduct"
  BY <1>13 DEF Methods, Documented, Success, Public, AdminOnly, TakesArguments
<1>14. CASE m = "GetProducts"
  BY <1>14 DEF Methods, Documented, Success, Public, AdminOnly, TakesArguments
<1>15. CASE m = "GetProductByID"
  BY <1>15 DEF Methods, Documented, Success, Public, AdminOnly, TakesArguments
<1>16. CASE m = "ListOrders"
  BY <1>16 DEF Methods, Documented, Success, Public, AdminOnly, TakesArguments
<1> QED
  BY <1>1, <1>2, <1>3, <1>4, <1>5, <1>6, <1>7, <1>8,
     <1>9, <1>10, <1>11, <1>12, <1>13, <1>14, <1>15, <1>16 DEF Methods, Reads

\* A refusal of the service is answered as documented.
LEMMA RefusalsAreDocumented ==
    ASSUME IInv, Rules, Books, CallRules, NEW r \in Requests, Refuse(r), op[r] # "Checkout"
    PROVE  reply'.method = op[r] /\ reply'.status \in Documented(op[r])
<1>1. PICK e \in Errors(r) : AnswerError(r, e)
  BY DEF Refuse
<1>2. /\ reply'.method = op[r]
      /\ reply'.status = IF e \in DOMAIN Switch(op[r]) THEN Switch(op[r])[e] ELSE 500
  BY <1>1, ErrorAnswer
<1>3. pc[r] # "idle" /\ op[r] \in Methods
  <2>1. pc[r] # "idle"
    BY RefusingSteps DEF IInv, Refuse, OrderRefusals, CartRefusals, ProductRefusals,
       CreateOrderRefuse, RefuseSale, CancelOrderRefuse, PayOrderRefuse, RefuseOrder,
       PayOrderFails, PayOrderTimesOut, UpdateOrderStatusRefuse, GetOrderRefuse,
       CartNotFound, NoDraft, CreateDraftRefuse, RecalculateRefuse, AddItemRefuse,
       UpdateItemRefuse, DeleteItemRefuse, EmptyCart, CheckoutRefuse, ProductNotFound,
       DeleteProductRefuse, TableFull, At
  <2> QED
    BY <2>1 DEF CallRules, IsCall
<1>4. CASE op[r] \notin {"Checkout", "GetCart", "DeleteItem", "CreateProduct"}
  BY <1>2, <1>3, <1>4, SwitchesAreDocumented, CommonAnswers
<1>5. CASE op[r] = "CreateProduct"
  <2>1. TableFull(r)
    BY <1>5, RefusingSteps DEF Books, RequestBooks, Edits, IInv, Refuse, OrderRefusals,
       CartRefusals, ProductRefusals,
       CreateOrderRefuse, CancelOrderRefuse, PayOrderRefuse, PayOrderFails,
       PayOrderTimesOut, UpdateOrderStatusRefuse, GetOrderRefuse,
       CartNotFound, CreateDraftRefuse, RecalculateRefuse, AddItemRefuse,
       UpdateItemRefuse, DeleteItemRefuse, EmptyCart, CheckoutRefuse, ProductNotFound,
       DeleteProductRefuse, At
  <2>2. pc[r] \in {"product", "insert", "create"}
    BY <2>1 DEF TableFull, At
  <2>3. e \in {"table_full", "unique_violation"}
    BY <1>1, <1>5, <2>2 DEF Errors, At
  <2>4. e \notin DOMAIN Switch(op[r])
    BY <1>5, <2>3 DEF Switch, ProductStatus
  <2> QED
    BY <1>2, <1>3, <2>4, CommonAnswers
<1>6. CASE op[r] \in {"GetCart", "DeleteItem"}
  <2>1. \/ CartNotFound(r) /\ op[r] = "DeleteItem"
        \/ RecalculateRefuse(r) /\ op[r] = "DeleteItem"
        \/ DeleteItemRefuse(r)
        \/ TableFull(r)
    BY <1>6, RefusingSteps DEF Books, RequestBooks, Edits, IInv, Refuse, OrderRefusals,
       CartRefusals, ProductRefusals,
       CreateOrderRefuse, CancelOrderRefuse, PayOrderRefuse, PayOrderFails,
       PayOrderTimesOut, UpdateOrderStatusRefuse, GetOrderRefuse,
       CartNotFound, CreateDraftRefuse, RecalculateRefuse, AddItemRefuse,
       UpdateItemRefuse, DeleteItemRefuse, EmptyCart, CheckoutRefuse, ProductNotFound,
       DeleteProductRefuse, At
  <2>2. CASE TableFull(r)
    <3>1. pc[r] \in {"insert", "create"}
      BY <1>6, <2>2 DEF TableFull, At
    <3>2. e \in {"table_full", "unique_violation"}
      BY <1>1, <3>1 DEF Errors, At
    <3>3. e \notin DOMAIN Switch(op[r])
      BY <1>6, <3>2 DEF Switch, CartStatus
    <3> QED
      BY <1>2, <1>3, <3>3, CommonAnswers
  <2>3. CASE ~TableFull(r)
    <3>1. op[r] = "DeleteItem" /\ pc[r] \in {"snapshot", "draft", "recalculate", "remove"}
      BY <2>1, <2>3 DEF CartNotFound, NoDraft, RecalculateRefuse, DeleteItemRefuse, At
    <3>2. e \in {"cart_not_found", "different_currencies", "cart_item_not_found"}
      BY <1>1, <3>1 DEF Errors, At
    <3> QED
      BY <1>2, <3>1, <3>2 DEF Switch, CartStatus, Documented
  <2> QED
    BY <2>2, <2>3
<1> QED
  BY <1>4, <1>5, <1>6

\* Every answer to an operation but Checkout is one that the API document
\* lists, in every interleaving and with every failure.
THEOREM AnswersFollowTheDocument == HttpSpec => []AnswersAreDocumented
<1>1. HttpInit => AnswersAreDocumented
  BY DEF HttpInit, AnswersAreDocumented
<1>2. ASSUME IInv, Rules, Books, AnswerRules, AnswersAreDocumented, [HttpNext]_httpVars
      PROVE  AnswersAreDocumented'
  <2>1. CASE UNCHANGED httpVars
    BY <1>2, <2>1 DEF httpVars, AnswersAreDocumented
  <2>2. CASE HttpNext
    <3>1. PICK r \in Requests :
              \/ Unauthorized(r) \/ BadRequest(r) \/ Receive(r) \/ Proceed(r)
              \/ Succeed(r) \/ Refuse(r) \/ Fail(r) \/ CommitLost(r)
              \/ GetProducts(r) \/ GetProductByID(r) \/ ListOrders(r)
      BY <2>2 DEF HttpNext
    <3>2. pc[r] # "idle" => op[r] \in Methods
      BY <1>2 DEF AnswerRules, CallRules, IsCall
    <3>3. CASE Unauthorized(r)
      <4>1. PICK m \in Enabled \ Public :
                \/ Answer(r, m, 401, "unauthorized")
                \/ m \in AdminOnly /\ Answer(r, m, 403, "forbidden")
        BY <3>3 DEF Unauthorized
      <4> QED
        BY <4>1, CommonAnswers, RoutesAssumption DEF Answer, AnswersAreDocumented
    <3>4. CASE BadRequest(r)
      <4>1. PICK m \in Enabled \cap TakesArguments :
                \/ Answer(r, m, 400, "invalid")
                \/ m = "UpdateOrderStatus" /\ Answer(r, m, 409, "invalid_order_state")
        BY <3>4 DEF BadRequest
      <4>2. 409 \in Documented("UpdateOrderStatus")
        BY DEF Documented
      <4> QED
        BY <4>1, <4>2, CommonAnswers, RoutesAssumption DEF Answer, AnswersAreDocumented
    <3>5. CASE Receive(r) \/ Proceed(r)
      BY <3>5 DEF Receive, Proceed, Silent, AnswersAreDocumented
    <3>6. CASE Succeed(r)
      <4>1. pc[r] = "commit" /\ reply'.method = op[r] /\ reply'.status = Success(op[r])
        BY <3>6 DEF Succeed, CommitRequest, Commit, Answer
      <4> QED
        BY <3>2, <4>1, CommonAnswers DEF AnswersAreDocumented
    <3>7. CASE Refuse(r)
      <4>1. CASE op[r] = "Checkout"
        <5>1. reply'.method = "Checkout"
          BY <3>7, <4>1, ErrorAnswer DEF Refuse
        <5> QED
          BY <5>1 DEF AnswersAreDocumented
      <4>2. CASE op[r] # "Checkout"
        BY <1>2, <3>7, <4>2, RefusalsAreDocumented DEF AnswerRules, AnswersAreDocumented
      <4> QED
        BY <4>1, <4>2
    <3>8. CASE Fail(r) \/ CommitLost(r)
      <4>1. pc[r] # "idle" /\ reply'.method = op[r] /\ reply'.status = 500
        BY <3>8, FailureAnswer DEF Fail, Abort, CommitLost, CommitRequest, Commit
      <4> QED
        BY <3>2, <4>1, CommonAnswers DEF AnswersAreDocumented
    <3>9. CASE GetProducts(r) \/ GetProductByID(r) \/ ListOrders(r)
      <4>1. /\ reply'.method \in Reads
            /\ reply'.status \in {200, 500} \/ (reply'.method = "GetProductByID"
                                                /\ reply'.status = 404)
        <5>1. CASE GetProducts(r)
          <6>1. PICK status \in {200, 500} : Answer(r, "GetProducts", status, "")
            BY <5>1 DEF GetProducts
          <6> QED
            BY <6>1 DEF Answer, Reads
        <5>2. CASE GetProductByID(r)
          <6>1. PICK status \in {200, 404, 500}, error \in {"", "product_not_found"} :
                    Answer(r, "GetProductByID", status, error)
            BY <5>2 DEF GetProductByID
          <6> QED
            BY <6>1 DEF Answer, Reads
        <5>3. CASE ListOrders(r)
          <6>1. PICK status \in {200, 500} : Answer(r, "ListOrders", status, "")
            BY <5>3 DEF ListOrders
          <6> QED
            BY <6>1 DEF Answer, Reads
        <5> QED
          BY <3>9, <5>1, <5>2, <5>3
      <4> QED
        BY <4>1 DEF Reads, Documented, AnswersAreDocumented
    <3> QED
      BY <3>1, <3>3, <3>4, <3>5, <3>6, <3>7, <3>8, <3>9
  <2> QED
    BY <1>2, <2>1, <2>2
<1>3. IInv /\ Rules /\ Books /\ AnswerRules /\ AnswersAreDocumented /\ [HttpNext]_httpVars
          => AnswersAreDocumented'
  BY <1>2
<1> QED
  BY <1>1, <1>3, HttpRunsTheShop, InvariantHolds, RulesHold, BooksHold, AnswerRulesHold,
     PTL DEF HttpSpec

-----------------------------------------------------------------------------
(* True answers to PayOrder.                                               *)

\* Who gets the answer has taken the step.
LEMMA AnswersItsCaller ==
    ASSUME NEW r \in Requests, HttpNext, reply'.to = r
    PROVE  \/ pc[r] = "idle" /\ UNCHANGED vars /\ reply'.status \notin {204, 402}
           \/ Succeed(r) \/ Refuse(r) \/ Fail(r) \/ CommitLost(r)
<1>1. PICK q \in Requests :
          \/ Unauthorized(q) \/ BadRequest(q) \/ Receive(q) \/ Proceed(q)
          \/ Succeed(q) \/ Refuse(q) \/ Fail(q) \/ CommitLost(q)
          \/ GetProducts(q) \/ GetProductByID(q) \/ ListOrders(q)
  BY DEF HttpNext
<1>2. CASE Unauthorized(q) \/ BadRequest(q)
  BY <1>2 DEF Unauthorized, BadRequest, Answer
<1>3. CASE Receive(q) \/ Proceed(q)
  <2>1. reply' = NoReply
    BY <1>3 DEF Receive, Proceed, Silent
  <2>2. reply'.to = None
    BY <2>1 DEF NoReply
  <2> QED
    BY <2>2, NullAssumption
<1>4. CASE Succeed(q) \/ Refuse(q) \/ Fail(q) \/ CommitLost(q)
  <2>1. \E m, status, e : Answer(q, m, status, e)
    BY <1>4 DEF Succeed, Refuse, Fail, CommitLost, AnswerError
  <2>2. reply'.to = q
    BY <2>1 DEF Answer
  <2> QED
    BY <1>4, <2>2
<1>5. CASE GetProducts(q)
  <2>1. PICK status \in {200, 500} : Answer(q, "GetProducts", status, "")
    BY <1>5 DEF GetProducts
  <2>2. pc[q] = "idle" /\ UNCHANGED vars
    BY <1>5 DEF GetProducts
  <2>3. reply'.to = q /\ reply'.status = status
    BY <2>1 DEF Answer
  <2>4. status \notin {204, 402}
    OBVIOUS
  <2> QED
    BY <2>2, <2>3, <2>4
<1>6. CASE GetProductByID(q)
  <2>0. \E status \in {200, 404, 500}, e \in {"", "product_not_found"} :
            Answer(q, "GetProductByID", status, e)
    BY <1>6 DEF GetProductByID
  <2>1. PICK status \in {200, 404, 500} : \E e : Answer(q, "GetProductByID", status, e)
    BY <2>0
  <2>2. pc[q] = "idle" /\ UNCHANGED vars
    BY <1>6 DEF GetProductByID
  <2>3. reply'.to = q /\ reply'.status = status
    BY <2>1 DEF Answer
  <2>4. status \notin {204, 402}
    OBVIOUS
  <2> QED
    BY <2>2, <2>3, <2>4
<1>7. CASE ListOrders(q)
  <2>1. PICK status \in {200, 500} : Answer(q, "ListOrders", status, "")
    BY <1>7 DEF ListOrders
  <2>2. pc[q] = "idle" /\ UNCHANGED vars
    BY <1>7 DEF ListOrders
  <2>3. reply'.to = q /\ reply'.status = status
    BY <2>1 DEF Answer
  <2>4. status \notin {204, 402}
    OBVIOUS
  <2> QED
    BY <2>2, <2>3, <2>4
<1> QED
  BY <1>1, <1>2, <1>3, <1>4, <1>5, <1>6, <1>7

\* Who is told that it is paid has paid; who is told that the payment was
\* refused has not.
LEMMA PaymentAnswer ==
    ASSUME IInv, Rules, CallRules, HttpNext,
           NEW r \in Requests, reply'.to = r, op[r] = "PayOrder"
    PROVE  /\ reply'.status = 204 =>
                 orders'[target[r]].status = "paid" /\ target[r] \in charged'
           /\ reply'.status = 402 => UNCHANGED payment
<1>1. CASE Succeed(r)
  <2>1. /\ pc[r] = "commit" /\ UNCHANGED payment
        /\ orders' = [o \in OrderIDs |-> IF orderLock[o] = r THEN ordersW[o] ELSE orders[o]]
    BY <1>1 DEF Succeed, CommitRequest, Commit
  <2>2. target[r] \in OrderIDs /\ orderLock[target[r]] = r
    BY <2>1 DEF Rules, RequestRules, MarksPaid, At
  <2>3. target[r] \in charged /\ ordersW[target[r]].status = "paid"
    BY <2>1 DEF CallRules, HasPaid
  <2> QED
    BY <2>1, <2>2, <2>3 DEF payment
<1>2. CASE Refuse(r)
  <2>1. PICK e \in Errors(r) :
            AnswerError(r, e) /\ (payment' # payment => e \in {"payment_timeout", "pay"})
    BY <1>2 DEF Refuse
  <2>2. reply'.status = IF e \in DOMAIN PayOrderStatus THEN PayOrderStatus[e] ELSE 500
    BY <2>1, ErrorAnswer DEF Switch
  <2>3. reply'.status # 204 /\ (reply'.status = 402 => e = "payment_failed")
    BY <2>2 DEF PayOrderStatus
  <2> QED
    BY <2>1, <2>3
<1>3. CASE Fail(r) \/ CommitLost(r)
  BY <1>3, FailureAnswer DEF Fail, CommitLost
<1> QED
  BY <1>1, <1>2, <1>3, AnswersItsCaller

\* What PayOrder answers is what has happened to the money and the order.
THEOREM PaymentsAreAnsweredTruly == HttpSpec => PaymentAnswersAreTrue
<1> DEFINE Told ==
        \A r \in Requests : reply'.to = r /\ op[r] = "PayOrder" =>
            /\ reply'.status = 204 =>
                  orders'[target[r]].status = "paid" /\ target[r] \in charged'
            /\ reply'.status = 402 => UNCHANGED payment
<1>1. IInv /\ Rules /\ AnswerRules /\ [HttpNext]_httpVars => [Told]_httpVars
  BY PaymentAnswer DEF AnswerRules
<1> QED
  BY <1>1, HttpRunsTheShop, InvariantHolds, RulesHold, AnswerRulesHold,
     PTL DEF HttpSpec, PaymentAnswersAreTrue

-----------------------------------------------------------------------------
(* True refusals.                                                          *)

\* Of these errors nothing is claimed.
LEMMA VagueErrors ==
    ASSUME NEW r \in Requests,
           NEW e \in {"", "aborted", "commit_lost", "payment_failed", "payment_timeout",
                      "pay", "table_full", "unique_violation", "foreign_key_violation"}
    PROVE  IsTrue(r, e)
  BY DEF IsTrue

\* A product that is not locked by another, and that the request has not
\* changed, is as it is committed.
LEMMA SeesCommitted ==
    ASSUME IInv, Books, NEW r \in Requests, TouchesNoStock(r),
           NEW p \in ProductIDs, ProductAvailable(r, p)
    PROVE  productsW[p] = products[p]
  BY DEF IInv, RowInv, UnlockedRowsAgree, Books, RequestBooks, StockBooks, ProductAvailable

\* The order that an edit has locked is the cart of its user, or will be.
LEMMA EditsTheCart ==
    ASSUME Rules, Effects, NEW r \in Requests, op[r] \in EditMethods, OwnsTarget(r)
    PROVE  /\ target[r] \in OrderIDs
           /\ \A o \in OrderIDs : IsDraft(orders[o], user[r]) => o = target[r]
           /\ \/ IsDraft(orders[target[r]], user[r])
              \/ op[r] = "AddItem" /\ orders[target[r]] = NoRow
<1>1. EditsOwnCart(r) /\ EditsDraft(r) /\ Asks(r)
  BY DEF Rules, RequestRules, Effects, RequestEffects, CartEffects
<1>2. IsDraft(ordersW[target[r]], user[r]) /\ user[r] \in Users /\ target[r] \in OrderIDs
  BY <1>1 DEF EditsOwnCart, EditsDraft, HasOrder, IsDraft, Asks, CartCalls
<1>3. \A o \in OrderIDs : IsDraft(orders[o], user[r]) => o = target[r]
  BY <1>2 DEF Rules, DraftRule, MayBeDraft
<1> QED
  BY <1>1, <1>2, <1>3 DEF EditsOwnCart, HasOrder

\* So what is in the cart of its user is what it has locked.
LEMMA LockedCart ==
    ASSUME Rules, Effects, CallRules, NEW r \in Requests, op[r] \in EditMethods, OwnsTarget(r)
    PROVE  InCart(user[r]) = {p \in ProductIDs : References(items[target[r]], p)}
<1>1. /\ target[r] \in OrderIDs
      /\ \A o \in OrderIDs : IsDraft(orders[o], user[r]) => o = target[r]
      /\ \/ IsDraft(orders[target[r]], user[r])
         \/ orders[target[r]] = NoRow
  BY EditsTheCart
<1>2. orders[target[r]] = NoRow => items[target[r]] = NoLines
  BY <1>1 DEF CallRules, LinesHaveOrder
<1>3. \A p : ~References(NoLines, p)
  BY DEF References, NoLines
<1> QED
  BY <1>1, <1>2, <1>3 DEF InCart

\* And the quantity of a product in it.
LEMMA LockedQuantity ==
    ASSUME IInv, Rules, Effects, CallRules, NEW r \in Requests, op[r] \in EditMethods,
           OwnsTarget(r), NEW p \in ProductIDs
    PROVE  CartQuantity(user[r], p) = LineQuantity(items[target[r]], p)
<1> DEFINE u == user[r]
           x == target[r]
           in == [o \in OrderIDs |-> IF IsDraft(orders[o], u) THEN LineQuantity(items[o], p)
                                     ELSE 0]
           none == [o \in OrderIDs |-> 0]
<1>1. /\ x \in OrderIDs
      /\ \A o \in OrderIDs : IsDraft(orders[o], u) => o = x
      /\ IsDraft(orders[x], u) \/ orders[x] = NoRow
  BY EditsTheCart
<1>2. \A o \in OrderIDs : LineQuantity(items[o], p) \in Nat
  BY QuantityIsPositive DEF IInv, TypeOK
<1>3. in[x] = LineQuantity(items[x], p)
  <2>1. CASE IsDraft(orders[x], u)
    BY <1>1, <2>1
  <2>2. CASE ~IsDraft(orders[x], u)
    <3>1. items[x] = NoLines
      BY <1>1, <2>2 DEF CallRules, LinesHaveOrder
    <3>2. LineQuantity(NoLines, p) = 0
      BY DEF LineQuantity, References, NoLines
    <3> QED
      BY <1>1, <2>2, <3>1, <3>2
  <2> QED
    BY <2>1, <2>2
<1>4. in \in [OrderIDs -> Nat] /\ none \in [OrderIDs -> Nat]
  BY <1>2
<1>5. \A o \in OrderIDs \ {x} : none[o] = in[o]
  BY <1>1
<1>6. none[x] = 0 /\ \A o \in OrderIDs : none[o] = 0
  BY <1>1
<1>7. CartQuantity(u, p) = SumOver(in)
  BY SumsAreOne DEF CartQuantity
<1> HIDE DEF in, none
<1>8. SumOver(in) + none[x] = SumOver(none) + in[x]
  BY <1>1, <1>4, <1>5, SlotsAreFinite, SumOfChange
<1>9. SumOver(none) = 0 /\ SumOver(in) \in Nat /\ in[x] \in Nat
  BY <1>1, <1>4, <1>6, SlotsAreFinite, SumOfZeros, SumInNat
<1> QED
  BY <1>3, <1>6, <1>7, <1>8, <1>9

\* A sale that is refused while it locks its products.
LEMMA SaleRefusalIsTrue ==
    ASSUME IInv, Books, NEW r \in Requests, op[r] \in Sales, RefuseSale(r),
           NEW e \in Errors(r)
    PROVE  IsTrue(r, e)
<1>1. PICK p \in ProductIDs : IsNextToLock(r, p) /\ SaleRefused(r, p)
  BY DEF RefuseSale
<1>2. pc[r] = "lock" /\ TouchesNoStock(r) /\ op[r] # "AddItem"
  BY DEF RefuseSale, TouchesNoStock, Sales
<1>3. PICK q \in ProductIDs : IsNextToLock(r, q) /\ e = SaleError(r, q)
  <2>1. Errors(r) = {SaleError(r, q) : q \in {s \in ProductIDs : IsNextToLock(r, s)}}
    BY <1>2 DEF Errors, At
  <2> QED
    BY <2>1
<1>4. q = p /\ p \in Asked(r) /\ want[r][p] \in Nat
  <2>1. p <= q /\ q <= p /\ want[r][p] > 0
    BY <1>1, <1>3 DEF IsNextToLock
  <2>2. want[r][p] \in Nat
    BY DEF IInv, TypeOK
  <2>3. p \in Nat /\ q \in Nat
    BY DEF ProductIDs
  <2> QED
    BY <2>1, <2>2, <2>3 DEF Asked
<1>5. CASE ~ProductExists(p)
  <2>1. e = "product_not_found"
    BY <1>3, <1>4, <1>5 DEF SaleError
  <2> QED
    BY <1>4, <1>5, <2>1 DEF IsTrue, ProductExists
<1>6. CASE ProductExists(p)
  <2>1. productsW[p] = products[p]
    BY <1>1, <1>2, <1>6, SeesCommitted DEF SaleRefused
  <2>2. CASE productsW[p].stock < want[r][p]
    <3>1. e = "insufficient_stock"
      BY <1>3, <1>4, <1>6, <2>2 DEF SaleError
    <3>2. products[p].stock < want[r][p] + 0
      BY <1>4, <2>1, <2>2
    <3> QED
      BY <1>2, <1>4, <1>6, <3>1, <3>2 DEF IsTrue, ProductExists
  <2>3. CASE ~(productsW[p].stock < want[r][p])
    <3>1. e = "different_currencies"
      BY <1>3, <1>4, <1>6, <2>3 DEF SaleError
    <3>2. PICK s \in ProductIDs :
              seen[r][s] # NoRow /\ seen[r][s].currency # productsW[p].currency
      BY <1>1, <1>6, <2>3 DEF SaleRefused, CurrencyMatches
    <3>3. productLock[s] = r /\ productsW[s] = seen[r][s] /\ s \in Asked(r)
      BY <3>2 DEF IInv, RequestInv, Claim, Asked
    <3>4. products[s] = productsW[s]
      BY <1>2, <3>3, SeesCommitted DEF ProductAvailable
    <3>5. Compared(r) = Asked(r)
      BY DEF Compared, Sales
    <3> QED
      BY <1>4, <2>1, <3>1, <3>2, <3>3, <3>4, <3>5 DEF IsTrue
  <2> QED
    BY <2>2, <2>3
<1> QED
  BY <1>5, <1>6

\* An order that a request without a locked order finds free is as it is
\* committed.
LEMMA FreeOrderIsCommitted ==
    ASSUME IInv, Rules, NEW r \in Requests, HoldsNoOrder(r),
           NEW o \in OrderIDs, OrderAvailable(r, o)
    PROVE  ordersW[o] = orders[o]
<1>1. orderLock[o] # r
  BY DEF Rules, RequestRules, LocksItsOrder
<1> QED
  BY <1>1 DEF IInv, RowInv, UnlockedRowsAgree, OrderAvailable

\* A call that is refused the order it names.
LEMMA OrderRefusalIsTrue ==
    ASSUME IInv, Rules, CallRules, NEW r \in Requests, OrderRefusals(r),
           ~CreateOrderRefuse(r), NEW e \in Errors(r)
    PROVE  IsTrue(r, e)
<1>1. CASE PayOrderFails(r) \/ PayOrderTimesOut(r)
  <2>1. pc[r] = "charge"
    BY <1>1 DEF PayOrderFails, PayOrderTimesOut, At
  <2>2. e \in PaymentErrors
    BY <2>1 DEF Errors, At
  <2> QED
    BY <2>2, VagueErrors DEF PaymentErrors
<1>2. CASE \/ CancelOrderRefuse(r) \/ PayOrderRefuse(r)
           \/ UpdateOrderStatusRefuse(r) \/ GetOrderRefuse(r)
  <2>1. pc[r] = "order" /\ HoldsNoOrder(r) /\ target[r] \in OrderIDs
    BY <1>2 DEF CancelOrderRefuse, PayOrderRefuse, RefuseOrder, UpdateOrderStatusRefuse,
       GetOrderRefuse, At, HoldsNoOrder, CallRules, IsCall
  <2>2. e = OrderError(r)
    <3>1. Errors(r) = {OrderError(r)}
      BY <2>1 DEF Errors, At
    <3> QED
      BY <3>1
  <2>3. CASE ~OrderExists(target[r])
    <3>1. e = "order_not_found" /\ orders[target[r]] = NoRow
      BY <2>1, <2>2, <2>3 DEF OrderError, OrderMissing, OrderExists
    <3> QED
      BY <3>1 DEF IsTrue
  <2>4. CASE OrderExists(target[r]) /\ op[r] = "UpdateOrderStatus"
    <3>1. e = "invalid_order_state"
      BY <2>2, <2>4 DEF OrderError, OrderMissing
    <3> QED
      BY <2>4, <3>1 DEF IsTrue
  <2>5. CASE OrderExists(target[r]) /\ op[r] # "UpdateOrderStatus"
    <3>1. orders[target[r]] # NoRow /\ ordersW[target[r]].user = orders[target[r]].user
      BY <2>1, <2>5 DEF OrderExists, CallRules, KeepsOwner
    <3>2. CASE ordersW[target[r]].user # user[r]
      <4>1. e = "order_forbidden"
        BY <2>2, <2>5, <3>2 DEF OrderError, OrderMissing
      <4> QED
        BY <3>1, <3>2, <4>1 DEF IsTrue
    <3>3. CASE ordersW[target[r]].user = user[r]
      <4>1. e = "invalid_order_state"
        BY <2>2, <2>5, <3>3 DEF OrderError, OrderMissing
      <4>2. RefuseOrder(r)
        BY <1>2, <2>5, <3>1, <3>3
           DEF CancelOrderRefuse, PayOrderRefuse, UpdateOrderStatusRefuse, GetOrderRefuse,
               OrderMissing, At
      <4>3. /\ OrderAvailable(r, target[r])
            /\ ~OwnPending(r, ordersW[target[r]])
        BY <2>5, <4>2 DEF RefuseOrder, OrderMissing
      <4>4. ordersW[target[r]] = orders[target[r]]
        BY <2>1, <4>3, FreeOrderIsCommitted
      <4>5. orders[target[r]].status # "pending"
        BY <3>3, <4>3, <4>4 DEF OwnPending
      <4> QED
        BY <4>1, <4>5 DEF IsTrue
    <3> QED
      BY <3>2, <3>3
  <2> QED
    BY <2>3, <2>4, <2>5
<1> QED
  BY <1>1, <1>2 DEF OrderRefusals

\* A user is told that he has no cart.
LEMMA NoCartIsTrue ==
    ASSUME IInv, Rules, AnswerRules, NEW r \in Requests, CartNotFound(r), NEW e \in Errors(r)
    PROVE  IsTrue(r, e)
<1>1. pc[r] \in {"snapshot", "draft"} /\ op[r] \in CartMethods /\ NoDraft(r)
  BY DEF CartNotFound, NoDraft, CartMethods
<1>2. e = "cart_not_found"
  BY <1>1 DEF Errors, At
<1>3. KnowsCartless(r)
  BY DEF AnswerRules
<1>4. CASE pc[r] = "snapshot"
  <2>1. ~HasCart(user[r])
    BY <1>1, <1>4 DEF NoDraft, HasCart
  <2> QED
    BY <1>1, <1>2, <1>3, <2>1 DEF KnowsCartless, IsTrue
<1>5. CASE pc[r] = "draft"
  <2>1. OrderAvailable(r, target[r]) /\ ~IsDraft(ordersW[target[r]], user[r])
    BY <1>1, <1>5 DEF NoDraft
  <2>2. target[r] \in OrderIDs /\ HoldsNoOrder(r)
    BY <1>5 DEF IInv, RequestInv, HoldsNoOrder
  <2>3. ordersW[target[r]] = orders[target[r]]
    BY <2>1, <2>2, FreeOrderIsCommitted
  <2> QED
    BY <1>1, <1>2, <1>3, <1>5, <2>1, <2>3 DEF KnowsCartless, IsTrue
<1> QED
  BY <1>1, <1>4, <1>5

\* The lines of a cart are in two currencies.
LEMMA CurrencyRefusalIsTrue ==
    ASSUME IInv, Rules, Books, Effects, CallRules, NEW r \in Requests,
           RecalculateRefuse(r), NEW e \in Errors(r)
    PROVE  IsTrue(r, e)
<1>1. pc[r] = "recalculate" /\ op[r] \in {"AddItem", "UpdateItem", "DeleteItem"}
  BY DEF RecalculateRefuse, Books, RequestBooks, Edits
<1>2. e = "different_currencies"
  BY <1>1 DEF Errors, At
<1>3. /\ op[r] \in EditMethods /\ OwnsTarget(r) /\ TouchesNoStock(r)
      /\ EditsAsAsked(r) /\ target[r] \in OrderIDs
  BY <1>1 DEF EditMethods, OwnsTarget, TouchesNoStock, Sales, Catalogue, CallRules,
     IInv, RequestInv
<1>4. InCart(user[r]) = {p \in ProductIDs : References(items[target[r]], p)}
  BY <1>3, LockedCart
<1>5. itemsW[target[r]] \in Lines
  BY <1>3 DEF IInv, TypeOK
<1>6. ASSUME NEW c \in LineCurrencies(r, itemsW[target[r]])
      PROVE  \E p \in Compared(r) : c = products[p].currency
  <2>1. PICK s \in Slots :
            /\ itemsW[target[r]][s] # NoRow
            /\ c = ProductSeenBy(r, itemsW[target[r]][s].product).currency
    BY <1>6 DEF LineCurrencies
  <2>2. PICK p \in ProductIDs : p = itemsW[target[r]][s].product
    BY <1>5, <2>1 DEF Lines, ItemRow
  <2>3. References(itemsW[target[r]], p)
    BY <2>1, <2>2 DEF References
  <2>4. /\ p \in InCart(user[r]) \/ p \in Asked(r)
        /\ op[r] = "DeleteItem" => p \notin Asked(r)
    BY <1>1, <1>3, <1>4, <2>3 DEF EditsAsAsked
  <2>5. p \in Compared(r)
    BY <1>1, <2>4 DEF Compared
  <2>6. ProductSeenBy(r, p) = products[p]
    BY <1>3, SeesCommitted DEF ProductSeenBy, ProductAvailable
  <2> QED
    BY <2>1, <2>2, <2>5, <2>6
<1>7. \E c, d \in LineCurrencies(r, itemsW[target[r]]) : c # d
  BY DEF RecalculateRefuse
<1>8. \E p, q \in Compared(r) : products[p].currency # products[q].currency
  BY <1>6, <1>7
<1> QED
  BY <1>2, <1>8 DEF IsTrue

\* There is not enough of a product, or no such line.
LEMMA LineRefusalIsTrue ==
    ASSUME IInv, Rules, Books, Effects, CallRules, NEW r \in Requests,
           AddItemRefuse(r) \/ UpdateItemRefuse(r), NEW e \in Errors(r)
    PROVE  IsTrue(r, e)
<1> DEFINE ls == items[target[r]]
           Before(p) == IF op[r] = "AddItem" THEN LineQuantity(ls, p) ELSE 0
<1>1. pc[r] = "product" /\ op[r] \in {"AddItem", "UpdateItem"}
  BY DEF AddItemRefuse, UpdateItemRefuse, At
<1>2. /\ op[r] \in EditMethods /\ OwnsTarget(r) /\ TouchesNoStock(r)
      /\ itemsW[target[r]] = ls
  BY <1>1 DEF EditMethods, OwnsTarget, TouchesNoStock, Sales, Catalogue,
     Effects, RequestEffects, CartEffects, LinesUnwritten
<1>3. PICK p \in ProductIDs, n \in Nat : want[r] = Only(p, n)
  BY <1>1, BoundsAssumption DEF Effects, RequestEffects, Asks
<1>4. \A q \in ProductIDs : want[r][q] > 0 => q = p
  BY <1>3, OnlyOne
<1>5. /\ p \in Asked(r)
      /\ \/ LineRefused(r, p, want[r][p] + Before(p))
         \/ op[r] = "UpdateItem" /\ ProductExists(p) /\ ProductAvailable(r, p)
            /\ ~References(ls, p)
  <2>1. CASE AddItemRefuse(r)
    <3>1. op[r] = "AddItem" /\ \E q \in ProductIDs :
              want[r][q] > 0 /\ LineRefused(r, q, want[r][q] + LineQuantity(itemsW[target[r]], q))
      BY <2>1 DEF AddItemRefuse, At
    <3> QED
      BY <1>2, <1>4, <3>1 DEF Asked
  <2>2. CASE UpdateItemRefuse(r)
    <3>1. op[r] = "UpdateItem" /\ \E q \in ProductIDs :
              /\ want[r][q] > 0
              /\ \/ LineRefused(r, q, want[r][q])
                 \/ /\ ProductExists(q) /\ ProductAvailable(r, q)
                    /\ ~References(itemsW[target[r]], q)
      BY <2>2 DEF UpdateItemRefuse, At
    <3>2. want[r][p] + 0 = want[r][p]
      BY DEF IInv, TypeOK
    <3> QED
      BY <1>2, <1>4, <3>1, <3>2 DEF Asked
  <2> QED
    BY <2>1, <2>2
<1>6. e = LineError(r, p, want[r][p] + Before(p))
  <2>1. CASE op[r] = "AddItem"
    <3>1. Errors(r) = {LineError(r, q, want[r][q] + LineQuantity(itemsW[target[r]], q)) :
                           q \in {x \in ProductIDs : want[r][x] > 0}}
      BY <1>1, <2>1 DEF Errors, At
    <3> QED
      BY <1>2, <1>4, <2>1, <3>1
  <2>2. CASE op[r] = "UpdateItem"
    <3>1. Errors(r) = {LineError(r, q, want[r][q]) : q \in {x \in ProductIDs : want[r][x] > 0}}
      BY <1>1, <2>2 DEF Errors, At
    <3>2. want[r][p] + 0 = want[r][p]
      BY DEF IInv, TypeOK
    <3> QED
      BY <1>4, <2>2, <3>1, <3>2
  <2> QED
    BY <1>1, <2>1, <2>2
<1>7. CASE ~ProductExists(p)
  <2>1. e = "product_not_found"
    BY <1>6, <1>7 DEF LineError
  <2> QED
    BY <1>5, <1>7, <2>1 DEF IsTrue, ProductExists
<1>8. CASE ProductExists(p) /\ productsW[p].stock < want[r][p] + Before(p)
  <2>1. e = "insufficient_stock"
    BY <1>6, <1>8 DEF LineError
  <2>2. ProductAvailable(r, p)
    BY <1>5, <1>8 DEF LineRefused
  <2>3. productsW[p] = products[p]
    BY <1>2, <2>2, SeesCommitted
  <2>4. Before(p) = IF op[r] = "AddItem" THEN CartQuantity(user[r], p) ELSE 0
    BY <1>2, LockedQuantity
  <2>5. products[p].stock <
            want[r][p] + (IF op[r] = "AddItem" THEN CartQuantity(user[r], p) ELSE 0)
    BY <1>8, <2>3, <2>4
  <2> QED
    BY <1>5, <1>8, <2>1, <2>5 DEF IsTrue, ProductExists
<1>9. CASE ProductExists(p) /\ ~(productsW[p].stock < want[r][p] + Before(p))
  <2>1. e = "cart_item_not_found"
    BY <1>6, <1>9 DEF LineError
  <2>2. ~References(ls, p)
    BY <1>5, <1>9 DEF LineRefused
  <2>3. p \notin InCart(user[r])
    BY <1>2, <2>2, LockedCart
  <2>4. Asked(r) = {p}
    BY <1>4, <1>5 DEF Asked
  <2> QED
    BY <2>1, <2>3, <2>4 DEF IsTrue
<1> QED
  BY <1>7, <1>8, <1>9

\* The line to delete is not in the cart, or there is nothing to check out.
LEMMA EmptyRefusalIsTrue ==
    ASSUME IInv, Rules, Effects, CallRules, NEW r \in Requests,
           DeleteItemRefuse(r) \/ EmptyCart(r), NEW e \in Errors(r)
    PROVE  IsTrue(r, e)
<1>1. CASE DeleteItemRefuse(r)
  <2>1. pc[r] = "remove" /\ op[r] = "DeleteItem"
    BY <1>1 DEF DeleteItemRefuse, At
  <2>2. /\ op[r] \in EditMethods /\ OwnsTarget(r)
        /\ itemsW[target[r]] = items[target[r]]
    BY <2>1 DEF EditMethods, OwnsTarget, Effects, RequestEffects, CartEffects, LinesUnwritten
  <2>3. e = "cart_item_not_found"
    BY <2>1 DEF Errors, At
  <2>4. PICK p \in ProductIDs : want[r][p] > 0 /\ ~References(items[target[r]], p)
    BY <1>1, <2>2 DEF DeleteItemRefuse
  <2>5. PICK q \in ProductIDs : want[r] = Only(q, 1)
    BY <2>1 DEF Effects, RequestEffects, Asks
  <2>6. Asked(r) \subseteq {p}
    BY <2>4, <2>5, OnlyOne DEF Asked
  <2>7. p \notin InCart(user[r])
    BY <2>2, <2>4, LockedCart
  <2> QED
    BY <2>3, <2>6, <2>7 DEF IsTrue
<1>2. CASE EmptyCart(r)
  <2>1. pc[r] = "items" /\ op[r] = "Checkout" /\ itemsW[target[r]] = NoLines
    BY <1>2 DEF EmptyCart, At
  <2>2. /\ op[r] \in EditMethods /\ OwnsTarget(r)
        /\ itemsW[target[r]] = items[target[r]]
    BY <2>1 DEF EditMethods, OwnsTarget, Effects, RequestEffects, CartEffects, LinesUnwritten
  <2>3. e = "empty_cart"
    BY <2>1 DEF Errors, At
  <2>4. HasCart(user[r])
    BY <2>1, <2>2, EditsTheCart DEF HasCart
  <2>5. \A p : ~References(NoLines, p)
    BY DEF References, NoLines
  <2>6. InCart(user[r]) = {}
    BY <2>1, <2>2, <2>5, LockedCart
  <2> QED
    BY <2>3, <2>4, <2>6 DEF IsTrue
<1> QED
  BY <1>1, <1>2

\* The administrator is told that there is no such product.
LEMMA NoProductIsTrue ==
    ASSUME NEW r \in Requests, ProductNotFound(r), NEW e \in Errors(r)
    PROVE  IsTrue(r, e)
<1>1. pc[r] = "product" /\ op[r] \in {"UpdateProduct", "DeleteProduct"}
  BY DEF ProductNotFound
<1>2. e = "product_not_found"
  BY <1>1 DEF Errors, At
<1>3. \E p \in Asked(r) : products[p] = NoRow
  BY DEF ProductNotFound, Asked, ProductExists
<1> QED
  BY <1>2, <1>3 DEF IsTrue

\* What the database refuses says nothing about the rows.
LEMMA VagueRefusals ==
    ASSUME Books, NEW r \in Requests,
           CreateDraftRefuse(r) \/ DeleteProductRefuse(r) \/ TableFull(r), NEW e \in Errors(r)
    PROVE  IsTrue(r, e)
<1>1. CASE CreateDraftRefuse(r)
  <2>1. e = "unique_violation"
    BY <1>1 DEF CreateDraftRefuse, Errors, At
  <2> QED
    BY <2>1, VagueErrors
<1>2. CASE DeleteProductRefuse(r)
  <2>1. e = "foreign_key_violation"
    BY <1>2 DEF DeleteProductRefuse, Errors, At
  <2> QED
    BY <2>1, VagueErrors
<1>3. CASE TableFull(r)
  <2>1. pc[r] \in {"insert", "create"} \/ (pc[r] = "product" /\ op[r] = "CreateProduct")
    BY <1>3 DEF TableFull, At
  <2>2. e \in {"table_full", "unique_violation"}
    BY <2>1 DEF Errors, At
  <2> QED
    BY <2>2, VagueErrors
<1> QED
  BY <1>1, <1>2, <1>3

\* What the caller of r is told is so.
LEMMA RefusalAnswer ==
    ASSUME IInv, Rules, Books, Effects, AnswerRules, HttpNext,
           NEW r \in Requests, reply'.to = r, pc[r] # "idle"
    PROVE  IsTrue(r, reply'.error)
<1>1. CASE Succeed(r)
  <2>1. Answer(r, op[r], Success(op[r]), "")
    BY <1>1 DEF Succeed
  <2>2. reply'.error = ""
    BY <2>1, AnswerSays
  <2> QED
    BY <2>2, VagueErrors
<1>2. CASE Fail(r) \/ CommitLost(r)
  <2>1. PICK e \in {"aborted", "commit_lost"} : AnswerError(r, e)
    BY <1>2 DEF Fail, CommitLost
  <2>2. reply'.error = e
    BY <2>1, ErrorAnswer
  <2> QED
    BY <2>1, <2>2, VagueErrors
<1>3. CASE Refuse(r)
  <2>1. PICK e \in Errors(r) : AnswerError(r, e)
    BY <1>3 DEF Refuse
  <2>2. reply'.error = e
    BY <2>1, ErrorAnswer
  <2>3. OrderRefusals(r) \/ CartRefusals(r) \/ ProductRefusals(r) \/ TableFull(r)
    BY <1>3, RefusingSteps DEF Refuse, IInv
  <2>4. CallRules
    BY DEF AnswerRules
  <2>5. IsTrue(r, e)
    <3>1. CASE CreateOrderRefuse(r) \/ CheckoutRefuse(r)
      <4>1. op[r] \in Sales /\ RefuseSale(r)
        BY <3>1 DEF CreateOrderRefuse, CheckoutRefuse, Sales
      <4> QED
        BY <4>1, SaleRefusalIsTrue
    <3>2. CASE OrderRefusals(r) /\ ~CreateOrderRefuse(r)
      BY <2>4, <3>2, OrderRefusalIsTrue
    <3>3. CASE CartRefusals(r) /\ ~CheckoutRefuse(r)
      BY <2>4, <3>3, NoCartIsTrue, CurrencyRefusalIsTrue, LineRefusalIsTrue,
         EmptyRefusalIsTrue, VagueRefusals DEF CartRefusals
    <3>4. CASE ProductRefusals(r) \/ TableFull(r)
      BY <3>4, NoProductIsTrue, VagueRefusals DEF ProductRefusals
    <3> QED
      BY <2>3, <3>1, <3>2, <3>3, <3>4
  <2> QED
    BY <2>2, <2>5
<1> QED
  BY <1>1, <1>2, <1>3, AnswersItsCaller

\* Every refusal is true in the committed tables of the moment it is sent.
THEOREM RefusalsAreTruthful == HttpSpec => RefusalsAreTrue
<1> DEFINE Told ==
        \A r \in Requests : reply'.to = r /\ pc[r] # "idle" => IsTrue(r, reply'.error)
<1>1. IInv /\ Rules /\ Books /\ Effects /\ AnswerRules /\ [HttpNext]_httpVars
          => [Told]_httpVars
  BY RefusalAnswer
<1> QED
  BY <1>1, HttpRunsTheShop, InvariantHolds, RulesHold, BooksHold, EffectsHold,
     AnswerRulesHold, PTL DEF HttpSpec, RefusalsAreTrue

=============================================================================
