----------------------------- MODULE ShopProofs -----------------------------
(***************************************************************************)
(* Three inductive invariants of the whole backend, IInv, Rules and        *)
(* LockRules, for every number of requests, users, products and orders,    *)
(* and what follows from them: type correctness and ClaimsHold from the    *)
(* first; carts, placed orders, prices, payments and the state machine of  *)
(* an order from the second; the one cause of deadlocks from the third.    *)
(*                                                                         *)
(* The method is rely and guarantee.  A step of r leaves the session of    *)
(* every other request and the rows they have locked alone (Others), so    *)
(* what t relies on stays true while r runs (OthersKeepRequestInv).  What  *)
(* is left to show of each action is what it does to its own request and   *)
(* to the rows (Preserved).  A step that refuses a call is a Reject, dealt *)
(* with once for the three services.                                       *)
(***************************************************************************)
EXTENDS ShopLocks, SumProofs, TLAPS

\* What a step of r guarantees to the other requests.
OtherSessions(r) ==
    \A t \in Requests \ {r} :
        /\ op'[t] = op[t] /\ pc'[t] = pc[t] /\ user'[t] = user[t]
        /\ target'[t] = target[t] /\ want'[t] = want[t] /\ seen'[t] = seen[t]
OtherRows(r) ==
    /\ \A p \in ProductIDs :
          IF productLock[p] \in {None, r}
          THEN productLock'[p] \in {None, r}
          ELSE productLock'[p] = productLock[p] /\ productsW'[p] = productsW[p]
    /\ \A o \in OrderIDs :
          IF orderLock[o] \in {None, r}
          THEN orderLock'[o] \in {None, r}
          ELSE /\ orderLock'[o] = orderLock[o]
               /\ ordersW'[o] = ordersW[o]
               /\ itemsW'[o] = itemsW[o]
Others(r) == OtherSessions(r) /\ OtherRows(r)

\* What is to be shown of every step of r.
Preserved(r) ==
    /\ TypeOK'
    /\ Others(r)
    /\ RowInv'
    /\ RequestInv(r)'

-----------------------------------------------------------------------------

\* The rows a request has locked, and its session, are what its part of the
\* invariant is about: a step of another request does not disturb it.
LEMMA OthersKeepRequestInv ==
    ASSUME IInv, NEW r \in Requests, NEW t \in Requests, t # r, Others(r)
    PROVE  RequestInv(t)'
<1> USE NullAssumption, NoRowAssumption DEF IInv
<1>0. RequestInv(t)
  OBVIOUS
<1>1. /\ op'[t] = op[t] /\ pc'[t] = pc[t] /\ user'[t] = user[t]
      /\ target'[t] = target[t] /\ want'[t] = want[t] /\ seen'[t] = seen[t]
  BY DEF Others, OtherSessions
<1>2. \A p \in ProductIDs : productLock[p] = t =>
          productLock'[p] = t /\ productsW'[p] = productsW[p]
  BY DEF Others, OtherRows
<1>3. \A p \in ProductIDs : productLock'[p] = t => productLock[p] = t
  BY DEF Others, OtherRows
<1>4. \A o \in OrderIDs : orderLock[o] = t =>
          /\ orderLock'[o] = t
          /\ ordersW'[o] = ordersW[o]
          /\ itemsW'[o] = itemsW[o]
  BY DEF Others, OtherRows
<1>5. OwnsTarget(t)' <=> OwnsTarget(t)
  BY <1>1 DEF OwnsTarget
<1>6. InSale(t)' <=> InSale(t)
  BY <1>1 DEF InSale
<1>7. \A p \in ProductIDs : Claim(t, p) => Claim(t, p)'
  BY <1>1, <1>2 DEF Claim
<1>8. AllLocked(t)' <=> AllLocked(t)
  BY <1>1 DEF AllLocked
<1>9. ASSUME op[t] = "Checkout", pc[t] \in {"lock", "price"}
      PROVE  CartIsWanted(t)'
  <2>1. target[t] \in OrderIDs /\ orderLock[target[t]] = t /\ CartIsWanted(t)
    BY <1>0, <1>9 DEF RequestInv, OwnsTarget
  <2> QED
    BY <2>1, <1>1, <1>4 DEF CartIsWanted
<1> QED
  BY <1>0, <1>1, <1>2, <1>3, <1>4, <1>5, <1>6, <1>7, <1>8, <1>9 DEF RequestInv

\* It is enough to show Preserved of each step.
LEMMA PreservedIsEnough ==
    ASSUME IInv, NEW r \in Requests, Preserved(r)
    PROVE  IInv'
<1>1. ASSUME NEW t \in Requests PROVE RequestInv(t)'
  <2>1. CASE t = r
    BY <2>1 DEF Preserved
  <2>2. CASE t # r
    BY <2>2, OthersKeepRequestInv DEF Preserved
  <2> QED
    BY <2>1, <2>2
<1> QED
  BY <1>1 DEF IInv, Preserved

-----------------------------------------------------------------------------
(* The end of a request.                                                   *)

\* A method that returns leaves its session empty, and that of the others alone.
LEMMA ReturnForgets ==
    ASSUME TypeOK, NEW r \in Requests, Return(r)
    PROVE  /\ OtherSessions(r)
           /\ op'[r] = "none" /\ pc'[r] = "idle" /\ seen'[r] = NoProduct
           /\ op' \in [Requests -> Methods \cup {"none"}]
           /\ pc' \in [Requests -> Labels]
           /\ user' \in [Requests -> Users \cup {None}]
           /\ target' \in [Requests -> OrderIDs \cup {NoOrder}]
           /\ want' \in [Requests -> [ProductIDs -> Nat]]
           /\ seen' \in [Requests -> Products]
           /\ current' \in [Requests -> OrderRow \cup {NoRow}]
           /\ lines' \in [Requests -> Lines]
  BY DEF OtherSessions, TypeOK, Return, Goto, Labels, Nothing, NoProduct,
         NoLines, NoOrder, Products, Lines

\* A request that is over relies on nothing.
LEMMA IdleRequestInv ==
    ASSUME NEW r \in Requests,
           op'[r] = "none", pc'[r] = "idle", seen'[r] = NoProduct,
           \A p \in ProductIDs : productLock'[p] # r
    PROVE  RequestInv(r)'
  BY DEF RequestInv, OwnsTarget, NoProduct

\* WithinTransaction rolls back: versions dropped, locks released.
LEMMA RollbackPreserves ==
    ASSUME IInv, NEW r \in Requests, Rollback(r),
           charged' \subseteq OrderIDs \cup {NoOrder},
           unsettled' \subseteq OrderIDs \cup {NoOrder}
    PROVE  Preserved(r)
<1> USE NullAssumption, NoRowAssumption
<1>1. TypeOK /\ RowInv
  BY DEF IInv
<1>2. Return(r) /\ ReleaseLocks(r) /\ UNCHANGED <<tables, ids>>
  BY DEF Rollback
<1>3. TypeOK'
  <2>1. /\ productsW' \in Products /\ ordersW' \in Orders
        /\ itemsW' \in [OrderIDs -> Lines]
    BY <1>1 DEF Rollback, TypeOK, Products, Orders
  <2>2. /\ productLock' \in [ProductIDs -> Requests \cup {None}]
        /\ orderLock' \in [OrderIDs -> Requests \cup {None}]
    BY <1>1, <1>2 DEF ReleaseLocks, TypeOK
  <2> QED
    BY <1>1, <1>2, <2>1, <2>2, ReturnForgets DEF TypeOK, tables, ids
<1>4. Others(r)
  BY <1>1, <1>2, ReturnForgets DEF Others, OtherRows, Rollback, ReleaseLocks, TypeOK
<1>5. RowInv'
  BY <1>1, <1>2 DEF RowInv, UnlockedRowsAgree, FreshIds, OrdersStay, Rollback,
         ReleaseLocks, tables, ids
<1>6. RequestInv(r)'
  <2>1. \A p \in ProductIDs : productLock'[p] # r
    BY <1>2 DEF ReleaseLocks
  <2> QED
    BY <1>1, <1>2, <2>1, ReturnForgets, IdleRequestInv
<1> QED
  BY <1>3, <1>4, <1>5, <1>6 DEF Preserved

\* A method that returns an error rolls back.
LEMMA RejectPreserves ==
    ASSUME IInv, NEW r \in Requests, Reject(r)
    PROVE  Preserved(r)
  BY RollbackPreserves DEF Reject, payment, IInv, TypeOK

\* A request that is cut short rolls back; a charge stays with the provider.
LEMMA AbortPreserves ==
    ASSUME IInv, NEW r \in Requests, Abort(r)
    PROVE  Preserved(r)
<1>1. target[r] \in OrderIDs \cup {NoOrder}
  BY DEF IInv, TypeOK
<1> QED
  BY <1>1, RollbackPreserves DEF Abort, ChargeLost, payment, IInv, TypeOK

\* WithinTransaction commits: versions become the rows, locks are released.
LEMMA CommitPreserves ==
    ASSUME IInv, NEW r \in Requests, CommitRequest(r)
    PROVE  Preserved(r)
<1> USE NullAssumption, NoRowAssumption
<1>1. TypeOK /\ RowInv
  BY DEF IInv
<1>2. /\ Return(r) /\ ReleaseLocks(r) /\ Commit(r)
      /\ UNCHANGED <<working, ids, payment>>
  BY DEF CommitRequest, Commit
<1>3. TypeOK'
  <2>1. /\ products' \in Products /\ orders' \in Orders
        /\ items' \in [OrderIDs -> Lines]
    BY <1>1, <1>2 DEF Commit, TypeOK, Products, Orders
  <2>2. /\ productLock' \in [ProductIDs -> Requests \cup {None}]
        /\ orderLock' \in [OrderIDs -> Requests \cup {None}]
    BY <1>1, <1>2 DEF ReleaseLocks, TypeOK
  <2> QED
    BY <1>1, <1>2, <2>1, <2>2, ReturnForgets DEF TypeOK, working, ids, payment
<1>4. Others(r)
  BY <1>1, <1>2, ReturnForgets DEF Others, OtherRows, ReleaseLocks, working, TypeOK
<1>5. RowInv'
  BY <1>1, <1>2 DEF RowInv, UnlockedRowsAgree, FreshIds, OrdersStay, Commit,
         ReleaseLocks, working, ids
<1>6. RequestInv(r)'
  <2>1. \A p \in ProductIDs : productLock'[p] # r
    BY <1>2 DEF ReleaseLocks
  <2> QED
    BY <1>1, <1>2, <2>1, ReturnForgets, IdleRequestInv
<1> QED
  BY <1>3, <1>4, <1>5, <1>6 DEF Preserved

-----------------------------------------------------------------------------
(* Steps that touch no row.                                                *)

\* A statement that writes and locks no row is no concern of the others.
LEMMA SessionStepPreserves ==
    ASSUME IInv, NEW r \in Requests, UNCHANGED database,
           TypeOK', OtherSessions(r), RequestInv(r)'
    PROVE  Preserved(r)
<1>1. OtherRows(r)
  BY DEF OtherRows, database, working, locks
<1>2. RowInv'
  BY DEF IInv, RowInv, UnlockedRowsAgree, FreshIds, OrdersStay, database,
         tables, working, locks, ids
<1> QED
  BY <1>1, <1>2 DEF Preserved, Others

\* A transaction opens.
LEMMA BeginPreserves ==
    ASSUME IInv, NEW r \in Requests,
           NEW m \in Methods, NEW u \in Users \cup {None},
           NEW o \in OrderIDs \cup {NoOrder}, NEW w \in [ProductIDs -> Nat],
           NEW l \in {"lock", "order", "snapshot", "product"},
           m \in {"CreateOrder", "AddItem"} => u \in Users,
           l = "lock" => m = "CreateOrder",
           l = "product" => m \notin {"AddItem", "UpdateItem"},
           l = "snapshot" =>
               m \in {"GetCart", "AddItem", "UpdateItem", "DeleteItem", "Checkout"},
           Begin(r, m, u, o, w, l), UNCHANGED payment
    PROVE  Preserved(r)
<1>1. TypeOK /\ RequestInv(r)
  BY DEF IInv
<1>2. /\ pc[r] = "idle" /\ UNCHANGED <<database, payment, seen, current, lines>>
      /\ op'[r] = m /\ pc'[r] = l /\ user'[r] = u
  BY <1>1 DEF Begin, Goto, TypeOK
<1>3. TypeOK'
  BY <1>1, <1>2 DEF Begin, Goto, TypeOK, Labels, payment,
         database, tables, working, locks, ids
<1>4. OtherSessions(r)
  BY <1>1, <1>2 DEF Begin, Goto, OtherSessions, TypeOK
<1>5. RequestInv(r)'
  <2>1. seen'[r] = NoProduct
    BY <1>1, <1>2 DEF RequestInv, InSale
  <2>2. \A p \in ProductIDs : seen'[r][p] = NoRow
    BY <2>1 DEF NoProduct
  <2>3. \A p \in ProductIDs : productLock'[p] # r
    BY <1>1, <1>2 DEF RequestInv, database, locks
  <2> QED
    BY <1>1, <1>2, <2>1, <2>2, <2>3 DEF RequestInv, OwnsTarget
<1> QED
  BY <1>2, <1>3, <1>4, <1>5, SessionStepPreserves

\* A call of any method opens its transaction.
LEMMA BeginsPreserve ==
    ASSUME IInv, NEW r \in Requests, Begins(r)
    PROVE  Preserved(r)
<1> USE BoundsAssumption
<1>1. Nothing \in [ProductIDs -> Nat]
  BY DEF Nothing
<1>2. \A p \in ProductIDs, q \in Nat : Only(p, q) \in [ProductIDs -> Nat]
  BY DEF Only, Nothing
<1>3. CASE BeginCreateOrder(r)
  <2>1. PICK u \in Users, w \in [ProductIDs -> Quantities \cup {0}] :
            Begin(r, "CreateOrder", u, NoOrder, w, "lock")
    BY <1>3 DEF BeginCreateOrder
  <2>2. w \in [ProductIDs -> Nat]
    <3>1. \A q \in Quantities \cup {0} : q \in Nat
      OBVIOUS
    <3> QED
      BY <3>1
  <2>3. UNCHANGED payment
    BY <1>3 DEF BeginCreateOrder
  <2> QED
    BY <2>1, <2>2, <2>3, BeginPreserves DEF Methods
<1>4. ASSUME NEW m \in {"CancelOrder", "PayOrder", "UpdateOrderStatus", "GetOrder"},
             BeginOnOrder(r, m)
      PROVE  Preserved(r)
  <2>1. PICK u \in Users, o \in OrderIDs : Begin(r, m, u, o, Nothing, "order")
    BY <1>4 DEF BeginOnOrder
  <2>2. UNCHANGED payment
    BY <1>4 DEF BeginOnOrder
  <2>3. m \in Methods /\ m \notin {"CreateOrder", "AddItem"}
    BY DEF Methods
  <2> QED
    BY <1>1, <2>1, <2>2, <2>3, BeginPreserves
<1>5. ASSUME NEW m \in {"GetCart", "AddItem", "UpdateItem", "DeleteItem", "Checkout"},
             NEW w \in [ProductIDs -> Nat], BeginCart(r, m, w)
      PROVE  Preserved(r)
  <2>1. PICK u \in Users : Begin(r, m, u, NoOrder, w, "snapshot")
    BY <1>5 DEF BeginCart
  <2>2. UNCHANGED payment
    BY <1>5 DEF BeginCart
  <2>3. m \in Methods
    BY DEF Methods
  <2> QED
    BY <2>1, <2>2, <2>3, BeginPreserves
<1>6. CASE CartServiceBegin(r)
  <2>1. CASE BeginGetCart(r)
    BY <2>1, <1>1, <1>5 DEF BeginGetCart
  <2>2. CASE BeginAddItem(r)
    BY <2>2, <1>2, <1>5 DEF BeginAddItem, BeginOnItem
  <2>3. CASE BeginUpdateItem(r)
    BY <2>3, <1>2, <1>5 DEF BeginUpdateItem, BeginOnItem
  <2>4. CASE BeginDeleteItem(r)
    BY <2>4, <1>2, <1>5 DEF BeginDeleteItem, BeginOnItem
  <2>5. CASE BeginCheckout(r)
    BY <2>5, <1>1, <1>5 DEF BeginCheckout
  <2> QED
    BY <1>6, <2>1, <2>2, <2>3, <2>4, <2>5 DEF CartServiceBegin
<1>7. CASE BeginCreateProduct(r)
  BY <1>1, <1>7, BeginPreserves DEF BeginCreateProduct, Methods
<1>8. ASSUME NEW m \in {"UpdateProduct", "DeleteProduct"}, BeginOnProduct(r, m)
      PROVE  Preserved(r)
  <2>1. PICK p \in ProductIDs : Begin(r, m, None, NoOrder, Only(p, 1), "product")
    BY <1>8 DEF BeginOnProduct
  <2>2. UNCHANGED payment
    BY <1>8 DEF BeginOnProduct
  <2>3. m \in Methods /\ Only(p, 1) \in [ProductIDs -> Nat]
    BY <1>2 DEF Methods
  <2> QED
    BY <2>1, <2>2, <2>3, BeginPreserves
<1>9. CASE OrderServiceBegin(r)
  BY <1>3, <1>4, <1>9 DEF OrderServiceBegin, BeginCancelOrder, BeginPayOrder,
     BeginUpdateOrderStatus, BeginGetOrder
<1> QED
  BY <1>6, <1>7, <1>8, <1>9 DEF Begins, ProductServiceBegin, BeginUpdateProduct,
     BeginDeleteProduct

-----------------------------------------------------------------------------
(* Rows: what an UPDATE of one column leaves of the type of a row.         *)

\* UPDATE products SET stock leaves a product.
LEMMA WithStockType ==
    ASSUME NEW row \in ProductRow, NEW n \in Nat
    PROVE  WithStock(row, n) \in ProductRow
  BY DEF WithStock, ProductRow

\* UPDATE orders SET status leaves an order.
LEMMA WithStatusType ==
    ASSUME NEW row \in OrderRow, NEW status \in Statuses
    PROVE  WithStatus(row, status) \in OrderRow
  BY DEF WithStatus, OrderRow

\* UPDATE orders SET total_amount, currency leaves an order.
LEMMA WithTotalType ==
    ASSUME NEW row \in OrderRow, NEW total \in Nat,
           NEW c \in Currencies \cup {NoCurrency}
    PROVE  WithTotal(row, total, c) \in OrderRow
  BY DEF WithTotal, OrderRow

\* UPDATE order_items SET quantity leaves a line.
LEMMA LineWithQuantityType ==
    ASSUME NEW line \in ItemRow, NEW q \in Nat \ {0}
    PROVE  LineWithQuantity(line, q) \in ItemRow
  BY DEF LineWithQuantity, ItemRow

\* UPDATE order_items SET unit_price leaves a line.
LEMMA LineWithPriceType ==
    ASSUME NEW line \in ItemRow, NEW price \in Nat
    PROVE  LineWithPrice(line, price) \in ItemRow
  BY DEF LineWithPrice, ItemRow

-----------------------------------------------------------------------------
(* The lines of an order.                                                  *)

\* INSERT INTO order_items leaves lines.
LEMMA AppendLineType ==
    ASSUME NEW ls \in Lines, NEW s, NEW p \in ProductIDs,
           NEW q \in Nat \ {0}, NEW price \in Nat
    PROVE  AppendLine(ls, s, p, q, price) \in Lines
  BY DEF AppendLine, Lines, ItemRow

\* UPDATE order_items of one product leaves lines.
LEMMA WithQuantityType ==
    ASSUME NEW ls \in Lines, NEW p, NEW q \in Nat \ {0}
    PROVE  WithQuantity(ls, p, q) \in Lines
<1>1. ASSUME NEW s \in Slots, ls[s] # NoRow
      PROVE  LineWithQuantity(ls[s], q) \in ItemRow
  BY <1>1, LineWithQuantityType DEF Lines
<1> QED
  BY <1>1 DEF WithQuantity, Lines

\* DELETE FROM order_items of one product leaves lines.
LEMMA WithoutProductType ==
    ASSUME NEW ls \in Lines, NEW p
    PROVE  WithoutProduct(ls, p) \in Lines
  BY DEF WithoutProduct, Lines

\* The quantity of a product is positive when there is a line of it.
LEMMA LineQuantityType ==
    ASSUME NEW ls \in Lines, NEW p
    PROVE  /\ LineQuantity(ls, p) \in Nat
           /\ References(ls, p) => LineQuantity(ls, p) > 0
<1>1. CASE References(ls, p)
  <2>1. LineOf(ls, p) \in Slots /\ ls[LineOf(ls, p)] # NoRow
    BY <1>1 DEF References, LineOf
  <2>2. ls[LineOf(ls, p)] \in ItemRow
    BY <2>1 DEF Lines
  <2> QED
    BY <1>1, <2>2 DEF LineQuantity, ItemRow
<1>2. CASE ~References(ls, p)
  BY <1>2 DEF LineQuantity
<1> QED
  BY <1>1, <1>2

-----------------------------------------------------------------------------
(* Steps that write rows.                                                  *)

\* A step that inserts nothing and writes only rows that r has locked, or
\* locks now, keeps the part of the invariant about rows, and is no
\* business of the other requests.
WritesOwnRows(r) ==
    /\ UNCHANGED <<tables, ids>>
    /\ \A p \in ProductIDs :
          \/ productLock'[p] = productLock[p] /\ productsW'[p] = productsW[p]
          \/ /\ productLock'[p] = r
             /\ \/ productLock[p] = r
                \/ productLock[p] = None /\ products[p] # NoRow
    /\ \A o \in OrderIDs :
          \/ /\ orderLock'[o] = orderLock[o]
             /\ ordersW'[o] = ordersW[o] /\ itemsW'[o] = itemsW[o]
          \/ /\ orderLock'[o] = r /\ ordersW'[o] # NoRow
             /\ \/ orderLock[o] = r
                \/ orderLock[o] = None /\ orders[o] # NoRow

\* Such a step keeps RowInv, and the rows that others have locked.
LEMMA OwnRowsStep ==
    ASSUME IInv, NEW r \in Requests, WritesOwnRows(r)
    PROVE  OtherRows(r) /\ RowInv'
<1> USE NullAssumption, NoRowAssumption
<1>1. RowInv
  BY DEF IInv
<1>2. OtherRows(r)
  BY DEF OtherRows, WritesOwnRows
<1>3. UnlockedRowsAgree'
  BY <1>1 DEF RowInv, UnlockedRowsAgree, WritesOwnRows, tables
<1>4. FreshIds'
  BY <1>1 DEF RowInv, FreshIds, WritesOwnRows, tables, ids
<1>5. OrdersStay'
  BY <1>1 DEF RowInv, OrdersStay, WritesOwnRows, tables
<1> QED
  BY <1>2, <1>3, <1>4, <1>5 DEF RowInv

\* A transaction that waits for no lock and finds the row can read it.
LEMMA LockedRowExists ==
    ASSUME IInv, NEW r \in Requests, op[r] # "DeleteProduct",
           NEW p \in ProductIDs, ProductExists(p), ProductAvailable(r, p)
    PROVE  productsW[p] \in ProductRow
  BY DEF IInv, RowInv, UnlockedRowsAgree, RequestInv, ProductExists,
         ProductAvailable, TypeOK, Products

\* An order that is found and whose lock is free has a newest version: orders
\* are never deleted.
LEMMA LockedOrderExists ==
    ASSUME IInv, NEW r \in Requests,
           NEW o \in OrderIDs, OrderExists(o), OrderAvailable(r, o)
    PROVE  ordersW[o] \in OrderRow
  BY DEF IInv, RowInv, OrdersStay, OrderExists, TypeOK, Orders

\* Of such a step only the types and the part of r itself are left to show.
LEMMA OwnRowsStepPreserves ==
    ASSUME IInv, NEW r \in Requests, WritesOwnRows(r),
           TypeOK', OtherSessions(r), RequestInv(r)'
    PROVE  Preserved(r)
  BY OwnRowsStep DEF Preserved, Others

\* The row that an INSERT INTO orders makes has an id nobody uses.
LEMMA InsertOrderStep ==
    ASSUME IInv, NEW r \in Requests, NEW row \in OrderRow, InsertOrder(r, row),
           UNCHANGED <<tables, productsW, itemsW, productLock, nextProduct>>
    PROVE  /\ OtherRows(r) /\ RowInv'
           /\ ordersW' \in Orders /\ nextOrder' \in Nat
           /\ orderLock' \in [OrderIDs -> Requests \cup {None}]
           /\ target' \in [Requests -> OrderIDs \cup {NoOrder}]
           /\ target'[r] \in OrderIDs
           /\ orderLock'[target'[r]] = r
           /\ ordersW'[target'[r]] # NoRow
<1> USE NullAssumption, NoRowAssumption
<1>1. TypeOK /\ RowInv
  BY DEF IInv
<1>2. /\ nextOrder \in OrderIDs /\ nextOrder \in Nat /\ nextOrder' = nextOrder + 1
      /\ orders[nextOrder] = NoRow /\ orderLock[nextOrder] = None
  BY <1>1 DEF InsertOrder, RowInv, FreshIds, TypeOK
<1>3. /\ ordersW' \in Orders /\ nextOrder' \in Nat
      /\ orderLock' \in [OrderIDs -> Requests \cup {None}]
      /\ target' \in [Requests -> OrderIDs \cup {NoOrder}]
  BY <1>1, <1>2 DEF InsertOrder, LockOrder, TypeOK, Orders
<1>4. /\ target'[r] = nextOrder /\ orderLock'[nextOrder] = r
      /\ ordersW'[nextOrder] = row /\ row # NoRow
      /\ \A o \in OrderIDs \ {nextOrder} :
            ordersW'[o] = ordersW[o] /\ orderLock'[o] = orderLock[o]
  BY <1>1, <1>2 DEF InsertOrder, LockOrder, TypeOK, Orders
<1>5. OtherRows(r)
  BY <1>2, <1>4 DEF OtherRows
<1>6. UnlockedRowsAgree'
  BY <1>1, <1>2, <1>4 DEF RowInv, UnlockedRowsAgree, tables
<1>7. FreshIds'
  <2>1. \A o \in OrderIDs : o \in Nat
    BY DEF OrderIDs
  <2> QED
    BY <1>1, <1>2, <1>4, <2>1 DEF RowInv, FreshIds, tables
<1>8. OrdersStay'
  BY <1>1, <1>2, <1>4 DEF RowInv, OrdersStay, tables
<1> QED
  BY <1>2, <1>3, <1>4, <1>5, <1>6, <1>7, <1>8 DEF RowInv

-----------------------------------------------------------------------------
(* The lock loop of a sale.                                                *)

\* The product a sale locks next keeps the claims of the sale, and becomes
\* one of them.
LEMMA ReadForSalePreserves ==
    ASSUME IInv, NEW r \in Requests,
           op[r] \in {"CreateOrder", "Checkout"}, pc[r] = "lock",
           NEW p \in ProductIDs, IsNextToLock(r, p), ReadForSale(r, p),
           UNCHANGED <<op, pc, user, target, want, current, lines>>,
           UNCHANGED <<tables, working, orderLock, ids, payment>>
    PROVE  Preserved(r)
<1> USE NullAssumption, NoRowAssumption
<1>1. TypeOK /\ RequestInv(r)
  BY DEF IInv
<1>2. productsW[p] \in ProductRow /\ productLock[p] \in {None, r}
  BY LockedRowExists DEF ReadForSale, ProductAvailable
<1>3. TypeOK'
  <2>1. productLock' \in [ProductIDs -> Requests \cup {None}]
    BY <1>1 DEF ReadForSale, LockProduct, TypeOK
  <2>2. seen' \in [Requests -> Products]
    BY <1>1, <1>2 DEF ReadForSale, TypeOK, Products
  <2> QED
    BY <1>1, <2>1, <2>2 DEF TypeOK, tables, working, ids, payment
<1>4. OtherSessions(r)
  BY <1>1 DEF OtherSessions, ReadForSale, TypeOK
<1>5. WritesOwnRows(r)
  BY <1>1, <1>2 DEF WritesOwnRows, ReadForSale, LockProduct, ProductExists,
     TypeOK, working
<1>6. RequestInv(r)'
  <2>1. /\ want[r][p] > 0 /\ productsW[p].stock >= want[r][p]
        /\ productLock'[p] = r /\ seen'[r][p] = productsW[p]
        /\ \A q \in ProductIDs \ {p} :
              productLock'[q] = productLock[q] /\ seen'[r][q] = seen[r][q]
    BY <1>1 DEF ReadForSale, LockProduct, IsNextToLock, TypeOK, Products
  <2>2. \A q \in ProductIDs : seen'[r][q] # NoRow => Claim(r, q)'
    BY <1>1, <2>1 DEF RequestInv, Claim, working
  <2>3. \A q \in ProductIDs : productLock'[q] = r /\ productsW'[q] = NoRow => FALSE
    BY <1>1, <1>2, <2>1 DEF RequestInv, working
  <2>4. CartIsWanted(r) => CartIsWanted(r)'
    BY DEF CartIsWanted, working
  <2> QED
    BY <1>1, <2>2, <2>3, <2>4 DEF RequestInv, OwnsTarget, InSale, working
<1> QED
  BY <1>3, <1>4, <1>5, <1>6, OwnRowsStepPreserves

\* The lock loop of CreateOrder and of Checkout, its end included.
LEMMA LockSaleProductPreserves ==
    ASSUME IInv, NEW r \in Requests, NEW done,
           \/ op[r] = "CreateOrder" /\ done = "insert"
           \/ op[r] = "Checkout" /\ done = "price",
           LockSaleProduct(r, done)
    PROVE  Preserved(r)
<1>1. TypeOK /\ RequestInv(r)
  BY DEF IInv
<1>2. pc[r] = "lock" /\ UNCHANGED <<tables, working, orderLock, ids, payment>>
  BY DEF LockSaleProduct
<1>3. ASSUME NEW p \in ProductIDs, IsNextToLock(r, p), ReadForSale(r, p),
             UNCHANGED <<op, pc, user, target, want, current, lines>>
      PROVE  Preserved(r)
  BY <1>2, <1>3, ReadForSalePreserves
<1>4. ASSUME AllLocked(r), Goto(r, done),
             UNCHANGED <<productLock, op, user, target, want, seen, current, lines>>
      PROVE  Preserved(r)
  <2>1. UNCHANGED database
    BY <1>2, <1>4 DEF database, locks
  <2>2. pc'[r] = done
    BY <1>1, <1>4 DEF Goto, TypeOK
  <2>3. TypeOK'
    BY <1>1, <1>2, <1>4 DEF TypeOK, Goto, Labels, tables, working, ids, payment
  <2>4. OtherSessions(r)
    BY <1>1, <1>4 DEF OtherSessions, Goto, TypeOK
  <2>5. AllLocked(r)' /\ (CartIsWanted(r) => CartIsWanted(r)')
    BY <1>2, <1>4 DEF AllLocked, CartIsWanted, working
  <2>6. \A p \in ProductIDs : Claim(r, p) => Claim(r, p)'
    BY <1>2, <1>4 DEF Claim, working
  <2> QED
    BY <1>1, <1>2, <1>4, <2>1, <2>2, <2>3, <2>4, <2>5, <2>6, SessionStepPreserves
       DEF RequestInv, OwnsTarget, InSale, working
<1> QED
  BY <1>3, <1>4 DEF LockSaleProduct

-----------------------------------------------------------------------------
(* CreateOrder.                                                            *)

\* CreateOrder inserts the order under an id that nobody uses.
LEMMA CreateOrderInsertPreserves ==
    ASSUME IInv, NEW r \in Requests, CreateOrderInsert(r)
    PROVE  Preserved(r)
<1>1. TypeOK /\ RequestInv(r)
  BY DEF IInv
<1>2. PICK c \in Currencies :
          InsertOrder(r, [user |-> user[r], status |-> "pending",
                          total |-> SaleTotal(r), currency |-> c])
  BY DEF CreateOrderInsert
<1>3. /\ op[r] = "CreateOrder" /\ pc[r] = "insert" /\ Goto(r, "lines")
      /\ UNCHANGED <<tables, productsW, itemsW, productLock, nextProduct,
                     op, user, want, seen, current, lines, payment>>
  BY DEF CreateOrderInsert, At
<1>4. [user |-> user[r], status |-> "pending", total |-> SaleTotal(r),
       currency |-> c] \in OrderRow
  <2>1. user[r] \in Users /\ SaleTotal(r) \in Nat
    BY <1>1, <1>3 DEF RequestInv, CreateOrderInsert, IsAmount
  <2> QED
    BY <2>1 DEF OrderRow, Statuses
<1>5. /\ OtherRows(r) /\ RowInv'
      /\ ordersW' \in Orders /\ nextOrder' \in Nat
      /\ orderLock' \in [OrderIDs -> Requests \cup {None}]
      /\ target' \in [Requests -> OrderIDs \cup {NoOrder}]
      /\ target'[r] \in OrderIDs
      /\ orderLock'[target'[r]] = r
      /\ ordersW'[target'[r]] # NoRow
  BY <1>2, <1>3, <1>4, InsertOrderStep
<1>6. TypeOK'
  BY <1>1, <1>3, <1>5 DEF TypeOK, Goto, Labels, tables, payment
<1>7. OtherSessions(r)
  BY <1>1, <1>2, <1>3 DEF OtherSessions, Goto, InsertOrder, TypeOK
<1>8. RequestInv(r)'
  <2>1. pc'[r] = "lines"
    BY <1>1, <1>3 DEF Goto, TypeOK
  <2>2. \A p \in ProductIDs : Claim(r, p) => Claim(r, p)'
    BY <1>3 DEF Claim
  <2> QED
    BY <1>1, <1>3, <1>5, <2>1, <2>2 DEF RequestInv, InSale
<1> QED
  BY <1>5, <1>6, <1>7, <1>8 DEF Preserved, Others

\* The stock that a sale takes from the product it takes next.
LEMMA DecreaseStockStep ==
    ASSUME IInv, NEW r \in Requests, op[r] \in {"CreateOrder", "Checkout"},
           NEW p \in ProductIDs, seen[r][p] # NoRow,
           DecreaseStock(p, want[r][p]), UNCHANGED <<productLock, want, op>>,
           seen' = [seen EXCEPT ![r] = [@ EXCEPT ![p] = NoRow]]
    PROVE  /\ productsW' \in Products /\ seen' \in [Requests -> Products]
           /\ productLock[p] = r /\ productsW'[p] # NoRow
           /\ \A q \in ProductIDs \ {p} : productsW'[q] = productsW[q]
           /\ \A q \in ProductIDs : seen'[r][q] # NoRow => Claim(r, q)'
           /\ \A t \in Requests \ {r} : seen'[t] = seen[t]
<1> USE NullAssumption, NoRowAssumption
<1>1. TypeOK /\ RequestInv(r)
  BY DEF IInv
<1>2. Claim(r, p)
  BY <1>1 DEF RequestInv
<1>3. /\ productsW[p] \in ProductRow /\ want[r][p] \in Nat
      /\ productsW[p].stock \in Nat /\ productsW[p].stock >= want[r][p]
  <2>1. productsW[p] \in ProductRow
    BY <1>1, <1>2 DEF Claim, TypeOK, Products
  <2> QED
    BY <1>1, <1>2, <2>1 DEF Claim, TypeOK, ProductRow
<1>4. WithStock(productsW[p], productsW[p].stock - want[r][p]) \in ProductRow
  <2>1. productsW[p].stock - want[r][p] \in Nat
    BY <1>3
  <2> QED
    BY <1>3, <2>1, WithStockType
<1>5. productsW' \in Products /\ productsW'[p] \in ProductRow
  BY <1>1, <1>4 DEF DecreaseStock, TypeOK, Products
<1>6. \A q \in ProductIDs \ {p} : productsW'[q] = productsW[q]
  BY <1>1 DEF DecreaseStock, TypeOK, Products
<1>7. /\ seen' \in [Requests -> Products]
      /\ seen'[r][p] = NoRow
      /\ \A q \in ProductIDs \ {p} : seen'[r][q] = seen[r][q]
      /\ \A t \in Requests \ {r} : seen'[t] = seen[t]
  BY <1>1 DEF TypeOK, Products
<1>8. \A q \in ProductIDs : seen'[r][q] # NoRow => Claim(r, q)'
  BY <1>1, <1>6, <1>7 DEF RequestInv, Claim
<1> QED
  BY <1>2, <1>5, <1>6, <1>7, <1>8 DEF Claim

\* CreateOrder inserts a line and takes its stock.
LEMMA CreateOrderLinePreserves ==
    ASSUME IInv, NEW r \in Requests, CreateOrderLine(r)
    PROVE  Preserved(r)
<1>1. TypeOK /\ RequestInv(r)
  BY DEF IInv
<1>2. /\ op[r] = "CreateOrder" /\ pc[r] = "lines"
      /\ UNCHANGED <<tables, ordersW, locks, ids,
                     op, pc, user, target, want, current, lines, payment>>
  BY DEF CreateOrderLine, At
<1>3. PICK p \in ProductIDs, s \in Slots :
          /\ IsNextToTake(r, p)
          /\ itemsW' = [itemsW EXCEPT ![target[r]] =
                          AppendLine(@, s, p, want[r][p], seen[r][p].price)]
          /\ DecreaseStock(p, want[r][p])
          /\ seen' = [seen EXCEPT ![r] = [@ EXCEPT ![p] = NoRow]]
  BY DEF CreateOrderLine
<1>4. seen[r][p] # NoRow /\ UNCHANGED <<productLock, want, op>>
  BY <1>2, <1>3 DEF IsNextToTake, locks
<1>5. /\ productsW' \in Products /\ seen' \in [Requests -> Products]
      /\ productLock[p] = r /\ productsW'[p] # NoRow
      /\ \A q \in ProductIDs \ {p} : productsW'[q] = productsW[q]
      /\ \A q \in ProductIDs : seen'[r][q] # NoRow => Claim(r, q)'
      /\ \A t \in Requests \ {r} : seen'[t] = seen[t]
  BY <1>2, <1>3, <1>4, DecreaseStockStep
<1>6. /\ target[r] \in OrderIDs /\ orderLock[target[r]] = r
      /\ ordersW[target[r]] # NoRow
  BY <1>1, <1>2 DEF RequestInv, OwnsTarget
<1>7. itemsW' \in [OrderIDs -> Lines]
  <2>1. want[r][p] \in Nat \ {0} /\ seen[r][p] \in ProductRow
    BY <1>1, <1>4 DEF RequestInv, Claim, TypeOK, Products
  <2>2. seen[r][p].price \in Nat
    BY <2>1 DEF ProductRow
  <2>3. itemsW[target[r]] \in Lines
    BY <1>1, <1>6 DEF TypeOK
  <2> QED
    BY <1>1, <1>3, <2>1, <2>2, <2>3, AppendLineType DEF TypeOK
<1>8. TypeOK'
  BY <1>1, <1>2, <1>5, <1>7 DEF TypeOK, tables, locks, ids, payment
<1>9. OtherSessions(r)
  BY <1>2, <1>5 DEF OtherSessions
<1>10. WritesOwnRows(r)
  <2>1. \A o \in OrderIDs \ {target[r]} : itemsW'[o] = itemsW[o]
    BY <1>1, <1>3 DEF TypeOK
  <2> QED
    BY <1>2, <1>5, <1>6, <2>1 DEF WritesOwnRows, locks
<1>11. RequestInv(r)'
  BY <1>1, <1>2, <1>5, <1>6 DEF RequestInv, OwnsTarget, InSale, locks
<1> QED
  BY <1>8, <1>9, <1>10, <1>11, OwnRowsStepPreserves

\* A step that goes to another statement, and at most fills current and
\* lines, when it goes where r relies on no more than before.
LEMMA GotoPreserves ==
    ASSUME IInv, NEW r \in Requests, NEW l \in Labels, Goto(r, l),
           UNCHANGED <<database, op, user, target, want, seen>>,
           TypeOK', RequestInv(r)'
    PROVE  Preserved(r)
<1>1. OtherSessions(r)
  BY DEF OtherSessions, Goto, IInv, TypeOK
<1> QED
  BY <1>1, SessionStepPreserves

\* CreateOrder has taken all its stock.
LEMMA CreateOrderDonePreserves ==
    ASSUME IInv, NEW r \in Requests, CreateOrderDone(r)
    PROVE  Preserved(r)
<1>1. TypeOK /\ RequestInv(r)
  BY DEF IInv
<1>2. /\ op[r] = "CreateOrder" /\ pc[r] = "lines" /\ Goto(r, "commit")
      /\ UNCHANGED <<database, op, user, target, want, seen, current, lines, payment>>
  BY DEF CreateOrderDone, At
<1>3. TypeOK'
  BY <1>1, <1>2 DEF TypeOK, Goto, Labels, database, tables, working, locks, ids,
     payment
<1>4. seen[r] = NoProduct
  BY <1>1 DEF CreateOrderDone, AllTaken, NoProduct, TypeOK, Products
<1>5. RequestInv(r)'
  <2>1. pc'[r] = "commit"
    BY <1>1, <1>2 DEF Goto, TypeOK
  <2>2. \A p \in ProductIDs : seen'[r][p] = NoRow
    BY <1>2, <1>4 DEF NoProduct
  <2> QED
    BY <1>1, <1>2, <1>4, <2>1, <2>2 DEF RequestInv, OwnsTarget, database, working, locks
<1> QED
  BY <1>2, <1>3, <1>5, GotoPreserves DEF Labels

-----------------------------------------------------------------------------
(* CancelOrder and PayOrder.                                               *)

\* The order row is locked, and whatever the method keeps of its lines.
LEMMA ReadOrderPreserves ==
    ASSUME IInv, NEW r \in Requests,
           NEW next \in {"restock", "charge"}, ReadOrderForUpdate(r, next),
           lines' \in [Requests -> Lines]
    PROVE  Preserved(r)
<1> USE NullAssumption, NoRowAssumption
<1>1. TypeOK /\ RequestInv(r)
  BY DEF IInv
<1>2. /\ pc[r] = "order" /\ Goto(r, next)
      /\ UNCHANGED <<tables, working, productLock, ids, op, user, target, want,
                     seen, payment>>
  BY DEF ReadOrderForUpdate
<1>3. /\ target[r] \in OrderIDs /\ orders[target[r]] # NoRow
      /\ orderLock[target[r]] \in {None, r} /\ ordersW[target[r]] \in OrderRow
  BY LockedOrderExists DEF ReadOrderForUpdate, OrderExists, OrderAvailable
<1>4. orderLock' = [orderLock EXCEPT ![target[r]] = r]
  BY DEF ReadOrderForUpdate, LockOrder
<1>5. TypeOK'
  <2>1. current' \in [Requests -> OrderRow \cup {NoRow}]
    BY <1>1, <1>3 DEF ReadOrderForUpdate, TypeOK
  <2>2. orderLock' \in [OrderIDs -> Requests \cup {None}]
    BY <1>1, <1>3, <1>4 DEF TypeOK
  <2> QED
    BY <1>1, <1>2, <2>1, <2>2 DEF TypeOK, Goto, Labels, tables, working, ids, payment
<1>6. OtherSessions(r)
  BY <1>1, <1>2 DEF OtherSessions, Goto, TypeOK
<1>7. WritesOwnRows(r)
  BY <1>1, <1>2, <1>3, <1>4 DEF WritesOwnRows, TypeOK, working
<1>8. RequestInv(r)'
  <2>1. pc'[r] = next /\ orderLock'[target[r]] = r
    BY <1>1, <1>2, <1>3, <1>4 DEF Goto, TypeOK
  <2>2. \A p \in ProductIDs : seen'[r][p] = NoRow
    BY <1>1, <1>2 DEF RequestInv, InSale, NoProduct
  <2> QED
    BY <1>1, <1>2, <1>3, <2>1, <2>2 DEF RequestInv, OwnsTarget, InSale, working
<1> QED
  BY <1>5, <1>6, <1>7, <1>8, OwnRowsStepPreserves

\* CancelOrder locks the order and reads its lines.
LEMMA CancelOrderReadPreserves ==
    ASSUME IInv, NEW r \in Requests, CancelOrderRead(r)
    PROVE  Preserved(r)
<1>1. target[r] \in OrderIDs
  BY DEF CancelOrderRead, ReadOrderForUpdate, OrderExists
<1>2. LinesSeenBy(r, target[r]) \in Lines
  BY <1>1 DEF LinesSeenBy, IInv, TypeOK
<1>3. lines' \in [Requests -> Lines]
  BY <1>2 DEF CancelOrderRead, IInv, TypeOK
<1> QED
  BY <1>3, ReadOrderPreserves DEF CancelOrderRead

\* PayOrder locks the order.
LEMMA PayOrderReadPreserves ==
    ASSUME IInv, NEW r \in Requests, PayOrderRead(r)
    PROVE  Preserved(r)
  BY ReadOrderPreserves DEF PayOrderRead, IInv, TypeOK

\* CancelOrder gives the stock of a line back, if its product is there.
LEMMA CancelOrderRestockPreserves ==
    ASSUME IInv, NEW r \in Requests, CancelOrderRestock(r)
    PROVE  Preserved(r)
<1> USE NullAssumption, NoRowAssumption
<1>1. TypeOK /\ RequestInv(r)
  BY DEF IInv
<1>2. /\ op[r] = "CancelOrder" /\ pc[r] = "restock"
      /\ UNCHANGED <<tables, ordersW, itemsW, orderLock, ids,
                     op, pc, user, target, want, seen, current, payment>>
  BY DEF CancelOrderRestock, At
<1>3. PICK s \in Slots :
          /\ IsNextLine(r, s)
          /\ IncreaseStock(r, lines[r][s].product, lines[r][s].quantity)
          /\ lines' = [lines EXCEPT ![r] = [@ EXCEPT ![s] = NoRow]]
  BY DEF CancelOrderRestock
<1>4. lines' \in [Requests -> Lines]
  BY <1>1, <1>3 DEF TypeOK, Lines
<1> DEFINE p == lines[r][s].product
           q == lines[r][s].quantity
<1>5. p \in ProductIDs /\ q \in Nat
  <2>1. lines[r][s] \in ItemRow
    BY <1>1, <1>3 DEF IsNextLine, TypeOK, Lines
  <2> QED
    BY <2>1 DEF ItemRow
<1> HIDE DEF p, q
<1>6. /\ productsW' \in Products
      /\ productLock' \in [ProductIDs -> Requests \cup {None}]
      /\ \A x \in ProductIDs :
            \/ productLock'[x] = productLock[x] /\ productsW'[x] = productsW[x]
            \/ /\ productLock'[x] = r /\ productsW'[x] # NoRow
               /\ \/ productLock[x] = r
                  \/ productLock[x] = None /\ products[x] # NoRow
  <2>1. CASE ~ProductExists(p)
    BY <1>1, <1>3, <2>1 DEF IncreaseStock, TypeOK, p, q
  <2>2. CASE ProductExists(p)
    <3>1. /\ ProductAvailable(r, p)
          /\ productLock' = [productLock EXCEPT ![p] = r]
          /\ productsW' = [productsW EXCEPT ![p] =
                             WithStock(@, productsW[p].stock + q)]
      BY <1>3, <2>2 DEF IncreaseStock, LockProduct, p, q
    <3>2. productsW[p] \in ProductRow
      BY <1>2, <1>5, <2>2, <3>1, LockedRowExists
    <3>3. productsW[p].stock + q \in Nat
      BY <1>5, <3>2 DEF ProductRow
    <3>4. WithStock(productsW[p], productsW[p].stock + q) \in ProductRow
      BY <3>2, <3>3, WithStockType
    <3> QED
      BY <1>1, <1>5, <2>2, <3>1, <3>4
         DEF TypeOK, Products, ProductAvailable, ProductExists
  <2> QED
    BY <2>1, <2>2
<1>7. TypeOK'
  BY <1>1, <1>2, <1>4, <1>6 DEF TypeOK, tables, ids, payment
<1>8. OtherSessions(r)
  BY <1>2 DEF OtherSessions
<1>9. WritesOwnRows(r)
  BY <1>2, <1>6 DEF WritesOwnRows
<1>10. RequestInv(r)'
  <2>1. \A x \in ProductIDs : seen'[r][x] = NoRow
    BY <1>1, <1>2 DEF RequestInv, InSale, NoProduct
  <2> QED
    BY <1>1, <1>2, <1>6, <2>1 DEF RequestInv, OwnsTarget, InSale
<1> QED
  BY <1>7, <1>8, <1>9, <1>10, OwnRowsStepPreserves

\* CancelOrder has given back the stock of every line.
LEMMA CancelOrderRestockedPreserves ==
    ASSUME IInv, NEW r \in Requests, CancelOrderRestocked(r)
    PROVE  Preserved(r)
<1>1. TypeOK /\ RequestInv(r)
  BY DEF IInv
<1>2. /\ op[r] = "CancelOrder" /\ pc[r] = "restock" /\ Goto(r, "mark")
      /\ UNCHANGED <<database, op, user, target, want, seen, current, lines, payment>>
  BY DEF CancelOrderRestocked, At
<1>3. TypeOK'
  BY <1>1, <1>2 DEF TypeOK, Goto, Labels, database, tables, working, locks, ids,
     payment
<1>4. RequestInv(r)'
  <2>1. pc'[r] = "mark"
    BY <1>1, <1>2 DEF Goto, TypeOK
  <2>2. \A p \in ProductIDs : seen'[r][p] = NoRow
    BY <1>1, <1>2 DEF RequestInv, InSale, NoProduct
  <2> QED
    BY <1>1, <1>2, <2>1, <2>2
       DEF RequestInv, OwnsTarget, InSale, database, working, locks
<1> QED
  BY <1>2, <1>3, <1>4, GotoPreserves DEF Labels

\* The provider has charged; the order is still locked.
LEMMA PayOrderSucceedsPreserves ==
    ASSUME IInv, NEW r \in Requests, PayOrderSucceeds(r)
    PROVE  Preserved(r)
<1>1. TypeOK /\ RequestInv(r)
  BY DEF IInv
<1>2. /\ op[r] = "PayOrder" /\ pc[r] = "charge" /\ Goto(r, "mark")
      /\ UNCHANGED <<database, op, user, target, want, seen, current, lines,
                     unsettled>>
  BY DEF PayOrderSucceeds, At
<1>3. charged' \subseteq OrderIDs \cup {NoOrder}
  BY <1>1 DEF PayOrderSucceeds, Charge, TypeOK
<1>4. TypeOK'
  BY <1>1, <1>2, <1>3 DEF TypeOK, Goto, Labels, database, tables, working, locks, ids
<1>5. RequestInv(r)'
  <2>1. pc'[r] = "mark"
    BY <1>1, <1>2 DEF Goto, TypeOK
  <2>2. \A p \in ProductIDs : seen'[r][p] = NoRow
    BY <1>1, <1>2 DEF RequestInv, InSale, NoProduct
  <2> QED
    BY <1>1, <1>2, <2>1, <2>2
       DEF RequestInv, OwnsTarget, InSale, database, working, locks
<1> QED
  BY <1>2, <1>4, <1>5, GotoPreserves DEF Labels

\* The provider charges and answers timeout; PayOrder rolls back.
LEMMA PayOrderTimesOutPreserves ==
    ASSUME IInv, NEW r \in Requests, PayOrderTimesOut(r)
    PROVE  Preserved(r)
<1>1. /\ charged' \subseteq OrderIDs \cup {NoOrder}
      /\ unsettled' \subseteq OrderIDs \cup {NoOrder}
  BY DEF PayOrderTimesOut, Charge, ChargeLost, IInv, TypeOK
<1> QED
  BY <1>1, RollbackPreserves DEF PayOrderTimesOut

\* The status of an order that r has locked moves.
LEMMA SetStatusStep ==
    ASSUME IInv, NEW o \in OrderIDs, ordersW[o] \in OrderRow,
           NEW status \in Statuses, SetStatus(o, status)
    PROVE  /\ ordersW' \in Orders /\ ordersW'[o] # NoRow
           /\ \A q \in OrderIDs \ {o} : ordersW'[q] = ordersW[q]
<1>1. WithStatus(ordersW[o], status) \in OrderRow
  BY WithStatusType
<1> QED
  BY <1>1, NullAssumption, NoRowAssumption DEF SetStatus, IInv, TypeOK, Orders

\* CancelOrder and PayOrder write the status of the order they have locked.
LEMMA MarkPreserves ==
    ASSUME IInv, NEW r \in Requests, NEW status \in Statuses, Mark(r, status)
    PROVE  Preserved(r)
<1>1. TypeOK /\ RequestInv(r)
  BY DEF IInv
<1>2. /\ pc[r] = "mark" /\ SetStatus(target[r], status) /\ Goto(r, "commit")
      /\ UNCHANGED <<tables, productsW, itemsW, locks, ids,
                     op, user, target, want, seen, current, lines, payment>>
  BY DEF Mark
<1>3. /\ target[r] \in OrderIDs /\ orderLock[target[r]] = r
      /\ ordersW[target[r]] \in OrderRow
  BY <1>1, <1>2 DEF RequestInv, OwnsTarget, TypeOK, Orders
<1>4. /\ ordersW' \in Orders /\ ordersW'[target[r]] # NoRow
      /\ \A q \in OrderIDs \ {target[r]} : ordersW'[q] = ordersW[q]
  BY <1>2, <1>3, SetStatusStep
<1>5. TypeOK'
  BY <1>1, <1>2, <1>4 DEF TypeOK, Goto, Labels, tables, locks, ids, payment
<1>6. OtherSessions(r)
  BY <1>1, <1>2 DEF OtherSessions, Goto, TypeOK
<1>7. WritesOwnRows(r)
  BY <1>2, <1>3, <1>4 DEF WritesOwnRows, locks
<1>8. RequestInv(r)'
  <2>1. pc'[r] = "commit"
    BY <1>1, <1>2 DEF Goto, TypeOK
  <2>2. \A p \in ProductIDs : seen'[r][p] = NoRow
    BY <1>1, <1>2 DEF RequestInv, InSale, NoProduct
  <2> QED
    BY <1>1, <1>2, <2>1, <2>2 DEF RequestInv, OwnsTarget, InSale, locks
<1> QED
  BY <1>5, <1>6, <1>7, <1>8, OwnRowsStepPreserves

-----------------------------------------------------------------------------
(* UpdateOrderStatus and GetOrder.                                         *)

\* UpdateOrderStatus locks an order and moves its status.
LEMMA UpdateOrderStatusPreserves ==
    ASSUME IInv, NEW r \in Requests, UpdateOrderStatusRun(r)
    PROVE  Preserved(r)
<1> USE NullAssumption, NoRowAssumption
<1>1. TypeOK /\ RequestInv(r)
  BY DEF IInv
<1>2. /\ op[r] = "UpdateOrderStatus" /\ pc[r] = "order" /\ Goto(r, "commit")
      /\ UNCHANGED <<tables, productsW, itemsW, productLock, ids,
                     op, user, target, want, seen, current, lines, payment>>
  BY DEF UpdateOrderStatusRun, At
<1>3. /\ target[r] \in OrderIDs /\ orders[target[r]] # NoRow
      /\ orderLock[target[r]] \in {None, r} /\ ordersW[target[r]] \in OrderRow
  BY LockedOrderExists DEF UpdateOrderStatusRun, OrderExists, OrderAvailable
<1>4. /\ ordersW' \in Orders /\ ordersW'[target[r]] # NoRow
      /\ \A q \in OrderIDs \ {target[r]} : ordersW'[q] = ordersW[q]
  <2>1. PICK new \in Statuses : SetStatus(target[r], new)
    BY BoundsAssumption DEF UpdateOrderStatusRun
  <2> QED
    BY <1>3, <2>1, SetStatusStep
<1>5. orderLock' = [orderLock EXCEPT ![target[r]] = r]
  BY DEF UpdateOrderStatusRun, LockOrder
<1>6. TypeOK'
  <2>1. orderLock' \in [OrderIDs -> Requests \cup {None}]
    BY <1>1, <1>5 DEF TypeOK
  <2> QED
    BY <1>1, <1>2, <1>4, <2>1 DEF TypeOK, Goto, Labels, tables, ids, payment
<1>7. OtherSessions(r)
  BY <1>1, <1>2 DEF OtherSessions, Goto, TypeOK
<1>8. WritesOwnRows(r)
  BY <1>1, <1>2, <1>3, <1>4, <1>5 DEF WritesOwnRows, TypeOK
<1>9. RequestInv(r)'
  <2>1. pc'[r] = "commit"
    BY <1>1, <1>2 DEF Goto, TypeOK
  <2>2. \A p \in ProductIDs : seen'[r][p] = NoRow
    BY <1>1, <1>2 DEF RequestInv, InSale, NoProduct
  <2> QED
    BY <1>1, <1>2, <2>1, <2>2 DEF RequestInv, OwnsTarget, InSale
<1> QED
  BY <1>6, <1>7, <1>8, <1>9, OwnRowsStepPreserves

\* GetOrder reads the order row, and locks nothing.
LEMMA GetOrderRowPreserves ==
    ASSUME IInv, NEW r \in Requests, GetOrderRow(r)
    PROVE  Preserved(r)
<1>1. TypeOK /\ RequestInv(r)
  BY DEF IInv
<1>2. /\ op[r] = "GetOrder" /\ pc[r] = "order" /\ Goto(r, "items")
      /\ target[r] \in OrderIDs
      /\ UNCHANGED <<database, op, user, target, want, seen, lines, payment>>
  BY DEF GetOrderRow, At, OrderExists
<1>3. current' \in [Requests -> OrderRow \cup {NoRow}]
  <2>1. orders[target[r]] \in OrderRow \cup {NoRow}
    BY <1>1, <1>2 DEF TypeOK, Orders
  <2> QED
    BY <1>1, <2>1 DEF GetOrderRow, TypeOK
<1>4. TypeOK'
  BY <1>1, <1>2, <1>3 DEF TypeOK, Goto, Labels, database, tables, working, locks,
     ids, payment
<1>5. RequestInv(r)'
  <2>1. pc'[r] = "items"
    BY <1>1, <1>2 DEF Goto, TypeOK
  <2>2. \A p \in ProductIDs : seen'[r][p] = NoRow
    BY <1>1, <1>2 DEF RequestInv, InSale, NoProduct
  <2> QED
    BY <1>1, <1>2, <2>1, <2>2
       DEF RequestInv, OwnsTarget, InSale, database, working, locks
<1> QED
  BY <1>2, <1>4, <1>5, GotoPreserves DEF Labels

\* The last read of GetOrder and of GetCart.
LEMMA ReadLinesPreserves ==
    ASSUME IInv, NEW r \in Requests, pc[r] = "items", Goto(r, "commit"),
           lines' = [lines EXCEPT ![r] = LinesSeenBy(r, target[r])],
           UNCHANGED <<database, op, user, target, want, seen, current, payment>>
    PROVE  Preserved(r)
<1>1. TypeOK /\ RequestInv(r)
  BY DEF IInv
<1>2. lines' \in [Requests -> Lines]
  <2>1. target[r] \in OrderIDs
    BY <1>1 DEF RequestInv
  <2>2. LinesSeenBy(r, target[r]) \in Lines
    BY <1>1, <2>1 DEF LinesSeenBy, TypeOK
  <2> QED
    BY <1>1, <2>2 DEF TypeOK
<1>3. TypeOK'
  BY <1>1, <1>2 DEF TypeOK, Goto, Labels, database, tables, working, locks,
     ids, payment
<1>4. RequestInv(r)'
  <2>1. pc'[r] = "commit"
    BY <1>1 DEF Goto, TypeOK
  <2>2. \A p \in ProductIDs : seen'[r][p] = NoRow
    BY <1>1 DEF RequestInv, InSale, NoProduct
  <2> QED
    BY <1>1, <2>1, <2>2 DEF RequestInv, OwnsTarget, InSale, database, working, locks
<1> QED
  BY <1>3, <1>4, GotoPreserves DEF Labels

-----------------------------------------------------------------------------
\* Every step of the order service.
LEMMA OrderServiceStepPreserves ==
    ASSUME IInv, NEW r \in Requests, OrderServiceStep(r)
    PROVE  Preserved(r)
<1>1. CASE CreateOrderLock(r)
  BY <1>1, LockSaleProductPreserves DEF CreateOrderLock
<1>2. CASE CreateOrderInsert(r)
  BY <1>2, CreateOrderInsertPreserves
<1>3. CASE CreateOrderLine(r)
  BY <1>3, CreateOrderLinePreserves
<1>4. CASE CreateOrderDone(r)
  BY <1>4, CreateOrderDonePreserves
<1>5. CASE CancelOrderRead(r)
  BY <1>5, CancelOrderReadPreserves
<1>6. CASE CancelOrderRestock(r)
  BY <1>6, CancelOrderRestockPreserves
<1>7. CASE CancelOrderRestocked(r)
  BY <1>7, CancelOrderRestockedPreserves
<1>8. CASE CancelOrderMark(r) \/ PayOrderMark(r)
  BY <1>8, MarkPreserves DEF CancelOrderMark, PayOrderMark, Statuses
<1>9. CASE PayOrderRead(r)
  BY <1>9, PayOrderReadPreserves
<1>10. CASE PayOrderSucceeds(r)
  BY <1>10, PayOrderSucceedsPreserves
<1>11. CASE PayOrderTimesOut(r)
  BY <1>11, PayOrderTimesOutPreserves
<1>12. CASE UpdateOrderStatusRun(r)
  BY <1>12, UpdateOrderStatusPreserves
<1>13. CASE GetOrderRow(r)
  BY <1>13, GetOrderRowPreserves
<1>14. CASE GetOrderItems(r)
  BY <1>14, ReadLinesPreserves DEF GetOrderItems, At
<1>15. CASE \/ CreateOrderRefuse(r) \/ CancelOrderRefuse(r) \/ PayOrderRefuse(r)
            \/ PayOrderFails(r) \/ UpdateOrderStatusRefuse(r) \/ GetOrderRefuse(r)
  BY <1>15, RejectPreserves DEF CreateOrderRefuse, RefuseSale, CancelOrderRefuse,
     PayOrderRefuse, RefuseOrder, PayOrderFails, UpdateOrderStatusRefuse,
     GetOrderRefuse
<1> QED
  BY <1>1, <1>2, <1>3, <1>4, <1>5, <1>6, <1>7, <1>8, <1>9, <1>10, <1>11, <1>12,
     <1>13, <1>14, <1>15 DEF OrderServiceStep

-----------------------------------------------------------------------------
(* The draft.                                                              *)

\* GetDraft picks a row of its snapshot.
LEMMA GetDraftSnapshotPreserves ==
    ASSUME IInv, NEW r \in Requests, GetDraftSnapshot(r)
    PROVE  Preserved(r)
<1>1. TypeOK /\ RequestInv(r)
  BY DEF IInv
<1>2. /\ pc[r] = "snapshot" /\ Goto(r, "draft")
      /\ UNCHANGED <<database, op, user, want, seen, current, lines, payment>>
  BY DEF GetDraftSnapshot
<1>3. PICK o \in OrderIDs : target' = [target EXCEPT ![r] = o]
  BY DEF GetDraftSnapshot
<1>4. TypeOK'
  BY <1>1, <1>2, <1>3 DEF TypeOK, Goto, Labels, database, tables, working, locks,
     ids, payment
<1>5. OtherSessions(r)
  BY <1>1, <1>2, <1>3 DEF OtherSessions, Goto, TypeOK
<1>6. RequestInv(r)'
  <2>1. pc'[r] = "draft" /\ target'[r] = o
    BY <1>1, <1>2, <1>3 DEF Goto, TypeOK
  <2>2. \A p \in ProductIDs : seen'[r][p] = NoRow
    BY <1>1, <1>2 DEF RequestInv, InSale, NoProduct
  <2> QED
    BY <1>1, <1>2, <2>1, <2>2
       DEF RequestInv, OwnsTarget, InSale, database, working, locks
<1> QED
  BY <1>2, <1>4, <1>5, <1>6, SessionStepPreserves

\* GetDraft gets its lock, and the row still is a draft of the user.
LEMMA GetDraftLockPreserves ==
    ASSUME IInv, NEW r \in Requests, GetDraftLock(r)
    PROVE  Preserved(r)
<1> USE NullAssumption, NoRowAssumption
<1>1. TypeOK /\ RowInv /\ RequestInv(r)
  BY DEF IInv
<1>2. /\ pc[r] = "draft" /\ Goto(r, AfterDraft(op[r])) /\ target[r] \in OrderIDs
      /\ orderLock' = [orderLock EXCEPT ![target[r]] = r]
      /\ UNCHANGED <<tables, working, productLock, ids, op, user, target, want,
                     seen, lines, payment>>
  BY <1>1 DEF GetDraftLock, LockOrder, RequestInv
<1>3. /\ orderLock[target[r]] \in {None, r} /\ ordersW[target[r]] # NoRow
      /\ ordersW[target[r]] \in OrderRow
  BY <1>1, <1>2 DEF GetDraftLock, OrderAvailable, IsDraft, TypeOK, Orders
<1>4. op[r] \in {"GetCart", "AddItem", "UpdateItem", "DeleteItem", "Checkout"}
  BY <1>1, <1>2 DEF RequestInv
<1>5. AfterDraft(op[r]) \in {"product", "remove", "items"}
  BY <1>4 DEF AfterDraft
<1>6. TypeOK'
  <2>1. current' \in [Requests -> OrderRow \cup {NoRow}]
    BY <1>1, <1>3 DEF GetDraftLock, TypeOK
  <2>2. orderLock' \in [OrderIDs -> Requests \cup {None}]
    BY <1>1, <1>2 DEF TypeOK
  <2>3. AfterDraft(op[r]) \in Labels
    BY <1>5 DEF Labels
  <2> QED
    BY <1>1, <1>2, <2>1, <2>2, <2>3 DEF TypeOK, Goto, tables, working, ids, payment
<1>7. OtherSessions(r)
  BY <1>1, <1>2 DEF OtherSessions, Goto, TypeOK
<1>8. WritesOwnRows(r)
  <2>1. orderLock[target[r]] = None => orders[target[r]] # NoRow
    BY <1>1, <1>2, <1>3 DEF RowInv, UnlockedRowsAgree
  <2> QED
    BY <1>1, <1>2, <1>3, <2>1 DEF WritesOwnRows, TypeOK, working
<1>9. RequestInv(r)'
  <2>1. pc'[r] \in {"product", "remove", "items"} /\ orderLock'[target[r]] = r
    BY <1>1, <1>2, <1>5 DEF Goto, TypeOK
  <2>2. \A p \in ProductIDs : seen'[r][p] = NoRow
    BY <1>1, <1>2 DEF RequestInv, InSale, NoProduct
  <2> QED
    BY <1>1, <1>2, <1>3, <2>1, <2>2 DEF RequestInv, OwnsTarget, InSale, working
<1> QED
  BY <1>6, <1>7, <1>8, <1>9, OwnRowsStepPreserves

\* A user without a draft: GetCart answers at once, AddItem makes a draft.
LEMMA NoDraftPreserves ==
    ASSUME IInv, NEW r \in Requests, GetCartEmpty(r) \/ AddItemNoDraft(r)
    PROVE  Preserved(r)
<1>1. TypeOK /\ RequestInv(r)
  BY DEF IInv
<1>2. PICK l \in {"commit", "create"} : Goto(r, l)
  BY DEF GetCartEmpty, AddItemNoDraft
<1>3. /\ pc[r] \in {"snapshot", "draft"}
      /\ UNCHANGED <<database, op, user, target, want, seen, current, lines, payment>>
  BY DEF GetCartEmpty, AddItemNoDraft, NoDraft
<1>4. TypeOK'
  BY <1>1, <1>2, <1>3 DEF TypeOK, Goto, Labels, database, tables, working, locks,
     ids, payment
<1>5. RequestInv(r)'
  <2>1. pc'[r] \in {"commit", "create"}
    BY <1>1, <1>2 DEF Goto, TypeOK
  <2>2. \A p \in ProductIDs : seen'[r][p] = NoRow
    BY <1>1, <1>3 DEF RequestInv, InSale, NoProduct
  <2> QED
    BY <1>1, <1>3, <2>1, <2>2
       DEF RequestInv, OwnsTarget, InSale, database, working, locks
<1> QED
  BY <1>2, <1>3, <1>4, <1>5, GotoPreserves DEF Labels

\* AddItem inserts the draft of a user who has none.
LEMMA CreateDraftPreserves ==
    ASSUME IInv, NEW r \in Requests, CreateDraft(r)
    PROVE  Preserved(r)
<1>1. TypeOK /\ RequestInv(r)
  BY DEF IInv
<1> DEFINE row == [user |-> user[r], status |-> "draft", total |-> 0,
                   currency |-> NoCurrency]
<1>2. /\ op[r] = "AddItem" /\ pc[r] = "create" /\ Goto(r, "product")
      /\ InsertOrder(r, row)
      /\ UNCHANGED <<tables, productsW, itemsW, productLock, nextProduct,
                     op, user, want, seen, current, lines, payment>>
  BY DEF CreateDraft, At
<1>3. row \in OrderRow
  <2>1. user[r] \in Users
    BY <1>1, <1>2 DEF RequestInv
  <2> QED
    BY <2>1 DEF OrderRow, Statuses
<1> HIDE DEF row
<1>4. /\ OtherRows(r) /\ RowInv'
      /\ ordersW' \in Orders /\ nextOrder' \in Nat
      /\ orderLock' \in [OrderIDs -> Requests \cup {None}]
      /\ target' \in [Requests -> OrderIDs \cup {NoOrder}]
      /\ target'[r] \in OrderIDs
      /\ orderLock'[target'[r]] = r
      /\ ordersW'[target'[r]] # NoRow
  BY <1>2, <1>3, InsertOrderStep
<1>5. TypeOK'
  BY <1>1, <1>2, <1>4 DEF TypeOK, Goto, Labels, tables, payment
<1>6. OtherSessions(r)
  BY <1>1, <1>2 DEF OtherSessions, Goto, InsertOrder, TypeOK
<1>7. RequestInv(r)'
  <2>1. pc'[r] = "product"
    BY <1>1, <1>2 DEF Goto, TypeOK
  <2>2. \A p \in ProductIDs : seen'[r][p] = NoRow
    BY <1>1, <1>2 DEF RequestInv, InSale, NoProduct
  <2> QED
    BY <1>1, <1>2, <1>4, <2>1, <2>2 DEF RequestInv, OwnsTarget, InSale
<1> QED
  BY <1>4, <1>5, <1>6, <1>7 DEF Preserved, Others

-----------------------------------------------------------------------------
(* Lines.                                                                  *)

\* A step that writes only the lines of the draft that r has locked.
LEMMA WriteLinesPreserves ==
    ASSUME IInv, NEW r \in Requests, NEW ls \in Lines,
           pc[r] = "remove", Goto(r, "recalculate"),
           itemsW' = [itemsW EXCEPT ![target[r]] = ls],
           UNCHANGED <<tables, productsW, ordersW, locks, ids,
                       op, user, target, want, seen, current, lines, payment>>
    PROVE  Preserved(r)
<1>1. TypeOK /\ RequestInv(r)
  BY DEF IInv
<1>2. /\ target[r] \in OrderIDs /\ orderLock[target[r]] = r
      /\ ordersW[target[r]] # NoRow
  BY <1>1 DEF RequestInv, OwnsTarget
<1>3. TypeOK'
  BY <1>1 DEF TypeOK, Goto, Labels, tables, locks, ids, payment
<1>4. OtherSessions(r)
  BY <1>1 DEF OtherSessions, Goto, TypeOK
<1>5. WritesOwnRows(r)
  BY <1>1, <1>2 DEF WritesOwnRows, TypeOK, locks
<1>6. RequestInv(r)'
  <2>1. pc'[r] = "recalculate"
    BY <1>1 DEF Goto, TypeOK
  <2>2. \A p \in ProductIDs : seen'[r][p] = NoRow
    BY <1>1 DEF RequestInv, InSale, NoProduct
  <2> QED
    BY <1>1, <1>2, <2>1, <2>2 DEF RequestInv, OwnsTarget, InSale, locks
<1> QED
  BY <1>3, <1>4, <1>5, <1>6, OwnRowsStepPreserves

\* DeleteItem removes the line of a product.
LEMMA DeleteItemPreserves ==
    ASSUME IInv, NEW r \in Requests, DeleteItemRun(r)
    PROVE  Preserved(r)
<1>1. TypeOK /\ RequestInv(r)
  BY DEF IInv
<1>2. pc[r] = "remove"
  BY DEF DeleteItemRun, At
<1>3. PICK p \in ProductIDs :
          itemsW' = [itemsW EXCEPT ![target[r]] = WithoutProduct(@, p)]
  BY DEF DeleteItemRun
<1>4. WithoutProduct(itemsW[target[r]], p) \in Lines
  <2>1. target[r] \in OrderIDs
    BY <1>1, <1>2 DEF RequestInv, OwnsTarget
  <2> QED
    BY <1>1, <2>1, WithoutProductType DEF TypeOK
<1> QED
  BY <1>2, <1>3, <1>4, WriteLinesPreserves DEF DeleteItemRun

\* AddItem and UpdateItem lock the product and write its line.
LEMMA WriteLinePreserves ==
    ASSUME IInv, NEW r \in Requests, op[r] \in {"AddItem", "UpdateItem"},
           pc[r] = "product", NEW p \in ProductIDs, NEW q, NEW ls \in Lines,
           WriteLine(r, p, q, ls)
    PROVE  Preserved(r)
<1> USE NullAssumption, NoRowAssumption
<1>1. TypeOK /\ RequestInv(r)
  BY DEF IInv
<1>2. /\ productLock[p] \in {None, r} /\ products[p] # NoRow
      /\ productsW[p] \in ProductRow
  BY LockedRowExists DEF WriteLine, ProductAvailable, ProductExists
<1>3. /\ target[r] \in OrderIDs /\ orderLock[target[r]] = r
      /\ ordersW[target[r]] # NoRow
  BY <1>1 DEF RequestInv, OwnsTarget
<1>4. /\ productLock' = [productLock EXCEPT ![p] = r]
      /\ itemsW' = [itemsW EXCEPT ![target[r]] = ls]
      /\ Goto(r, "recalculate")
      /\ UNCHANGED <<tables, productsW, ordersW, orderLock, ids,
                     op, user, target, want, seen, current, lines, payment>>
  BY DEF WriteLine, LockProduct
<1>5. TypeOK'
  BY <1>1, <1>4 DEF TypeOK, Goto, Labels, tables, ids, payment
<1>6. OtherSessions(r)
  BY <1>1, <1>4 DEF OtherSessions, Goto, TypeOK
<1>7. WritesOwnRows(r)
  BY <1>1, <1>2, <1>3, <1>4 DEF WritesOwnRows, TypeOK
<1>8. RequestInv(r)'
  <2>1. pc'[r] = "recalculate"
    BY <1>1, <1>4 DEF Goto, TypeOK
  <2>2. \A x \in ProductIDs : seen'[r][x] = NoRow
    BY <1>1, <1>4 DEF RequestInv, InSale, NoProduct
  <2>3. \A x \in ProductIDs :
            productLock'[x] = r /\ productsW'[x] = NoRow => FALSE
    BY <1>1, <1>2, <1>4 DEF RequestInv, TypeOK
  <2> QED
    BY <1>1, <1>3, <1>4, <2>1, <2>2, <2>3 DEF RequestInv, OwnsTarget, InSale
<1> QED
  BY <1>5, <1>6, <1>7, <1>8, OwnRowsStepPreserves

\* AddItem raises the quantity of a line, and UpdateItem overwrites it.
LEMMA ChangeLinePreserves ==
    ASSUME IInv, NEW r \in Requests, AddItemToLine(r) \/ UpdateItemRun(r)
    PROVE  Preserved(r)
<1>1. TypeOK /\ RequestInv(r)
  BY DEF IInv
<1>2. op[r] \in {"AddItem", "UpdateItem"} /\ pc[r] = "product"
  BY DEF AddItemToLine, UpdateItemRun, At
<1>3. itemsW[target[r]] \in Lines
  BY <1>1, <1>2 DEF RequestInv, OwnsTarget, TypeOK
<1>4. CASE AddItemToLine(r)
  <2>1. PICK p \in ProductIDs :
            LET ls == itemsW[target[r]]
                q  == want[r][p] + LineQuantity(ls, p)
            IN  want[r][p] > 0 /\ WriteLine(r, p, q, WithQuantity(ls, p, q))
    BY <1>4 DEF AddItemToLine
  <2> DEFINE q == want[r][p] + LineQuantity(itemsW[target[r]], p)
  <2>2. q \in Nat \ {0}
    <3>1. LineQuantity(itemsW[target[r]], p) \in Nat
      BY <1>3, LineQuantityType
    <3>2. want[r][p] \in Nat /\ want[r][p] > 0
      BY <1>1, <2>1 DEF TypeOK
    <3> QED
      BY <3>1, <3>2
  <2> HIDE DEF q
  <2>3. WithQuantity(itemsW[target[r]], p, q) \in Lines
    BY <1>3, <2>2, WithQuantityType
  <2>4. WriteLine(r, p, q, WithQuantity(itemsW[target[r]], p, q))
    BY <2>1 DEF q
  <2> QED
    BY <1>2, <2>3, <2>4, WriteLinePreserves
<1>5. CASE UpdateItemRun(r)
  <2>1. PICK p \in ProductIDs :
            /\ want[r][p] > 0
            /\ WriteLine(r, p, want[r][p],
                         WithQuantity(itemsW[target[r]], p, want[r][p]))
    BY <1>5 DEF UpdateItemRun
  <2>2. want[r][p] \in Nat \ {0}
    BY <1>1, <2>1 DEF TypeOK
  <2>3. WithQuantity(itemsW[target[r]], p, want[r][p]) \in Lines
    BY <1>3, <2>2, WithQuantityType
  <2> QED
    BY <1>2, <2>1, <2>3, WriteLinePreserves
<1> QED
  BY <1>4, <1>5

\* AddItem makes a line.
LEMMA NewLinePreserves ==
    ASSUME IInv, NEW r \in Requests, AddItemNewLine(r)
    PROVE  Preserved(r)
<1>1. TypeOK /\ RequestInv(r)
  BY DEF IInv
<1>2. op[r] = "AddItem" /\ pc[r] = "product"
  BY DEF AddItemNewLine, At
<1>3. itemsW[target[r]] \in Lines
  BY <1>1, <1>2 DEF RequestInv, OwnsTarget, TypeOK
<1>4. PICK p \in ProductIDs, s \in Slots :
          /\ want[r][p] > 0
          /\ WriteLine(r, p, want[r][p],
                       AppendLine(itemsW[target[r]], s, p, want[r][p],
                                  productsW[p].price))
  BY DEF AddItemNewLine
<1>5. want[r][p] \in Nat \ {0}
  BY <1>1, <1>4 DEF TypeOK
<1>6. productsW[p].price \in Nat
  <2>1. productsW[p] \in ProductRow
    BY <1>2, <1>4, LockedRowExists DEF WriteLine
  <2> QED
    BY <2>1 DEF ProductRow
<1>7. AppendLine(itemsW[target[r]], s, p, want[r][p], productsW[p].price) \in Lines
  BY <1>3, <1>5, <1>6, AppendLineType
<1> QED
  BY <1>2, <1>4, <1>7, WriteLinePreserves

\* The total of an order that r has locked is written.
LEMMA UpdateTotalStep ==
    ASSUME IInv, NEW o \in OrderIDs, ordersW[o] # NoRow, NEW total \in Nat,
           NEW c \in Currencies \cup {NoCurrency}, UpdateTotal(o, total, c)
    PROVE  /\ ordersW' \in Orders /\ ordersW'[o] # NoRow
           /\ \A q \in OrderIDs \ {o} : ordersW'[q] = ordersW[q]
<1>1. ordersW[o] \in OrderRow
  BY DEF IInv, TypeOK, Orders
<1>2. WithTotal(ordersW[o], total, c) \in OrderRow
  BY <1>1, WithTotalType
<1> QED
  BY <1>2, NullAssumption, NoRowAssumption DEF UpdateTotal, IInv, TypeOK, Orders

\* recalculate writes the total and the currency of the draft.
LEMMA RecalculatePreserves ==
    ASSUME IInv, NEW r \in Requests, Recalculate(r)
    PROVE  Preserved(r)
<1>1. TypeOK /\ RequestInv(r)
  BY DEF IInv
<1>2. /\ pc[r] = "recalculate" /\ Goto(r, "commit")
      /\ UNCHANGED <<tables, productsW, itemsW, locks, ids,
                     op, user, target, want, seen, current, lines, payment>>
  BY DEF Recalculate
<1>3. /\ target[r] \in OrderIDs /\ orderLock[target[r]] = r
      /\ ordersW[target[r]] # NoRow
  BY <1>1, <1>2 DEF RequestInv, OwnsTarget
<1>4. PICK total \in Nat, c \in Currencies \cup {NoCurrency} :
          UpdateTotal(target[r], total, c)
  BY DEF Recalculate, IsAmount
<1>5. /\ ordersW' \in Orders /\ ordersW'[target[r]] # NoRow
      /\ \A q \in OrderIDs \ {target[r]} : ordersW'[q] = ordersW[q]
  BY <1>3, <1>4, UpdateTotalStep
<1>6. TypeOK'
  BY <1>1, <1>2, <1>5 DEF TypeOK, Goto, Labels, tables, locks, ids, payment
<1>7. OtherSessions(r)
  BY <1>1, <1>2 DEF OtherSessions, Goto, TypeOK
<1>8. WritesOwnRows(r)
  BY <1>2, <1>3, <1>5 DEF WritesOwnRows, locks
<1>9. RequestInv(r)'
  <2>1. pc'[r] = "commit"
    BY <1>1, <1>2 DEF Goto, TypeOK
  <2>2. \A p \in ProductIDs : seen'[r][p] = NoRow
    BY <1>1, <1>2 DEF RequestInv, InSale, NoProduct
  <2> QED
    BY <1>1, <1>2, <2>1, <2>2 DEF RequestInv, OwnsTarget, InSale, locks
<1> QED
  BY <1>6, <1>7, <1>8, <1>9, OwnRowsStepPreserves

-----------------------------------------------------------------------------
(* Checkout.                                                               *)

\* The lines of the cart name the products that the lock loop goes through.
LEMMA CheckoutItemsPreserves ==
    ASSUME IInv, NEW r \in Requests, CheckoutItems(r)
    PROVE  Preserved(r)
<1> USE NullAssumption, NoRowAssumption
<1>1. TypeOK /\ RequestInv(r)
  BY DEF IInv
<1> DEFINE ls == itemsW[target[r]]
           w == [p \in ProductIDs |-> LineQuantity(ls, p)]
<1>2. /\ op[r] = "Checkout" /\ pc[r] = "items" /\ Goto(r, "lock")
      /\ want' = [want EXCEPT ![r] = w]
      /\ UNCHANGED <<database, op, user, target, seen, current, lines, payment>>
  BY DEF CheckoutItems, At
<1>3. /\ target[r] \in OrderIDs /\ orderLock[target[r]] = r
      /\ ordersW[target[r]] # NoRow /\ ls \in Lines
  BY <1>1, <1>2 DEF RequestInv, OwnsTarget, TypeOK
<1>4. w \in [ProductIDs -> Nat]
  BY <1>3, LineQuantityType
<1>5. \A s \in Slots : ls[s] # NoRow => w[ls[s].product] > 0
  <2>1. SUFFICES ASSUME NEW s \in Slots, ls[s] # NoRow
                 PROVE  w[ls[s].product] > 0
    OBVIOUS
  <2>2. ls[s].product \in ProductIDs
    BY <1>3, <2>1 DEF Lines, ItemRow
  <2>3. References(ls, ls[s].product)
    BY <2>1 DEF References
  <2> QED
    BY <1>3, <2>2, <2>3, LineQuantityType
<1> HIDE DEF w
<1>6. TypeOK'
  BY <1>1, <1>2, <1>4 DEF TypeOK, Goto, Labels, database, tables, working, locks,
     ids, payment
<1>7. OtherSessions(r)
  BY <1>1, <1>2 DEF OtherSessions, Goto, TypeOK
<1>8. RequestInv(r)'
  <2>1. pc'[r] = "lock" /\ want'[r] = w
    BY <1>1, <1>2 DEF Goto, TypeOK
  <2>2. \A p \in ProductIDs : seen'[r][p] = NoRow
    BY <1>1, <1>2 DEF RequestInv, InSale, NoProduct
  <2>3. CartIsWanted(r)'
    BY <1>2, <1>5, <2>1 DEF CartIsWanted, database, working
  <2> QED
    BY <1>1, <1>2, <1>3, <2>1, <2>2, <2>3
       DEF RequestInv, OwnsTarget, InSale, database, working, locks
<1> QED
  BY <1>2, <1>6, <1>7, <1>8, SessionStepPreserves

\* Every line of the cart that r checks out is of a product r has locked.
LEMMA CartIsLocked ==
    ASSUME IInv, NEW r \in Requests, op[r] = "Checkout", pc[r] = "price",
           NEW s \in Slots, itemsW[target[r]][s] # NoRow
    PROVE  productsW[itemsW[target[r]][s].product] \in ProductRow
<1>1. TypeOK /\ RequestInv(r)
  BY DEF IInv
<1> DEFINE p == itemsW[target[r]][s].product
<1>2. p \in ProductIDs
  <2>1. target[r] \in OrderIDs
    BY <1>1 DEF RequestInv, OwnsTarget
  <2>2. itemsW[target[r]][s] \in ItemRow
    BY <1>1, <2>1 DEF TypeOK, Lines
  <2> QED
    BY <2>2 DEF ItemRow
<1>3. seen[r][p] # NoRow
  BY <1>1, <1>2 DEF RequestInv, CartIsWanted, AllLocked
<1>4. productsW[p] = seen[r][p] /\ seen[r][p] \in ProductRow
  BY <1>1, <1>2, <1>3 DEF RequestInv, Claim, TypeOK, Products
<1> QED
  BY <1>4

\* The lines and the total of the order at the current prices.
LEMMA CheckoutPricePreserves ==
    ASSUME IInv, NEW r \in Requests, CheckoutPrice(r)
    PROVE  Preserved(r)
<1> USE NullAssumption, NoRowAssumption
<1>1. TypeOK /\ RequestInv(r)
  BY DEF IInv
<1>2. /\ op[r] = "Checkout" /\ pc[r] = "price" /\ Goto(r, "take")
      /\ itemsW' = [itemsW EXCEPT ![target[r]] = AtCurrentPrices(@)]
      /\ UNCHANGED <<tables, productsW, locks, ids,
                     op, user, target, want, seen, current, lines, payment>>
  BY DEF CheckoutPrice, At
<1>3. /\ target[r] \in OrderIDs /\ orderLock[target[r]] = r
      /\ ordersW[target[r]] # NoRow
  BY <1>1, <1>2 DEF RequestInv, OwnsTarget
<1>4. PICK c \in Currencies : UpdateTotal(target[r], SaleTotal(r), c)
  BY DEF CheckoutPrice
<1>5. /\ ordersW' \in Orders /\ ordersW'[target[r]] # NoRow
      /\ \A q \in OrderIDs \ {target[r]} : ordersW'[q] = ordersW[q]
  <2>1. SaleTotal(r) \in Nat
    BY DEF CheckoutPrice, IsAmount
  <2> QED
    BY <1>3, <1>4, <2>1, UpdateTotalStep
<1>6. AtCurrentPrices(itemsW[target[r]]) \in Lines
  <2> DEFINE ls == itemsW[target[r]]
  <2>1. ASSUME NEW s \in Slots, ls[s] # NoRow
        PROVE  LineWithPrice(ls[s], productsW[ls[s].product].price) \in ItemRow
    <3>1. ls[s] \in ItemRow
      BY <1>1, <1>3, <2>1 DEF TypeOK, Lines
    <3>2. productsW[ls[s].product].price \in Nat
      BY <1>2, <2>1, CartIsLocked DEF ProductRow
    <3> QED
      BY <3>1, <3>2, LineWithPriceType
  <2> QED
    BY <2>1 DEF AtCurrentPrices, Lines
<1>7. TypeOK'
  <2>1. itemsW' \in [OrderIDs -> Lines]
    BY <1>1, <1>2, <1>6 DEF TypeOK
  <2> QED
    BY <1>1, <1>2, <1>5, <2>1 DEF TypeOK, Goto, Labels, tables, locks, ids, payment
<1>8. OtherSessions(r)
  BY <1>1, <1>2 DEF OtherSessions, Goto, TypeOK
<1>9. WritesOwnRows(r)
  <2>1. \A o \in OrderIDs \ {target[r]} : itemsW'[o] = itemsW[o]
    BY <1>1, <1>2 DEF TypeOK
  <2> QED
    BY <1>2, <1>3, <1>5, <2>1 DEF WritesOwnRows, locks
<1>10. RequestInv(r)'
  <2>1. pc'[r] = "take"
    BY <1>1, <1>2 DEF Goto, TypeOK
  <2>2. \A p \in ProductIDs : Claim(r, p) => Claim(r, p)'
    BY <1>2 DEF Claim, locks
  <2> QED
    BY <1>1, <1>2, <1>3, <1>5, <2>1, <2>2 DEF RequestInv, InSale, locks
<1> QED
  BY <1>7, <1>8, <1>9, <1>10, OwnRowsStepPreserves

\* Checkout takes the stock of its next product.
LEMMA CheckoutTakePreserves ==
    ASSUME IInv, NEW r \in Requests, CheckoutTake(r)
    PROVE  Preserved(r)
<1>1. TypeOK /\ RequestInv(r)
  BY DEF IInv
<1>2. /\ op[r] = "Checkout" /\ pc[r] = "take"
      /\ UNCHANGED <<tables, ordersW, itemsW, locks, ids,
                     op, pc, user, target, want, current, lines, payment>>
  BY DEF CheckoutTake, At
<1>3. PICK p \in ProductIDs :
          /\ IsNextToTake(r, p)
          /\ DecreaseStock(p, want[r][p])
          /\ seen' = [seen EXCEPT ![r] = [@ EXCEPT ![p] = NoRow]]
  BY DEF CheckoutTake
<1>4. seen[r][p] # NoRow /\ UNCHANGED <<productLock, want, op>>
  BY <1>2, <1>3 DEF IsNextToTake, locks
<1>5. /\ productsW' \in Products /\ seen' \in [Requests -> Products]
      /\ productLock[p] = r /\ productsW'[p] # NoRow
      /\ \A q \in ProductIDs \ {p} : productsW'[q] = productsW[q]
      /\ \A q \in ProductIDs : seen'[r][q] # NoRow => Claim(r, q)'
      /\ \A t \in Requests \ {r} : seen'[t] = seen[t]
  BY <1>2, <1>3, <1>4, DecreaseStockStep
<1>6. TypeOK'
  BY <1>1, <1>2, <1>5 DEF TypeOK, tables, locks, ids, payment
<1>7. OtherSessions(r)
  BY <1>2, <1>5 DEF OtherSessions
<1>8. WritesOwnRows(r)
  BY <1>2, <1>5 DEF WritesOwnRows, locks
<1>9. RequestInv(r)'
  BY <1>1, <1>2, <1>5 DEF RequestInv, OwnsTarget, InSale, locks
<1> QED
  BY <1>6, <1>7, <1>8, <1>9, OwnRowsStepPreserves

\* The draft, all of whose stock is taken, becomes pending.
LEMMA CheckoutSubmitPreserves ==
    ASSUME IInv, NEW r \in Requests, CheckoutSubmit(r)
    PROVE  Preserved(r)
<1>1. TypeOK /\ RequestInv(r)
  BY DEF IInv
<1>2. /\ op[r] = "Checkout" /\ pc[r] = "take" /\ Goto(r, "commit")
      /\ SetStatus(target[r], "pending")
      /\ UNCHANGED <<tables, productsW, itemsW, locks, ids,
                     op, user, target, want, seen, current, lines, payment>>
  BY DEF CheckoutSubmit, At
<1>3. /\ target[r] \in OrderIDs /\ orderLock[target[r]] = r
      /\ ordersW[target[r]] \in OrderRow
  BY <1>1, <1>2 DEF RequestInv, OwnsTarget, TypeOK, Orders
<1>4. /\ ordersW' \in Orders /\ ordersW'[target[r]] # NoRow
      /\ \A q \in OrderIDs \ {target[r]} : ordersW'[q] = ordersW[q]
  <2>1. "pending" \in Statuses
    BY DEF Statuses
  <2> QED
    BY <1>2, <1>3, <2>1, SetStatusStep
<1>5. TypeOK'
  BY <1>1, <1>2, <1>4 DEF TypeOK, Goto, Labels, tables, locks, ids, payment
<1>6. OtherSessions(r)
  BY <1>1, <1>2 DEF OtherSessions, Goto, TypeOK
<1>7. WritesOwnRows(r)
  BY <1>2, <1>3, <1>4 DEF WritesOwnRows, locks
<1>8. RequestInv(r)'
  <2>1. pc'[r] = "commit"
    BY <1>1, <1>2 DEF Goto, TypeOK
  <2>2. seen[r] = NoProduct
    BY <1>1 DEF CheckoutSubmit, AllTaken, NoProduct, TypeOK, Products
  <2>3. \A p \in ProductIDs : seen'[r][p] = NoRow
    BY <1>2, <2>2 DEF NoProduct
  <2> QED
    BY <1>1, <1>2, <2>1, <2>2, <2>3 DEF RequestInv, OwnsTarget, locks
<1> QED
  BY <1>5, <1>6, <1>7, <1>8, OwnRowsStepPreserves

-----------------------------------------------------------------------------
\* Every step of the cart service.
LEMMA CartServiceStepPreserves ==
    ASSUME IInv, NEW r \in Requests, CartServiceStep(r)
    PROVE  Preserved(r)
<1>1. CASE GetDraftSnapshot(r)
  BY <1>1, GetDraftSnapshotPreserves
<1>2. CASE GetDraftLock(r)
  BY <1>2, GetDraftLockPreserves
<1>3. CASE GetCartEmpty(r) \/ AddItemNoDraft(r)
  BY <1>3, NoDraftPreserves
<1>4. CASE GetCartItems(r)
  BY <1>4, ReadLinesPreserves DEF GetCartItems, At
<1>5. CASE CreateDraft(r)
  BY <1>5, CreateDraftPreserves
<1>6. CASE Recalculate(r)
  BY <1>6, RecalculatePreserves
<1>7. CASE AddItemToLine(r) \/ UpdateItemRun(r)
  BY <1>7, ChangeLinePreserves
<1>8. CASE AddItemNewLine(r)
  BY <1>8, NewLinePreserves
<1>9. CASE DeleteItemRun(r)
  BY <1>9, DeleteItemPreserves
<1>10. CASE CheckoutItems(r)
  BY <1>10, CheckoutItemsPreserves
<1>11. CASE CheckoutLock(r)
  BY <1>11, LockSaleProductPreserves DEF CheckoutLock
<1>12. CASE CheckoutPrice(r)
  BY <1>12, CheckoutPricePreserves
<1>13. CASE CheckoutTake(r)
  BY <1>13, CheckoutTakePreserves
<1>14. CASE CheckoutSubmit(r)
  BY <1>14, CheckoutSubmitPreserves
<1>15. CASE \/ CartNotFound(r) \/ CreateDraftRefuse(r) \/ RecalculateRefuse(r)
            \/ AddItemRefuse(r) \/ UpdateItemRefuse(r) \/ DeleteItemRefuse(r)
            \/ EmptyCart(r) \/ CheckoutRefuse(r)
  BY <1>15, RejectPreserves DEF CartNotFound, CreateDraftRefuse,
     RecalculateRefuse, AddItemRefuse, UpdateItemRefuse, DeleteItemRefuse,
     EmptyCart, CheckoutRefuse, RefuseSale
<1> QED
  BY <1>1, <1>2, <1>3, <1>4, <1>5, <1>6, <1>7, <1>8, <1>9, <1>10, <1>11, <1>12,
     <1>13, <1>14, <1>15 DEF CartServiceStep

-----------------------------------------------------------------------------
(* The steps of the product service.                                       *)

\* CreateProduct inserts a row whose id nobody uses.
LEMMA CreateProductPreserves ==
    ASSUME IInv, NEW r \in Requests, CreateProduct(r)
    PROVE  Preserved(r)
<1> USE NullAssumption, NoRowAssumption
<1>1. TypeOK /\ RowInv /\ RequestInv(r)
  BY DEF IInv
<1>2. /\ op[r] = "CreateProduct" /\ pc[r] = "product" /\ Goto(r, "commit")
      /\ UNCHANGED <<tables, ordersW, itemsW, orderLock, nextOrder,
                     op, user, target, want, seen, current, lines, payment>>
  BY DEF CreateProduct, At
<1>3. PICK row \in ProductBodies : CreateRow(r, row)
  BY DEF CreateProduct
<1>4. row \in ProductRow
  BY BoundsAssumption DEF ProductBodies, ProductRow
<1>5. /\ nextProduct \in ProductIDs /\ nextProduct \in Nat
      /\ nextProduct' = nextProduct + 1
      /\ products[nextProduct] = NoRow /\ productLock[nextProduct] = None
  BY <1>1, <1>3 DEF CreateRow, RowInv, FreshIds, TypeOK
<1>6. /\ productsW' \in Products
      /\ productLock' \in [ProductIDs -> Requests \cup {None}]
      /\ productLock'[nextProduct] = r /\ productsW'[nextProduct] = row
      /\ \A p \in ProductIDs \ {nextProduct} :
            productsW'[p] = productsW[p] /\ productLock'[p] = productLock[p]
  BY <1>1, <1>3, <1>4, <1>5 DEF CreateRow, LockProduct, TypeOK, Products
<1>7. TypeOK'
  BY <1>1, <1>2, <1>5, <1>6 DEF TypeOK, Goto, Labels, tables, payment
<1>8. Others(r)
  BY <1>1, <1>2, <1>5, <1>6 DEF Others, OtherSessions, OtherRows, Goto, TypeOK
<1>9. RowInv'
  <2>1. UnlockedRowsAgree'
    BY <1>1, <1>2, <1>5, <1>6 DEF RowInv, UnlockedRowsAgree, tables
  <2>2. FreshIds'
    <3>1. ASSUME NEW p \in ProductIDs, p >= nextProduct'
          PROVE  products'[p] = NoRow /\ productLock'[p] = None
      <4>1. p \in Nat /\ p # nextProduct /\ p >= nextProduct
        BY <1>5, <3>1 DEF ProductIDs
      <4> QED
        BY <1>1, <1>2, <1>6, <4>1 DEF RowInv, FreshIds, tables
    <3>2. \A o \in OrderIDs :
              o >= nextOrder' => orders'[o] = NoRow /\ orderLock'[o] = None
      BY <1>1, <1>2 DEF RowInv, FreshIds, tables
    <3> QED
      BY <3>1, <3>2 DEF FreshIds
  <2>3. OrdersStay'
    BY <1>1, <1>2 DEF RowInv, OrdersStay, tables
  <2> QED
    BY <2>1, <2>2, <2>3 DEF RowInv
<1>10. RequestInv(r)'
  <2>1. pc'[r] = "commit"
    BY <1>1, <1>2 DEF Goto, TypeOK
  <2>2. \A p \in ProductIDs : seen'[r][p] = NoRow
    BY <1>1, <1>2 DEF RequestInv, InSale, NoProduct
  <2> QED
    BY <1>1, <1>2, <1>4, <1>6, <2>1, <2>2 DEF RequestInv, OwnsTarget, InSale
<1> QED
  BY <1>7, <1>8, <1>9, <1>10 DEF Preserved

\* UpdateProduct and DeleteProduct lock a product and write it.
LEMMA WriteProductPreserves ==
    ASSUME IInv, NEW r \in Requests, NEW p \in ProductIDs,
           NEW row \in ProductRow \cup {NoRow},
           NEW l \in {"commit", "references"},
           pc[r] = "product", row = NoRow => op[r] = "DeleteProduct",
           op[r] \in {"UpdateProduct", "DeleteProduct"},
           ProductExists(p), ProductAvailable(r, p), LockProduct(r, p),
           productsW' = [productsW EXCEPT ![p] = row], Goto(r, l),
           UNCHANGED <<tables, ordersW, itemsW, orderLock, ids,
                       op, user, target, want, seen, current, lines, payment>>
    PROVE  Preserved(r)
<1> USE NullAssumption, NoRowAssumption
<1>1. TypeOK /\ RequestInv(r)
  BY DEF IInv
<1>2. /\ productsW' \in Products
      /\ productLock' \in [ProductIDs -> Requests \cup {None}]
      /\ productLock'[p] = r /\ productsW'[p] = row
      /\ \A q \in ProductIDs \ {p} :
            productsW'[q] = productsW[q] /\ productLock'[q] = productLock[q]
  BY <1>1 DEF LockProduct, TypeOK, Products
<1>3. TypeOK'
  BY <1>1, <1>2 DEF TypeOK, Goto, Labels, tables, ids, payment
<1>4. OtherSessions(r)
  BY <1>1 DEF OtherSessions, Goto, TypeOK
<1>5. WritesOwnRows(r)
  BY <1>2 DEF WritesOwnRows, ProductExists, ProductAvailable
<1>6. RequestInv(r)'
  <2>1. pc'[r] = l
    BY <1>1 DEF Goto, TypeOK
  <2>2. \A q \in ProductIDs : seen'[r][q] = NoRow
    BY <1>1 DEF RequestInv, InSale, NoProduct
  <2> QED
    BY <1>1, <1>2, <2>1, <2>2 DEF RequestInv, OwnsTarget, InSale
<1> QED
  BY <1>3, <1>4, <1>5, <1>6, OwnRowsStepPreserves

\* The foreign key lets DeleteProduct go on to its commit.
LEMMA DeleteProductCheckedPreserves ==
    ASSUME IInv, NEW r \in Requests, DeleteProductChecked(r)
    PROVE  Preserved(r)
<1>1. TypeOK /\ RequestInv(r)
  BY DEF IInv
<1>2. /\ op[r] = "DeleteProduct" /\ pc[r] = "references" /\ Goto(r, "commit")
      /\ UNCHANGED <<database, op, user, target, want, seen, current, lines, payment>>
  BY DEF DeleteProductChecked, At
<1>3. TypeOK'
  BY <1>1, <1>2 DEF TypeOK, Goto, Labels, database, tables, working, locks, ids,
     payment
<1>4. RequestInv(r)'
  <2>1. pc'[r] = "commit"
    BY <1>1, <1>2 DEF Goto, TypeOK
  <2>2. \A p \in ProductIDs : seen'[r][p] = NoRow
    BY <1>1, <1>2 DEF RequestInv, InSale, NoProduct
  <2> QED
    BY <1>1, <1>2, <2>1, <2>2
       DEF RequestInv, OwnsTarget, InSale, database, working, locks
<1> QED
  BY <1>2, <1>3, <1>4, GotoPreserves DEF Labels

\* Every step of the product service.
LEMMA ProductServiceStepPreserves ==
    ASSUME IInv, NEW r \in Requests, ProductServiceStep(r)
    PROVE  Preserved(r)
<1>1. CASE CreateProduct(r)
  BY <1>1, CreateProductPreserves
<1>2. CASE UpdateProduct(r)
  <2>1. PICK p \in ProductIDs, row \in ProductBodies :
            /\ ProductExists(p) /\ ProductAvailable(r, p) /\ LockProduct(r, p)
            /\ UpdateRow(p, row)
    BY <1>2 DEF UpdateProduct
  <2>2. row \in ProductRow
    BY BoundsAssumption DEF ProductBodies, ProductRow
  <2> QED
    BY <1>2, <2>1, <2>2, NullAssumption, NoRowAssumption, WriteProductPreserves
       DEF UpdateProduct, UpdateRow, At
<1>3. CASE DeleteProduct(r)
  BY <1>3, WriteProductPreserves DEF DeleteProduct, DeleteRow, At
<1>4. CASE DeleteProductChecked(r)
  BY <1>4, DeleteProductCheckedPreserves
<1>5. CASE ProductNotFound(r) \/ DeleteProductRefuse(r)
  BY <1>5, RejectPreserves DEF ProductNotFound, DeleteProductRefuse
<1> QED
  BY <1>1, <1>2, <1>3, <1>4, <1>5 DEF ProductServiceStep

-----------------------------------------------------------------------------
(* The invariant.                                                          *)

\* The rows and the sequences that the system starts with satisfy IInv.
LEMMA InitIInv == Init => IInv
<1> SUFFICES ASSUME Init PROVE IInv
  OBVIOUS
<1> USE NullAssumption, NoRowAssumption, BoundsAssumption, InitAssumption
<1>1. TypeOK
  BY DEF Init, StoreInit, PaymentInit, TypeOK, Products, Orders, Lines, NoLines,
         NoProduct, Nothing, Labels
<1>2. RowInv
  <2>1. nextProduct \in Nat /\ \A p \in ProductIDs : products[p] # NoRow <=> p < nextProduct
    BY DEF Init, StoreInit, IsNextId
  <2>2. \A p \in ProductIDs : p \in Nat
    BY DEF ProductIDs
  <2> QED
    BY <2>1, <2>2 DEF Init, StoreInit, RowInv, UnlockedRowsAgree, FreshIds, OrdersStay
<1>3. ASSUME NEW r \in Requests PROVE RequestInv(r)
  <2>1. op[r] = "none" /\ pc[r] = "idle" /\ seen[r] = NoProduct
    BY DEF Init, StoreInit
  <2>2. \A p \in ProductIDs : seen[r][p] = NoRow /\ productLock[p] # r
    BY <2>1 DEF Init, StoreInit, NoProduct
  <2> QED
    BY <2>1, <2>2 DEF RequestInv, OwnsTarget
<1> QED
  BY <1>1, <1>2, <1>3 DEF IInv

\* Every step of the backend preserves IInv, a stuttering step included.
LEMMA NextIInv == IInv /\ [Next]_vars => IInv'
<1> SUFFICES ASSUME IInv, [Next]_vars PROVE IInv'
  OBVIOUS
<1>1. CASE Next
  <2>1. PICK r \in Requests : Begins(r) \/ Step(r) \/ Abort(r)
    BY <1>1 DEF Next
  <2>2. Preserved(r)
    BY <2>1, BeginsPreserve, AbortPreserves, OrderServiceStepPreserves,
       CartServiceStepPreserves, ProductServiceStepPreserves, CommitPreserves,
       RejectPreserves DEF Step, TableFull
  <2> QED
    BY <2>2, PreservedIsEnough
<1>2. CASE UNCHANGED vars
  BY <1>2 DEF vars, database, tables, working, locks, ids, session, payment,
     IInv, TypeOK, RowInv, UnlockedRowsAgree, FreshIds, OrdersStay, RequestInv,
     OwnsTarget, InSale, Claim, CartIsWanted, AllLocked
<1> QED
  BY <1>1, <1>2

\* IInv is an invariant of the backend.
THEOREM InvariantHolds == Spec => []IInv
  BY InitIInv, NextIInv, PTL DEF Spec

\* Every variable keeps its type: no product, order or line is ever written
\* with a negative stock, an unknown status or a quantity of zero, and no
\* session keeps a reference that the tables do not have, in the steps of
\* all services together.
THEOREM TypeCorrectness == Spec => []TypeOK
<1>1. IInv => TypeOK
  BY DEF IInv
<1> QED
  BY <1>1, InvariantHolds, PTL

\* What CreateOrder and Checkout read under their row locks stays true until
\* they take the stock, whatever other requests run: nobody else locks or
\* writes these rows, and the stock suffices, so nothing is sold that is not
\* there.
THEOREM ClaimsAreKept == Spec => []ClaimsHold
<1>1. IInv => ClaimsHold
  BY DEF IInv, RequestInv, Claim, ClaimsHold
<1> QED
  BY <1>1, InvariantHolds, PTL

-----------------------------------------------------------------------------
(* The lines of an order.                                                  *)

\* A line of p is a reference to p.
LEMMA LineRefers ==
    ASSUME NEW ls \in Lines, NEW s \in Slots, ls[s] # NoRow
    PROVE  ls[s] \in ItemRow /\ ls[s].product \in ProductIDs /\ References(ls, ls[s].product)
  BY DEF Lines, ItemRow, References

\* INSERT INTO order_items: one more product.
LEMMA AppendLineRules ==
    ASSUME NEW ls \in Lines, NEW s \in Slots, IsFreeSlot(ls, s),
           NEW p \in ProductIDs, NEW q, NEW price,
           OnceEach(ls), ~References(ls, p)
    PROVE  /\ OnceEach(AppendLine(ls, s, p, q, price))
           /\ \A x \in ProductIDs : References(AppendLine(ls, s, p, q, price), x)
                                        => References(ls, x) \/ x = p
<1> USE NoRowAssumption
<1> DEFINE line == [product |-> p, quantity |-> q, price |-> price]
           new == AppendLine(ls, s, p, q, price)
<1>1. new[s] = line /\ \A t \in Slots \ {s} : new[t] = ls[t]
  BY DEF AppendLine, Lines
<1>2. line.product = p
  OBVIOUS
<1> HIDE DEF line, new
<1>3. OnceEach(new)
  BY <1>1, <1>2 DEF OnceEach, References
<1>4. \A x \in ProductIDs : References(new, x) => References(ls, x) \/ x = p
  BY <1>1, <1>2 DEF References
<1> QED
  BY <1>3, <1>4 DEF new

\* UPDATE order_items SET quantity: the same products.
LEMMA WithQuantityRules ==
    ASSUME NEW ls \in Lines, NEW p, NEW q, OnceEach(ls)
    PROVE  /\ OnceEach(WithQuantity(ls, p, q))
           /\ \A x \in ProductIDs : References(WithQuantity(ls, p, q), x) => References(ls, x)
<1> USE NoRowAssumption
<1> DEFINE new == WithQuantity(ls, p, q)
<1>1. ASSUME NEW s \in Slots, new[s] # NoRow
      PROVE  ls[s] # NoRow /\ new[s].product = ls[s].product
  BY <1>1 DEF WithQuantity, LineWithQuantity, Lines, ItemRow
<1> HIDE DEF new
<1>2. OnceEach(new) /\ \A x \in ProductIDs : References(new, x) => References(ls, x)
  BY <1>1 DEF OnceEach, References
<1> QED
  BY <1>2 DEF new

\* DELETE FROM order_items: one product less.
LEMMA WithoutProductRules ==
    ASSUME NEW ls \in Lines, NEW p, OnceEach(ls)
    PROVE  /\ OnceEach(WithoutProduct(ls, p))
           /\ \A x \in ProductIDs : References(WithoutProduct(ls, p), x) => References(ls, x)
<1> USE NoRowAssumption, BoundsAssumption
<1> DEFINE new == WithoutProduct(ls, p)
           kept(s) == \A t \in 1..s : ~(ls[t] # NoRow /\ ls[t].product = p)
           from(s) == IF kept(s) THEN s ELSE s + 1
<1>1. ASSUME NEW s \in Slots, new[s] # NoRow
      PROVE  from(s) \in Slots /\ new[s] = ls[from(s)]
  BY <1>1 DEF WithoutProduct, Slots
<1>2. ASSUME NEW s \in Slots, NEW t \in Slots, s < t
      PROVE  from(s) < from(t)
  <2>1. s \in Nat /\ t \in Nat /\ 1..s \subseteq 1..t
    BY <1>2 DEF Slots
  <2>2. kept(t) => kept(s)
    BY <2>1
  <2> QED
    BY <1>2, <2>1, <2>2
<1>3. ASSUME NEW s \in Slots, NEW t \in Slots, s # t
      PROVE  from(s) # from(t)
  <2>1. s \in Nat /\ t \in Nat /\ from(s) \in Nat /\ from(t) \in Nat
    BY DEF Slots
  <2> QED
    BY <1>2, <1>3, <2>1
<1> HIDE DEF new, kept, from
<1>4. OnceEach(new) /\ \A x \in ProductIDs : References(new, x) => References(ls, x)
  BY <1>1, <1>3 DEF OnceEach, References
<1> QED
  BY <1>4 DEF new

\* UPDATE order_items SET unit_price: the same products.
LEMMA AtCurrentPricesRules ==
    ASSUME NEW ls \in Lines, OnceEach(ls)
    PROVE  /\ OnceEach(AtCurrentPrices(ls))
           /\ \A x \in ProductIDs : References(AtCurrentPrices(ls), x) => References(ls, x)
           /\ \A s \in Slots : AtCurrentPrices(ls)[s] # NoRow =>
                 /\ ls[s] # NoRow
                 /\ AtCurrentPrices(ls)[s].product = ls[s].product
                 /\ AtCurrentPrices(ls)[s].price = productsW[ls[s].product].price
<1> USE NoRowAssumption
<1> DEFINE new == AtCurrentPrices(ls)
<1>1. ASSUME NEW s \in Slots, new[s] # NoRow
      PROVE  /\ ls[s] # NoRow
             /\ new[s].product = ls[s].product
             /\ new[s].price = productsW[ls[s].product].price
  BY <1>1 DEF AtCurrentPrices, LineWithPrice, Lines, ItemRow
<1> HIDE DEF new
<1>2. OnceEach(new) /\ \A x \in ProductIDs : References(new, x) => References(ls, x)
  BY <1>1 DEF OnceEach, References
<1> QED
  BY <1>1, <1>2 DEF new

-----------------------------------------------------------------------------
(* A statement inside a transaction.                                       *)

SamePrice(row, old) == row.price = old.price /\ row.currency = old.currency

\* It commits nothing and releases no lock, and a request that has locked an
\* order changes no price.
Transacts(r) ==
    /\ UNCHANGED tables
    /\ \A p \in ProductIDs : productLock[p] # None => productLock'[p] = productLock[p]
    /\ \A o \in OrderIDs : orderLock[o] # None => orderLock'[o] = orderLock[o]
    /\ \A p \in ProductIDs :
          productLock[p] = r /\ ~HoldsNoOrder(r) => SamePrice(productsW'[p], productsW[p])
    /\ nextOrder' \in Nat /\ nextOrder' >= nextOrder

\* What is to be shown of every step of r.
RulesPreserved(r) ==
    /\ \A o \in OrderIDs : OrderRules(o)'
    /\ DraftRule'
    /\ ChargeRule'
    /\ RequestRules(r)'

\* An order that a statement does not write keeps its rules.
LEMMA UnwrittenOrder ==
    ASSUME IInv, Rules, NEW r \in Requests, Others(r), Transacts(r),
           NEW o \in OrderIDs, ordersW'[o] = ordersW[o], itemsW'[o] = itemsW[o]
    PROVE  OrderRules(o)'
<1> USE NullAssumption, NoRowAssumption
<1>1. TypeOK /\ RowInv /\ OrderRules(o) /\ orders' = orders /\ items' = items
      /\ products' = products
  BY DEF IInv, Rules, Transacts, tables
<1>2. OneMove(o)' /\ OnlyStatusMoves(o)' /\ OnceEach(items[o])' /\ OnceEach(itemsW[o])'
  BY <1>1 DEF OrderRules, OneMove, OnlyStatusMoves, OnceEach, IsPlaced, StatusOf
<1>3. NewLinesLocked(o)'
  BY <1>1 DEF OrderRules, NewLinesLocked, Transacts, References
<1>4. SoldPriced(o)'
  <2> SUFFICES ASSUME IsPlaced(ordersW[o]), ~IsPlaced(orders[o]) PROVE Priced(o)'
    BY <1>1 DEF SoldPriced, IsPlaced
  <2>1. Priced(o)
    BY <1>1 DEF OrderRules, SoldPriced
  <2>2. orderLock[o] # None /\ orderLock'[o] = orderLock[o]
    BY <1>1 DEF RowInv, UnlockedRowsAgree, Transacts
  <2>3. ASSUME NEW s \in Slots, itemsW[o][s] # NoRow
        PROVE  /\ itemsW[o][s].product \in ProductIDs
               /\ productLock'[itemsW[o][s].product] = orderLock[o]
               /\ SamePrice(productsW'[itemsW[o][s].product], productsW[itemsW[o][s].product])
    <3> DEFINE p == itemsW[o][s].product
    <3>1. p \in ProductIDs
      BY <1>1, <2>3 DEF TypeOK, Lines, ItemRow
    <3>2. productLock[p] = orderLock[o]
      BY <2>1, <2>3 DEF Priced
    <3>3. productLock'[p] = productLock[p]
      BY <2>2, <3>1, <3>2 DEF Transacts
    <3>4. CASE orderLock[o] = r
      <4>1. ~HoldsNoOrder(r)
        BY <3>4 DEF Rules, RequestRules, LocksItsOrder
      <4> QED
        BY <3>1, <3>2, <3>3, <3>4, <4>1 DEF Transacts
    <3>5. CASE orderLock[o] # r
      BY <2>2, <3>1, <3>2, <3>3, <3>5 DEF Others, OtherRows, SamePrice
    <3> QED
      BY <3>1, <3>2, <3>3, <3>4, <3>5
  <2> QED
    BY <2>1, <2>2, <2>3 DEF Priced, SamePrice
<1>5. CommittedLinesExist(o)' /\ (o >= nextOrder => items[o] = NoLines)'
  <2>1. o \in Nat /\ nextOrder \in Nat
    BY <1>1 DEF OrderIDs, TypeOK
  <2> QED
    BY <1>1, <2>1 DEF OrderRules, CommittedLinesExist, Transacts, References
<1> QED
  BY <1>2, <1>3, <1>4, <1>5 DEF OrderRules

\* What t relies on of an order it has locked, and of the lines of products
\* it has locked, stays true while r runs.
LEMMA OthersKeepRules ==
    ASSUME IInv, Rules, NEW r \in Requests, NEW t \in Requests, t # r, Others(r),
           \A o \in OrderIDs : orderLock[o] = t => orders'[o] = orders[o],
           \A p \in ProductIDs, o \in OrderIDs :
               productLock[p] = t /\ References(items'[o], p) => References(items[o], p)
    PROVE  RequestRules(t)'
<1> USE NullAssumption, NoRowAssumption
<1>1. RequestInv(t) /\ RequestRules(t)
  BY DEF IInv, Rules
<1>2. /\ op'[t] = op[t] /\ pc'[t] = pc[t] /\ target'[t] = target[t]
      /\ want'[t] = want[t] /\ seen'[t] = seen[t]
  BY DEF Others, OtherSessions
<1>3. \A p \in ProductIDs : productLock[p] = t =>
          productLock'[p] = t /\ productsW'[p] = productsW[p]
  BY DEF Others, OtherRows
<1>4. \A p \in ProductIDs : productLock'[p] = t => productLock[p] = t
  BY DEF Others, OtherRows
<1>5. \A o \in OrderIDs : orderLock[o] = t =>
          orderLock'[o] = t /\ ordersW'[o] = ordersW[o] /\ itemsW'[o] = itemsW[o]
  BY DEF Others, OtherRows
<1>6. \A o \in OrderIDs : orderLock'[o] = t => orderLock[o] = t
  BY DEF Others, OtherRows
<1>7. OwnsTarget(t) => target[t] \in OrderIDs /\ orderLock[target[t]] = t
  BY <1>1 DEF RequestInv
<1>8. OwnsTarget(t)' <=> OwnsTarget(t)
  BY <1>2 DEF OwnsTarget
<1>9. LocksItsOrder(t)'
  BY <1>1, <1>2, <1>6 DEF RequestRules, LocksItsOrder, HoldsNoOrder
<1>10. EditsDraft(t)'
  <2>1. pc[t] = "recalculate" => OwnsTarget(t)
    BY DEF OwnsTarget
  <2> QED
    BY <1>1, <1>2, <1>5, <1>7, <1>8, <2>1 DEF RequestRules, EditsDraft, IsPlaced
<1>11. FillsNewOrder(t)'
  BY <1>1, <1>2, <1>5, <1>7, <1>8
     DEF RequestRules, FillsNewOrder, IsPlaced, At, OwnsTarget
<1>12. MovesPending(t)'
  BY <1>1, <1>2, <1>5, <1>7, <1>8 DEF RequestRules, MovesPending
<1>13. MarksPaid(t)'
  BY <1>1, <1>2, <1>5 DEF RequestRules, MarksPaid, IsPaid, At
<1>14. OneCurrency(t)'
  BY <1>1, <1>2 DEF RequestRules, OneCurrency
<1>15. KeepsPrices(t)'
  <2> SUFFICES ASSUME At(t, "Checkout", "take") PROVE Priced(target[t])'
    BY <1>2 DEF KeepsPrices, At
  <2>1. target[t] \in OrderIDs /\ orderLock[target[t]] = t
    BY <1>7 DEF At, OwnsTarget
  <2>2. Priced(target[t])
    BY <1>1 DEF RequestRules, KeepsPrices
  <2>3. \A s \in Slots : itemsW[target[t]][s] # NoRow =>
            itemsW[target[t]][s].product \in ProductIDs
    BY <2>1 DEF IInv, TypeOK, Lines, ItemRow
  <2> QED
    BY <1>2, <1>3, <1>5, <2>1, <2>2, <2>3 DEF Priced
<1>16. DeletesUnused(t)'
  BY <1>1, <1>2, <1>4 DEF RequestRules, DeletesUnused
<1> QED
  BY <1>9, <1>10, <1>11, <1>12, <1>13, <1>14, <1>15, <1>16 DEF RequestRules

\* A statement commits nothing.
LEMMA TransactsIsEnough ==
    ASSUME IInv, Rules, NEW r \in Requests, Others(r), Transacts(r), RulesPreserved(r)
    PROVE  Rules'
<1>1. ASSUME NEW t \in Requests PROVE RequestRules(t)'
  BY OthersKeepRules DEF RulesPreserved, Transacts, tables
<1> QED
  BY <1>1 DEF Rules, RulesPreserved

-----------------------------------------------------------------------------
(* Drafts and charges.                                                     *)

\* No rule about drafts breaks when no order becomes a draft.
LEMMA DraftsKept ==
    ASSUME Rules,
           \A o \in OrderIDs, u \in Users : MayBeDraft(o, u)' => MayBeDraft(o, u)
    PROVE  DraftRule'
  BY DEF Rules, DraftRule

\* Nor about charges while r takes no money and commits nothing.
LEMMA ChargesKept ==
    ASSUME Rules, NEW r \in Requests, OtherSessions(r), UNCHANGED <<orders, payment>>,
           \A o : IsSettling(r, o) => IsSettling(r, o)'
    PROVE  ChargeRule'
<1>1. ASSUME NEW o, NEW t \in Requests, IsSettling(t, o)
      PROVE  IsSettling(t, o)'
  BY <1>1 DEF OtherSessions, IsSettling
<1> QED
  BY <1>1 DEF Rules, ChargeRule, payment, IsPaid

\* Along the state machine a paid order stays paid, and a placed one placed.
LEMMA MovesKeepPlaced ==
    ASSUME TypeOK, OrdersStay, NEW o \in OrderIDs, OneMove(o)
    PROVE  /\ IsPlaced(orders[o]) => IsPlaced(ordersW[o])
           /\ IsPaid(orders[o]) => IsPaid(ordersW[o])
<1> USE NoRowAssumption
<1>1. SUFFICES ASSUME orders[o] # NoRow
      PROVE  /\ IsPlaced(orders[o]) => IsPlaced(ordersW[o])
             /\ IsPaid(orders[o]) => IsPaid(ordersW[o])
  BY DEF IsPlaced, IsPaid
<1>2. ordersW[o] # NoRow
  BY <1>1 DEF OrdersStay
<1>3. ordersW[o].status \in {orders[o].status} \cup Lifecycle!Successors(orders[o].status)
  BY <1>1, <1>2 DEF OneMove, StatusOf
<1>4. CASE ordersW[o].status = orders[o].status
  BY <1>1, <1>2, <1>4 DEF IsPlaced, IsPaid
<1>5. ASSUME ordersW[o].status \in Lifecycle!Successors(orders[o].status), IsPaid(orders[o])
      PROVE  IsPaid(ordersW[o])
  BY <1>2, <1>5 DEF IsPaid, PaidStatuses, Absent, Lifecycle!Successors, Lifecycle!Moves
<1>6. ASSUME ordersW[o].status \in Lifecycle!Successors(orders[o].status), IsPlaced(orders[o])
      PROVE  ordersW[o].status # "draft"
  <2>1. orders[o].status \in Statuses
    BY <1>1 DEF TypeOK, Orders, OrderRow
  <2> QED
    BY <1>6, <2>1 DEF Statuses, IsPlaced, Absent, Lifecycle!Successors, Lifecycle!Moves
<1> QED
  BY <1>2, <1>3, <1>4, <1>5, <1>6 DEF IsPlaced

-----------------------------------------------------------------------------
(* The end of a request.                                                   *)

\* An order that r has not locked when it ends keeps its rules.
LEMMA OthersOrder ==
    ASSUME IInv, Rules, NEW r \in Requests, Others(r), nextOrder' = nextOrder,
           NEW o \in OrderIDs, orderLock[o] # r,
           orders'[o] = orders[o], items'[o] = items[o],
           ordersW'[o] = ordersW[o], itemsW'[o] = itemsW[o],
           CommittedLinesExist(o)'
    PROVE  OrderRules(o)'
<1> USE NullAssumption, NoRowAssumption
<1>1. TypeOK /\ RowInv /\ OrderRules(o)
  BY DEF IInv, Rules
<1>2. OneMove(o)' /\ OnlyStatusMoves(o)' /\ OnceEach(items[o])' /\ OnceEach(itemsW[o])'
  BY <1>1 DEF OrderRules, OneMove, OnlyStatusMoves, OnceEach, IsPlaced, StatusOf
<1>3. orderLock[o] # None => orderLock'[o] = orderLock[o]
  BY DEF Others, OtherRows
<1>4. \A p \in ProductIDs : productLock[p] = orderLock[o] /\ orderLock[o] # None =>
          productLock'[p] = productLock[p] /\ productsW'[p] = productsW[p]
  BY DEF Others, OtherRows
<1>5. NewLinesLocked(o)'
  BY <1>1, <1>3, <1>4 DEF OrderRules, NewLinesLocked, References
<1>6. SoldPriced(o)'
  <2> SUFFICES ASSUME IsPlaced(ordersW[o]), ~IsPlaced(orders[o]) PROVE Priced(o)'
    BY DEF SoldPriced, IsPlaced
  <2>1. Priced(o)
    BY <1>1 DEF OrderRules, SoldPriced
  <2>2. orderLock[o] # None
    BY <1>1 DEF RowInv, UnlockedRowsAgree
  <2>3. \A s \in Slots : itemsW[o][s] # NoRow => itemsW[o][s].product \in ProductIDs
    BY <1>1 DEF TypeOK, Lines, ItemRow
  <2> QED
    BY <1>3, <1>4, <2>1, <2>2, <2>3 DEF Priced
<1> QED
  BY <1>1, <1>2, <1>5, <1>6 DEF OrderRules

\* A request that is over has broken no rule.
LEMMA IdleRules ==
    ASSUME NEW r \in Requests, op'[r] = "none", pc'[r] = "idle", seen'[r] = NoProduct,
           \A o \in OrderIDs : orderLock'[o] # r
    PROVE  RequestRules(r)'
  BY DEF RequestRules, LocksItsOrder, EditsDraft, EditMethods, FillsNewOrder,
         MovesPending, MarksPaid, OneCurrency, KeepsPrices, DeletesUnused, At, NoProduct

\* WithinTransaction rolls back: the committed rows are what they were.
LEMMA RollbackRules ==
    ASSUME IInv, Rules, NEW r \in Requests, Rollback(r), Preserved(r), ChargeRule'
    PROVE  Rules'
<1> USE NullAssumption, NoRowAssumption
<1>1. TypeOK /\ RowInv /\ Others(r)
  BY DEF IInv, Preserved
<1>2. Return(r) /\ ReleaseLocks(r) /\ UNCHANGED <<tables, ids>>
  BY DEF Rollback
<1>3. UNCHANGED <<products, orders, items, nextOrder>>
  BY <1>2 DEF tables, ids
<1>4. ASSUME NEW o \in OrderIDs PROVE OrderRules(o)'
  <2>1. OrderRules(o)
    BY DEF Rules
  <2>2. CommittedLinesExist(o)'
    BY <1>3, <2>1 DEF OrderRules, CommittedLinesExist, References
  <2>3. CASE orderLock[o] = r
    <3>1. ordersW'[o] = orders[o] /\ itemsW'[o] = items[o]
      BY <2>3 DEF Rollback
    <3>2. OnlyStatusMoves(o)'
      <4>1. ASSUME IsPlaced(orders[o])
            PROVE  [orders[o] EXCEPT !.status = orders[o].status] = orders[o]
        BY <1>1, <4>1 DEF IsPlaced, TypeOK, Orders, OrderRow
      <4> QED
        BY <1>3, <3>1, <4>1 DEF OnlyStatusMoves, IsPlaced
    <3> QED
      BY <1>3, <2>1, <2>2, <3>1, <3>2
         DEF OrderRules, OneMove, StatusOf, OnceEach, NewLinesLocked, SoldPriced,
             References, IsPlaced
  <2>4. CASE orderLock[o] # r
    <3>1. ordersW'[o] = ordersW[o] /\ itemsW'[o] = itemsW[o]
      BY <1>1, <2>4 DEF Rollback, TypeOK
    <3> QED
      BY <1>1, <1>3, <2>2, <2>4, <3>1, OthersOrder
  <2> QED
    BY <2>3, <2>4
<1>5. DraftRule'
  <2>1. \A o \in OrderIDs : ordersW'[o] \in {orders[o], ordersW[o]}
    BY DEF Rollback
  <2> QED
    BY <1>3, <2>1, DraftsKept DEF MayBeDraft
<1>6. ASSUME NEW t \in Requests PROVE RequestRules(t)'
  <2>1. CASE t = r
    BY <1>1, <1>2, <2>1, ReturnForgets, IdleRules DEF ReleaseLocks
  <2>2. CASE t # r
    BY <1>1, <1>3, <2>2, OthersKeepRules
  <2> QED
    BY <2>1, <2>2
<1> QED
  BY <1>4, <1>5, <1>6 DEF Rules

\* A line that a commit makes visible is of a product that is visible too.
LEMMA CommitKeepsLines ==
    ASSUME IInv, Rules, NEW r \in Requests, CommitRequest(r), NEW o \in OrderIDs
    PROVE  CommittedLinesExist(o)'
<1> USE NullAssumption, NoRowAssumption
<1>1. RequestInv(r) /\ RequestRules(r) /\ OrderRules(o) /\ pc[r] = "commit"
  BY DEF IInv, Rules, CommitRequest, Commit
<1>2. SUFFICES ASSUME NEW p \in ProductIDs, References(items'[o], p)
      PROVE  products'[p] # NoRow
  BY DEF CommittedLinesExist, References
<1>3. /\ products'[p] = IF productLock[p] = r THEN productsW[p] ELSE products[p]
      /\ items'[o] = IF orderLock[o] = r THEN itemsW[o] ELSE items[o]
  BY DEF CommitRequest, Commit
<1>4. productLock[p] # r => References(items[o], p)
  BY <1>1, <1>2, <1>3 DEF OrderRules, NewLinesLocked
<1>5. CASE productLock[p] # r
  BY <1>1, <1>3, <1>4, <1>5 DEF OrderRules, CommittedLinesExist
<1>6. CASE productLock[p] = r /\ op[r] # "DeleteProduct"
  BY <1>1, <1>3, <1>6 DEF RequestInv
<1>7. CASE productLock[p] = r /\ op[r] = "DeleteProduct"
  <2>1. orderLock[o] # r
    BY <1>1, <1>7 DEF RequestRules, LocksItsOrder, HoldsNoOrder
  <2> QED
    BY <1>1, <1>2, <1>3, <1>7, <2>1 DEF RequestRules, DeletesUnused
<1> QED
  BY <1>5, <1>6, <1>7

\* WithinTransaction commits: the rows r has locked become the visible ones.
LEMMA CommitRules ==
    ASSUME IInv, Rules, NEW r \in Requests, CommitRequest(r), Preserved(r)
    PROVE  Rules'
<1> USE NullAssumption, NoRowAssumption
<1>1. TypeOK /\ RowInv /\ Others(r) /\ RequestRules(r)
  BY DEF IInv, Rules, Preserved
<1>2. /\ Return(r) /\ ReleaseLocks(r) /\ Commit(r) /\ pc[r] = "commit"
      /\ UNCHANGED <<working, ids, payment>>
  BY DEF CommitRequest, Commit
<1>3. UNCHANGED <<ordersW, itemsW, nextOrder, charged, unsettled>>
  BY <1>2 DEF working, ids, payment
<1>4. \A o \in OrderIDs :
          IF orderLock[o] = r THEN orders'[o] = ordersW[o] /\ items'[o] = itemsW[o]
          ELSE orders'[o] = orders[o] /\ items'[o] = items[o]
  BY <1>2 DEF Commit
<1>5. ASSUME NEW o \in OrderIDs PROVE OrderRules(o)'
  <2>1. OrderRules(o) /\ CommittedLinesExist(o)'
    BY CommitKeepsLines DEF Rules
  <2>2. CASE orderLock[o] = r
    <3>1. OnlyStatusMoves(o)'
      <4>1. ASSUME ordersW[o] # NoRow
            PROVE  [ordersW[o] EXCEPT !.status = ordersW[o].status] = ordersW[o]
        BY <1>1, <4>1 DEF TypeOK, Orders, OrderRow
      <4> QED
        BY <1>3, <1>4, <2>2, <4>1 DEF OnlyStatusMoves, IsPlaced
    <3>2. (o >= nextOrder => items[o] = NoLines)'
      BY <1>1, <1>3, <2>2 DEF RowInv, FreshIds
    <3> QED
      BY <1>3, <1>4, <2>1, <2>2, <3>1, <3>2
         DEF OrderRules, OneMove, StatusOf, OnceEach, NewLinesLocked, SoldPriced,
             References, IsPlaced
  <2>3. CASE orderLock[o] # r
    BY <1>1, <1>3, <1>4, <2>1, <2>3, OthersOrder
  <2> QED
    BY <2>2, <2>3
<1>6. DraftRule'
  BY <1>3, <1>4, DraftsKept DEF MayBeDraft
<1>7. ChargeRule'
  <2> SUFFICES ASSUME NEW o \in charged \ unsettled
               PROVE  /\ o \in OrderIDs
                      /\ IsPaid(orders'[o]) \/ \E t \in Requests : IsSettling(t, o)'
    BY <1>3 DEF ChargeRule, IsPaid
  <2>1. /\ o \in OrderIDs
        /\ IsPaid(orders[o]) \/ \E t \in Requests : IsSettling(t, o)
    BY DEF Rules, ChargeRule
  <2>2. CASE IsPaid(orders[o])
    BY <1>1, <1>4, <2>1, <2>2, MovesKeepPlaced DEF Rules, OrderRules, RowInv
  <2>3. CASE IsSettling(r, o)
    BY <1>1, <1>2, <1>4, <2>1, <2>3 DEF IsSettling, RequestRules, MarksPaid, At
  <2>4. ASSUME NEW t \in Requests \ {r}, IsSettling(t, o) PROVE IsSettling(t, o)'
    BY <1>1, <2>4 DEF Others, OtherSessions, IsSettling
  <2> QED
    BY <2>1, <2>2, <2>3, <2>4
<1>8. ASSUME NEW t \in Requests PROVE RequestRules(t)'
  <2>1. CASE t = r
    BY <1>1, <1>2, <2>1, ReturnForgets, IdleRules DEF ReleaseLocks
  <2>2. CASE t # r
    <3>1. ASSUME NEW p \in ProductIDs, NEW o \in OrderIDs,
                 productLock[p] = t, References(items'[o], p)
          PROVE  References(items[o], p)
      BY <1>4, <2>2, <3>1 DEF Rules, OrderRules, NewLinesLocked
    <3> QED
      BY <1>1, <1>4, <2>2, <3>1, OthersKeepRules
  <2> QED
    BY <2>1, <2>2
<1> QED
  BY <1>5, <1>6, <1>7, <1>8 DEF Rules

-----------------------------------------------------------------------------
(* Statements that write no order.                                         *)

\* Such a statement is about its own request only.
LEMMA QuietRules ==
    ASSUME IInv, Rules, NEW r \in Requests, Preserved(r), Transacts(r),
           UNCHANGED <<ordersW, itemsW>>, ChargeRule', RequestRules(r)'
    PROVE  Rules'
<1>1. Others(r)
  BY DEF Preserved
<1>2. \A o \in OrderIDs : OrderRules(o)'
  BY <1>1, UnwrittenOrder
<1>3. DraftRule'
  BY DraftsKept DEF MayBeDraft, Transacts, tables
<1> QED
  BY <1>1, <1>2, <1>3, TransactsIsEnough DEF RulesPreserved

\* One that only reads, or locks a row that is free.
LEMMA ReadRules ==
    ASSUME IInv, Rules, NEW r \in Requests, Preserved(r),
           UNCHANGED <<tables, working, ids, payment>>,
           ~(op[r] = "PayOrder" /\ pc[r] \in {"mark", "commit"}),
           \A p \in ProductIDs : productLock'[p] = productLock[p] \/ productLock[p] = None,
           \A o \in OrderIDs : orderLock'[o] = orderLock[o] \/ orderLock[o] = None,
           RequestRules(r)'
    PROVE  Rules'
<1>1. nextOrder \in Nat
  BY DEF IInv, TypeOK
<1>2. Transacts(r)
  BY <1>1 DEF Transacts, SamePrice, working, ids
<1>3. ChargeRule'
  BY ChargesKept DEF Preserved, Others, IsSettling, tables
<1> QED
  BY <1>2, <1>3, QuietRules DEF working

\* A transaction opens.
LEMMA BeginsRules ==
    ASSUME IInv, Rules, NEW r \in Requests, Begins(r), Preserved(r)
    PROVE  Rules'
<1> USE NullAssumption, NoRowAssumption
<1>1. TypeOK /\ RequestInv(r) /\ RequestRules(r)
  BY DEF IInv, Rules
<1>2. PICK m \in Methods, l \in {"lock", "order", "snapshot", "product"} :
          /\ pc[r] = "idle" /\ op' = [op EXCEPT ![r] = m] /\ Goto(r, l)
          /\ UNCHANGED <<database, seen, payment>>
          /\ l = "lock" => m = "CreateOrder"
          /\ l = "product" => m \in {"CreateProduct", "UpdateProduct", "DeleteProduct"}
          /\ m = "DeleteProduct" =>
                \E p \in ProductIDs : want' = [want EXCEPT ![r] = Only(p, 1)]
  <2>1. CASE OrderServiceBegin(r)
    BY <2>1 DEF OrderServiceBegin, BeginCreateOrder, BeginCancelOrder, BeginPayOrder,
       BeginUpdateOrderStatus, BeginGetOrder, BeginOnOrder, Begin, Methods
  <2>2. CASE CartServiceBegin(r)
    BY <2>2 DEF CartServiceBegin, BeginGetCart, BeginAddItem, BeginUpdateItem,
       BeginDeleteItem, BeginCheckout, BeginOnItem, BeginCart, Begin, Methods
  <2>3. CASE ProductServiceBegin(r)
    BY <2>3 DEF ProductServiceBegin, BeginCreateProduct, BeginUpdateProduct,
       BeginDeleteProduct, BeginOnProduct, Begin, Methods
  <2> QED
    BY <2>1, <2>2, <2>3 DEF Begins
<1>3. op'[r] = m /\ pc'[r] = l
  BY <1>1, <1>2 DEF Goto, TypeOK
<1>4. /\ \A p \in ProductIDs : productLock'[p] # r /\ seen'[r][p] = NoRow
      /\ \A o \in OrderIDs : orderLock'[o] # r
  BY <1>1, <1>2 DEF RequestInv, InSale, NoProduct, RequestRules, LocksItsOrder,
     HoldsNoOrder, database, locks
<1>5. m = "DeleteProduct" =>
          \A p, q \in ProductIDs : want'[r][p] > 0 /\ want'[r][q] > 0 => p = q
  <2> SUFFICES ASSUME m = "DeleteProduct"
               PROVE  \A p, q \in ProductIDs : want'[r][p] > 0 /\ want'[r][q] > 0 => p = q
    OBVIOUS
  <2>1. PICK x \in ProductIDs : want' = [want EXCEPT ![r] = Only(x, 1)]
    BY <1>2
  <2>2. want'[r] = Only(x, 1)
    BY <1>1, <2>1 DEF TypeOK
  <2>3. \A p \in ProductIDs : p # x => ~(want'[r][p] > 0)
    BY <2>2 DEF Only, Nothing
  <2> QED
    BY <2>3
<1>6. RequestRules(r)'
  BY <1>2, <1>3, <1>4, <1>5
     DEF RequestRules, LocksItsOrder, HoldsNoOrder, EditsDraft, EditMethods, OwnsTarget,
         FillsNewOrder, MovesPending, MarksPaid, OneCurrency, KeepsPrices,
         DeletesUnused, At
<1> QED
  BY <1>2, <1>6, ReadRules DEF database, locks

\* The lock loop of CreateOrder and Checkout: a sale in one currency.
LEMMA LockSaleRules ==
    ASSUME IInv, Rules, NEW r \in Requests, Preserved(r),
           CreateOrderLock(r) \/ CheckoutLock(r)
    PROVE  Rules'
<1> USE NullAssumption, NoRowAssumption
<1>1. TypeOK /\ RequestInv(r) /\ RequestRules(r)
  BY DEF IInv, Rules
<1>2. PICK done \in {"insert", "price"} :
          /\ LockSaleProduct(r, done) /\ op[r] \in {"CreateOrder", "Checkout"}
          /\ op[r] = "CreateOrder" <=> done = "insert"
  BY DEF CreateOrderLock, CheckoutLock
<1>3. /\ pc[r] = "lock"
      /\ UNCHANGED <<tables, working, orderLock, ids, op, target, want, payment>>
  BY <1>2 DEF LockSaleProduct
<1>4. \A p \in ProductIDs : productLock'[p] = productLock[p] \/ productLock[p] = None
  BY <1>1, <1>2 DEF LockSaleProduct, ReadForSale, LockProduct, ProductAvailable, TypeOK
<1>5. pc'[r] \in {"lock", done}
  BY <1>1, <1>2, <1>3 DEF LockSaleProduct, Goto, TypeOK
<1>6. OneCurrency(r)'
  <2>1. CASE UNCHANGED seen
    BY <1>1, <2>1 DEF RequestRules, OneCurrency
  <2>2. ASSUME NEW p \in ProductIDs, ReadForSale(r, p) PROVE OneCurrency(r)'
    <3>1. /\ seen'[r][p] = productsW[p]
          /\ \A q \in ProductIDs \ {p} : seen'[r][q] = seen[r][q]
      BY <1>1, <2>2 DEF ReadForSale, TypeOK, Products
    <3> QED
      BY <1>1, <2>2, <3>1 DEF ReadForSale, CurrencyMatches, RequestRules, OneCurrency
  <2> QED
    BY <1>2, <2>1, <2>2 DEF LockSaleProduct
<1>7. RequestRules(r)'
  BY <1>1, <1>2, <1>3, <1>5, <1>6
     DEF RequestRules, LocksItsOrder, HoldsNoOrder, EditsDraft, EditMethods, OwnsTarget,
         FillsNewOrder, MovesPending, MarksPaid, KeepsPrices, DeletesUnused, At,
         IsPlaced, tables, working
<1> QED
  BY <1>2, <1>3, <1>4, <1>7, ReadRules

\* CancelOrder and PayOrder read an order that is pending, and lock it.
LEMMA ReadOrderRules ==
    ASSUME IInv, Rules, NEW r \in Requests, Preserved(r),
           CancelOrderRead(r) \/ PayOrderRead(r)
    PROVE  Rules'
<1> USE NullAssumption, NoRowAssumption
<1>1. TypeOK /\ RowInv /\ RequestInv(r) /\ RequestRules(r)
  BY DEF IInv, Rules
<1>2. PICK l \in {"restock", "charge"} :
          ReadOrderForUpdate(r, l) /\ op[r] \in {"CancelOrder", "PayOrder"}
  BY DEF CancelOrderRead, PayOrderRead
<1>3. /\ pc[r] = "order" /\ pc'[r] = l /\ target[r] \in OrderIDs
      /\ UNCHANGED <<tables, working, productLock, ids, op, target, want, seen, payment>>
  BY <1>1, <1>2 DEF ReadOrderForUpdate, OrderExists, Goto, TypeOK
<1>4. orderLock[target[r]] = None /\ orderLock'[target[r]] = r
      /\ \A o \in OrderIDs \ {target[r]} : orderLock'[o] = orderLock[o]
  BY <1>1, <1>2, <1>3 DEF ReadOrderForUpdate, OrderAvailable, LockOrder, TypeOK,
     RequestRules, LocksItsOrder, HoldsNoOrder
<1>5. /\ ordersW[target[r]] = orders[target[r]] /\ orders[target[r]] # NoRow
      /\ orders[target[r]].status = "pending"
  BY <1>1, <1>2, <1>3, <1>4 DEF ReadOrderForUpdate, OrderExists, OwnPending, RowInv,
     UnlockedRowsAgree
<1>6. RequestRules(r)'
  BY <1>1, <1>2, <1>3, <1>4, <1>5
     DEF RequestRules, LocksItsOrder, HoldsNoOrder, EditsDraft, EditMethods,
         FillsNewOrder, MovesPending, MarksPaid, OneCurrency, KeepsPrices,
         DeletesUnused, At, tables, working
<1> QED
  BY <1>2, <1>3, <1>4, <1>6, ReadRules

\* Statements that change nothing but the place of the request.
LEMMA GotoRules ==
    ASSUME IInv, Rules, NEW r \in Requests, Preserved(r), NEW l \in Labels,
           Goto(r, l), UNCHANGED <<database, op, target, seen, payment>>,
           UNCHANGED want \/ op[r] # "DeleteProduct",
           \/ op[r] \in {"GetOrder", "GetCart"} /\ l \in {"items", "commit"}
           \/ op[r] = "CreateOrder" /\ l = "commit"
           \/ op[r] = "AddItem" /\ l = "create" /\ pc[r] \in {"snapshot", "draft"}
           \/ op[r] = "CancelOrder" /\ pc[r] = "restock" /\ l = "mark"
           \/ op[r] = "Checkout" /\ pc[r] = "items" /\ l = "lock"
    PROVE  Rules'
<1>1. TypeOK /\ RequestInv(r) /\ RequestRules(r)
  BY DEF IInv, Rules
<1>2. pc'[r] = l
  BY <1>1 DEF Goto, TypeOK
<1>3. RequestRules(r)'
  BY <1>1, <1>2
     DEF RequestRules, LocksItsOrder, HoldsNoOrder, EditsDraft, EditMethods, OwnsTarget,
         FillsNewOrder, MovesPending, MarksPaid, OneCurrency, KeepsPrices,
         DeletesUnused, At, IsPlaced, database, tables, working, locks
<1> QED
  BY <1>3, ReadRules DEF database, locks

\* A statement that writes products: with an order locked, not their prices.
LEMMA ProductRules ==
    ASSUME IInv, Rules, NEW r \in Requests, Preserved(r),
           UNCHANGED <<tables, ordersW, itemsW, orderLock, nextOrder, payment>>,
           op[r] # "PayOrder",
           \A p \in ProductIDs : productLock'[p] = productLock[p] \/ productLock[p] = None,
           ~HoldsNoOrder(r) =>
               \A p \in ProductIDs : productLock[p] = r => SamePrice(productsW'[p], productsW[p]),
           RequestRules(r)'
    PROVE  Rules'
<1>1. nextOrder \in Nat
  BY DEF IInv, TypeOK
<1>2. Transacts(r)
  BY <1>1 DEF Transacts
<1>3. ChargeRule'
  BY ChargesKept DEF Preserved, Others, IsSettling, tables
<1> QED
  BY <1>2, <1>3, QuietRules

\* UPDATE products SET stock leaves the price and the currency.
LEMMA WithStockPrice ==
    ASSUME NEW row \in ProductRow, NEW n
    PROVE  SamePrice(WithStock(row, n), row)
  BY DEF WithStock, SamePrice, ProductRow

\* What a sale takes from a product leaves its price.
LEMMA DecreaseStockPrice ==
    ASSUME IInv, NEW r \in Requests, NEW p \in ProductIDs, seen[r][p] # NoRow,
           DecreaseStock(p, want[r][p])
    PROVE  \A q \in ProductIDs : SamePrice(productsW'[q], productsW[q])
<1>1. TypeOK /\ productsW[p] = seen[r][p]
  BY DEF IInv, RequestInv, Claim
<1>2. productsW[p] \in ProductRow
  BY <1>1 DEF TypeOK, Products
<1>3. \A n : SamePrice(WithStock(productsW[p], n), productsW[p])
  BY <1>2, WithStockPrice
<1>4. /\ productsW'[p] = WithStock(productsW[p], productsW[p].stock - want[r][p])
      /\ \A q \in ProductIDs \ {p} : productsW'[q] = productsW[q]
  BY <1>1 DEF DecreaseStock, TypeOK, Products
<1>5. SamePrice(productsW'[p], productsW[p])
  BY <1>3, <1>4
<1> QED
  BY <1>4, <1>5 DEF SamePrice

\* CancelOrder gives back the stock of a line.
LEMMA RestockRules ==
    ASSUME IInv, Rules, NEW r \in Requests, Preserved(r), CancelOrderRestock(r)
    PROVE  Rules'
<1> USE NullAssumption, NoRowAssumption
<1>1. TypeOK /\ RequestInv(r) /\ RequestRules(r)
  BY DEF IInv, Rules
<1>2. /\ op[r] = "CancelOrder" /\ pc[r] = "restock"
      /\ UNCHANGED <<tables, ordersW, itemsW, orderLock, ids,
                     op, pc, user, target, want, seen, current, payment>>
  BY DEF CancelOrderRestock, At
<1>3. PICK s \in Slots :
          /\ IsNextLine(r, s)
          /\ IncreaseStock(r, lines[r][s].product, lines[r][s].quantity)
  BY DEF CancelOrderRestock
<1> DEFINE p == lines[r][s].product
<1>4. p \in ProductIDs
  <2>1. lines[r][s] \in ItemRow
    BY <1>1, <1>3 DEF IsNextLine, TypeOK, Lines
  <2> QED
    BY <2>1 DEF ItemRow
<1>5. \A x \in ProductIDs :
          /\ productLock'[x] = productLock[x] \/ productLock[x] = None
          /\ SamePrice(productsW'[x], productsW[x])
  <2>1. CASE ~ProductExists(p)
    BY <1>3, <2>1 DEF IncreaseStock, SamePrice
  <2>2. CASE ProductExists(p)
    <3>1. /\ ProductAvailable(r, p) /\ LockProduct(r, p)
          /\ productsW' = [productsW EXCEPT ![p] =
                             WithStock(@, productsW[p].stock + lines[r][s].quantity)]
      BY <1>3, <2>2 DEF IncreaseStock
    <3>2. productsW[p] \in ProductRow
      BY <1>2, <1>4, <2>2, <3>1, LockedRowExists
    <3>3. \A n : SamePrice(WithStock(productsW[p], n), productsW[p])
      BY <3>2, WithStockPrice
    <3>4. /\ SamePrice(productsW'[p], productsW[p])
          /\ \A x \in ProductIDs \ {p} : productsW'[x] = productsW[x]
      BY <1>1, <1>4, <3>1, <3>3 DEF TypeOK, Products
    <3>5. \A x \in ProductIDs : productLock'[x] = productLock[x] \/ productLock[x] = None
      BY <1>1, <3>1 DEF ProductAvailable, LockProduct, TypeOK
    <3> QED
      BY <3>4, <3>5 DEF SamePrice
  <2> QED
    BY <2>1, <2>2
<1>6. RequestRules(r)'
  BY <1>1, <1>2
     DEF RequestRules, LocksItsOrder, HoldsNoOrder, EditsDraft, EditMethods, OwnsTarget,
         FillsNewOrder, MovesPending, MarksPaid, OneCurrency, KeepsPrices,
         DeletesUnused, At, tables
<1> QED
  BY <1>2, <1>5, <1>6, ProductRules DEF ids

\* Checkout takes the stock of its next product.
LEMMA CheckoutTakeRules ==
    ASSUME IInv, Rules, NEW r \in Requests, Preserved(r), CheckoutTake(r)
    PROVE  Rules'
<1> USE NullAssumption, NoRowAssumption
<1>1. TypeOK /\ RequestInv(r) /\ RequestRules(r)
  BY DEF IInv, Rules
<1>2. /\ op[r] = "Checkout" /\ pc[r] = "take"
      /\ UNCHANGED <<tables, ordersW, itemsW, locks, ids,
                     op, pc, user, target, want, current, lines, payment>>
  BY DEF CheckoutTake, At
<1>3. PICK p \in ProductIDs :
          /\ seen[r][p] # NoRow
          /\ DecreaseStock(p, want[r][p])
          /\ seen' = [seen EXCEPT ![r] = [@ EXCEPT ![p] = NoRow]]
  BY DEF CheckoutTake, IsNextToTake
<1>4. \A q \in ProductIDs : SamePrice(productsW'[q], productsW[q])
  BY <1>3, DecreaseStockPrice
<1>5. \A q \in ProductIDs : seen'[r][q] \in {NoRow, seen[r][q]}
  BY <1>1, <1>3 DEF TypeOK, Products
<1>6. KeepsPrices(r)'
  <2>1. target[r] \in OrderIDs /\ Priced(target[r])
    BY <1>1, <1>2 DEF RequestInv, OwnsTarget, RequestRules, KeepsPrices, At
  <2>2. \A s \in Slots : itemsW[target[r]][s] # NoRow =>
            itemsW[target[r]][s].product \in ProductIDs
    BY <1>1, <2>1 DEF TypeOK, Lines, ItemRow
  <2>3. Priced(target[r])'
    BY <1>2, <1>4, <2>1, <2>2 DEF Priced, SamePrice, locks
  <2> QED
    BY <2>3 DEF KeepsPrices
<1>7. RequestRules(r)'
  BY <1>1, <1>2, <1>5, <1>6
     DEF RequestRules, LocksItsOrder, HoldsNoOrder, EditsDraft, EditMethods, OwnsTarget,
         FillsNewOrder, MovesPending, MarksPaid, OneCurrency, DeletesUnused, At,
         IsPlaced, tables, locks
<1> QED
  BY <1>2, <1>4, <1>7, ProductRules DEF locks, ids

\* The administrator writes a product: he has locked no order.
LEMMA ProductServiceRules ==
    ASSUME IInv, Rules, NEW r \in Requests, Preserved(r),
           CreateProduct(r) \/ UpdateProduct(r) \/ DeleteProduct(r)
    PROVE  Rules'
<1> USE NullAssumption, NoRowAssumption
<1>1. TypeOK /\ RowInv /\ RequestInv(r) /\ RequestRules(r)
  BY DEF IInv, Rules
<1>2. /\ op[r] \in {"CreateProduct", "UpdateProduct", "DeleteProduct"}
      /\ UNCHANGED <<tables, ordersW, itemsW, orderLock, nextOrder,
                     op, user, target, want, seen, current, lines, payment>>
  BY DEF CreateProduct, UpdateProduct, DeleteProduct, At, ids, CreateRow
<1>3. PICK l \in {"commit", "references"} :
          /\ Goto(r, l)
          /\ op[r] = "DeleteProduct" => l = "references"
  BY DEF CreateProduct, UpdateProduct, DeleteProduct, At
<1>4. PICK p \in ProductIDs :
          /\ productLock' = [productLock EXCEPT ![p] = r]
          /\ productLock[p] \in {None, r}
          /\ op[r] = "DeleteProduct" => want[r][p] > 0
  BY <1>1 DEF CreateProduct, CreateRow, UpdateProduct, DeleteProduct, DeleteRow,
     LockProduct, ProductAvailable, At, RowInv, FreshIds, TypeOK
<1>5. /\ \A x \in ProductIDs : productLock'[x] = productLock[x] \/ productLock[x] = None
      /\ \A x \in ProductIDs : productLock'[x] = r => x = p \/ productLock[x] = r
  BY <1>1, <1>4 DEF TypeOK
<1>6. pc'[r] = l
  BY <1>1, <1>3 DEF Goto, TypeOK
<1>7. RequestRules(r)'
  BY <1>1, <1>2, <1>3, <1>4, <1>5, <1>6
     DEF RequestRules, LocksItsOrder, HoldsNoOrder, EditsDraft, EditMethods,
         FillsNewOrder, MovesPending, MarksPaid, OneCurrency, KeepsPrices,
         DeletesUnused, At
<1> QED
  BY <1>2, <1>5, <1>7, ProductRules DEF HoldsNoOrder

\* The foreign key: no committed line is of the product that DeleteProduct
\* is about to remove.
LEMMA DeleteCheckedRules ==
    ASSUME IInv, Rules, NEW r \in Requests, Preserved(r), DeleteProductChecked(r)
    PROVE  Rules'
<1>1. TypeOK /\ RequestRules(r)
  BY DEF IInv, Rules
<1>2. /\ op[r] = "DeleteProduct" /\ Goto(r, "commit")
      /\ UNCHANGED <<database, op, user, target, want, seen, current, lines, payment>>
  BY DEF DeleteProductChecked, At
<1>3. pc'[r] = "commit"
  BY <1>1, <1>2 DEF Goto, TypeOK
<1>4. PICK p \in ProductIDs : want[r][p] > 0 /\ ~Referenced(p) /\ ~RemovalPending(p)
  BY DEF DeleteProductChecked
<1>5. \A o \in OrderIDs : ~References(items[o], p)
  BY <1>4 DEF Referenced, RemovalPending
<1>6. \A q \in ProductIDs : productLock[q] = r => q = p
  BY <1>1, <1>2, <1>4 DEF RequestRules, DeletesUnused
<1>7. RequestRules(r)'
  BY <1>1, <1>2, <1>3, <1>5, <1>6
     DEF RequestRules, LocksItsOrder, HoldsNoOrder, EditsDraft, EditMethods,
         FillsNewOrder, MovesPending, MarksPaid, OneCurrency, KeepsPrices,
         DeletesUnused, At, database, tables, locks
<1> QED
  BY <1>2, <1>7, ReadRules DEF database, locks

-----------------------------------------------------------------------------
(* Payments.                                                               *)

\* The provider takes the money, and PayOrder goes on to mark the order.
LEMMA PayOrderSucceedsRules ==
    ASSUME IInv, Rules, NEW r \in Requests, Preserved(r), PayOrderSucceeds(r)
    PROVE  Rules'
<1>1. TypeOK /\ RequestInv(r) /\ RequestRules(r)
  BY DEF IInv, Rules
<1>2. /\ op[r] = "PayOrder" /\ pc[r] = "charge" /\ Goto(r, "mark")
      /\ charged' = charged \cup {target[r]}
      /\ UNCHANGED <<database, op, user, target, want, seen, current, lines, unsettled>>
  BY DEF PayOrderSucceeds, At, Charge
<1>3. pc'[r] = "mark"
  BY <1>1, <1>2 DEF Goto, TypeOK
<1>4. Transacts(r)
  BY <1>1, <1>2 DEF Transacts, SamePrice, TypeOK, database, tables, working, locks, ids
<1>5. ChargeRule'
  <2>1. \A o : o = target[r] => IsSettling(r, o)'
    BY <1>2, <1>3 DEF IsSettling
  <2>2. target[r] \in OrderIDs
    BY <1>1, <1>2 DEF RequestInv, OwnsTarget
  <2>3. ASSUME NEW o, NEW t \in Requests, IsSettling(t, o) PROVE IsSettling(t, o)'
    <3>1. t # r
      BY <1>2, <2>3 DEF IsSettling
    <3> QED
      BY <2>3, <3>1 DEF Preserved, Others, OtherSessions, IsSettling
  <2>4. ASSUME NEW o \in charged' \ unsettled'
        PROVE  /\ o \in OrderIDs
               /\ IsPaid(orders'[o]) \/ \E t \in Requests : IsSettling(t, o)'
    <3>1. CASE o = target[r]
      BY <2>1, <2>2, <3>1
    <3>2. CASE o # target[r]
      <4>1. /\ o \in OrderIDs
            /\ IsPaid(orders[o]) \/ \E t \in Requests : IsSettling(t, o)
        BY <1>2, <2>4, <3>2 DEF Rules, ChargeRule
      <4>2. orders' = orders
        BY <1>2 DEF database, tables
      <4>3. IsPaid(orders[o]) => IsPaid(orders'[o])
        BY <4>2
      <4> QED
        BY <2>3, <4>1, <4>3
    <3> QED
      BY <3>1, <3>2
  <2> QED
    BY <2>4 DEF ChargeRule, IsPaid
<1>6. RequestRules(r)'
  BY <1>1, <1>2, <1>3
     DEF RequestRules, LocksItsOrder, HoldsNoOrder, EditsDraft, EditMethods, OwnsTarget,
         FillsNewOrder, MovesPending, MarksPaid, OneCurrency, KeepsPrices,
         DeletesUnused, At, database, tables, working, locks
<1> QED
  BY <1>2, <1>4, <1>5, <1>6, QuietRules DEF database, working

\* When a request of r is rolled back without being PayOrder's after the
\* charge, or the money counts as lost, the other charges are as they were.
LEMMA ChargesLost ==
    ASSUME Rules, NEW r \in Requests, OtherSessions(r), UNCHANGED orders,
           \A o : o \in charged' \ unsettled' =>
               o \in charged \ unsettled /\ ~IsSettling(r, o)
    PROVE  ChargeRule'
<1>1. ASSUME NEW o, NEW t \in Requests, IsSettling(t, o), t # r
      PROVE  IsSettling(t, o)'
  BY <1>1 DEF OtherSessions, IsSettling
<1>2. ASSUME NEW o \in charged' \ unsettled'
      PROVE  /\ o \in OrderIDs
             /\ IsPaid(orders'[o]) \/ \E t \in Requests : IsSettling(t, o)'
  <2>1. /\ o \in OrderIDs /\ ~IsSettling(r, o)
        /\ IsPaid(orders[o]) \/ \E t \in Requests : IsSettling(t, o)
    BY <1>2 DEF Rules, ChargeRule
  <2> QED
    BY <1>1, <2>1
<1> QED
  BY <1>2 DEF ChargeRule, IsPaid

\* A method that returns an error has not taken money.
LEMMA RejectRules ==
    ASSUME IInv, Rules, NEW r \in Requests, Preserved(r), Reject(r),
           ~(op[r] = "PayOrder" /\ pc[r] \in {"mark", "commit"})
    PROVE  Rules'
<1>1. Rollback(r) /\ UNCHANGED payment /\ OtherSessions(r)
  BY DEF Reject, Preserved, Others
<1>2. ChargeRule'
  BY <1>1, ChargesLost DEF IsSettling, payment, Rollback, tables
<1> QED
  BY <1>1, <1>2, RollbackRules

\* The late charge: the money is taken, and counts as lost at once.
LEMMA PayOrderTimesOutRules ==
    ASSUME IInv, Rules, NEW r \in Requests, Preserved(r), PayOrderTimesOut(r)
    PROVE  Rules'
<1>1. /\ Rollback(r) /\ OtherSessions(r) /\ pc[r] = "charge"
      /\ charged' = charged \cup {target[r]}
      /\ unsettled' = unsettled \cup {target[r]}
  BY DEF PayOrderTimesOut, Preserved, Others, At, Charge, ChargeLost
<1>2. ChargeRule'
  BY <1>1, ChargesLost DEF IsSettling, Rollback, tables
<1> QED
  BY <1>1, <1>2, RollbackRules

\* A request is cut short: what PayOrder has been charged for is lost.
LEMMA AbortRules ==
    ASSUME IInv, Rules, NEW r \in Requests, Preserved(r), Abort(r)
    PROVE  Rules'
<1>1. Rollback(r) /\ OtherSessions(r)
  BY DEF Abort, Preserved, Others
<1>2. ASSUME NEW o \in charged' \ unsettled'
      PROVE  o \in charged \ unsettled /\ ~IsSettling(r, o)
  <2>1. CASE op[r] = "PayOrder" /\ pc[r] \in {"mark", "commit"}
    BY <1>2, <2>1 DEF Abort, ChargeLost, IsSettling
  <2>2. CASE ~(op[r] = "PayOrder" /\ pc[r] \in {"mark", "commit"})
    BY <1>2, <2>2 DEF Abort, IsSettling, payment
  <2> QED
    BY <2>1, <2>2
<1>3. ChargeRule'
  BY <1>1, <1>2, ChargesLost DEF Rollback, tables
<1> QED
  BY <1>1, <1>3, RollbackRules

-----------------------------------------------------------------------------
(* Statements that write one order.                                        *)

\* Of such a statement the rules of that order, and its request, are left.
LEMMA WrittenRules ==
    ASSUME IInv, Rules, NEW r \in Requests, Preserved(r), Transacts(r),
           UNCHANGED payment, ~(op[r] = "PayOrder" /\ pc[r] = "commit"),
           \A o : IsSettling(r, o) => IsSettling(r, o)',
           NEW x \in OrderIDs,
           \A o \in OrderIDs \ {x} : ordersW'[o] = ordersW[o] /\ itemsW'[o] = itemsW[o],
           OrderRules(x)',
           \A u \in Users : IsDraft(ordersW'[x], u) => MayBeDraft(x, u),
           RequestRules(r)'
    PROVE  Rules'
<1>1. Others(r) /\ OtherSessions(r) /\ orders' = orders
  BY DEF Preserved, Others, Transacts, tables
<1>2. \A o \in OrderIDs : OrderRules(o)'
  BY <1>1, UnwrittenOrder
<1>3. DraftRule'
  BY <1>1, DraftsKept DEF MayBeDraft
<1>4. ChargeRule'
  BY <1>1, ChargesKept
<1> QED
  BY <1>1, <1>2, <1>3, <1>4, TransactsIsEnough DEF RulesPreserved

\* UPDATE orders SET status along the state machine of status.go, of an order
\* that was placed.
LEMMA MoveRules ==
    ASSUME IInv, Rules, NEW r \in Requests, Others(r), Transacts(r),
           NEW x \in OrderIDs, ordersW[x] = orders[x], orders[x] # NoRow, NEW new,
           CanTransition(orders[x].status, new), SetStatus(x, new), UNCHANGED itemsW
    PROVE  /\ OrderRules(x)'
           /\ \A o \in OrderIDs \ {x} : ordersW'[o] = ordersW[o]
           /\ ordersW'[x] # NoRow /\ ordersW'[x].status = new
           /\ \A u \in Users : ~IsDraft(ordersW'[x], u)
<1> USE NullAssumption, NoRowAssumption
<1>1. TypeOK /\ OrderRules(x) /\ orders[x] \in OrderRow
      /\ UNCHANGED <<products, orders, items, itemsW>>
  BY DEF IInv, Rules, TypeOK, Orders, Transacts, tables
<1>2. /\ orders[x].status \in {"pending", "paid", "processing", "shipped"}
      /\ new \in Statuses /\ new # "draft"
      /\ new \in Lifecycle!Successors(orders[x].status)
  BY DEF CanTransition, Statuses, Lifecycle!Successors, Lifecycle!Moves, Absent
<1>3. /\ ordersW'[x] = WithStatus(orders[x], new)
      /\ \A o \in OrderIDs \ {x} : ordersW'[o] = ordersW[o]
  BY <1>1 DEF SetStatus, TypeOK, Orders
<1>4. /\ WithStatus(orders[x], new) \in OrderRow
      /\ WithStatus(orders[x], new).status = new
      /\ [WithStatus(orders[x], new) EXCEPT !.status = orders[x].status] = orders[x]
  BY <1>1, <1>2 DEF WithStatus, OrderRow
<1>5. ordersW'[x] # NoRow /\ ordersW'[x].status = new /\ itemsW[x] = items[x]
  BY <1>1, <1>2, <1>3, <1>4 DEF OrderRules, OnlyStatusMoves, IsPlaced
<1>6. OneMove(x)'
  BY <1>1, <1>2, <1>5 DEF OneMove, StatusOf
<1>7. OnlyStatusMoves(x)'
  BY <1>1, <1>3, <1>4, <1>5 DEF OnlyStatusMoves
<1>8. SoldPriced(x)' /\ NewLinesLocked(x)'
  BY <1>1, <1>2, <1>5 DEF SoldPriced, NewLinesLocked, IsPlaced
<1>9. CommittedLinesExist(x)' /\ (x >= nextOrder => items[x] = NoLines)'
  <2>1. x \in Nat /\ nextOrder \in Nat
    BY <1>1 DEF OrderIDs, TypeOK
  <2> QED
    BY <1>1, <2>1 DEF OrderRules, CommittedLinesExist, Transacts, References
<1>10. OrderRules(x)'
  BY <1>1, <1>6, <1>7, <1>8, <1>9 DEF OrderRules, OnceEach
<1> QED
  BY <1>2, <1>3, <1>5, <1>10 DEF IsDraft

\* CancelOrder and PayOrder mark the order that they have read.
LEMMA MarkRules ==
    ASSUME IInv, Rules, NEW r \in Requests, Preserved(r),
           CancelOrderMark(r) \/ PayOrderMark(r)
    PROVE  Rules'
<1> USE NullAssumption, NoRowAssumption
<1>1. TypeOK /\ RequestInv(r) /\ RequestRules(r) /\ Others(r)
  BY DEF IInv, Rules, Preserved
<1>2. PICK new : /\ Mark(r, new)
                 /\ \/ op[r] = "CancelOrder" /\ new = "cancelled"
                    \/ op[r] = "PayOrder" /\ new = "paid"
  BY DEF CancelOrderMark, PayOrderMark
<1>3. /\ pc[r] = "mark" /\ pc'[r] = "commit" /\ SetStatus(target[r], new)
      /\ UNCHANGED <<tables, productsW, itemsW, locks, ids,
                     op, user, target, want, seen, current, lines, payment>>
  BY <1>1, <1>2 DEF Mark, Goto, TypeOK
<1>4. Transacts(r)
  BY <1>1, <1>3 DEF Transacts, SamePrice, TypeOK, locks, ids
<1>5. /\ target[r] \in OrderIDs /\ orderLock[target[r]] = r
      /\ ordersW[target[r]] = orders[target[r]] /\ orders[target[r]] # NoRow
      /\ orders[target[r]].status = "pending"
  BY <1>1, <1>2, <1>3 DEF RequestInv, OwnsTarget, RequestRules, MovesPending
<1>6. CanTransition(orders[target[r]].status, new)
  BY <1>2, <1>5 DEF CanTransition
<1> PICK x \in OrderIDs : x = target[r]
  BY <1>5
<1>7. /\ OrderRules(x)'
      /\ \A o \in OrderIDs \ {x} : ordersW'[o] = ordersW[o]
      /\ ordersW'[x] # NoRow /\ ordersW'[x].status = new
      /\ \A u \in Users : ~IsDraft(ordersW'[x], u)
  BY <1>1, <1>3, <1>4, <1>5, <1>6, MoveRules
<1>8. RequestRules(r)'
  BY <1>1, <1>2, <1>3, <1>5, <1>7
     DEF RequestRules, LocksItsOrder, HoldsNoOrder, EditsDraft, EditMethods, OwnsTarget,
         FillsNewOrder, MovesPending, MarksPaid, IsPaid, PaidStatuses, OneCurrency,
         KeepsPrices, DeletesUnused, At, locks
<1>9. \A o : IsSettling(r, o) => IsSettling(r, o)'
  BY <1>3 DEF IsSettling
<1> QED
  BY <1>3, <1>4, <1>5, <1>7, <1>8, <1>9, WrittenRules

\* The administrator locks an order and moves its status.
LEMMA UpdateOrderStatusRules ==
    ASSUME IInv, Rules, NEW r \in Requests, Preserved(r), UpdateOrderStatusRun(r)
    PROVE  Rules'
<1> USE NullAssumption, NoRowAssumption
<1>1. TypeOK /\ RowInv /\ RequestInv(r) /\ RequestRules(r) /\ Others(r)
  BY DEF IInv, Rules, Preserved
<1>2. /\ op[r] = "UpdateOrderStatus" /\ pc[r] = "order" /\ pc'[r] = "commit"
      /\ OrderExists(target[r]) /\ OrderAvailable(r, target[r]) /\ LockOrder(r, target[r])
      /\ UNCHANGED <<tables, productsW, itemsW, productLock, ids,
                     op, user, target, want, seen, current, lines, payment>>
  BY <1>1 DEF UpdateOrderStatusRun, At, Goto, TypeOK
<1>3. PICK x \in OrderIDs : x = target[r] /\ orders[x] # NoRow
  BY <1>2 DEF OrderExists
<1>4. PICK new : CanTransition(ordersW[x].status, new) /\ SetStatus(x, new)
  BY <1>3 DEF UpdateOrderStatusRun
<1>5. orderLock[x] = None /\ ordersW[x] = orders[x]
  BY <1>1, <1>2, <1>3 DEF OrderAvailable, RequestRules, LocksItsOrder, HoldsNoOrder,
     RowInv, UnlockedRowsAgree
<1>6. orderLock'[x] = r /\ \A o \in OrderIDs \ {x} : orderLock'[o] = orderLock[o]
  BY <1>1, <1>2, <1>3 DEF LockOrder, TypeOK
<1>7. Transacts(r)
  BY <1>1, <1>2, <1>5, <1>6 DEF Transacts, SamePrice, TypeOK, ids
<1>8. /\ OrderRules(x)'
      /\ \A o \in OrderIDs \ {x} : ordersW'[o] = ordersW[o]
      /\ \A u \in Users : ~IsDraft(ordersW'[x], u)
  BY <1>1, <1>2, <1>3, <1>4, <1>5, <1>7, MoveRules
<1>9. RequestRules(r)'
  BY <1>1, <1>2, <1>3, <1>6
     DEF RequestRules, LocksItsOrder, HoldsNoOrder, EditsDraft, EditMethods, OwnsTarget,
         FillsNewOrder, MovesPending, MarksPaid, OneCurrency, KeepsPrices,
         DeletesUnused, At
<1>10. \A o : IsSettling(r, o) => IsSettling(r, o)'
  BY <1>2 DEF IsSettling
<1> QED
  BY <1>2, <1>7, <1>8, <1>9, <1>10, WrittenRules

\* INSERT INTO orders makes an order that nobody has seen, without lines.
LEMMA InsertRules ==
    ASSUME IInv, Rules, NEW r \in Requests, Others(r),
           NEW row \in OrderRow, InsertOrder(r, row), row.status \in {"draft", "pending"},
           HoldsNoOrder(r),
           UNCHANGED <<tables, productsW, itemsW, productLock, nextProduct>>
    PROVE  /\ Transacts(r)
           /\ target'[r] \in OrderIDs /\ orders[target'[r]] = NoRow
           /\ orderLock[target'[r]] = None /\ itemsW'[target'[r]] = NoLines
           /\ ordersW[target'[r]] = NoRow /\ ordersW'[target'[r]] = row
           /\ \A o \in OrderIDs : orderLock'[o] = r => o = target'[r]
           /\ \A o \in OrderIDs : o # target'[r] => ordersW'[o] = ordersW[o]
           /\ \A o \in OrderIDs : o = target'[r] => OrderRules(o)'
<1> USE NullAssumption, NoRowAssumption
<1>1. TypeOK /\ RowInv /\ RequestRules(r)
  BY DEF IInv, Rules
<1>2. PICK x \in OrderIDs : x = nextOrder
  BY DEF InsertOrder
<1>3. /\ target'[r] = x /\ ordersW'[x] = row /\ orderLock'[x] = r
      /\ \A o \in OrderIDs \ {x} : ordersW'[o] = ordersW[o] /\ orderLock'[o] = orderLock[o]
      /\ nextOrder' = x + 1 /\ x \in Nat
  BY <1>1, <1>2 DEF InsertOrder, LockOrder, TypeOK, Orders
<1>4. /\ orders[x] = NoRow /\ orderLock[x] = None
      /\ ordersW[x] = NoRow /\ itemsW[x] = items[x] /\ items[x] = NoLines
  BY <1>1, <1>2, <1>3 DEF RowInv, FreshIds, UnlockedRowsAgree, Rules, OrderRules
<1>5. /\ UNCHANGED <<products, orders, items, itemsW>>
      /\ \A o \in OrderIDs : orderLock[o] # r
  BY <1>1 DEF tables, RequestRules, LocksItsOrder
<1>6. Transacts(r)
  BY <1>1, <1>2, <1>3, <1>4 DEF Transacts, SamePrice, TypeOK
<1>7. OrderRules(x)'
  <2>1. OneMove(x)'
    <3>1. StatusOf(row) \in {"draft", "pending"}
      BY DEF StatusOf
    <3> QED
      BY <1>3, <1>4, <1>5, <3>1 DEF OneMove, StatusOf, Lifecycle!Successors
  <2>2. \A s \in Slots : items'[x][s] = NoRow /\ itemsW'[x][s] = NoRow
    BY <1>4, <1>5 DEF NoLines
  <2> QED
    BY <1>4, <1>5, <2>1, <2>2
       DEF OrderRules, OnlyStatusMoves, OnceEach, NewLinesLocked, SoldPriced, Priced,
           CommittedLinesExist, References, IsPlaced
<1> QED
  BY <1>3, <1>4, <1>5, <1>6, <1>7

\* CreateOrder inserts an order that is placed at once.
LEMMA CreateOrderInsertRules ==
    ASSUME IInv, Rules, NEW r \in Requests, Preserved(r), CreateOrderInsert(r)
    PROVE  Rules'
<1> USE NullAssumption, NoRowAssumption
<1>1. TypeOK /\ RequestInv(r) /\ RequestRules(r) /\ Others(r)
  BY DEF IInv, Rules, Preserved
<1>2. /\ op[r] = "CreateOrder" /\ pc[r] = "insert" /\ pc'[r] = "lines"
      /\ UNCHANGED <<tables, productsW, itemsW, productLock, nextProduct,
                     op, user, want, seen, current, lines, payment>>
  BY <1>1 DEF CreateOrderInsert, At, Goto, TypeOK
<1>3. PICK c \in Currencies :
          /\ IsSaleCurrency(r, c)
          /\ InsertOrder(r, [user |-> user[r], status |-> "pending",
                             total |-> SaleTotal(r), currency |-> c])
  BY DEF CreateOrderInsert
<1>4. PICK row \in OrderRow :
          /\ InsertOrder(r, row)
          /\ row.status = "pending" /\ row.currency = c
  <2>1. user[r] \in Users
    BY <1>1, <1>2 DEF RequestInv
  <2>2. SaleTotal(r) \in Nat
    BY DEF CreateOrderInsert, IsAmount
  <2> QED
    BY <1>3, <2>1, <2>2 DEF OrderRow, Statuses
<1>5. /\ Transacts(r)
      /\ target'[r] \in OrderIDs /\ orders[target'[r]] = NoRow
      /\ orderLock[target'[r]] = None /\ itemsW'[target'[r]] = NoLines
      /\ ordersW[target'[r]] = NoRow /\ ordersW'[target'[r]] = row
      /\ \A o \in OrderIDs : orderLock'[o] = r => o = target'[r]
      /\ \A o \in OrderIDs : o # target'[r] => ordersW'[o] = ordersW[o]
      /\ \A o \in OrderIDs : o = target'[r] => OrderRules(o)'
  <2>1. HoldsNoOrder(r)
    BY <1>2 DEF HoldsNoOrder
  <2> QED
    BY <1>1, <1>2, <1>4, <2>1, InsertRules
<1>6. PICK x \in OrderIDs : x = target'[r]
  BY <1>5
<1>7. RequestRules(r)'
  <2>1. \A p \in ProductIDs : seen[r][p] # NoRow => seen[r][p].currency = c
    BY <1>1, <1>3 DEF IsSaleCurrency, RequestRules, OneCurrency
  <2>2. \A p \in ProductIDs : ~References(itemsW'[x], p)
    BY <1>5, <1>6 DEF References, NoLines
  <2> QED
    BY <1>1, <1>2, <1>4, <1>5, <1>6, <2>1, <2>2
       DEF RequestRules, LocksItsOrder, HoldsNoOrder, EditsDraft, EditMethods,
           FillsNewOrder, MovesPending, MarksPaid, OneCurrency, KeepsPrices,
           DeletesUnused, At, IsPlaced, tables
<1>8. \A u \in Users : ~IsDraft(ordersW'[x], u)
  BY <1>4, <1>5, <1>6 DEF IsDraft
<1>9. \A o : ~IsSettling(r, o)
  BY <1>2 DEF IsSettling
<1> QED
  BY <1>2, <1>5, <1>6, <1>7, <1>8, <1>9, WrittenRules

\* AddItem makes a draft for a user who has none.  The unique index sees no
\* draft of his, and no transaction that may leave him one.
LEMMA CreateDraftRules ==
    ASSUME IInv, Rules, NEW r \in Requests, Preserved(r), CreateDraft(r)
    PROVE  Rules'
<1> USE NullAssumption, NoRowAssumption
<1>1. TypeOK /\ RowInv /\ RequestInv(r) /\ RequestRules(r) /\ Others(r)
  BY DEF IInv, Rules, Preserved
<1>2. /\ op[r] = "AddItem" /\ pc[r] = "create" /\ pc'[r] = "product"
      /\ ~DraftUndecided(r, user[r]) /\ ~HasDraft(user[r])
      /\ InsertOrder(r, [user |-> user[r], status |-> "draft",
                         total |-> 0, currency |-> NoCurrency])
      /\ UNCHANGED <<tables, productsW, itemsW, productLock, nextProduct,
                     op, user, want, seen, current, lines, payment>>
  BY <1>1 DEF CreateDraft, At, Goto, TypeOK
<1>3. PICK row \in OrderRow :
          InsertOrder(r, row) /\ row.status = "draft" /\ row.user = user[r]
  <2>1. user[r] \in Users
    BY <1>1, <1>2 DEF RequestInv
  <2> QED
    BY <1>2, <2>1 DEF OrderRow, Statuses
<1>4. /\ Transacts(r)
      /\ target'[r] \in OrderIDs /\ orders[target'[r]] = NoRow
      /\ orderLock[target'[r]] = None /\ itemsW'[target'[r]] = NoLines
      /\ ordersW[target'[r]] = NoRow /\ ordersW'[target'[r]] = row
      /\ \A o \in OrderIDs : orderLock'[o] = r => o = target'[r]
      /\ \A o \in OrderIDs : o # target'[r] => ordersW'[o] = ordersW[o]
      /\ \A o \in OrderIDs : o = target'[r] => OrderRules(o)'
  <2>1. HoldsNoOrder(r)
    BY <1>2 DEF HoldsNoOrder
  <2> QED
    BY <1>1, <1>2, <1>3, <2>1, InsertRules
<1>5. PICK x \in OrderIDs : x = target'[r]
  BY <1>4
<1>6. \A o \in OrderIDs : ~MayBeDraft(o, user[r])
  <2> SUFFICES ASSUME NEW o \in OrderIDs, MayBeDraft(o, user[r]) PROVE FALSE
    OBVIOUS
  <2>1. orderLock[o] # r
    BY <1>1, <1>2 DEF RequestRules, LocksItsOrder, HoldsNoOrder
  <2>2. IsDraft(orders[o], user[r]) /\ IsDraft(ordersW[o], user[r])
    <3>1. CASE orderLock[o] = None
      BY <1>1, <3>1 DEF RowInv, UnlockedRowsAgree, MayBeDraft
    <3>2. CASE orderLock[o] # None
      <4>1. IsDraft(orders[o], user[r]) <=> IsDraft(ordersW[o], user[r])
        BY <1>2, <2>1, <3>2 DEF DraftUndecided, OrderAvailable
      <4> QED
        BY <4>1 DEF MayBeDraft
    <3> QED
      BY <3>1, <3>2
  <2> QED
    BY <1>2, <2>2 DEF HasDraft
<1>7. UNCHANGED <<orders, itemsW>>
  BY <1>2 DEF tables
<1>8. DraftRule'
  <2>1. ASSUME NEW o \in OrderIDs, NEW u \in Users, MayBeDraft(o, u)'
        PROVE  IF u = user[r] THEN o = x ELSE MayBeDraft(o, u)
    <3>1. CASE o = x
      BY <1>3, <1>4, <1>5, <1>7, <2>1, <3>1 DEF MayBeDraft, IsDraft
    <3>2. CASE o # x
      BY <1>4, <1>5, <1>6, <1>7, <2>1, <3>2 DEF MayBeDraft
    <3> QED
      BY <3>1, <3>2
  <2> QED
    BY <2>1 DEF Rules, DraftRule
<1>9. \A o \in OrderIDs : OrderRules(o)'
  <2>1. ASSUME NEW o \in OrderIDs, o # x PROVE OrderRules(o)'
    BY <1>1, <1>4, <1>5, <1>7, <2>1, UnwrittenOrder
  <2> QED
    BY <1>4, <1>5, <2>1
<1>10. RequestRules(r)'
  BY <1>1, <1>2, <1>3, <1>4, <1>5, <1>7
     DEF RequestRules, LocksItsOrder, HoldsNoOrder, EditsDraft, EditMethods,
         FillsNewOrder, MovesPending, MarksPaid, OneCurrency, KeepsPrices,
         DeletesUnused, At, IsPlaced
<1>11. ChargeRule'
  BY <1>1, <1>2, <1>7, ChargesKept DEF Others, IsSettling
<1> QED
  BY <1>1, <1>4, <1>8, <1>9, <1>10, <1>11, TransactsIsEnough DEF RulesPreserved

\* CreateItem and DecreaseStock of CreateOrder: the line has the price of
\* the product, which the order has locked.
LEMMA CreateOrderLineRules ==
    ASSUME IInv, Rules, NEW r \in Requests, Preserved(r), CreateOrderLine(r)
    PROVE  Rules'
<1> USE NullAssumption, NoRowAssumption
<1>1. TypeOK /\ RequestInv(r) /\ RequestRules(r)
  BY DEF IInv, Rules
<1>2. /\ op[r] = "CreateOrder" /\ pc[r] = "lines"
      /\ UNCHANGED <<tables, ordersW, locks, ids,
                     op, pc, user, target, want, current, lines, payment>>
  BY DEF CreateOrderLine, At
<1>3. PICK p \in ProductIDs, s \in Slots :
          /\ seen[r][p] # NoRow
          /\ IsFreeSlot(itemsW[target[r]], s)
          /\ itemsW' = [itemsW EXCEPT ![target[r]] =
                          AppendLine(@, s, p, want[r][p], seen[r][p].price)]
          /\ DecreaseStock(p, want[r][p])
          /\ seen' = [seen EXCEPT ![r] = [@ EXCEPT ![p] = NoRow]]
  BY DEF CreateOrderLine, IsNextToTake
<1>4. target[r] \in OrderIDs /\ orderLock[target[r]] = r
  BY <1>1, <1>2 DEF RequestInv, OwnsTarget
<1>5. PICK x \in OrderIDs : x = target[r]
  BY <1>4
<1>6. /\ orders[x] = NoRow /\ IsPlaced(ordersW[x])
      /\ ~References(itemsW[x], p)
      /\ seen[r][p].currency = ordersW[x].currency
      /\ \A q \in ProductIDs : seen[r][q] # NoRow =>
            /\ ~References(itemsW[x], q)
            /\ seen[r][q].currency = ordersW[x].currency
  BY <1>1, <1>2, <1>3, <1>5 DEF RequestRules, FillsNewOrder, At
<1>7. Claim(r, p) /\ OrderRules(x) /\ itemsW[x] \in Lines
  BY <1>1, <1>3 DEF RequestInv, Rules, TypeOK
<1>8. \A q \in ProductIDs : SamePrice(productsW'[q], productsW[q])
  BY <1>3, DecreaseStockPrice
<1>9. /\ itemsW'[x] = AppendLine(itemsW[x], s, p, want[r][p], seen[r][p].price)
      /\ \A o \in OrderIDs \ {x} : itemsW'[o] = itemsW[o]
  BY <1>1, <1>3, <1>5 DEF TypeOK
<1>10. /\ OnceEach(itemsW'[x])
       /\ \A q \in ProductIDs : References(itemsW'[x], q) => References(itemsW[x], q) \/ q = p
  BY <1>3, <1>5, <1>6, <1>7, <1>9, AppendLineRules DEF OrderRules
<1>11. Transacts(r)
  BY <1>1, <1>2, <1>8 DEF Transacts, TypeOK, locks, ids
<1>12. UNCHANGED <<products, orders, items, ordersW, productLock, orderLock, nextOrder>>
  BY <1>2 DEF tables, locks, ids
<1>13. Priced(x)'
  <2>1. ASSUME NEW t \in Slots, itemsW'[x][t] # NoRow
        PROVE  /\ productLock[itemsW'[x][t].product] = r
               /\ productsW'[itemsW'[x][t].product].price = itemsW'[x][t].price
               /\ productsW'[itemsW'[x][t].product].currency = ordersW[x].currency
    <3>1. CASE t = s
      <4>1. itemsW'[x][s].product = p /\ itemsW'[x][s].price = seen[r][p].price
        BY <1>7, <1>9 DEF AppendLine, Lines
      <4> QED
        BY <1>6, <1>7, <1>8, <3>1, <4>1 DEF Claim, SamePrice
    <3>2. CASE t # s
      <4>1. itemsW'[x][t] = itemsW[x][t] /\ itemsW[x][t] # NoRow
        BY <1>7, <1>9, <2>1, <3>2 DEF AppendLine, Lines
      <4>2. itemsW[x][t].product \in ProductIDs
        BY <1>7, <4>1, LineRefers
      <4>3. Priced(x)
        BY <1>6, <1>7 DEF OrderRules, SoldPriced, IsPlaced
      <4> QED
        BY <1>4, <1>5, <1>8, <4>1, <4>2, <4>3 DEF Priced, SamePrice
    <3> QED
      BY <3>1, <3>2
  <2> QED
    BY <1>4, <1>5, <1>12, <2>1 DEF Priced
<1>14. OrderRules(x)'
  <2>1. NewLinesLocked(x)'
    BY <1>4, <1>5, <1>7, <1>10, <1>12 DEF OrderRules, NewLinesLocked, Claim
  <2>2. CommittedLinesExist(x)' /\ OnceEach(items[x])'
    BY <1>7, <1>12 DEF OrderRules, CommittedLinesExist, OnceEach, References
  <2> QED
    BY <1>6, <1>7, <1>10, <1>12, <1>13, <2>1, <2>2
       DEF OrderRules, OneMove, StatusOf, OnlyStatusMoves, SoldPriced, OnceEach, IsPlaced
<1>15. \A q \in ProductIDs : seen'[r][q] # NoRow => q # p /\ seen'[r][q] = seen[r][q]
  BY <1>1, <1>3 DEF TypeOK, Products
<1>16. FillsNewOrder(r)'
  BY <1>2, <1>5, <1>6, <1>10, <1>12, <1>15 DEF FillsNewOrder, At, IsPlaced
<1>17. RequestRules(r)'
  BY <1>1, <1>2, <1>12, <1>15, <1>16
     DEF RequestRules, LocksItsOrder, HoldsNoOrder, EditsDraft, EditMethods,
         MovesPending, MarksPaid, OneCurrency, KeepsPrices, DeletesUnused, At
<1>18. /\ \A u \in Users : IsDraft(ordersW'[x], u) => MayBeDraft(x, u)
       /\ \A o : IsSettling(r, o) => IsSettling(r, o)'
  BY <1>2, <1>12 DEF MayBeDraft, IsSettling
<1> QED
  BY <1>2, <1>9, <1>11, <1>12, <1>14, <1>17, <1>18, WrittenRules

-----------------------------------------------------------------------------
(* The cart.                                                               *)

\* The draft of the user is found; nothing is locked yet.
LEMMA GetDraftSnapshotRules ==
    ASSUME IInv, Rules, NEW r \in Requests, Preserved(r), GetDraftSnapshot(r)
    PROVE  Rules'
<1>1. TypeOK /\ RequestInv(r) /\ RequestRules(r)
  BY DEF IInv, Rules
<1>2. /\ pc[r] = "snapshot" /\ pc'[r] = "draft"
      /\ UNCHANGED <<database, op, user, want, seen, current, lines, payment>>
  BY <1>1 DEF GetDraftSnapshot, Goto, TypeOK
<1>3. op[r] \in {"GetCart", "AddItem", "UpdateItem", "DeleteItem", "Checkout"}
  BY <1>1, <1>2 DEF RequestInv
<1>4. RequestRules(r)'
  BY <1>1, <1>2, <1>3
     DEF RequestRules, LocksItsOrder, HoldsNoOrder, EditsDraft, EditMethods, OwnsTarget,
         FillsNewOrder, MovesPending, MarksPaid, OneCurrency, KeepsPrices,
         DeletesUnused, At, database, locks
<1> QED
  BY <1>2, <1>3, <1>4, ReadRules DEF database, locks

\* The draft is locked, and still a draft: no one has placed the order.
LEMMA GetDraftLockRules ==
    ASSUME IInv, Rules, NEW r \in Requests, Preserved(r), GetDraftLock(r)
    PROVE  Rules'
<1> USE NullAssumption, NoRowAssumption
<1>1. TypeOK /\ RowInv /\ RequestInv(r) /\ RequestRules(r)
  BY DEF IInv, Rules
<1>2. /\ pc[r] = "draft" /\ pc'[r] = AfterDraft(op[r])
      /\ OrderAvailable(r, target[r]) /\ LockOrder(r, target[r])
      /\ IsDraft(ordersW[target[r]], user[r])
      /\ UNCHANGED <<tables, working, productLock, ids, op, user, target, want,
                     seen, lines, payment>>
  BY <1>1 DEF GetDraftLock, Goto, TypeOK
<1>3. /\ op[r] \in {"GetCart", "AddItem", "UpdateItem", "DeleteItem", "Checkout"}
      /\ target[r] \in OrderIDs
  BY <1>1, <1>2 DEF RequestInv
<1>4. pc'[r] \in {"product", "remove", "items"}
      /\ (pc'[r] = "product" => op[r] \in {"AddItem", "UpdateItem"})
  BY <1>2, <1>3 DEF AfterDraft
<1>5. PICK x \in OrderIDs : x = target[r]
  BY <1>3
<1>6. orderLock[x] = None /\ ordersW[x].status = "draft"
  BY <1>1, <1>2, <1>5 DEF OrderAvailable, RequestRules, LocksItsOrder, HoldsNoOrder, IsDraft
<1>7. ~IsPlaced(orders[x])
  BY <1>1, <1>6, MovesKeepPlaced DEF Rules, OrderRules, RowInv, IsPlaced
<1>8. orderLock'[x] = r /\ \A o \in OrderIDs \ {x} : orderLock'[o] = orderLock[o]
  BY <1>1, <1>2, <1>5 DEF LockOrder, TypeOK
<1>9. UNCHANGED <<orders, ordersW>>
  BY <1>2 DEF tables, working
<1>10. EditsDraft(r)'
  BY <1>2, <1>5, <1>6, <1>7, <1>9 DEF EditsDraft, IsPlaced
<1>11. RequestRules(r)'
  BY <1>1, <1>2, <1>3, <1>4, <1>5, <1>8, <1>10
     DEF RequestRules, LocksItsOrder, HoldsNoOrder, OwnsTarget,
         FillsNewOrder, MovesPending, MarksPaid, OneCurrency, KeepsPrices,
         DeletesUnused, At
<1> QED
  BY <1>2, <1>3, <1>6, <1>8, <1>11, ReadRules

\* An order that the owner of a cart writes stays in order as long as it is
\* a draft, has one line per product, and he has locked the products that
\* it has lines of for the first time.
LEMMA EditedOrder ==
    ASSUME IInv, Rules, NEW r \in Requests, Transacts(r),
           NEW x \in OrderIDs, orderLock[x] = r, ~IsPlaced(orders[x]),
           ordersW[x].status = "draft", ordersW[x] # NoRow,
           ordersW'[x].status = "draft", ordersW'[x] # NoRow,
           OnceEach(itemsW'[x]),
           \A p \in ProductIDs : References(itemsW'[x], p) =>
               References(itemsW[x], p) \/ productLock'[p] = r
    PROVE  OrderRules(x)'
<1> USE NullAssumption, NoRowAssumption
<1>1. TypeOK /\ OrderRules(x) /\ UNCHANGED <<products, orders, items>>
  BY DEF IInv, Rules, Transacts, tables
<1>2. OneMove(x)' /\ OnlyStatusMoves(x)' /\ SoldPriced(x)'
  BY <1>1 DEF OrderRules, OneMove, StatusOf, OnlyStatusMoves, SoldPriced, IsPlaced
<1>3. NewLinesLocked(x)'
  <2>1. orderLock'[x] = r /\ \A p \in ProductIDs : productLock[p] = r => productLock'[p] = r
    BY DEF Transacts
  <2> QED
    BY <1>1, <2>1 DEF OrderRules, NewLinesLocked
<1>4. (x >= nextOrder => items[x] = NoLines)'
  <2>1. x \in Nat /\ nextOrder \in Nat /\ nextOrder' \in Nat /\ nextOrder' >= nextOrder
    BY <1>1 DEF OrderIDs, TypeOK, Transacts
  <2> QED
    BY <1>1, <2>1 DEF OrderRules
<1>5. CommittedLinesExist(x)' /\ OnceEach(items[x])'
  BY <1>1 DEF OrderRules, CommittedLinesExist, OnceEach, References
<1> QED
  BY <1>2, <1>3, <1>4, <1>5 DEF OrderRules, OnceEach

\* UPDATE orders SET total_amount, currency: a draft stays a draft.
LEMMA TotalWritten ==
    ASSUME IInv, NEW x \in OrderIDs, ordersW[x] # NoRow,
           NEW n \in Nat, NEW c \in Currencies \cup {NoCurrency}, UpdateTotal(x, n, c)
    PROVE  /\ ordersW'[x] # NoRow
           /\ ordersW'[x].status = ordersW[x].status
           /\ ordersW'[x].currency = c
           /\ \A u \in Users : IsDraft(ordersW'[x], u) => MayBeDraft(x, u)
           /\ \A o \in OrderIDs \ {x} : ordersW'[o] = ordersW[o]
<1>1. ordersW \in Orders /\ ordersW[x] \in OrderRow
  BY DEF IInv, TypeOK, Orders
<1>2. /\ WithTotal(ordersW[x], n, c).status = ordersW[x].status
      /\ WithTotal(ordersW[x], n, c).user = ordersW[x].user
      /\ WithTotal(ordersW[x], n, c).currency = c
  BY <1>1 DEF WithTotal, OrderRow
<1>3. ordersW'[x] # NoRow /\ \A o \in OrderIDs \ {x} : ordersW'[o] = ordersW[o]
  BY UpdateTotalStep
<1>4. ordersW'[x] = WithTotal(ordersW[x], n, c)
  BY <1>1 DEF UpdateTotal, Orders
<1> QED
  BY <1>2, <1>3, <1>4 DEF MayBeDraft, IsDraft

\* What r may rely on while it edits its cart.
LEMMA CartOf ==
    ASSUME IInv, Rules, NEW r \in Requests,
           (op[r] \in EditMethods /\ OwnsTarget(r)) \/ pc[r] = "recalculate"
    PROVE  /\ target[r] \in OrderIDs /\ orderLock[target[r]] = r
           /\ ordersW[target[r]] \in OrderRow /\ ordersW[target[r]] # NoRow
           /\ ordersW[target[r]].status = "draft"
           /\ ~IsPlaced(orders[target[r]])
           /\ itemsW[target[r]] \in Lines /\ OnceEach(itemsW[target[r]])
<1>1. RequestInv(r) /\ EditsDraft(r) /\ OwnsTarget(r)
  BY DEF IInv, Rules, RequestRules, OwnsTarget
<1>2. target[r] \in OrderIDs /\ orderLock[target[r]] = r /\ ordersW[target[r]] # NoRow
  BY <1>1 DEF RequestInv
<1> QED
  BY <1>1, <1>2 DEF EditsDraft, Rules, OrderRules, IInv, TypeOK, Orders

\* recalculate writes the total and the currency of the cart.
LEMMA RecalculateRules ==
    ASSUME IInv, Rules, NEW r \in Requests, Preserved(r), Recalculate(r)
    PROVE  Rules'
<1>1. TypeOK /\ RequestRules(r)
  BY DEF IInv, Rules
<1>2. /\ pc[r] = "recalculate" /\ pc'[r] = "commit"
      /\ UNCHANGED <<tables, productsW, itemsW, locks, ids,
                     op, user, target, want, seen, current, lines, payment>>
  BY <1>1 DEF Recalculate, Goto, TypeOK
<1>3. PICK x \in OrderIDs : x = target[r]
  BY <1>2, CartOf
<1>4. PICK n \in Nat, c \in Currencies \cup {NoCurrency} : UpdateTotal(x, n, c)
  BY <1>3 DEF Recalculate, IsAmount
<1>5. /\ orderLock[x] = r /\ ordersW[x] # NoRow /\ ordersW[x].status = "draft"
      /\ ~IsPlaced(orders[x]) /\ OnceEach(itemsW[x])
  BY <1>2, <1>3, CartOf
<1>6. /\ ordersW'[x] # NoRow /\ ordersW'[x].status = "draft"
      /\ \A u \in Users : IsDraft(ordersW'[x], u) => MayBeDraft(x, u)
      /\ \A o \in OrderIDs \ {x} : ordersW'[o] = ordersW[o]
  BY <1>1, <1>4, <1>5, TotalWritten
<1>7. Transacts(r)
  BY <1>1, <1>2 DEF Transacts, SamePrice, TypeOK, locks, ids
<1>8. OrderRules(x)'
  BY <1>2, <1>5, <1>6, <1>7, EditedOrder
<1>9. op[r] \notin {"PayOrder", "CreateProduct", "UpdateProduct", "DeleteProduct"}
  BY <1>1, <1>2, <1>3, <1>5
     DEF RequestRules, MovesPending, EditsDraft, OwnsTarget, LocksItsOrder, HoldsNoOrder
<1>10. RequestRules(r)'
  BY <1>1, <1>2, <1>9
     DEF RequestRules, LocksItsOrder, HoldsNoOrder, EditsDraft, EditMethods, OwnsTarget,
         FillsNewOrder, MovesPending, MarksPaid, OneCurrency, KeepsPrices,
         DeletesUnused, At, locks
<1>11. \A o : ~IsSettling(r, o)
  BY <1>2 DEF IsSettling
<1> QED
  BY <1>2, <1>6, <1>7, <1>8, <1>10, <1>11, WrittenRules

\* A statement on the lines of a cart.
LEMMA CartLinesRules ==
    ASSUME IInv, Rules, NEW r \in Requests, Preserved(r), NEW ls,
           op[r] \in EditMethods, OwnsTarget(r),
           itemsW' = [itemsW EXCEPT ![target[r]] = ls], Goto(r, "recalculate"),
           UNCHANGED <<tables, productsW, ordersW, orderLock, ids,
                       op, user, target, want, seen, payment>>,
           \A p \in ProductIDs : productLock'[p] = productLock[p] \/ productLock[p] = None,
           OnceEach(ls),
           \A p \in ProductIDs : References(ls, p) =>
               References(itemsW[target[r]], p) \/ productLock'[p] = r
    PROVE  Rules'
<1>1. TypeOK /\ RequestRules(r)
  BY DEF IInv, Rules
<1>2. PICK x \in OrderIDs : x = target[r]
  BY CartOf
<1>3. /\ orderLock[x] = r /\ ordersW[x] # NoRow /\ ordersW[x].status = "draft"
      /\ ~IsPlaced(orders[x])
  BY <1>2, CartOf
<1>4. itemsW'[x] = ls /\ \A o \in OrderIDs \ {x} : itemsW'[o] = itemsW[o]
  BY <1>1, <1>2 DEF TypeOK
<1>5. Transacts(r)
  BY <1>1 DEF Transacts, SamePrice, TypeOK, ids
<1>6. OrderRules(x)'
  BY <1>2, <1>3, <1>4, <1>5, EditedOrder
<1>7. pc'[r] = "recalculate" /\ UNCHANGED <<orders, ordersW>>
  BY <1>1 DEF Goto, TypeOK, tables
<1>8. RequestRules(r)'
  BY <1>1, <1>2, <1>3, <1>7
     DEF RequestRules, LocksItsOrder, HoldsNoOrder, EditsDraft, EditMethods,
         FillsNewOrder, MovesPending, MarksPaid, OneCurrency, KeepsPrices,
         DeletesUnused, At, IsPlaced
<1>9. /\ \A u \in Users : IsDraft(ordersW'[x], u) => MayBeDraft(x, u)
      /\ \A o : ~IsSettling(r, o)
      /\ op[r] # "PayOrder"
  BY <1>7 DEF MayBeDraft, IsSettling, EditMethods
<1> QED
  BY <1>4, <1>5, <1>6, <1>7, <1>8, <1>9, WrittenRules

\* AddItem and UpdateItem write a line of a product that they have locked.
LEMMA WriteLineRules ==
    ASSUME IInv, Rules, NEW r \in Requests, Preserved(r),
           AddItemToLine(r) \/ AddItemNewLine(r) \/ UpdateItemRun(r)
    PROVE  Rules'
<1>1. TypeOK /\ op[r] \in {"AddItem", "UpdateItem"} /\ pc[r] = "product"
  BY DEF IInv, AddItemToLine, AddItemNewLine, UpdateItemRun, At
<1>2. OwnsTarget(r) /\ op[r] \in EditMethods
  BY <1>1 DEF OwnsTarget, EditMethods
<1>3. PICK x \in OrderIDs : x = target[r]
  BY <1>2, CartOf
<1>4. itemsW[x] \in Lines /\ OnceEach(itemsW[x])
  BY <1>2, <1>3, CartOf
<1>5. PICK p, q, ls :
          /\ p \in ProductIDs
          /\ WriteLine(r, p, q, ls)
          /\ OnceEach(ls)
          /\ \A y \in ProductIDs : References(ls, y) => References(itemsW[x], y) \/ y = p
  <2>1. CASE AddItemToLine(r)
    <3>1. PICK p, q : p \in ProductIDs /\ WriteLine(r, p, q, WithQuantity(itemsW[x], p, q))
      BY <1>3, <2>1 DEF AddItemToLine
    <3> QED
      BY <1>4, <3>1, WithQuantityRules
  <2>2. CASE UpdateItemRun(r)
    <3>1. PICK p, q : p \in ProductIDs /\ WriteLine(r, p, q, WithQuantity(itemsW[x], p, q))
      BY <1>3, <2>2 DEF UpdateItemRun
    <3> QED
      BY <1>4, <3>1, WithQuantityRules
  <2>3. CASE AddItemNewLine(r)
    <3>1. PICK p, s, q :
              /\ p \in ProductIDs /\ s \in Slots
              /\ ~References(itemsW[x], p) /\ IsFreeSlot(itemsW[x], s)
              /\ WriteLine(r, p, q, AppendLine(itemsW[x], s, p, q, productsW[p].price))
      BY <1>3, <2>3 DEF AddItemNewLine
    <3> QED
      BY <1>4, <3>1, AppendLineRules
  <2> QED
    BY <2>1, <2>2, <2>3
<1>6. /\ itemsW' = [itemsW EXCEPT ![target[r]] = ls] /\ Goto(r, "recalculate")
      /\ productLock[p] \in {None, r} /\ productLock' = [productLock EXCEPT ![p] = r]
      /\ UNCHANGED <<tables, productsW, ordersW, orderLock, ids,
                     op, user, target, want, seen, payment>>
  BY <1>5 DEF WriteLine, ProductAvailable, LockProduct
<1>7. /\ \A y \in ProductIDs : productLock'[y] = productLock[y] \/ productLock[y] = None
      /\ productLock'[p] = r
  BY <1>1, <1>5, <1>6 DEF TypeOK
<1> QED
  BY <1>2, <1>3, <1>5, <1>6, <1>7, CartLinesRules

\* DeleteItem removes the line of a product.
LEMMA DeleteItemRules ==
    ASSUME IInv, Rules, NEW r \in Requests, Preserved(r), DeleteItemRun(r)
    PROVE  Rules'
<1>1. /\ op[r] = "DeleteItem" /\ pc[r] = "remove" /\ Goto(r, "recalculate")
      /\ UNCHANGED <<tables, productsW, ordersW, locks, ids,
                     op, user, target, want, seen, current, lines, payment>>
  BY DEF DeleteItemRun, At
<1>2. OwnsTarget(r) /\ op[r] \in EditMethods
  BY <1>1 DEF OwnsTarget, EditMethods
<1>3. PICK p \in ProductIDs :
          itemsW' = [itemsW EXCEPT ![target[r]] = WithoutProduct(itemsW[target[r]], p)]
  BY DEF DeleteItemRun
<1>4. itemsW[target[r]] \in Lines /\ OnceEach(itemsW[target[r]])
  BY <1>2, CartOf
<1>5. /\ OnceEach(WithoutProduct(itemsW[target[r]], p))
      /\ \A y \in ProductIDs :
            References(WithoutProduct(itemsW[target[r]], p), y) => References(itemsW[target[r]], y)
  BY <1>4, WithoutProductRules
<1> QED
  BY <1>1, <1>2, <1>3, <1>5, CartLinesRules DEF locks

\* Checkout fixes the prices: every line gets the price that the product,
\* which it has locked, has now.
LEMMA CheckoutPriceRules ==
    ASSUME IInv, Rules, NEW r \in Requests, Preserved(r), CheckoutPrice(r)
    PROVE  Rules'
<1>1. TypeOK /\ RequestInv(r) /\ RequestRules(r)
  BY DEF IInv, Rules
<1>2. /\ op[r] = "Checkout" /\ pc[r] = "price" /\ pc'[r] = "take"
      /\ UNCHANGED <<tables, productsW, locks, ids,
                     op, user, target, want, seen, current, lines, payment>>
  BY <1>1 DEF CheckoutPrice, At, Goto, TypeOK
<1>3. OwnsTarget(r) /\ op[r] \in EditMethods
  BY <1>2 DEF OwnsTarget, EditMethods
<1>4. PICK x \in OrderIDs : x = target[r]
  BY <1>3, CartOf
<1>5. /\ orderLock[x] = r /\ ordersW[x] # NoRow /\ ordersW[x].status = "draft"
      /\ ~IsPlaced(orders[x]) /\ itemsW[x] \in Lines /\ OnceEach(itemsW[x])
  BY <1>3, <1>4, CartOf
<1>6. PICK c \in Currencies, n \in Nat : IsSaleCurrency(r, c) /\ UpdateTotal(x, n, c)
  BY <1>4 DEF CheckoutPrice, IsAmount
<1>7. /\ ordersW'[x] # NoRow /\ ordersW'[x].status = "draft" /\ ordersW'[x].currency = c
      /\ \A u \in Users : IsDraft(ordersW'[x], u) => MayBeDraft(x, u)
      /\ \A o \in OrderIDs \ {x} : ordersW'[o] = ordersW[o]
  BY <1>5, <1>6, TotalWritten
<1>8. /\ itemsW'[x] = AtCurrentPrices(itemsW[x])
      /\ \A o \in OrderIDs \ {x} : itemsW'[o] = itemsW[o]
  BY <1>1, <1>4 DEF CheckoutPrice, TypeOK
<1>9. /\ OnceEach(itemsW'[x])
      /\ \A p \in ProductIDs : References(itemsW'[x], p) => References(itemsW[x], p)
      /\ \A s \in Slots : itemsW'[x][s] # NoRow =>
            /\ itemsW[x][s] # NoRow
            /\ itemsW'[x][s].product = itemsW[x][s].product
            /\ itemsW'[x][s].price = productsW[itemsW[x][s].product].price
  BY <1>5, <1>8, AtCurrentPricesRules
<1>10. Transacts(r)
  BY <1>1, <1>2 DEF Transacts, SamePrice, TypeOK, locks, ids
<1>11. OrderRules(x)'
  BY <1>2, <1>5, <1>7, <1>9, <1>10, EditedOrder
<1>12. Priced(x)'
  <2>1. ASSUME NEW s \in Slots, itemsW'[x][s] # NoRow
        PROVE  /\ productLock[itemsW'[x][s].product] = r
               /\ productsW[itemsW'[x][s].product].price = itemsW'[x][s].price
               /\ productsW[itemsW'[x][s].product].currency = c
    <3>1. PICK p \in ProductIDs : p = itemsW[x][s].product
      BY <1>5, <1>9, <2>1, LineRefers
    <3>2. want[r][p] > 0
      BY <1>1, <1>2, <1>4, <1>9, <2>1, <3>1 DEF RequestInv, CartIsWanted
    <3>3. seen[r][p] # NoRow /\ Claim(r, p)
      BY <1>1, <1>2, <3>2 DEF RequestInv, AllLocked
    <3>4. seen[r][p].currency = c
      BY <1>1, <1>6, <3>3 DEF IsSaleCurrency, RequestRules, OneCurrency
    <3> QED
      BY <1>9, <2>1, <3>1, <3>3, <3>4 DEF Claim
  <2>2. UNCHANGED <<productsW, productLock, orderLock>>
    BY <1>2 DEF locks
  <2> QED
    BY <1>5, <1>7, <2>1, <2>2 DEF Priced
<1>13. UNCHANGED <<orders, orderLock>>
  BY <1>2 DEF tables, locks
<1>14. EditsDraft(r)' /\ KeepsPrices(r)'
  BY <1>2, <1>4, <1>5, <1>7, <1>12, <1>13 DEF EditsDraft, KeepsPrices, IsPlaced
<1>15. RequestRules(r)'
  BY <1>1, <1>2, <1>13, <1>14
     DEF RequestRules, LocksItsOrder, HoldsNoOrder, FillsNewOrder, MovesPending,
         MarksPaid, OneCurrency, DeletesUnused, At
<1>16. \A o : ~IsSettling(r, o)
  BY <1>2 DEF IsSettling
<1> QED
  BY <1>2, <1>7, <1>8, <1>10, <1>11, <1>15, <1>16, WrittenRules

\* The draft becomes pending, with the prices Checkout has fixed.
LEMMA CheckoutSubmitRules ==
    ASSUME IInv, Rules, NEW r \in Requests, Preserved(r), CheckoutSubmit(r)
    PROVE  Rules'
<1> USE NullAssumption, NoRowAssumption
<1>1. TypeOK /\ RequestInv(r) /\ RequestRules(r)
  BY DEF IInv, Rules
<1>2. /\ op[r] = "Checkout" /\ pc[r] = "take" /\ pc'[r] = "commit"
      /\ SetStatus(target[r], "pending")
      /\ UNCHANGED <<tables, productsW, itemsW, locks, ids,
                     op, user, target, want, seen, current, lines, payment>>
  BY <1>1 DEF CheckoutSubmit, At, Goto, TypeOK
<1>3. OwnsTarget(r) /\ op[r] \in EditMethods
  BY <1>2 DEF OwnsTarget, EditMethods
<1>4. PICK x \in OrderIDs : x = target[r]
  BY <1>3, CartOf
<1>5. /\ orderLock[x] = r /\ ordersW[x] # NoRow /\ ordersW[x] \in OrderRow
      /\ ~IsPlaced(orders[x])
  BY <1>3, <1>4, CartOf
<1>6. Priced(x) /\ OrderRules(x)
  BY <1>1, <1>2, <1>4 DEF RequestRules, KeepsPrices, At, Rules
<1>7. /\ ordersW'[x] = WithStatus(ordersW[x], "pending")
      /\ \A o \in OrderIDs \ {x} : ordersW'[o] = ordersW[o]
  BY <1>1, <1>2, <1>4 DEF SetStatus, TypeOK, Orders
<1>8. /\ WithStatus(ordersW[x], "pending") \in OrderRow
      /\ WithStatus(ordersW[x], "pending").status = "pending"
      /\ WithStatus(ordersW[x], "pending").currency = ordersW[x].currency
  BY <1>5 DEF WithStatus, OrderRow, Statuses
<1>9. UNCHANGED <<products, orders, items, productsW, itemsW, productLock, orderLock, nextOrder>>
  BY <1>2 DEF tables, locks, ids
<1>10. Transacts(r)
  BY <1>1, <1>9 DEF Transacts, SamePrice, TypeOK, tables
<1>11. OneMove(x)'
  <2>1. StatusOf(orders[x]) \in {Absent, "draft"}
    BY <1>5 DEF StatusOf, IsPlaced
  <2>2. "pending" \in Lifecycle!Successors(StatusOf(orders[x]))
    BY <2>1 DEF Lifecycle!Successors, Lifecycle!Moves, Absent
  <2> QED
    BY <1>7, <1>8, <1>9, <2>2 DEF OneMove, StatusOf
<1>12. Priced(x)'
  BY <1>6, <1>7, <1>8, <1>9 DEF Priced
<1>13. OrderRules(x)'
  BY <1>5, <1>6, <1>9, <1>11, <1>12
     DEF OrderRules, OnlyStatusMoves, OnceEach, NewLinesLocked, SoldPriced,
         CommittedLinesExist, References, IsPlaced
<1>14. RequestRules(r)'
  BY <1>1, <1>2, <1>9
     DEF RequestRules, LocksItsOrder, HoldsNoOrder, EditsDraft, EditMethods, OwnsTarget,
         FillsNewOrder, MovesPending, MarksPaid, OneCurrency, KeepsPrices,
         DeletesUnused, At
<1>15. /\ \A u \in Users : ~IsDraft(ordersW'[x], u)
       /\ \A o : ~IsSettling(r, o)
  BY <1>2, <1>7, <1>8 DEF IsDraft, IsSettling
<1> QED
  BY <1>2, <1>7, <1>9, <1>10, <1>13, <1>14, <1>15, WrittenRules

-----------------------------------------------------------------------------
(* The invariant.                                                          *)

\* Every step of the order service.
LEMMA OrderServiceStepRules ==
    ASSUME IInv, Rules, NEW r \in Requests, Preserved(r), OrderServiceStep(r)
    PROVE  Rules'
<1>1. CASE CreateOrderLock(r)
  BY <1>1, LockSaleRules
<1>2. CASE CreateOrderInsert(r)
  BY <1>2, CreateOrderInsertRules
<1>3. CASE CreateOrderLine(r)
  BY <1>3, CreateOrderLineRules
<1>4. CASE CreateOrderDone(r)
  BY <1>4, GotoRules DEF CreateOrderDone, At, Labels
<1>5. CASE CancelOrderRead(r) \/ PayOrderRead(r)
  BY <1>5, ReadOrderRules
<1>6. CASE CancelOrderRestock(r)
  BY <1>6, RestockRules
<1>7. CASE CancelOrderRestocked(r)
  BY <1>7, GotoRules DEF CancelOrderRestocked, At, Labels
<1>8. CASE CancelOrderMark(r) \/ PayOrderMark(r)
  BY <1>8, MarkRules
<1>9. CASE PayOrderSucceeds(r)
  BY <1>9, PayOrderSucceedsRules
<1>10. CASE PayOrderTimesOut(r)
  BY <1>10, PayOrderTimesOutRules
<1>11. CASE UpdateOrderStatusRun(r)
  BY <1>11, UpdateOrderStatusRules
<1>12. CASE GetOrderRow(r)
  BY <1>12, GotoRules DEF GetOrderRow, At, Labels
<1>13. CASE GetOrderItems(r)
  BY <1>13, GotoRules DEF GetOrderItems, At, Labels
<1>14. CASE CreateOrderRefuse(r) \/ CancelOrderRefuse(r) \/ PayOrderRefuse(r)
            \/ PayOrderFails(r) \/ UpdateOrderStatusRefuse(r) \/ GetOrderRefuse(r)
  BY <1>14, RejectRules DEF CreateOrderRefuse, RefuseSale, CancelOrderRefuse,
     PayOrderRefuse, RefuseOrder, PayOrderFails, UpdateOrderStatusRefuse, GetOrderRefuse, At
<1> QED
  BY <1>1, <1>2, <1>3, <1>4, <1>5, <1>6, <1>7, <1>8, <1>9, <1>10, <1>11, <1>12,
     <1>13, <1>14 DEF OrderServiceStep

\* Every step of the cart service.
LEMMA CartServiceStepRules ==
    ASSUME IInv, Rules, NEW r \in Requests, Preserved(r), CartServiceStep(r)
    PROVE  Rules'
<1>1. CASE GetDraftSnapshot(r)
  BY <1>1, GetDraftSnapshotRules
<1>2. CASE GetDraftLock(r)
  BY <1>2, GetDraftLockRules
<1>3. CASE GetCartEmpty(r)
  BY <1>3, GotoRules DEF GetCartEmpty, Labels
<1>4. CASE GetCartItems(r)
  BY <1>4, GotoRules DEF GetCartItems, At, Labels
<1>5. CASE AddItemNoDraft(r)
  BY <1>5, GotoRules DEF AddItemNoDraft, NoDraft, Labels
<1>6. CASE CreateDraft(r)
  BY <1>6, CreateDraftRules
<1>7. CASE Recalculate(r)
  BY <1>7, RecalculateRules
<1>8. CASE AddItemToLine(r) \/ AddItemNewLine(r) \/ UpdateItemRun(r)
  BY <1>8, WriteLineRules
<1>9. CASE DeleteItemRun(r)
  BY <1>9, DeleteItemRules
<1>10. CASE CheckoutItems(r)
  BY <1>10, GotoRules DEF CheckoutItems, At, Labels
<1>11. CASE CheckoutLock(r)
  BY <1>11, LockSaleRules
<1>12. CASE CheckoutPrice(r)
  BY <1>12, CheckoutPriceRules
<1>13. CASE CheckoutTake(r)
  BY <1>13, CheckoutTakeRules
<1>14. CASE CheckoutSubmit(r)
  BY <1>14, CheckoutSubmitRules
<1>15. CASE CartNotFound(r) \/ CreateDraftRefuse(r) \/ RecalculateRefuse(r)
            \/ AddItemRefuse(r) \/ UpdateItemRefuse(r) \/ DeleteItemRefuse(r)
            \/ EmptyCart(r) \/ CheckoutRefuse(r)
  BY <1>15, RejectRules DEF CartNotFound, CreateDraftRefuse, RecalculateRefuse,
     AddItemRefuse, UpdateItemRefuse, DeleteItemRefuse, EmptyCart, CheckoutRefuse,
     RefuseSale, At
<1> QED
  BY <1>1, <1>2, <1>3, <1>4, <1>5, <1>6, <1>7, <1>8, <1>9, <1>10, <1>11, <1>12,
     <1>13, <1>14, <1>15 DEF CartServiceStep

\* Every step of the product service.
LEMMA ProductServiceStepRules ==
    ASSUME IInv, Rules, NEW r \in Requests, Preserved(r), ProductServiceStep(r)
    PROVE  Rules'
<1>1. CASE CreateProduct(r) \/ UpdateProduct(r) \/ DeleteProduct(r)
  BY <1>1, ProductServiceRules
<1>2. CASE DeleteProductChecked(r)
  BY <1>2, DeleteCheckedRules
<1>3. CASE ProductNotFound(r) \/ DeleteProductRefuse(r)
  BY <1>3, RejectRules DEF ProductNotFound, DeleteProductRefuse, At
<1> QED
  BY <1>1, <1>2, <1>3 DEF ProductServiceStep

\* No order exists, nothing is locked and no request runs.
LEMMA InitRules == Init => Rules
<1> SUFFICES ASSUME Init PROVE Rules
  OBVIOUS
<1>1. /\ \A o \in OrderIDs : /\ orders[o] = NoRow /\ ordersW[o] = NoRow
                             /\ items[o] = NoLines /\ itemsW[o] = NoLines
                             /\ orderLock[o] = None
      /\ charged = {}
  BY DEF Init, StoreInit, PaymentInit
<1>2. \A s \in Slots : NoLines[s] = NoRow
  BY DEF NoLines
<1>3. \A o \in OrderIDs : OrderRules(o)
  BY <1>1, <1>2 DEF OrderRules, OneMove, StatusOf, OnlyStatusMoves, OnceEach,
     NewLinesLocked, SoldPriced, CommittedLinesExist, References, IsPlaced
<1>4. DraftRule /\ ChargeRule
  BY <1>1 DEF DraftRule, MayBeDraft, IsDraft, ChargeRule
<1>5. ASSUME NEW r \in Requests PROVE RequestRules(r)
  <2>1. op[r] = "none" /\ pc[r] = "idle" /\ seen[r] = NoProduct
    BY DEF Init, StoreInit
  <2>2. \A o \in OrderIDs : orderLock[o] # r
    BY <1>1, NullAssumption
  <2> QED
    BY <2>1, <2>2
       DEF RequestRules, LocksItsOrder, EditsDraft, EditMethods, FillsNewOrder,
           MovesPending, MarksPaid, OneCurrency, KeepsPrices, DeletesUnused, At, NoProduct
<1> QED
  BY <1>3, <1>4, <1>5 DEF Rules

\* Every step of the backend preserves Rules, given IInv.
LEMMA NextRules == IInv /\ Rules /\ [Next]_vars => Rules'
<1> SUFFICES ASSUME IInv, Rules, [Next]_vars PROVE Rules'
  OBVIOUS
<1>1. CASE Next
  <2>1. PICK r \in Requests : Begins(r) \/ Step(r) \/ Abort(r)
    BY <1>1 DEF Next
  <2>2. CASE Begins(r)
    BY <2>2, BeginsPreserve, BeginsRules
  <2>3. CASE Abort(r)
    BY <2>3, AbortPreserves, AbortRules
  <2>4. CASE OrderServiceStep(r)
    BY <2>4, OrderServiceStepPreserves, OrderServiceStepRules
  <2>5. CASE CartServiceStep(r)
    BY <2>5, CartServiceStepPreserves, CartServiceStepRules
  <2>6. CASE ProductServiceStep(r)
    BY <2>6, ProductServiceStepPreserves, ProductServiceStepRules
  <2>7. CASE CommitRequest(r)
    BY <2>7, CommitPreserves, CommitRules
  <2>8. CASE TableFull(r)
    BY <2>8, RejectPreserves, RejectRules DEF TableFull, At
  <2> QED
    BY <2>1, <2>2, <2>3, <2>4, <2>5, <2>6, <2>7, <2>8 DEF Step
<1>2. CASE UNCHANGED vars
  <2>1. /\ UNCHANGED <<products, orders, items, productsW, ordersW, itemsW,
                       productLock, orderLock, nextOrder, charged, unsettled>>
        /\ UNCHANGED <<op, pc, target, want, seen>>
    BY <1>2 DEF vars, database, tables, working, locks, ids, session, payment
  <2>2. ASSUME NEW o \in OrderIDs PROVE OrderRules(o)'
    BY <2>1 DEF Rules, OrderRules, OneMove, StatusOf, OnlyStatusMoves, OnceEach,
       NewLinesLocked, SoldPriced, Priced, CommittedLinesExist, References, IsPlaced
  <2>3. DraftRule' /\ ChargeRule'
    BY <2>1 DEF Rules, DraftRule, MayBeDraft, ChargeRule, IsSettling, IsPaid
  <2>4. ASSUME NEW r \in Requests PROVE RequestRules(r)'
    BY <2>1 DEF Rules, RequestRules, LocksItsOrder, HoldsNoOrder, EditsDraft, OwnsTarget,
       FillsNewOrder, MovesPending, MarksPaid, OneCurrency, KeepsPrices, Priced,
       DeletesUnused, At, References, IsPlaced, IsPaid
  <2> QED
    BY <2>2, <2>3, <2>4 DEF Rules
<1> QED
  BY <1>1, <1>2

\* Rules is an invariant of the backend.
THEOREM RulesHold == Spec => []Rules
<1>1. Init => IInv /\ Rules
  BY InitIInv, InitRules
<1>2. IInv /\ Rules /\ [Next]_vars => (IInv /\ Rules)'
  BY NextIInv, NextRules
<1> QED
  BY <1>1, <1>2, PTL DEF Spec

-----------------------------------------------------------------------------
(* What is true of the committed rows.                                     *)

\* "A user always has at most one active cart", for any number of users and
\* of AddItem and Checkout requests in any order.
THEOREM DraftsAreUnique == Spec => []OneDraftPerUser
<1>1. Rules => OneDraftPerUser
  BY DEF Rules, DraftRule, MayBeDraft, OneDraftPerUser
<1> QED
  BY <1>1, RulesHold, PTL

\* No order has two lines of one product, although the schema would let it:
\* AddItem looks for the line before it inserts one, CreateOrder merges the
\* lines of the call, and both hold the lock of the order they write.
THEOREM LinesAreOncePerProduct == Spec => []OneLinePerProduct
<1>1. Rules => OneLinePerProduct
  BY DEF Rules, OrderRules, OnceEach, OneLinePerProduct
<1> QED
  BY <1>1, RulesHold, PTL

\* No line refers to a product that DeleteProduct has removed: who adds a
\* line keeps the product locked until he commits, and the foreign key sees
\* the lines of the others.
THEOREM LinesKeepTheirProducts == Spec => []LinesHaveProducts
<1>1. IInv /\ Rules => LinesHaveProducts
  <2> SUFFICES ASSUME IInv, Rules, NEW o \in OrderIDs, NEW s \in Slots, items[o][s] # NoRow
               PROVE  products[items[o][s].product] # NoRow
    BY DEF LinesHaveProducts
  <2>1. items[o] \in Lines
    BY DEF IInv, TypeOK
  <2>2. items[o][s].product \in ProductIDs /\ References(items[o], items[o][s].product)
    BY <2>1, LineRefers
  <2> QED
    BY <2>2 DEF Rules, OrderRules, CommittedLinesExist
<1> QED
  BY <1>1, InvariantHolds, RulesHold, PTL

\* Money that was taken and not lost with a rolled-back PayOrder is for an
\* order that is paid, or that PayOrder holds locked and is about to mark.
THEOREM ChargesAreSettled == Spec => []ChargedOrdersGetPaid
<1>1. Rules => ChargedOrdersGetPaid
  BY DEF Rules, ChargeRule, IsPaid, PaidStatuses, IsSettling, ChargedOrdersGetPaid
<1> QED
  BY <1>1, RulesHold, PTL

\* Two PayOrders never both pay for one order: who is about to call the
\* provider has locked an order that is pending, so it is not paid, and
\* nobody else can be about to mark it or to commit.
THEOREM OrdersArePaidOnce == Spec => []NoSecondCharge
<1>1. ASSUME IInv, Rules PROVE NoSecondCharge
  <2> SUFFICES ASSUME NEW r \in Requests, At(r, "PayOrder", "charge"),
                      target[r] \in charged \ unsettled
               PROVE  FALSE
    BY DEF NoSecondCharge
  <2>1. op[r] = "PayOrder" /\ pc[r] = "charge" /\ OwnsTarget(r)
    BY DEF At, OwnsTarget
  <2>2. orderLock[target[r]] = r
    BY <1>1, <2>1 DEF IInv, RequestInv
  <2>3. ~IsPaid(orders[target[r]])
    BY <1>1, <2>1 DEF Rules, RequestRules, MovesPending, IsPaid, PaidStatuses
  <2>4. PICK t \in Requests : IsSettling(t, target[r])
    BY <1>1, <2>3 DEF Rules, ChargeRule
  <2>5. orderLock[target[r]] = t
    <3>1. CASE pc[t] = "mark"
      BY <1>1, <2>4, <3>1 DEF IInv, RequestInv, OwnsTarget, IsSettling
    <3>2. CASE pc[t] = "commit"
      BY <1>1, <2>4, <3>2 DEF Rules, RequestRules, MarksPaid, IsSettling, At
    <3> QED
      BY <2>4, <3>1, <3>2 DEF IsSettling
  <2> QED
    BY <2>1, <2>2, <2>4, <2>5 DEF IsSettling
<1> QED
  BY <1>1, InvariantHolds, RulesHold, PTL

-----------------------------------------------------------------------------
(* What a commit may do.                                                   *)

\* Nothing but a commit changes the rows that everyone sees.
LEMMA OnlyCommitsWrite ==
    ASSUME IInv, NEW r \in Requests, Begins(r) \/ Step(r) \/ Abort(r), ~CommitRequest(r)
    PROVE  UNCHANGED <<products, orders, items>>
<1>1. CASE Begins(r)
  <2>1. CASE OrderServiceBegin(r)
    BY <2>1 DEF OrderServiceBegin, BeginCreateOrder, BeginCancelOrder, BeginPayOrder,
       BeginUpdateOrderStatus, BeginGetOrder, BeginOnOrder, Begin, database, tables
  <2>2. CASE CartServiceBegin(r)
    BY <2>2 DEF CartServiceBegin, BeginGetCart, BeginAddItem, BeginUpdateItem,
       BeginDeleteItem, BeginCheckout, BeginOnItem, BeginCart, Begin, database, tables
  <2>3. CASE ProductServiceBegin(r)
    BY <2>3 DEF ProductServiceBegin, BeginCreateProduct, BeginUpdateProduct,
       BeginDeleteProduct, BeginOnProduct, Begin, database, tables
  <2> QED
    BY <1>1, <2>1, <2>2, <2>3 DEF Begins
<1>2. CASE Abort(r) \/ TableFull(r)
  BY <1>2 DEF Abort, TableFull, Reject, Rollback, tables
<1>3. CASE OrderServiceStep(r)
  BY <1>3 DEF OrderServiceStep, CreateOrderLock, CreateOrderRefuse, CreateOrderInsert,
     CreateOrderLine, CreateOrderDone, CancelOrderRead, CancelOrderRefuse,
     CancelOrderRestock, CancelOrderRestocked, CancelOrderMark, PayOrderRead,
     PayOrderRefuse, PayOrderSucceeds, PayOrderFails, PayOrderTimesOut, PayOrderMark,
     UpdateOrderStatusRun, UpdateOrderStatusRefuse, GetOrderRow, GetOrderRefuse,
     GetOrderItems, LockSaleProduct, ReadOrderForUpdate, Mark, RefuseSale, RefuseOrder,
     Reject, Rollback, database, tables
<1>4. CASE CartServiceStep(r)
  BY <1>4 DEF CartServiceStep, GetDraftSnapshot, GetDraftLock, CartNotFound, GetCartEmpty,
     GetCartItems, AddItemNoDraft, CreateDraft, CreateDraftRefuse, Recalculate,
     RecalculateRefuse, AddItemToLine, AddItemNewLine, AddItemRefuse, UpdateItemRun,
     UpdateItemRefuse, DeleteItemRun, DeleteItemRefuse, CheckoutItems, EmptyCart,
     CheckoutLock, CheckoutRefuse, CheckoutPrice, CheckoutTake, CheckoutSubmit,
     WriteLine, LockSaleProduct, RefuseSale, Reject, Rollback, database, tables
<1>5. CASE ProductServiceStep(r)
  BY <1>5 DEF ProductServiceStep, CreateProduct, UpdateProduct, ProductNotFound,
     DeleteProduct, DeleteProductChecked, DeleteProductRefuse, Reject, Rollback,
     database, tables
<1> QED
  BY <1>1, <1>2, <1>3, <1>4, <1>5 DEF Step

\* A step of the backend commits the rows that one request has locked, or
\* changes no row that everyone sees.
LEMMA StepOrCommit ==
    ASSUME IInv, [Next]_vars
    PROVE  \/ UNCHANGED <<products, orders, items>>
           \/ \E r \in Requests :
                /\ products' = [p \in ProductIDs |->
                                  IF productLock[p] = r THEN productsW[p] ELSE products[p]]
                /\ orders' = [o \in OrderIDs |->
                                  IF orderLock[o] = r THEN ordersW[o] ELSE orders[o]]
                /\ items' = [o \in OrderIDs |->
                                  IF orderLock[o] = r THEN itemsW[o] ELSE items[o]]
<1>1. CASE UNCHANGED vars
  BY <1>1 DEF vars, database, tables
<1>2. CASE Next
  <2>1. PICK r \in Requests : Begins(r) \/ Step(r) \/ Abort(r)
    BY <1>2 DEF Next
  <2>2. CASE CommitRequest(r)
    BY <2>2 DEF CommitRequest, Commit
  <2>3. CASE ~CommitRequest(r)
    BY <2>1, <2>3, OnlyCommitsWrite
  <2> QED
    BY <2>2, <2>3
<1> QED
  BY <1>1, <1>2

\* Once an order is placed, no request of a customer or an administrator
\* changes its owner, its lines, their prices, its total or its currency, and
\* it never becomes a cart again.
THEOREM PlacedOrdersStayFixed == Spec => PlacedOrdersAreFixed
<1>1. ASSUME IInv, Rules, [Next]_vars, NEW o \in OrderIDs, IsPlaced(orders[o])
      PROVE  /\ IsPlaced(orders'[o])
             /\ items'[o] = items[o]
             /\ [orders'[o] EXCEPT !.status = orders[o].status] = orders[o]
  <2>1. CASE orders'[o] = orders[o] /\ items'[o] = items[o]
    <3>1. orders[o] \in OrderRow
      BY <1>1 DEF IInv, TypeOK, Orders, IsPlaced
    <3>2. [orders[o] EXCEPT !.status = orders[o].status] = orders[o]
      BY <3>1 DEF OrderRow
    <3> QED
      BY <1>1, <2>1, <3>2
  <2>2. CASE orders'[o] = ordersW[o] /\ items'[o] = itemsW[o]
    <3>1. TypeOK /\ OrdersStay /\ OneMove(o) /\ OnlyStatusMoves(o)
      BY <1>1 DEF IInv, RowInv, Rules, OrderRules
    <3>2. IsPlaced(ordersW[o])
      BY <1>1, <3>1, MovesKeepPlaced
    <3> QED
      BY <1>1, <2>2, <3>1, <3>2 DEF OnlyStatusMoves
  <2> QED
    BY <1>1, <2>1, <2>2, StepOrCommit
<1>2. IInv /\ Rules /\ [Next]_vars =>
        [\A o \in OrderIDs :
            IsPlaced(orders[o]) =>
                /\ IsPlaced(orders'[o])
                /\ items'[o] = items[o]
                /\ [orders'[o] EXCEPT !.status = orders[o].status] = orders[o]]_vars
  BY <1>1
<1> QED
  BY <1>2, InvariantHolds, RulesHold, PTL DEF Spec, PlacedOrdersAreFixed

\* "The price is fixed at the moment of checkout": in the commit that places
\* an order its lines have the prices, and it has the currency, that the
\* products have after that commit.
THEOREM SalesAreAtCurrentPrices == Spec => SoldAtCurrentPrice
<1>1. ASSUME IInv, Rules, [Next]_vars, NEW o \in OrderIDs, NEW s \in Slots,
             IsPlaced(orders'[o]), ~IsPlaced(orders[o]), items'[o][s] # NoRow
      PROVE  /\ products'[items'[o][s].product].price = items'[o][s].price
             /\ products'[items'[o][s].product].currency = orders'[o].currency
  <2>1. PICK r \in Requests :
            /\ products' = [p \in ProductIDs |->
                              IF productLock[p] = r THEN productsW[p] ELSE products[p]]
            /\ orders' = [q \in OrderIDs |->
                              IF orderLock[q] = r THEN ordersW[q] ELSE orders[q]]
            /\ items' = [q \in OrderIDs |->
                              IF orderLock[q] = r THEN itemsW[q] ELSE items[q]]
    BY <1>1, StepOrCommit DEF IsPlaced
  <2>2. orderLock[o] = r /\ orders'[o] = ordersW[o] /\ items'[o] = itemsW[o]
    BY <1>1, <2>1 DEF IsPlaced
  <2>3. Priced(o)
    BY <1>1, <2>2 DEF Rules, OrderRules, SoldPriced, IsPlaced
  <2>4. itemsW[o] \in Lines
    BY <1>1 DEF IInv, TypeOK
  <2>5. PICK p \in ProductIDs : p = itemsW[o][s].product
    BY <1>1, <2>2, <2>4, LineRefers
  <2>6. /\ productLock[p] = r /\ productsW[p].price = itemsW[o][s].price
        /\ productsW[p].currency = ordersW[o].currency
    BY <1>1, <2>2, <2>3, <2>5 DEF Priced
  <2> QED
    BY <2>1, <2>2, <2>5, <2>6
<1>2. IInv /\ Rules /\ [Next]_vars =>
        [\A o \in OrderIDs, s \in Slots :
            /\ IsPlaced(orders'[o]) /\ ~IsPlaced(orders[o])
            /\ items'[o][s] # NoRow
            => /\ products'[items'[o][s].product].price = items'[o][s].price
               /\ products'[items'[o][s].product].currency = orders'[o].currency]_vars
  BY <1>1
<1> QED
  BY <1>2, InvariantHolds, RulesHold, PTL DEF Spec, SoldAtCurrentPrice

-----------------------------------------------------------------------------
(* The refinement.                                                         *)

\* The statuses of the committed orders are an OrderLifecycle: one order at a
\* time moves one status along the state machine of status.go, whatever
\* transactions of customers and administrators compete for it.
THEOREM OrdersFollowTheLifecycle == Spec => RefinesLifecycle
<1> DEFINE status == [o \in OrderIDs |-> IF orders[o] = NoRow THEN Absent
                                         ELSE orders[o].status]
<1>1. Init => Lifecycle!LifecycleInit
  BY DEF Init, StoreInit, Lifecycle!LifecycleInit, OrderIDs
<1>2. ASSUME IInv, Rules, [Next]_vars
      PROVE  [Lifecycle!LifecycleNext]_status
  <2>1. CASE UNCHANGED <<products, orders, items>>
    BY <2>1
  <2>2. CASE \E r \in Requests :
                orders' = [o \in OrderIDs |->
                              IF orderLock[o] = r THEN ordersW[o] ELSE orders[o]]
    <3>1. PICK r \in Requests :
              orders' = [o \in OrderIDs |->
                            IF orderLock[o] = r THEN ordersW[o] ELSE orders[o]]
      BY <2>2
    <3>2. CASE \A o \in OrderIDs : orderLock[o] # r
      BY <3>1, <3>2
    <3>3. ASSUME NEW x \in OrderIDs, orderLock[x] = r
          PROVE  [Lifecycle!LifecycleNext]_status
      <4>1. \A o \in OrderIDs \ {x} : orderLock[o] # r
        BY <1>2, <3>3 DEF Rules, RequestRules, LocksItsOrder
      <4>2. /\ orders'[x] = ordersW[x]
            /\ \A o \in OrderIDs \ {x} : orders'[o] = orders[o]
        BY <3>1, <3>3, <4>1
      <4>3. status[x] = StatusOf(orders[x])
        BY DEF StatusOf
      <4>4. status' = [status EXCEPT ![x] = StatusOf(ordersW[x])]
        BY <4>2 DEF StatusOf
      <4>5. StatusOf(ordersW[x]) \in {status[x]} \cup Lifecycle!Successors(status[x])
        BY <1>2, <4>3 DEF Rules, OrderRules, OneMove
      <4>6. CASE StatusOf(ordersW[x]) = status[x]
        BY <4>4, <4>6
      <4>7. CASE StatusOf(ordersW[x]) \in Lifecycle!Successors(status[x])
        <5>1. Lifecycle!Move(x)
          BY <4>4, <4>7 DEF Lifecycle!Move
        <5> QED
          BY <5>1 DEF Lifecycle!LifecycleNext, OrderIDs
      <4> QED
        BY <4>5, <4>6, <4>7
    <3> QED
      BY <3>2, <3>3
  <2> QED
    BY <1>2, <2>1, <2>2, StepOrCommit
<1>3. IInv /\ Rules /\ [Next]_vars => [Lifecycle!LifecycleNext]_status
  BY <1>2
<1> QED
  BY <1>1, <1>3, InvariantHolds, RulesHold, PTL
     DEF Spec, RefinesLifecycle, Lifecycle!LifecycleSpec

-----------------------------------------------------------------------------
(* Who waits for whom: the locks that a request holds where it may wait.   *)

\* A step of another request does not disturb what t relies on.
LEMMA OthersKeepLocks ==
    ASSUME LockRules, NEW r \in Requests, NEW t \in Requests, t # r, Others(r),
           \A o \in OrderIDs : orderLock[o] = t => items'[o] = items[o]
    PROVE  RequestLocks(t)'
<1> USE NullAssumption
<1>1. RequestLocks(t)
  BY DEF LockRules
<1>2. /\ op'[t] = op[t] /\ pc'[t] = pc[t] /\ want'[t] = want[t] /\ seen'[t] = seen[t]
  BY DEF Others, OtherSessions
<1>3. \A p \in ProductIDs : productLock'[p] = t => productLock[p] = t
  BY DEF Others, OtherRows
<1>4. \A o \in OrderIDs : orderLock'[o] = t =>
          orderLock[o] = t /\ itemsW'[o] = itemsW[o] /\ items'[o] = items[o]
  BY DEF Others, OtherRows
<1>5. HoldsNoProduct(t)' /\ LocksUpwards(t)' /\ RestocksCancelled(t)'
  BY <1>1, <1>2, <1>3 DEF RequestLocks, HoldsNoProduct, LocksUpwards, RestocksCancelled
<1>6. RemovesLate(t)'
  BY <1>1, <1>2, <1>4 DEF RequestLocks, RemovesLate, References
<1> QED
  BY <1>5, <1>6 DEF RequestLocks

\* A statement commits nothing.
LEMMA StatementKeepsLocks ==
    ASSUME LockRules, NEW r \in Requests, Preserved(r), UNCHANGED tables, RequestLocks(r)'
    PROVE  LockRules'
<1>1. ASSUME NEW t \in Requests PROVE RequestLocks(t)'
  <2>1. CASE t = r
    BY <2>1
  <2>2. CASE t # r
    BY <2>2, OthersKeepLocks DEF Preserved, tables
  <2> QED
    BY <2>1, <2>2
<1> QED
  BY <1>1 DEF LockRules

\* A request that is over holds nothing.
LEMMA IdleLocks ==
    ASSUME NEW r \in Requests, pc'[r] = "idle",
           \A p \in ProductIDs : productLock'[p] # r,
           \A o \in OrderIDs : orderLock'[o] # r
    PROVE  RequestLocks(r)'
  BY DEF RequestLocks, HoldsNoProduct, LocksUpwards, RemovesLate, RestocksCancelled

\* A rollback releases its locks.
LEMMA RollbackLocks ==
    ASSUME IInv, LockRules, NEW r \in Requests, Preserved(r), Rollback(r)
    PROVE  LockRules'
<1> USE NullAssumption
<1>1. /\ pc'[r] = "idle"
      /\ \A p \in ProductIDs : productLock'[p] # r
      /\ \A o \in OrderIDs : orderLock'[o] # r
  BY DEF Rollback, ReleaseLocks, Return, Goto, IInv, TypeOK
<1> QED
  BY <1>1, IdleLocks, StatementKeepsLocks DEF Rollback

\* So does a commit, which writes only the orders it has locked.
LEMMA CommitLocks ==
    ASSUME IInv, LockRules, NEW r \in Requests, Preserved(r), CommitRequest(r)
    PROVE  LockRules'
<1> USE NullAssumption
<1>1. /\ pc'[r] = "idle"
      /\ \A p \in ProductIDs : productLock'[p] # r
      /\ \A o \in OrderIDs : orderLock'[o] # r
  BY DEF CommitRequest, Commit, ReleaseLocks, Return, Goto, IInv, TypeOK
<1>2. ASSUME NEW t \in Requests PROVE RequestLocks(t)'
  <2>1. CASE t = r
    BY <1>1, <2>1, IdleLocks
  <2>2. CASE t # r
    BY <2>2, OthersKeepLocks DEF Preserved, CommitRequest, Commit
  <2> QED
    BY <2>1, <2>2
<1> QED
  BY <1>2 DEF LockRules

-----------------------------------------------------------------------------
(* Statements.                                                             *)

\* After its last statement but recalculate a request waits for nothing.
LEMMA LastStatementLocks ==
    ASSUME LockRules, NEW r \in Requests, Preserved(r), UNCHANGED tables,
           pc'[r] \in {"recalculate", "commit"}
    PROVE  LockRules'
<1>1. RequestLocks(r)'
  BY DEF RequestLocks, HoldsNoProduct, LocksUpwards, RemovesLate, RestocksCancelled
<1> QED
  BY <1>1, StatementKeepsLocks

\* A statement that removes no line keeps RemovesLate: an order that it
\* locks has one version.
LEMMA NothingRemoved ==
    ASSUME IInv, LockRules, NEW r \in Requests, Preserved(r), UNCHANGED tables,
           pc[r] \notin {"recalculate", "commit"},
           \A o \in OrderIDs, p \in ProductIDs :
               References(itemsW[o], p) => References(itemsW'[o], p)
    PROVE  RemovesLate(r)'
<1> USE NullAssumption
<1> SUFFICES ASSUME NEW o \in OrderIDs, NEW p \in ProductIDs,
                    orderLock'[o] = r, References(items[o], p)
             PROVE  References(itemsW'[o], p)
  BY DEF RemovesLate, tables
<1>1. orderLock[o] \in {None, r}
  BY DEF Preserved, Others, OtherRows
<1>2. References(itemsW[o], p)
  <2>1. CASE orderLock[o] = None
    BY <2>1 DEF IInv, RowInv, UnlockedRowsAgree
  <2>2. CASE orderLock[o] = r
    BY <2>2 DEF LockRules, RequestLocks, RemovesLate
  <2> QED
    BY <1>1, <2>1, <2>2
<1> QED
  BY <1>2

\* A statement outside the lock loops.
LEMMA PlainStatementLocks ==
    ASSUME IInv, LockRules, NEW r \in Requests, Preserved(r), UNCHANGED tables,
           pc[r] \notin {"recalculate", "commit"},
           \A o \in OrderIDs, p \in ProductIDs :
               References(itemsW[o], p) => References(itemsW'[o], p),
           \/ pc'[r] \in {"insert", "lines", "charge", "mark", "remove", "price", "take",
                          "references"}
           \/ pc'[r] = "restock" /\ op'[r] = "CancelOrder"
           \/ /\ pc'[r] \in {"order", "snapshot", "draft", "create", "items", "product"}
              /\ pc[r] \in {"idle", "order", "snapshot", "draft", "create", "items"}
              /\ UNCHANGED productLock
    PROVE  LockRules'
<1>1. RemovesLate(r)'
  BY NothingRemoved
<1>2. HoldsNoProduct(r)'
  BY DEF LockRules, RequestLocks, HoldsNoProduct
<1>3. LocksUpwards(r)' /\ RestocksCancelled(r)'
  BY DEF LocksUpwards, RestocksCancelled
<1> QED
  BY <1>1, <1>2, <1>3, StatementKeepsLocks DEF RequestLocks

\* A request begins without a lock.
LEMMA BeginsLocks ==
    ASSUME IInv, LockRules, NEW r \in Requests, Begins(r), Preserved(r)
    PROVE  LockRules'
<1>1. PICK m \in Methods, l \in {"lock", "order", "snapshot", "product"} :
          /\ pc[r] = "idle" /\ Goto(r, l)
          /\ UNCHANGED database
  <2>1. CASE OrderServiceBegin(r)
    BY <2>1 DEF OrderServiceBegin, BeginCreateOrder, BeginCancelOrder, BeginPayOrder,
       BeginUpdateOrderStatus, BeginGetOrder, BeginOnOrder, Begin, Methods
  <2>2. CASE CartServiceBegin(r)
    BY <2>2 DEF CartServiceBegin, BeginGetCart, BeginAddItem, BeginUpdateItem,
       BeginDeleteItem, BeginCheckout, BeginOnItem, BeginCart, Begin, Methods
  <2>3. CASE ProductServiceBegin(r)
    BY <2>3 DEF ProductServiceBegin, BeginCreateProduct, BeginUpdateProduct,
       BeginDeleteProduct, BeginOnProduct, Begin, Methods
  <2> QED
    BY <2>1, <2>2, <2>3 DEF Begins
<1>2. pc'[r] = l /\ UNCHANGED <<tables, itemsW, productLock>>
  BY <1>1 DEF Goto, IInv, TypeOK, database, working, locks
<1>3. \A p \in ProductIDs : productLock'[p] # r
  BY <1>1, <1>2 DEF LockRules, RequestLocks, HoldsNoProduct
<1>4. RemovesLate(r)'
  BY <1>1, <1>2, NothingRemoved
<1>5. HoldsNoProduct(r)' /\ LocksUpwards(r)' /\ RestocksCancelled(r)'
  BY <1>2, <1>3 DEF HoldsNoProduct, LocksUpwards, RestocksCancelled
<1> QED
  BY <1>2, <1>4, <1>5, StatementKeepsLocks DEF RequestLocks

\* The lock loop takes the products in the order of their ids.
LEMMA LockSaleLocks ==
    ASSUME IInv, LockRules, NEW r \in Requests, Preserved(r),
           CreateOrderLock(r) \/ CheckoutLock(r)
    PROVE  LockRules'
<1>1. TypeOK
  BY DEF IInv
<1>2. PICK done \in {"insert", "price"} : LockSaleProduct(r, done)
  BY DEF CreateOrderLock, CheckoutLock
<1>3. pc[r] = "lock" /\ UNCHANGED <<tables, working, want>>
  BY <1>2 DEF LockSaleProduct
<1>4. CASE Goto(r, done)
  <2>1. pc'[r] = done
    BY <1>1, <1>4 DEF Goto, TypeOK
  <2> QED
    BY <1>3, <2>1, PlainStatementLocks DEF working
<1>5. ASSUME NEW p \in ProductIDs, IsNextToLock(r, p), ReadForSale(r, p), UNCHANGED pc
      PROVE  LockRules'
  <2>1. /\ productLock' = [productLock EXCEPT ![p] = r]
        /\ seen'[r][p] = productsW[p]
        /\ \A q \in ProductIDs \ {p} : seen'[r][q] = seen[r][q]
    BY <1>1, <1>5 DEF ReadForSale, LockProduct, TypeOK, Products
  <2>3. LocksUpwards(r)
    BY DEF LockRules, RequestLocks
  <2>2. productsW[p] # NoRow
    <3>1. products[p] # NoRow /\ productLock[p] \in {None, r} /\ seen[r][p] = NoRow
      BY <1>5 DEF ReadForSale, ProductExists, ProductAvailable, IsNextToLock
    <3>2. productLock[p] # r
      BY <1>3, <2>3, <3>1 DEF LocksUpwards
    <3> QED
      BY <3>1, <3>2 DEF IInv, RowInv, UnlockedRowsAgree
  <2>4. ASSUME NEW q \in ProductIDs, NEW x \in ProductIDs, productLock'[q] = r,
               want[r][x] > 0, seen'[r][x] = NoRow
        PROVE  q < x
    <3>1. x # p /\ seen[r][x] = NoRow
      BY <2>1, <2>2, <2>4
    <3>2. CASE q = p
      <4>1. p <= x
        BY <1>5, <2>4, <3>1 DEF IsNextToLock
      <4> QED
        BY <3>1, <3>2, <4>1 DEF ProductIDs
    <3>3. CASE q # p
      <4>1. productLock[q] = r
        BY <1>1, <2>1, <2>4, <3>3 DEF TypeOK
      <4> QED
        BY <1>3, <2>3, <2>4, <3>1, <4>1 DEF LocksUpwards
    <3> QED
      BY <3>2, <3>3
  <2>5. ASSUME NEW q \in ProductIDs, productLock'[q] = r
        PROVE  seen'[r][q] # NoRow
    BY <1>1, <1>3, <2>1, <2>2, <2>3, <2>5 DEF TypeOK, LocksUpwards
  <2>6. LocksUpwards(r)'
    BY <1>3, <2>4, <2>5 DEF LocksUpwards
  <2>7. RemovesLate(r)'
    BY <1>3, NothingRemoved DEF working
  <2>8. HoldsNoProduct(r)' /\ RestocksCancelled(r)'
    BY <1>3, <1>5 DEF HoldsNoProduct, RestocksCancelled
  <2> QED
    BY <1>3, <2>6, <2>7, <2>8, StatementKeepsLocks DEF RequestLocks
<1> QED
  BY <1>2, <1>4, <1>5 DEF LockSaleProduct

\* Checkout comes to its lock loop without a lock on a product.
LEMMA CheckoutItemsLocks ==
    ASSUME IInv, LockRules, NEW r \in Requests, Preserved(r), CheckoutItems(r)
    PROVE  LockRules'
<1>1. pc[r] = "items" /\ pc'[r] = "lock" /\ UNCHANGED <<tables, itemsW, productLock>>
  BY DEF CheckoutItems, At, Goto, IInv, TypeOK, database, working, locks
<1>2. \A p \in ProductIDs : productLock'[p] # r
  BY <1>1 DEF LockRules, RequestLocks, HoldsNoProduct
<1>3. RemovesLate(r)'
  BY <1>1, NothingRemoved
<1>4. HoldsNoProduct(r)' /\ LocksUpwards(r)' /\ RestocksCancelled(r)'
  BY <1>1, <1>2 DEF HoldsNoProduct, LocksUpwards, RestocksCancelled
<1> QED
  BY <1>1, <1>3, <1>4, StatementKeepsLocks DEF RequestLocks

\* A line of CreateOrder is one more.
LEMMA CreateOrderLineLocks ==
    ASSUME IInv, LockRules, NEW r \in Requests, Preserved(r), CreateOrderLine(r)
    PROVE  LockRules'
<1> USE NoRowAssumption
<1>1. TypeOK
  BY DEF IInv
<1>2. pc[r] = "lines" /\ pc'[r] = "lines" /\ UNCHANGED tables
  BY DEF CreateOrderLine, At
<1>3. PICK p \in ProductIDs, s \in Slots :
          /\ IsFreeSlot(itemsW[target[r]], s)
          /\ itemsW' = [itemsW EXCEPT ![target[r]] =
                          AppendLine(@, s, p, want[r][p], seen[r][p].price)]
  BY DEF CreateOrderLine
<1>4. ASSUME NEW o \in OrderIDs, NEW x \in ProductIDs, References(itemsW[o], x)
      PROVE  References(itemsW'[o], x)
  <2>1. PICK t \in Slots : itemsW[o][t] # NoRow /\ itemsW[o][t].product = x
    BY <1>4 DEF References
  <2>2. itemsW'[o][t] = itemsW[o][t]
    BY <1>1, <1>3, <2>1 DEF IsFreeSlot, AppendLine, TypeOK, Lines
  <2> QED
    BY <2>1, <2>2 DEF References
<1> QED
  BY <1>2, <1>4, PlainStatementLocks

\* Prices change, products do not.
LEMMA CheckoutPriceLocks ==
    ASSUME IInv, LockRules, NEW r \in Requests, Preserved(r), CheckoutPrice(r)
    PROVE  LockRules'
<1> USE NoRowAssumption
<1>1. TypeOK
  BY DEF IInv
<1>2. pc[r] = "price" /\ pc'[r] = "take" /\ UNCHANGED tables
  BY <1>1 DEF CheckoutPrice, At, Goto, TypeOK
<1>3. itemsW' = [itemsW EXCEPT ![target[r]] = AtCurrentPrices(@)]
  BY DEF CheckoutPrice
<1>4. ASSUME NEW o \in OrderIDs, NEW x \in ProductIDs, References(itemsW[o], x)
      PROVE  References(itemsW'[o], x)
  <2>1. PICK t \in Slots : itemsW[o][t] # NoRow /\ itemsW[o][t].product = x
    BY <1>4 DEF References
  <2>2. CASE o # target[r]
    BY <1>1, <1>3, <1>4, <2>2 DEF TypeOK
  <2>3. CASE o = target[r]
    <3>1. itemsW'[o] = AtCurrentPrices(itemsW[o])
      BY <1>1, <1>3, <2>3 DEF TypeOK
    <3>2. itemsW[o][t] \in ItemRow
      BY <1>1, <2>1 DEF TypeOK, Lines
    <3>3. itemsW'[o][t] # NoRow /\ itemsW'[o][t].product = x
      <4>1. itemsW'[o][t] = LineWithPrice(itemsW[o][t], productsW[itemsW[o][t].product].price)
        BY <2>1, <3>1 DEF AtCurrentPrices
      <4>2. productsW[itemsW[o][t].product].price \in Nat
        BY <1>2, <2>1, <2>3, CartIsLocked DEF CheckoutPrice, At, ProductRow
      <4>3. itemsW'[o][t] \in ItemRow
        BY <3>2, <4>1, <4>2, LineWithPriceType
      <4> QED
        BY <2>1, <3>2, <4>1, <4>3 DEF LineWithPrice, ItemRow
    <3> QED
      BY <3>3 DEF References
  <2> QED
    BY <2>2, <2>3
<1> QED
  BY <1>2, <1>4, PlainStatementLocks

\* The statements of the order service that another one follows.
LEMMA OrderStatementLocks ==
    ASSUME IInv, LockRules, NEW r \in Requests, Preserved(r),
           \/ CreateOrderInsert(r) \/ CancelOrderRead(r) \/ CancelOrderRestock(r)
           \/ CancelOrderRestocked(r) \/ PayOrderRead(r) \/ PayOrderSucceeds(r)
           \/ GetOrderRow(r)
    PROVE  LockRules'
<1>1. TypeOK
  BY DEF IInv
<1>2. CASE CreateOrderInsert(r)
  <2>1. pc[r] = "insert" /\ pc'[r] = "lines" /\ UNCHANGED <<tables, itemsW>>
    BY <1>1, <1>2 DEF CreateOrderInsert, At, Goto, TypeOK
  <2> QED
    BY <2>1, PlainStatementLocks
<1>3. CASE CancelOrderRead(r) \/ PayOrderRead(r)
  <2>1. /\ pc[r] = "order" /\ UNCHANGED <<tables, itemsW, op>>
        /\ pc'[r] = "charge" \/ (pc'[r] = "restock" /\ op[r] = "CancelOrder")
    <3>1. CASE CancelOrderRead(r)
      BY <1>1, <3>1 DEF CancelOrderRead, ReadOrderForUpdate, Goto, TypeOK, working
    <3>2. CASE PayOrderRead(r)
      BY <1>1, <3>2 DEF PayOrderRead, ReadOrderForUpdate, Goto, TypeOK, working
    <3> QED
      BY <1>3, <3>1, <3>2
  <2> QED
    BY <2>1, PlainStatementLocks
<1>4. CASE CancelOrderRestock(r)
  <2>1. /\ pc[r] = "restock" /\ op[r] = "CancelOrder"
        /\ UNCHANGED <<tables, itemsW, op, pc>>
    BY <1>4 DEF CancelOrderRestock, At
  <2> QED
    BY <2>1, PlainStatementLocks
<1>5. CASE CancelOrderRestocked(r) \/ PayOrderSucceeds(r)
  <2>1. /\ pc[r] \in {"restock", "charge"} /\ pc'[r] = "mark"
        /\ UNCHANGED <<tables, itemsW>>
    BY <1>1, <1>5 DEF CancelOrderRestocked, PayOrderSucceeds, At, Goto, TypeOK,
       database, working
  <2> QED
    BY <2>1, PlainStatementLocks
<1>6. CASE GetOrderRow(r)
  <2>1. /\ pc[r] = "order" /\ pc'[r] = "items"
        /\ UNCHANGED <<tables, itemsW, productLock>>
    BY <1>1, <1>6 DEF GetOrderRow, At, Goto, TypeOK, database, working, locks
  <2> QED
    BY <2>1, PlainStatementLocks
<1> QED
  BY <1>2, <1>3, <1>4, <1>5, <1>6

\* The statements of the cart service that another one follows.
LEMMA CartStatementLocks ==
    ASSUME IInv, LockRules, NEW r \in Requests, Preserved(r),
           \/ GetDraftSnapshot(r) \/ GetDraftLock(r) \/ AddItemNoDraft(r)
           \/ CreateDraft(r) \/ CheckoutTake(r)
    PROVE  LockRules'
<1>1. TypeOK
  BY DEF IInv
<1>2. CASE GetDraftSnapshot(r) \/ AddItemNoDraft(r)
  <2>1. /\ pc[r] \in {"snapshot", "draft"} /\ pc'[r] \in {"draft", "create"}
        /\ UNCHANGED <<tables, itemsW, productLock>>
    BY <1>1, <1>2 DEF GetDraftSnapshot, AddItemNoDraft, NoDraft, Goto, TypeOK,
       database, working, locks
  <2> QED
    BY <2>1, PlainStatementLocks
<1>3. CASE GetDraftLock(r)
  <2>1. /\ pc[r] = "draft" /\ pc'[r] \in {"product", "remove", "items"}
        /\ UNCHANGED <<tables, itemsW, productLock>>
    BY <1>1, <1>3 DEF GetDraftLock, AfterDraft, Goto, TypeOK, working
  <2> QED
    BY <2>1, PlainStatementLocks
<1>4. CASE CreateDraft(r)
  <2>1. /\ pc[r] = "create" /\ pc'[r] = "product"
        /\ UNCHANGED <<tables, itemsW, productLock>>
    BY <1>1, <1>4 DEF CreateDraft, At, Goto, TypeOK
  <2> QED
    BY <2>1, PlainStatementLocks
<1>5. CASE CheckoutTake(r)
  <2>1. pc[r] = "take" /\ UNCHANGED <<tables, itemsW, pc>>
    BY <1>5 DEF CheckoutTake, At
  <2> QED
    BY <2>1, PlainStatementLocks
<1> QED
  BY <1>2, <1>3, <1>4, <1>5

\* Every step of the order service.
LEMMA OrderServiceStepLocks ==
    ASSUME IInv, LockRules, NEW r \in Requests, Preserved(r), OrderServiceStep(r)
    PROVE  LockRules'
<1>1. CASE CreateOrderLock(r)
  BY <1>1, LockSaleLocks
<1>2. CASE CreateOrderLine(r)
  BY <1>2, CreateOrderLineLocks
<1>3. CASE \/ CreateOrderInsert(r) \/ CancelOrderRead(r) \/ CancelOrderRestock(r)
           \/ CancelOrderRestocked(r) \/ PayOrderRead(r) \/ PayOrderSucceeds(r)
           \/ GetOrderRow(r)
  BY <1>3, OrderStatementLocks
<1>4. CASE CreateOrderDone(r) \/ CancelOrderMark(r) \/ PayOrderMark(r)
           \/ UpdateOrderStatusRun(r) \/ GetOrderItems(r)
  <2>1. pc'[r] = "commit" /\ UNCHANGED tables
    BY <1>4 DEF CreateOrderDone, CancelOrderMark, PayOrderMark, Mark,
       UpdateOrderStatusRun, GetOrderItems, Goto, IInv, TypeOK, database
  <2> QED
    BY <2>1, LastStatementLocks
<1>5. CASE CreateOrderRefuse(r) \/ CancelOrderRefuse(r) \/ PayOrderRefuse(r)
           \/ PayOrderFails(r) \/ PayOrderTimesOut(r) \/ UpdateOrderStatusRefuse(r)
           \/ GetOrderRefuse(r)
  BY <1>5, RollbackLocks DEF CreateOrderRefuse, RefuseSale, CancelOrderRefuse,
     PayOrderRefuse, RefuseOrder, PayOrderFails, PayOrderTimesOut,
     UpdateOrderStatusRefuse, GetOrderRefuse, Reject
<1> QED
  BY <1>1, <1>2, <1>3, <1>4, <1>5 DEF OrderServiceStep

\* Every step of the cart service.
LEMMA CartServiceStepLocks ==
    ASSUME IInv, LockRules, NEW r \in Requests, Preserved(r), CartServiceStep(r)
    PROVE  LockRules'
<1>1. CASE CheckoutItems(r)
  BY <1>1, CheckoutItemsLocks
<1>2. CASE CheckoutLock(r)
  BY <1>2, LockSaleLocks
<1>3. CASE CheckoutPrice(r)
  BY <1>3, CheckoutPriceLocks
<1>4. CASE \/ GetDraftSnapshot(r) \/ GetDraftLock(r) \/ AddItemNoDraft(r)
           \/ CreateDraft(r) \/ CheckoutTake(r)
  BY <1>4, CartStatementLocks
<1>5. CASE AddItemToLine(r) \/ AddItemNewLine(r) \/ UpdateItemRun(r) \/ DeleteItemRun(r)
  <2>1. pc'[r] = "recalculate" /\ UNCHANGED tables
    BY <1>5 DEF AddItemToLine, AddItemNewLine, UpdateItemRun, WriteLine, DeleteItemRun,
       Goto, IInv, TypeOK
  <2> QED
    BY <2>1, LastStatementLocks
<1>6. CASE GetCartEmpty(r) \/ GetCartItems(r) \/ Recalculate(r) \/ CheckoutSubmit(r)
  <2>1. pc'[r] = "commit" /\ UNCHANGED tables
    BY <1>6 DEF GetCartEmpty, GetCartItems, Recalculate, CheckoutSubmit, Goto, IInv,
       TypeOK, database
  <2> QED
    BY <2>1, LastStatementLocks
<1>7. CASE CartNotFound(r) \/ CreateDraftRefuse(r) \/ RecalculateRefuse(r)
            \/ AddItemRefuse(r) \/ UpdateItemRefuse(r) \/ DeleteItemRefuse(r)
            \/ EmptyCart(r) \/ CheckoutRefuse(r)
  BY <1>7, RollbackLocks DEF CartNotFound, CreateDraftRefuse, RecalculateRefuse,
     AddItemRefuse, UpdateItemRefuse, DeleteItemRefuse, EmptyCart, CheckoutRefuse,
     RefuseSale, Reject
<1> QED
  BY <1>1, <1>2, <1>3, <1>4, <1>5, <1>6, <1>7 DEF CartServiceStep

\* Every step of the product service.
LEMMA ProductServiceStepLocks ==
    ASSUME IInv, LockRules, NEW r \in Requests, Preserved(r), ProductServiceStep(r)
    PROVE  LockRules'
<1>1. CASE CreateProduct(r) \/ UpdateProduct(r) \/ DeleteProductChecked(r)
  <2>1. pc'[r] = "commit" /\ UNCHANGED tables
    BY <1>1 DEF CreateProduct, UpdateProduct, DeleteProductChecked, Goto, IInv,
       TypeOK, database
  <2> QED
    BY <2>1, LastStatementLocks
<1>2. CASE DeleteProduct(r)
  <2>1. pc[r] = "product" /\ pc'[r] = "references" /\ UNCHANGED <<tables, itemsW>>
    BY <1>2 DEF DeleteProduct, At, Goto, IInv, TypeOK
  <2> QED
    BY <2>1, PlainStatementLocks
<1>3. CASE ProductNotFound(r) \/ DeleteProductRefuse(r)
  BY <1>3, RollbackLocks DEF ProductNotFound, DeleteProductRefuse, Reject
<1> QED
  BY <1>1, <1>2, <1>3 DEF ProductServiceStep

\* Nothing is locked at the start.
LEMMA InitLocks == Init => LockRules
<1> SUFFICES ASSUME Init, NEW r \in Requests PROVE RequestLocks(r)
  BY DEF LockRules
<1> USE NullAssumption
<1>1. /\ pc[r] = "idle"
      /\ \A p \in ProductIDs : productLock[p] # r
      /\ \A o \in OrderIDs : orderLock[o] # r
  BY DEF Init, StoreInit
<1> QED
  BY <1>1 DEF RequestLocks, HoldsNoProduct, LocksUpwards, RemovesLate, RestocksCancelled

\* Every step of the backend preserves LockRules.
LEMMA NextLocks == IInv /\ LockRules /\ [Next]_vars => LockRules'
<1> SUFFICES ASSUME IInv, LockRules, [Next]_vars PROVE LockRules'
  OBVIOUS
<1>1. CASE Next
  <2>1. PICK r \in Requests : Begins(r) \/ Step(r) \/ Abort(r)
    BY <1>1 DEF Next
  <2>2. CASE Begins(r)
    BY <2>2, BeginsPreserve, BeginsLocks
  <2>3. CASE Abort(r)
    BY <2>3, AbortPreserves, RollbackLocks DEF Abort
  <2>4. CASE OrderServiceStep(r)
    BY <2>4, OrderServiceStepPreserves, OrderServiceStepLocks
  <2>5. CASE CartServiceStep(r)
    BY <2>5, CartServiceStepPreserves, CartServiceStepLocks
  <2>6. CASE ProductServiceStep(r)
    BY <2>6, ProductServiceStepPreserves, ProductServiceStepLocks
  <2>7. CASE CommitRequest(r)
    BY <2>7, CommitPreserves, CommitLocks
  <2>8. CASE TableFull(r)
    BY <2>8, RejectPreserves, RollbackLocks DEF TableFull, Reject
  <2> QED
    BY <2>1, <2>2, <2>3, <2>4, <2>5, <2>6, <2>7, <2>8 DEF Step
<1>2. CASE UNCHANGED vars
  BY <1>2 DEF vars, database, tables, working, locks, session, LockRules, RequestLocks,
     HoldsNoProduct, LocksUpwards, RemovesLate, RestocksCancelled, References
<1> QED
  BY <1>1, <1>2

\* Which locks a request holds where it may have to wait, in every state of
\* every run.
THEOREM LockRulesHold == Spec => []LockRules
<1>1. IInv /\ LockRules /\ [Next]_vars => LockRules'
  BY NextLocks
<1> QED
  BY <1>1, InitLocks, InvariantHolds, PTL DEF Spec

-----------------------------------------------------------------------------
(* Who waits for whom.                                                     *)

\* The products that the next statement of r locks, and its waits for them.
NeedsProduct(r, p) ==
    \/ pc[r] = "lock" /\ IsNextToLock(r, p)
    \/ pc[r] = "product" /\ want[r][p] > 0
    \/ pc[r] = "restock" /\ \E s \in Slots : IsNextLine(r, s) /\ lines[r][s].product = p

\* The products that someone in C has locked and someone else in C needs.
Contended(C) ==
    {p \in ProductIDs : \E r, t \in C : r # t /\ productLock[p] = t /\ NeedsProduct(r, p)}

LEMMA ProductWaits ==
    ASSUME TypeOK, NEW r \in Requests, NEW t \in WaitsFor(r),
           pc[r] \in {"lock", "product", "restock"}
    PROVE  \E p \in ProductIDs : productLock[p] = t /\ NeedsProduct(r, p)
<1> USE NoRowAssumption
<1>1. t \in Owners(r)
  BY DEF WaitsFor
<1>2. CASE pc[r] = "lock"
  BY <1>1, <1>2 DEF Owners, ProductOwner, NeedsProduct
<1>3. CASE pc[r] = "product"
  BY <1>1, <1>3 DEF Owners, ProductOwner, NeedsProduct
<1>4. CASE pc[r] = "restock"
  <2>1. PICK s \in Slots : IsNextLine(r, s) /\ t \in ProductOwner(lines[r][s].product)
    BY <1>1, <1>4 DEF Owners
  <2>2. lines[r][s].product \in ProductIDs
    BY <2>1 DEF IsNextLine, TypeOK, Lines, ItemRow
  <2> QED
    BY <1>4, <2>1, <2>2 DEF ProductOwner, NeedsProduct
<1> QED
  BY <1>2, <1>3, <1>4

\* The other waits are for orders; that of DeleteProduct is for one that
\* has lost a line.
LEMMA OrderWaits ==
    ASSUME IInv, NEW r \in Requests, NEW t \in WaitsFor(r),
           pc[r] \notin {"lock", "product", "restock"}
    PROVE  /\ pc[r] \in {"order", "draft", "create", "references"}
           /\ \E o \in OrderIDs :
                 /\ orderLock[o] = t
                 /\ pc[r] = "references" =>
                       \E p \in ProductIDs : References(items[o], p)
                                           /\ ~References(itemsW[o], p)
<1>1. t \in Owners(r)
  BY DEF WaitsFor
<1>2. pc[r] \in {"order", "draft", "create", "references"}
  BY <1>1 DEF Owners
<1>3. CASE pc[r] \in {"order", "draft"}
  BY <1>1, <1>3 DEF Owners, OrderOwner
<1>4. CASE pc[r] = "create"
  BY <1>1, <1>4 DEF Owners
<1>5. CASE pc[r] = "references"
  BY <1>1, <1>5 DEF Owners
<1> QED
  BY <1>2, <1>3, <1>4, <1>5

\* Who has locked an order, and waits, has come past the statements that
\* lock orders.
LEMMA OrderOwnersWaitForProducts ==
    ASSUME IInv, Rules, LockRules, NEW t \in Requests, WaitsFor(t) # {},
           NEW o \in OrderIDs, orderLock[o] = t
    PROVE  /\ pc[t] \in {"lock", "product", "restock", "references"}
           /\ \A p \in ProductIDs : References(items[o], p) => References(itemsW[o], p)
<1>1. PICK u \in WaitsFor(t) : TRUE
  OBVIOUS
<1>2. pc[t] \in {"lock", "product", "restock", "order", "draft", "create", "references"}
  BY <1>1, OrderWaits
<1>3. ~HoldsNoOrder(t)
  BY DEF Rules, RequestRules, LocksItsOrder
<1>4. pc[t] \in {"lock", "product", "restock", "references"}
  BY <1>2, <1>3 DEF HoldsNoOrder
<1> QED
  BY <1>4 DEF LockRules, RequestLocks, RemovesLate

\* Whoever waits in a deadlock waits for a product, or for someone who does.
LEMMA DeadlocksAreOverProducts ==
    ASSUME IInv, Rules, LockRules, NEW C \in SUBSET Requests, Deadlocked(C)
    PROVE  /\ \A r \in C : pc[r] \in {"lock", "product", "restock", "order", "draft", "create"}
           /\ Contended(C) # {}
<1>1. \A r \in C : \E t \in C : t \in WaitsFor(r) /\ t # r
  BY DEF Deadlocked, WaitsFor
<1>2. ASSUME NEW r \in C
      PROVE  pc[r] \in {"lock", "product", "restock", "order", "draft", "create"}
  <2>1. PICK t \in C : t \in WaitsFor(r)
    BY <1>1
  <2>2. SUFFICES ASSUME pc[r] = "references" PROVE FALSE
    BY <2>1, OrderWaits
  <2>3. PICK o \in OrderIDs : /\ orderLock[o] = t
                              /\ \E p \in ProductIDs : References(items[o], p)
                                                      /\ ~References(itemsW[o], p)
    BY <2>1, <2>2, OrderWaits
  <2>4. WaitsFor(t) # {}
    BY <1>1
  <2> QED
    BY <2>3, <2>4, OrderOwnersWaitForProducts
<1>3. ASSUME NEW r \in C, pc[r] \in {"lock", "product", "restock"}
      PROVE  Contended(C) # {}
  <2>1. PICK t \in C : t \in WaitsFor(r) /\ t # r
    BY <1>1
  <2>2. PICK p \in ProductIDs : productLock[p] = t /\ NeedsProduct(r, p)
    BY <1>3, <2>1, ProductWaits DEF IInv
  <2> QED
    BY <2>1, <2>2 DEF Contended
<1>4. \A r \in C : pc[r] \in {"lock", "product", "restock", "order", "draft", "create"}
  BY <1>2
<1> PICK r \in C : TRUE
  BY DEF Deadlocked
<1>5. CASE pc[r] \in {"order", "draft", "create"}
  <2>1. PICK t \in C : t \in WaitsFor(r)
    BY <1>1
  <2>2. PICK o \in OrderIDs : orderLock[o] = t
    BY <1>5, <2>1, OrderWaits
  <2>3. WaitsFor(t) # {}
    BY <1>1
  <2>4. pc[t] \in {"lock", "product", "restock"}
    BY <1>2, <2>2, <2>3, OrderOwnersWaitForProducts
  <2> QED
    BY <1>3, <1>4, <2>4
<1> QED
  BY <1>3, <1>4, <1>5

\* Unless CancelOrder goes down, who has locked a product that is waited for
\* waits for one with a higher id.
LEMMA WaitsGoUp ==
    ASSUME IInv, Rules, LockRules, NEW C \in SUBSET Requests, Deadlocked(C),
           ~ \E r \in C, s \in Slots, q \in ProductIDs :
                /\ At(r, "CancelOrder", "restock")
                /\ IsNextLine(r, s)
                /\ productLock[q] = r /\ lines[r][s].product < q,
           NEW p \in Contended(C)
    PROVE  \E q \in Contended(C) : p < q
<1>1. PICK t \in C : p \in ProductIDs /\ productLock[p] = t
  BY DEF Contended
<1>2. HoldsNoProduct(t) /\ LocksUpwards(t) /\ RestocksCancelled(t)
  BY DEF LockRules, RequestLocks
<1>3. pc[t] \in {"lock", "restock"}
  BY <1>1, <1>2, DeadlocksAreOverProducts DEF HoldsNoProduct
<1>4. PICK u \in C : u \in WaitsFor(t) /\ u # t
  BY DEF Deadlocked, WaitsFor
<1>5. PICK q \in ProductIDs : productLock[q] = u /\ NeedsProduct(t, q)
  BY <1>3, <1>4, ProductWaits DEF IInv
<1>6. q \in Contended(C) /\ p # q /\ p \in Nat /\ q \in Nat
  BY <1>1, <1>4, <1>5 DEF Contended, ProductIDs
<1>7. CASE pc[t] = "lock"
  BY <1>1, <1>2, <1>5, <1>6, <1>7 DEF LocksUpwards, NeedsProduct, IsNextToLock
<1>8. CASE pc[t] = "restock"
  <2>1. PICK s \in Slots : IsNextLine(t, s) /\ lines[t][s].product = q
    BY <1>5, <1>8 DEF NeedsProduct
  <2>2. At(t, "CancelOrder", "restock")
    BY <1>2, <1>8 DEF RestocksCancelled, At
  <2>3. ~ (q < p)
    BY <1>1, <2>1, <2>2
  <2> QED
    BY <1>6, <2>3
<1> QED
  BY <1>3, <1>7, <1>8

\* There is no way up without end.
LEMMA NoEndlessWayUp ==
    ASSUME NEW S, S \subseteq ProductIDs, \A p \in S : \E q \in S : p < q
    PROVE  S = {}
<1> SUFFICES ASSUME S # {} PROVE FALSE
  OBVIOUS
<1> DEFINE above(p) == {q \in ProductIDs : p < q}
           D == {above(p) : p \in S}
<1>1. IsFiniteSet(ProductIDs)
  BY FS_Interval, BoundsAssumption DEF ProductIDs
<1>2. D \subseteq SUBSET ProductIDs /\ D # {}
  OBVIOUS
<1> HIDE DEF D
<1>3. PICK U \in D : \A V \in D : V \subseteq U => V = U
  BY <1>1, <1>2, LeastCounterexample
<1>4. PICK p \in S : U = above(p)
  BY <1>3 DEF D
<1>5. PICK q \in S : p < q
  OBVIOUS
<1>6. p \in Nat /\ q \in Nat /\ q \in ProductIDs /\ ProductIDs \subseteq Nat
  BY BoundsAssumption DEF ProductIDs
<1>7. above(q) \in D /\ above(q) \subseteq above(p)
  <2>1. above(q) \in D
    BY DEF D
  <2>2. ASSUME NEW x \in ProductIDs, q < x PROVE p < x
    BY <1>5, <1>6, <2>2
  <2> QED
    BY <2>1, <2>2
<1>8. above(q) = above(p)
  BY <1>3, <1>4, <1>7
<1> QED
  BY <1>5, <1>6, <1>8

\* Requests never wait for each other but where a CancelOrder restocks its
\* products in another order than that of their ids: sorting the products of
\* CreateOrder and Checkout, and locking orders before products, does what
\* it is for.
THEOREM OnlyCancelDeadlocks == Spec => []DeadlockNeedsCancel
<1>1. IInv /\ Rules /\ LockRules => DeadlockNeedsCancel
  <2> SUFFICES ASSUME IInv, Rules, LockRules, NEW C \in SUBSET Requests, Deadlocked(C),
                      ~ \E r \in C, s \in Slots, q \in ProductIDs :
                           /\ At(r, "CancelOrder", "restock")
                           /\ IsNextLine(r, s)
                           /\ productLock[q] = r /\ lines[r][s].product < q
               PROVE  FALSE
    BY DEF DeadlockNeedsCancel
  <2>1. Contended(C) # {}
    BY DeadlocksAreOverProducts
  <2>2. \A p \in Contended(C) : \E q \in Contended(C) : p < q
    BY WaitsGoUp
  <2>3. Contended(C) \subseteq ProductIDs
    BY DEF Contended
  <2> QED
    BY <2>1, <2>2, <2>3, NoEndlessWayUp
<1> QED
  BY <1>1, InvariantHolds, RulesHold, LockRulesHold, PTL

=============================================================================
