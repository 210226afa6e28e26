----------------------------- MODULE BooksProofs -----------------------------
(***************************************************************************)
(* The books of the shop, and what its calls amount to, for every number   *)
(* of requests, users, products, orders and lines.                         *)
(*                                                                         *)
(* Books is an invariant, and totals, paid amounts, answers and units of   *)
(* stock follow from it.  It says of each request what it has read and     *)
(* what it has taken, in terms of the rows it has locked.  A step of r is  *)
(* shown to keep the books of r by its own lemma; those of another request *)
(* t are kept when the step leaves the rows and the session of t alone     *)
(* (Others, shown in ShopProofs; OwnReads) and the committed rows t relies *)
(* on (KeepsCommitted).  Only a commit changes committed rows, and what it *)
(* commits was locked by it.                                               *)
(*                                                                         *)
(* Shop implements AtomicShop: the committed tables change as if every     *)
(* call were one step.  Effects says of each request what its commit will  *)
(* make of the tables, in terms of the committed rows of the moment.       *)
(* These do not change under it: the rows a request relies on are those it *)
(* has locked, and only their owner commits them (KeepsLocked).  The last  *)
(* part takes the commits of the thirteen methods one by one and shows     *)
(* each to be a step of AtomicShop.                                        *)
(***************************************************************************)
EXTENDS ShopEffects, ShopProofs, SumProofs

-----------------------------------------------------------------------------
(* Sums over the lines of an order and over the products of a sale.        *)

\* What each line costs, and each product of a sale.
LineAmounts(ls) == [s \in Slots |-> IF ls[s] = NoRow THEN 0
                                    ELSE ls[s].price * ls[s].quantity]
SaleAmounts(sn, w) == [p \in ProductIDs |-> IF sn[p] = NoRow THEN 0
                                            ELSE sn[p].price * w[p]]

\* The sets that are summed over are finite.
LEMMA SlotsAreFinite == IsFiniteSet(Slots) /\ IsFiniteSet(ProductIDs) /\ IsFiniteSet(OrderIDs)
  BY BoundsAssumption, FS_Interval DEF Slots, ProductIDs, OrderIDs

\* A price times a quantity is a natural number.
LEMMA ProductInNat == \A a, b \in Nat : a * b \in Nat
  OBVIOUS

\* The amounts of the lines of an order can be summed.
LEMMA LineAmountsType ==
    ASSUME NEW ls \in Lines
    PROVE  LineAmounts(ls) \in [Slots -> Nat]
<1>1. ASSUME NEW s \in Slots, ls[s] # NoRow PROVE ls[s].price * ls[s].quantity \in Nat
  BY <1>1, ProductInNat DEF Lines, ItemRow
<1> QED
  BY <1>1 DEF LineAmounts

\* The amounts of the products of a sale can be summed.
LEMMA SaleAmountsType ==
    ASSUME NEW sn \in Products, NEW w \in [ProductIDs -> Nat]
    PROVE  SaleAmounts(sn, w) \in [ProductIDs -> Nat]
<1>1. ASSUME NEW p \in ProductIDs, sn[p] # NoRow PROVE sn[p].price * w[p] \in Nat
  BY <1>1, ProductInNat DEF Products, ProductRow
<1> QED
  BY <1>1 DEF SaleAmounts

\* The sum of Rows is the one SumProofs is about.
LEMMA SumsAreOne == \A f : Sum(f) = SumOver(f)
  BY DEF Sum, SumOver

\* The totals of the model are sums of those amounts.
LEMMA TotalsAreSums ==
    /\ \A ls : LinesTotal(ls) = SumOver(LineAmounts(ls))
    /\ \A r : SaleTotal(r) = SumOver(SaleAmounts(seen[r], want[r]))
  BY DEF LinesTotal, SaleTotal, LineAmounts, SaleAmounts, Sum, SumOver

\* The total of some lines is a natural number.
LEMMA LinesTotalInNat ==
    ASSUME NEW ls \in Lines
    PROVE  LinesTotal(ls) \in Nat
  BY LineAmountsType, SlotsAreFinite, SumInNat, TotalsAreSums

\* Without lines there is nothing to pay.
LEMMA NoLinesTotal == LinesTotal(NoLines) = 0
<1>1. LineAmounts(NoLines) \in [Slots -> Nat] /\ \A s \in Slots : LineAmounts(NoLines)[s] = 0
  BY DEF LineAmounts, NoLines
<1> QED
  BY <1>1, SlotsAreFinite, SumOfZeros, TotalsAreSums

\* One more line, one more amount.
LEMMA AppendTotal ==
    ASSUME NEW ls \in Lines, NEW s \in Slots, IsFreeSlot(ls, s), NEW p \in ProductIDs,
           NEW q \in Nat \ {0}, NEW price \in Nat
    PROVE  /\ AppendLine(ls, s, p, q, price) \in Lines
           /\ AppendLine(ls, s, p, q, price) # NoLines
           /\ LinesTotal(AppendLine(ls, s, p, q, price)) = LinesTotal(ls) + price * q
<1> USE NoRowAssumption
<1> DEFINE line == [product |-> p, quantity |-> q, price |-> price]
           new == AppendLine(ls, s, p, q, price)
<1>1. line \in ItemRow /\ line # NoRow /\ line.price = price /\ line.quantity = q
  BY DEF ItemRow
<1>2. new = [ls EXCEPT ![s] = line]
  BY DEF AppendLine
<1> HIDE DEF line, new
<1>3. new \in Lines /\ new[s] = line /\ \A t \in Slots \ {s} : new[t] = ls[t]
  BY <1>1, <1>2 DEF Lines
<1>4. /\ LineAmounts(ls)[s] = 0
      /\ LineAmounts(new)[s] = price * q
      /\ \A t \in Slots \ {s} : LineAmounts(ls)[t] = LineAmounts(new)[t]
  BY <1>1, <1>3 DEF LineAmounts, IsFreeSlot
<1>5. LineAmounts(ls) \in [Slots -> Nat] /\ LineAmounts(new) \in [Slots -> Nat]
  BY <1>3, LineAmountsType
<1>6. SumOver(LineAmounts(new)) + LineAmounts(ls)[s] = SumOver(LineAmounts(ls)) + LineAmounts(new)[s]
  BY <1>4, <1>5, SlotsAreFinite, SumOfChange
<1>7. LinesTotal(new) + 0 = LinesTotal(ls) + price * q
  BY <1>4, <1>6, TotalsAreSums
<1>8. LinesTotal(new) \in Nat
  BY <1>3, LinesTotalInNat
<1>9. new # NoLines
  BY <1>1, <1>3 DEF NoLines
<1>10. LinesTotal(new) = LinesTotal(ls) + price * q
  BY <1>7, <1>8
<1> QED
  BY <1>3, <1>9, <1>10 DEF new

\* A product that leaves a sale takes its amount with it.
LEMMA SaleTotalTakes ==
    ASSUME NEW sn \in Products, NEW w \in [ProductIDs -> Nat],
           NEW p \in ProductIDs, sn[p] # NoRow
    PROVE  SumOver(SaleAmounts(sn, w)) =
               SumOver(SaleAmounts([sn EXCEPT ![p] = NoRow], w)) + sn[p].price * w[p]
<1> DEFINE new == [sn EXCEPT ![p] = NoRow]
<1>1. new \in Products /\ new[p] = NoRow /\ \A x \in ProductIDs \ {p} : new[x] = sn[x]
  BY DEF Products
<1> HIDE DEF new
<1>2. SaleAmounts(sn, w) \in [ProductIDs -> Nat] /\ SaleAmounts(new, w) \in [ProductIDs -> Nat]
  BY <1>1, SaleAmountsType
<1>3. /\ SaleAmounts(new, w)[p] = 0
      /\ SaleAmounts(sn, w)[p] = sn[p].price * w[p]
      /\ \A x \in ProductIDs \ {p} : SaleAmounts(sn, w)[x] = SaleAmounts(new, w)[x]
  BY <1>1 DEF SaleAmounts
<1>4. SumOver(SaleAmounts(new, w)) + SaleAmounts(sn, w)[p]
          = SumOver(SaleAmounts(sn, w)) + SaleAmounts(new, w)[p]
  BY <1>2, <1>3, SlotsAreFinite, SumOfChange
<1>5. SumOver(SaleAmounts(sn, w)) \in Nat
  BY <1>2, SlotsAreFinite, SumInNat
<1>6. SumOver(SaleAmounts(sn, w)) = SumOver(SaleAmounts(new, w)) + sn[p].price * w[p]
  BY <1>3, <1>4, <1>5
<1> QED
  BY <1>6 DEF new

\* A sale with no product left has nothing left to charge.
LEMMA NothingLeftTotal ==
    ASSUME NEW w
    PROVE  SumOver(SaleAmounts(NoProduct, w)) = 0
<1>1. /\ SaleAmounts(NoProduct, w) \in [ProductIDs -> Nat]
      /\ \A p \in ProductIDs : SaleAmounts(NoProduct, w)[p] = 0
  BY DEF SaleAmounts, NoProduct
<1> QED
  BY <1>1, SlotsAreFinite, SumOfZeros

\* The quantity of the line of p.
LEMMA LineQuantityIs ==
    ASSUME NEW ls \in Lines, OnceEach(ls), NEW s \in Slots, ls[s] # NoRow
    PROVE  LineQuantity(ls, ls[s].product) = ls[s].quantity
<1> DEFINE p == ls[s].product
<1>1. References(ls, p)
  BY DEF References
<1>2. LineOf(ls, p) \in Slots /\ ls[LineOf(ls, p)] # NoRow /\ ls[LineOf(ls, p)].product = p
  BY <1>1 DEF LineOf, References
<1>3. LineOf(ls, p) = s
  BY <1>2 DEF OnceEach
<1> QED
  BY <1>1, <1>3 DEF LineQuantity

\* There is a line of p when its quantity is not zero.
LEMMA QuantityIsPositive ==
    ASSUME NEW ls \in Lines, NEW p
    PROVE  /\ LineQuantity(ls, p) \in Nat
           /\ LineQuantity(ls, p) > 0 <=> References(ls, p)
<1> USE NoRowAssumption
<1>1. CASE ~References(ls, p)
  BY <1>1 DEF LineQuantity
<1>2. CASE References(ls, p)
  <2>1. LineOf(ls, p) \in Slots /\ ls[LineOf(ls, p)] # NoRow
    BY <1>2 DEF LineOf, References
  <2>2. ls[LineOf(ls, p)].quantity \in Nat \ {0}
    BY <2>1 DEF Lines, ItemRow
  <2> QED
    BY <1>2, <2>2 DEF LineQuantity
<1> QED
  BY <1>1, <1>2

\* With one line per product the quantities that are summed are one.
LEMMA QuantityIsLineQuantity ==
    ASSUME NEW ls \in Lines, OnceEach(ls), NEW p
    PROVE  QuantityOf(ls, p) = LineQuantity(ls, p)
<1> USE NoRowAssumption
<1> DEFINE of == [s \in Slots |-> IF ls[s] = NoRow \/ ls[s].product # p THEN 0
                                  ELSE ls[s].quantity]
           none == [s \in Slots |-> 0]
<1>1. QuantityOf(ls, p) = SumOver(of)
  BY DEF QuantityOf, Sum, SumOver
<1>2. of \in [Slots -> Nat] /\ none \in [Slots -> Nat]
  BY DEF Lines, ItemRow
<1>3. SumOver(none) = 0
  <2>1. \A s \in Slots : none[s] = 0
    OBVIOUS
  <2> HIDE DEF none
  <2> QED
    BY <1>2, <2>1, SlotsAreFinite, SumOfZeros
<1>4. CASE ~References(ls, p)
  <2>1. \A s \in Slots : of[s] = 0
    BY <1>4 DEF References
  <2> HIDE DEF of
  <2> QED
    BY <1>1, <1>2, <1>4, <2>1, SlotsAreFinite, SumOfZeros DEF LineQuantity
<1>5. CASE References(ls, p)
  <2>1. PICK s \in Slots : ls[s] # NoRow /\ ls[s].product = p
    BY <1>5 DEF References
  <2>2. of[s] = ls[s].quantity /\ none[s] = 0 /\ \A t \in Slots \ {s} : of[t] = none[t]
    BY <2>1 DEF OnceEach
  <2> HIDE DEF of, none
  <2>3. SumOver(of) + none[s] = SumOver(none) + of[s]
    BY <1>2, <2>2, SlotsAreFinite, SumOfChange
  <2>4. SumOver(of) \in Nat /\ of[s] \in Nat
    BY <1>2, SlotsAreFinite, SumInNat
  <2>5. LineQuantity(ls, p) = ls[s].quantity
    BY <2>1, LineQuantityIs
  <2> QED
    BY <1>1, <1>3, <2>2, <2>3, <2>4, <2>5
<1> QED
  BY <1>4, <1>5

\* The lines of a cart at the prices of the products that its sale has read
\* cost what the sale costs.
LEMMA CartTotal ==
    ASSUME NEW ls \in Lines, OnceEach(ls), NEW new \in Lines,
           NEW sn \in Products, NEW w \in [ProductIDs -> Nat],
           \A p \in ProductIDs : w[p] = LineQuantity(ls, p),
           \A p \in ProductIDs : sn[p] # NoRow <=> w[p] > 0,
           \A s \in Slots : new[s] = NoRow <=> ls[s] = NoRow,
           \A s \in Slots : ls[s] # NoRow =>
               /\ new[s].quantity = ls[s].quantity
               /\ new[s].price = sn[ls[s].product].price
    PROVE  LinesTotal(new) = SumOver(SaleAmounts(sn, w))
<1> DEFINE D == {s \in Slots : ls[s] # NoRow}
           m == [s \in D |-> ls[s].product]
           f == LineAmounts(new)
           g == SaleAmounts(sn, w)
<1>1. D \in SUBSET Slots /\ m \in [D -> ProductIDs]
  BY LineRefers
<1>2. \A x, y \in D : x # y => m[x] # m[y]
  BY DEF OnceEach
<1>3. ASSUME NEW s \in D PROVE g[m[s]] = f[s]
  <2>1. s \in Slots /\ ls[s] # NoRow /\ new[s] # NoRow /\ m[s] = ls[s].product
        /\ ls[s].product \in ProductIDs /\ References(ls, ls[s].product)
    BY LineRefers
  <2>2. w[m[s]] = ls[s].quantity
    BY <2>1, LineQuantityIs
  <2>3. sn[m[s]] # NoRow
    <3>1. w[m[s]] > 0
      BY <2>1, QuantityIsPositive
    <3> QED
      BY <2>1, <3>1
  <2>4. f[s] = new[s].price * new[s].quantity
    BY <2>1 DEF LineAmounts
  <2>5. g[m[s]] = sn[m[s]].price * w[m[s]]
    BY <2>1, <2>3 DEF SaleAmounts
  <2> QED
    BY <2>1, <2>2, <2>4, <2>5
<1>4. \A s \in Slots \ D : f[s] = 0
  BY DEF LineAmounts
<1>5. ASSUME NEW p \in ProductIDs, \A s \in D : p # m[s] PROVE g[p] = 0
  <2>1. ~References(ls, p)
    BY <1>5 DEF References
  <2>2. ~(w[p] > 0)
    BY <2>1, QuantityIsPositive
  <2> QED
    BY <2>2 DEF SaleAmounts
<1>6. f \in [Slots -> Nat] /\ g \in [ProductIDs -> Nat]
  BY LineAmountsType, SaleAmountsType
<1> HIDE DEF D, m, f, g
<1>7. SumOver(f) = SumOver(g)
  BY <1>1, <1>2, <1>3, <1>4, <1>5, <1>6, SlotsAreFinite, SumReindexed
<1> QED
  BY <1>7, TotalsAreSums DEF f, g

-----------------------------------------------------------------------------
(* What a step of one request leaves of the books of another.              *)

\* A request writes its own reads only.
OwnReads(r) == \A t \in Requests \ {r} : current'[t] = current[t] /\ lines'[t] = lines[t]

\* No step writes what another request has read.
LEMMA StepsOwnReads ==
    ASSUME TypeOK, NEW r \in Requests, Begins(r) \/ Step(r) \/ Abort(r)
    PROVE  OwnReads(r)
<1>1. CASE Begins(r)
  <2>1. CASE OrderServiceBegin(r)
    BY <2>1 DEF OrderServiceBegin, BeginCreateOrder, BeginCancelOrder, BeginPayOrder,
       BeginUpdateOrderStatus, BeginGetOrder, BeginOnOrder, Begin, OwnReads
  <2>2. CASE CartServiceBegin(r)
    BY <2>2 DEF CartServiceBegin, BeginGetCart, BeginAddItem, BeginUpdateItem,
       BeginDeleteItem, BeginCheckout, BeginOnItem, BeginCart, Begin, OwnReads
  <2>3. CASE ProductServiceBegin(r)
    BY <2>3 DEF ProductServiceBegin, BeginCreateProduct, BeginUpdateProduct,
       BeginDeleteProduct, BeginOnProduct, Begin, OwnReads
  <2> QED
    BY <1>1, <2>1, <2>2, <2>3 DEF Begins
<1>2. CASE Abort(r) \/ TableFull(r) \/ CommitRequest(r)
  BY <1>2 DEF Abort, TableFull, CommitRequest, Commit, Reject, Rollback, Return,
     OwnReads, TypeOK
<1>3. CASE OrderServiceStep(r)
  BY <1>3 DEF OrderServiceStep, CreateOrderLock, CreateOrderRefuse, CreateOrderInsert,
     CreateOrderLine, CreateOrderDone, CancelOrderRead, CancelOrderRefuse,
     CancelOrderRestock, CancelOrderRestocked, CancelOrderMark, PayOrderRead,
     PayOrderRefuse, PayOrderSucceeds, PayOrderFails, PayOrderTimesOut, PayOrderMark,
     UpdateOrderStatusRun, UpdateOrderStatusRefuse, GetOrderRow, GetOrderRefuse,
     GetOrderItems, LockSaleProduct, ReadOrderForUpdate, Mark, RefuseSale, RefuseOrder,
     Reject, Rollback, Return, OwnReads, TypeOK
<1>4. CASE CartServiceStep(r)
  BY <1>4 DEF CartServiceStep, GetDraftSnapshot, GetDraftLock, CartNotFound, GetCartEmpty,
     GetCartItems, AddItemNoDraft, CreateDraft, CreateDraftRefuse, Recalculate,
     RecalculateRefuse, AddItemToLine, AddItemNewLine, AddItemRefuse, UpdateItemRun,
     UpdateItemRefuse, DeleteItemRun, DeleteItemRefuse, CheckoutItems, EmptyCart,
     CheckoutLock, CheckoutRefuse, CheckoutPrice, CheckoutTake, CheckoutSubmit,
     WriteLine, LockSaleProduct, RefuseSale, Reject, Rollback, Return, OwnReads, TypeOK
<1>5. CASE ProductServiceStep(r)
  BY <1>5 DEF ProductServiceStep, CreateProduct, UpdateProduct, ProductNotFound,
     DeleteProduct, DeleteProductChecked, DeleteProductRefuse, Reject, Rollback, Return,
     OwnReads, TypeOK
<1> QED
  BY <1>1, <1>2, <1>3, <1>4, <1>5 DEF Step

\* The committed rows that t relies on: those of the rows it has locked, and
\* of the orders that are placed all but the status.
KeepsCommitted(t) ==
    /\ \A p \in ProductIDs : productLock[p] = t => products'[p] = products[p]
    /\ \A o \in OrderIDs : orderLock[o] = t => orders'[o] = orders[o]
    /\ \A o \in OrderIDs : IsPlaced(orders[o]) =>
          /\ IsPlaced(orders'[o])
          /\ orders'[o].total = orders[o].total
          /\ items'[o] = items[o]

\* The books of t are about its session and the rows it has locked: a step of
\* another request that leaves these alone keeps them.
LEMMA OthersKeepBooks ==
    ASSUME IInv, Books, NEW r \in Requests, NEW t \in Requests, t # r,
           Others(r), OwnReads(r), KeepsCommitted(t)
    PROVE  RequestBooks(t)'
<1> USE NullAssumption, NoRowAssumption
<1>1. RequestInv(t) /\ RequestBooks(t)
  BY DEF IInv, Books
<1>2. /\ op'[t] = op[t] /\ pc'[t] = pc[t] /\ target'[t] = target[t]
      /\ want'[t] = want[t] /\ seen'[t] = seen[t]
      /\ current'[t] = current[t] /\ lines'[t] = lines[t]
  BY DEF Others, OtherSessions, OwnReads
<1>3. \A p \in ProductIDs :
          /\ productLock'[p] = t <=> productLock[p] = t
          /\ productLock[p] = t => productsW'[p] = productsW[p] /\ products'[p] = products[p]
  BY DEF Others, OtherRows, KeepsCommitted
<1>4. \A o \in OrderIDs :
          /\ orderLock'[o] = t <=> orderLock[o] = t
          /\ orderLock[o] = t => /\ ordersW'[o] = ordersW[o] /\ itemsW'[o] = itemsW[o]
                                 /\ orders'[o] = orders[o]
  BY DEF Others, OtherRows, KeepsCommitted
<1>5. OwnsTarget(t) => target[t] \in OrderIDs /\ orderLock[target[t]] = t
  BY <1>1 DEF RequestInv
<1>6. /\ OwnsTarget(t)' <=> OwnsTarget(t)
      /\ IsWriting(t)' <=> IsWriting(t)
      /\ IsFilling(t)' <=> IsFilling(t)
      /\ TouchesNoStock(t)' <=> TouchesNoStock(t)
  BY <1>2 DEF OwnsTarget, IsWriting, IsFilling, TouchesNoStock, At
<1>7. SaleTotal(t)' = SaleTotal(t)
  BY <1>2 DEF SaleTotal
<1>8. IsFilling(t) => OwnsTarget(t)
  BY DEF IsFilling, At, OwnsTarget
<1>9. TotalBooks(t)'
  <2>1. \A o \in OrderIDs : orderLock[o] = t /\ ~IsWriting(t) => Adds(ordersW'[o], itemsW'[o])
    BY <1>1, <1>4 DEF RequestBooks, TotalBooks
  <2>2. FillsUp(t)'
    BY <1>1, <1>2, <1>4, <1>5, <1>6, <1>7, <1>8 DEF RequestBooks, TotalBooks, FillsUp
  <2>3. SellsCart(t)'
    BY <1>1, <1>2, <1>4, <1>5 DEF RequestBooks, TotalBooks, SellsCart, OwnsTarget
  <2> QED
    BY <1>4, <1>6, <2>1, <2>2, <2>3 DEF TotalBooks
<1>10. ReadBooks(t)'
  <2>1. ReadsPlaced(t)'
    BY <1>1, <1>2 DEF RequestBooks, ReadBooks, ReadsPlaced, KeepsCommitted, IsPlaced
  <2>2. ReadsLines(t)'
    BY <1>1, <1>2, <1>4, <1>5, <1>6 DEF RequestBooks, ReadBooks, ReadsLines
  <2>3. At(t, "GetCart", "items") => OwnsTarget(t)
    BY DEF At, OwnsTarget
  <2> QED
    BY <1>1, <1>2, <1>4, <1>5, <1>6, <2>1, <2>2, <2>3
       DEF RequestBooks, ReadBooks, At, IsPlaced
<1>11. Decides(t)'
  BY <1>1, <1>2, <1>4 DEF RequestBooks, Decides, IsPlaced, Sales, MovesStatus
<1>12. StockBooks(t)'
  <2>1. ASSUME IsFilling(t) \/ (op[t] \in Sales /\ pc[t] = "commit")
               \/ (op[t] = "CancelOrder" /\ pc[t] \in {"restock", "mark", "commit"})
        PROVE  target[t] \in OrderIDs /\ orderLock[target[t]] = t
    <3>1. CASE OwnsTarget(t)
      BY <1>5, <3>1
    <3>2. CASE ~OwnsTarget(t)
      BY <1>1, <1>8, <2>1, <3>2 DEF OwnsTarget, RequestBooks, Decides, Sales, MovesStatus
    <3> QED
      BY <3>1, <3>2
  <2>2. ASSUME IsFilling(t) \/ (op[t] \in Sales /\ pc[t] = "commit")
               \/ (op[t] = "CancelOrder" /\ pc[t] \in {"restock", "mark", "commit"})
        PROVE  itemsW'[target[t]] = itemsW[target[t]]
    BY <1>4, <2>1, <2>2
  <2>3. \A p \in ProductIDs :
            productLock[p] = t /\ op[t] # "CreateProduct" => products'[p] # NoRow
    BY <1>1, <1>3 DEF RequestBooks, StockBooks
  <2>4. TouchesNoStock(t) =>
            \A p \in ProductIDs : productLock[p] = t => productsW'[p] = products'[p]
    BY <1>1, <1>3 DEF RequestBooks, StockBooks
  <2>5. (At(t, "Checkout", "take") =>
          \A p \in ProductIDs :
              Took(t, p, IF seen[t][p] = NoRow THEN want[t][p] ELSE 0))'
    BY <1>1, <1>2, <1>3 DEF RequestBooks, StockBooks, Took, At
  <2>6. (IsFilling(t) \/ (op[t] \in Sales /\ pc[t] = "commit") =>
          \A p \in ProductIDs : Took(t, p, LineQuantity(itemsW[target[t]], p)))'
    BY <1>1, <1>2, <1>3, <1>6, <2>2 DEF RequestBooks, StockBooks, Took, At, Sales
  <2>7. (op[t] = "CancelOrder" /\ pc[t] \in {"restock", "mark", "commit"} =>
          \A p \in ProductIDs :
              GaveBack(t, p, LineQuantity(itemsW[target[t]], p),
                       LineQuantity(lines[t], p)))'
    BY <1>1, <1>2, <1>3, <2>2 DEF RequestBooks, StockBooks, GaveBack, At
  <2> QED
    BY <1>1, <1>2, <1>3, <1>6, <2>3, <2>4, <2>5, <2>6, <2>7
       DEF RequestBooks, StockBooks, At
<1> QED
  BY <1>1, <1>2, <1>9, <1>10, <1>11, <1>12 DEF RequestBooks, Edits

-----------------------------------------------------------------------------
(* The begin and the end of a request.                                     *)

\* A statement commits nothing.
LEMMA StatementBooks ==
    ASSUME IInv, Books, NEW r \in Requests, Preserved(r), OwnReads(r),
           UNCHANGED tables, RequestBooks(r)'
    PROVE  Books'
<1>1. ASSUME NEW t \in Requests PROVE RequestBooks(t)'
  <2>1. CASE t = r
    BY <2>1
  <2>2. CASE t # r
    <3>1. KeepsCommitted(t)
      BY DEF KeepsCommitted, tables, IsPlaced
    <3> QED
      BY <2>2, <3>1, OthersKeepBooks DEF Preserved
  <2> QED
    BY <2>1, <2>2
<1>2. \A o \in OrderIDs : Adds(orders'[o], items'[o])
  BY DEF Books, tables
<1> QED
  BY <1>1, <1>2 DEF Books

\* A request that is over has open books no more.
LEMMA IdleBooks ==
    ASSUME NEW r \in Requests, op'[r] = "none", pc'[r] = "idle", current'[r] = NoRow,
           \A p \in ProductIDs : productLock'[p] # r,
           \A o \in OrderIDs : orderLock'[o] # r
    PROVE  RequestBooks(r)'
  BY DEF RequestBooks, TotalBooks, FillsUp, SellsCart, ReadBooks, ReadsPlaced, ReadsLines,
         StockBooks, TouchesNoStock, Sales, Catalogue, Decides, Edits, IsFilling, At

\* A request that has answered has no books to keep.
LEMMA ReturnBooks ==
    ASSUME TypeOK, NEW r \in Requests, Return(r), ReleaseLocks(r)
    PROVE  RequestBooks(r)'
<1> USE NullAssumption
<1>1. op'[r] = "none" /\ pc'[r] = "idle" /\ current'[r] = NoRow
  BY DEF Return, Goto, TypeOK
<1>2. /\ \A p \in ProductIDs : productLock'[p] # r
      /\ \A o \in OrderIDs : orderLock'[o] # r
  BY DEF ReleaseLocks
<1> QED
  BY <1>1, <1>2, IdleBooks

\* A transaction that is rolled back leaves the books in order.
LEMMA RollbackBooks ==
    ASSUME IInv, Books, NEW r \in Requests, Preserved(r), OwnReads(r), Rollback(r)
    PROVE  Books'
  BY ReturnBooks, StatementBooks DEF Rollback, IInv

\* What r commits of the orders is balanced, and nothing the others rely on.
LEMMA CommitBooks ==
    ASSUME IInv, Rules, Books, NEW r \in Requests, Preserved(r), OwnReads(r),
           CommitRequest(r)
    PROVE  Books'
<1>1. /\ TypeOK /\ RowInv /\ Others(r) /\ Commit(r) /\ pc[r] = "commit"
      /\ Return(r) /\ ReleaseLocks(r) /\ RequestBooks(r)
  BY DEF IInv, Books, Preserved, CommitRequest, Commit
<1>2. /\ \A p \in ProductIDs :
            products'[p] = IF productLock[p] = r THEN productsW[p] ELSE products[p]
      /\ \A o \in OrderIDs :
            IF orderLock[o] = r THEN orders'[o] = ordersW[o] /\ items'[o] = itemsW[o]
            ELSE orders'[o] = orders[o] /\ items'[o] = items[o]
  BY <1>1 DEF Commit
<1>3. \A o \in OrderIDs : Adds(orders'[o], items'[o])
  BY <1>1, <1>2 DEF Books, RequestBooks, TotalBooks, IsWriting, IsFilling, At
<1>4. ASSUME NEW o \in OrderIDs, IsPlaced(orders[o])
      PROVE  /\ IsPlaced(orders'[o])
             /\ orders'[o].total = orders[o].total
             /\ items'[o] = items[o]
  <2>1. OneMove(o) /\ OnlyStatusMoves(o) /\ OrdersStay
    BY <1>1 DEF Rules, OrderRules, RowInv
  <2>2. IsPlaced(ordersW[o])
    BY <1>1, <1>4, <2>1, MovesKeepPlaced
  <2>3. ordersW[o] \in OrderRow /\ orders[o] \in OrderRow
    BY <1>1, <1>4, <2>2 DEF TypeOK, Orders, IsPlaced
  <2>4. ordersW[o].total = orders[o].total /\ itemsW[o] = items[o]
    BY <1>4, <2>1, <2>3 DEF OnlyStatusMoves, OrderRow
  <2> QED
    BY <1>2, <1>4, <2>2, <2>4 DEF IsPlaced
<1>5. ASSUME NEW t \in Requests PROVE RequestBooks(t)'
  <2>1. CASE t = r
    BY <1>1, <2>1, ReturnBooks
  <2>2. CASE t # r
    <3>1. KeepsCommitted(t)
      BY <1>2, <1>4, <2>2 DEF KeepsCommitted
    <3> QED
      BY <1>1, <2>2, <3>1, OthersKeepBooks
  <2> QED
    BY <2>1, <2>2
<1> QED
  BY <1>3, <1>5 DEF Books

\* A transaction opens, with nothing read and nothing locked.
LEMMA BeginsBooks ==
    ASSUME IInv, Rules, Books, NEW r \in Requests, Begins(r), Preserved(r), OwnReads(r)
    PROVE  Books'
<1> USE NullAssumption, NoRowAssumption
<1>1. TypeOK /\ RequestInv(r) /\ RequestRules(r) /\ RequestBooks(r)
  BY DEF IInv, Rules, Books
<1>2. PICK m \in Methods, l \in {"lock", "order", "snapshot", "product"} :
          /\ pc[r] = "idle" /\ op' = [op EXCEPT ![r] = m] /\ Goto(r, l)
          /\ UNCHANGED <<database, seen, current, lines>>
          /\ l = "lock" => m = "CreateOrder"
          /\ l = "product" => m \in {"CreateProduct", "UpdateProduct", "DeleteProduct"}
  <2>1. CASE OrderServiceBegin(r)
    BY <2>1 DEF OrderServiceBegin, BeginCreateOrder, BeginCancelOrder, BeginPayOrder,
       BeginUpdateOrderStatus, BeginGetOrder, BeginOnOrder, Begin, Methods
  <2>2. CASE CartServiceBegin(r)
    BY <2>2 DEF CartServiceBegin, BeginGetCart, BeginAddItem, BeginUpdateItem,
       BeginDeleteItem, BeginCheckout, BeginOnItem, BeginCart, Begin, Methods
  <2>3. CASE ProductServiceBegin(r)
    BY <2>3 DEF ProductServiceBegin, BeginCreateProduct, BeginUpdateProduct,
       BeginDeleteProduct, BeginOnProduct, Begin, Methods
  <2> QED
    BY <2>1, <2>2, <2>3 DEF Begins
<1>3. op'[r] = m /\ pc'[r] = l
  BY <1>1, <1>2 DEF Goto, TypeOK
<1>4. /\ current'[r] = NoRow
      /\ \A p \in ProductIDs : productLock'[p] # r
      /\ \A o \in OrderIDs : orderLock'[o] # r
  BY <1>1, <1>2 DEF RequestInv, RequestBooks, ReadBooks, RequestRules, LocksItsOrder,
     HoldsNoOrder, database, locks
<1>5. RequestBooks(r)'
  BY <1>2, <1>3, <1>4
     DEF RequestBooks, TotalBooks, FillsUp, SellsCart, ReadBooks, ReadsPlaced, ReadsLines,
         StockBooks, TouchesNoStock, Sales, Catalogue, Decides, Edits, IsFilling, At,
         OwnsTarget, Took
<1> QED
  BY <1>2, <1>5, StatementBooks DEF database

-----------------------------------------------------------------------------
(* Statements that take no stock.                                          *)

\* An order that nobody has locked is balanced in its newest version too.
LEMMA FreeOrderAdds ==
    ASSUME IInv, Books, NEW o \in OrderIDs, orderLock[o] = None
    PROVE  Adds(ordersW[o], itemsW[o])
  BY DEF IInv, RowInv, UnlockedRowsAgree, Books

\* A new status leaves the total.
LEMMA WithStatusAdds ==
    ASSUME NEW row \in OrderRow, NEW status, NEW ls,
           Adds(row, ls), status = "draft" \/ ls # NoLines
    PROVE  /\ WithStatus(row, status).status = status
           /\ Adds(WithStatus(row, status), ls)
  BY NoRowAssumption DEF Adds, WithStatus, OrderRow, IsPlaced

\* Where a method has touched no product and touches none now.
LEMMA QuietStock ==
    ASSUME Books, NEW r \in Requests, TouchesNoStock(r), TouchesNoStock(r)',
           op[r] \notin Catalogue \cup {"CancelOrder"}, op'[r] = op[r], pc'[r] # "order",
           UNCHANGED <<products, productsW>>,
           \A p \in ProductIDs : productLock'[p] = r =>
               productLock[p] = r \/ (products[p] # NoRow /\ productsW[p] = products[p])
    PROVE  StockBooks(r)'
<1>1. StockBooks(r)
  BY DEF Books, RequestBooks
<1>2. ~(At(r, "Checkout", "take") \/ IsFilling(r) \/ (op[r] \in Sales /\ pc[r] = "commit"))'
  BY DEF TouchesNoStock, IsFilling, At, Sales, Catalogue
<1> QED
  BY <1>1, <1>2 DEF StockBooks, TouchesNoStock, At, Catalogue

\* The lock loop of CreateOrder and Checkout.
LEMMA LockSaleBooks ==
    ASSUME IInv, Rules, Books, NEW r \in Requests, Preserved(r), OwnReads(r),
           CreateOrderLock(r) \/ CheckoutLock(r)
    PROVE  Books'
<1> USE NullAssumption, NoRowAssumption
<1>1. TypeOK /\ RowInv /\ RequestInv(r) /\ RequestRules(r) /\ RequestBooks(r)
  BY DEF IInv, Rules, Books
<1>2. PICK done \in {"insert", "price"} :
          /\ LockSaleProduct(r, done) /\ op[r] \in Sales
          /\ op[r] = "CreateOrder" <=> done = "insert"
  BY DEF CreateOrderLock, CheckoutLock, Sales
<1>3. /\ pc[r] = "lock"
      /\ UNCHANGED <<tables, working, orderLock, ids, op, target, want, current, lines>>
  BY <1>2 DEF LockSaleProduct
<1>4. pc'[r] \in {"lock", done}
  BY <1>1, <1>2, <1>3 DEF LockSaleProduct, Goto, TypeOK
<1>5. ASSUME NEW p \in ProductIDs, productLock'[p] = r
      PROVE  productLock[p] = r \/ (products[p] # NoRow /\ productsW[p] = products[p])
  BY <1>1, <1>2, <1>5 DEF LockSaleProduct, ReadForSale, LockProduct, ProductAvailable,
     ProductExists, RowInv, UnlockedRowsAgree, TypeOK
<1>6. StockBooks(r)'
  BY <1>2, <1>3, <1>4, <1>5, QuietStock
     DEF TouchesNoStock, Sales, Catalogue, tables, working
<1>7. UNCHANGED <<orders, items, ordersW, itemsW>>
  BY <1>3 DEF tables, working
<1> USE DEF Sales
<1>8. TotalBooks(r)'
  BY <1>1, <1>2, <1>3, <1>4, <1>7
     DEF RequestBooks, TotalBooks, FillsUp, SellsCart, IsWriting, IsFilling, At
<1>9. ReadBooks(r)' /\ Decides(r)' /\ Edits(r)'
  BY <1>2, <1>3, <1>4 DEF ReadBooks, ReadsPlaced, ReadsLines, Decides, Edits, At
<1> QED
  BY <1>3, <1>6, <1>8, <1>9, StatementBooks DEF RequestBooks

\* PayOrder reads the order that it locks.
LEMMA PayOrderReadBooks ==
    ASSUME IInv, Rules, Books, NEW r \in Requests, Preserved(r), OwnReads(r),
           PayOrderRead(r)
    PROVE  Books'
<1> USE NullAssumption, NoRowAssumption
<1>1. TypeOK /\ RowInv /\ RequestInv(r) /\ RequestRules(r) /\ RequestBooks(r)
  BY DEF IInv, Rules, Books
<1>2. /\ op[r] = "PayOrder" /\ pc[r] = "order" /\ pc'[r] = "charge"
      /\ target[r] \in OrderIDs
      /\ UNCHANGED <<tables, working, productLock, op, target, want, seen, lines>>
      /\ current'[r] = ordersW[target[r]]
  BY <1>1 DEF PayOrderRead, ReadOrderForUpdate, OrderExists, Goto, TypeOK
<1>3. /\ orderLock[target[r]] = None
      /\ \A o \in OrderIDs : orderLock'[o] = r => o = target[r]
  BY <1>1, <1>2 DEF PayOrderRead, ReadOrderForUpdate, OrderAvailable, LockOrder, TypeOK,
     RequestRules, LocksItsOrder, HoldsNoOrder
<1>4. UNCHANGED <<products, productsW, orders, items, ordersW, itemsW>>
  BY <1>2 DEF tables, working
<1>5. TotalBooks(r)'
  BY <1>2, <1>3, <1>4, FreeOrderAdds DEF TotalBooks, FillsUp, SellsCart, IsFilling, At
<1>6. ReadBooks(r)'
  BY <1>1, <1>2, <1>3, <1>4 DEF ReadBooks, ReadsPlaced, ReadsLines, At, RowInv,
     UnlockedRowsAgree
<1>7. StockBooks(r)'
  BY <1>2, <1>4, QuietStock DEF TouchesNoStock, Sales, Catalogue
<1>8. Decides(r)' /\ Edits(r)'
  BY <1>2 DEF Decides, Edits
<1> QED
  BY <1>2, <1>5, <1>6, <1>7, <1>8, StatementBooks DEF RequestBooks

\* The provider takes the money; PayOrder goes on.
LEMMA PayOrderSucceedsBooks ==
    ASSUME IInv, Rules, Books, NEW r \in Requests, Preserved(r), OwnReads(r),
           PayOrderSucceeds(r)
    PROVE  Books'
<1>1. TypeOK /\ RequestInv(r) /\ RequestBooks(r)
  BY DEF IInv, Books
<1>2. /\ op[r] = "PayOrder" /\ pc[r] = "charge" /\ pc'[r] = "mark"
      /\ UNCHANGED <<products, productsW, orders, items, ordersW, itemsW, productLock,
                     orderLock, tables, op, target, want, seen, current, lines>>
  BY <1>1 DEF PayOrderSucceeds, At, Goto, TypeOK, database, tables, working, locks
<1>3. TotalBooks(r)'
  BY <1>1, <1>2 DEF RequestBooks, TotalBooks, FillsUp, SellsCart, IsWriting, IsFilling, At
<1>4. ReadBooks(r)'
  BY <1>1, <1>2 DEF RequestBooks, ReadBooks, ReadsPlaced, ReadsLines, OwnsTarget, At
<1>5. StockBooks(r)'
  BY <1>2, QuietStock DEF TouchesNoStock, Sales, Catalogue
<1>6. Decides(r)' /\ Edits(r)'
  BY <1>2 DEF Decides, Edits
<1> QED
  BY <1>2, <1>3, <1>4, <1>5, <1>6, StatementBooks DEF RequestBooks

\* PayOrder marks the order as paid, with its total.
LEMMA PayOrderMarkBooks ==
    ASSUME IInv, Rules, Books, NEW r \in Requests, Preserved(r), OwnReads(r),
           PayOrderMark(r)
    PROVE  Books'
<1> USE NullAssumption, NoRowAssumption
<1>1. TypeOK /\ RequestInv(r) /\ RequestRules(r) /\ RequestBooks(r)
  BY DEF IInv, Rules, Books
<1>2. /\ op[r] = "PayOrder" /\ pc[r] = "mark" /\ pc'[r] = "commit"
      /\ SetStatus(target[r], "paid")
      /\ UNCHANGED <<products, productsW, orders, items, itemsW, productLock,
                     orderLock, tables, op, target, want, seen, current, lines>>
  BY <1>1 DEF PayOrderMark, Mark, Goto, TypeOK, tables, locks
<1>3. PICK x \in OrderIDs : x = target[r]
  BY <1>1, <1>2 DEF RequestInv, OwnsTarget
<1>4. /\ orderLock[x] = r /\ ordersW[x] = orders[x] /\ IsPlaced(orders[x])
      /\ ordersW[x] \in OrderRow
      /\ \A o \in OrderIDs : orderLock[o] = r => o = x
  BY <1>1, <1>2, <1>3 DEF RequestInv, OwnsTarget, RequestRules, MovesPending, IsPlaced,
     LocksItsOrder, TypeOK, Orders
<1>5. Adds(ordersW[x], itemsW[x]) /\ itemsW[x] # NoLines
  BY <1>1, <1>2, <1>4 DEF RequestBooks, TotalBooks, IsWriting, IsFilling, At, Adds, IsPlaced
<1>6. ordersW'[x] = WithStatus(ordersW[x], "paid")
  BY <1>1, <1>2, <1>3 DEF SetStatus, TypeOK, Orders
<1>7. Adds(ordersW'[x], itemsW'[x])
  BY <1>2, <1>4, <1>5, <1>6, WithStatusAdds
<1>8. TotalBooks(r)'
  BY <1>2, <1>4, <1>7 DEF TotalBooks, FillsUp, SellsCart, IsFilling, At
<1>9. ReadBooks(r)'
  BY <1>2 DEF ReadBooks, ReadsPlaced, ReadsLines, OwnsTarget, At
<1>10. StockBooks(r)'
  BY <1>2, QuietStock DEF TouchesNoStock, Sales, Catalogue
<1>11. Decides(r)' /\ Edits(r)'
  BY <1>2 DEF Decides, Edits, MovesStatus, Sales
<1> QED
  BY <1>2, <1>8, <1>9, <1>10, <1>11, StatementBooks DEF RequestBooks

\* The administrator locks an order and moves its status.
LEMMA UpdateOrderStatusBooks ==
    ASSUME IInv, Rules, Books, NEW r \in Requests, Preserved(r), OwnReads(r),
           UpdateOrderStatusRun(r)
    PROVE  Books'
<1> USE NullAssumption, NoRowAssumption
<1>1. TypeOK /\ RowInv /\ RequestInv(r) /\ RequestRules(r) /\ RequestBooks(r)
  BY DEF IInv, Rules, Books
<1>2. /\ op[r] = "UpdateOrderStatus" /\ pc[r] = "order" /\ pc'[r] = "commit"
      /\ OrderExists(target[r]) /\ OrderAvailable(r, target[r]) /\ LockOrder(r, target[r])
      /\ UNCHANGED <<products, productsW, orders, items, itemsW, productLock,
                     tables, op, target, want, seen, current, lines>>
  BY <1>1 DEF UpdateOrderStatusRun, At, Goto, TypeOK, tables
<1>3. PICK x \in OrderIDs : x = target[r] /\ orders[x] # NoRow
  BY <1>2 DEF OrderExists
<1>4. PICK new : CanTransition(ordersW[x].status, new) /\ SetStatus(x, new)
  BY <1>3 DEF UpdateOrderStatusRun
<1>5. /\ orderLock[x] = None /\ ordersW[x] = orders[x] /\ orderLock'[x] = r
      /\ \A o \in OrderIDs : orderLock'[o] = r => o = x
      /\ ordersW[x] \in OrderRow
  BY <1>1, <1>2, <1>3 DEF OrderAvailable, LockOrder, RequestRules, LocksItsOrder,
     HoldsNoOrder, RowInv, UnlockedRowsAgree, TypeOK, Orders
<1>6. IsPlaced(orders[x])
  BY <1>3, <1>4, <1>5 DEF CanTransition, IsPlaced
<1>7. Adds(ordersW[x], itemsW[x]) /\ itemsW[x] # NoLines
  BY <1>5, <1>6, FreeOrderAdds DEF Adds
<1>8. ordersW'[x] = WithStatus(ordersW[x], new)
  BY <1>1, <1>4 DEF SetStatus, TypeOK, Orders
<1>9. Adds(ordersW'[x], itemsW'[x])
  BY <1>2, <1>5, <1>7, <1>8, WithStatusAdds
<1>10. TotalBooks(r)'
  BY <1>2, <1>5, <1>9 DEF TotalBooks, FillsUp, SellsCart, IsFilling, At
<1>11. ReadBooks(r)'
  BY <1>2 DEF ReadBooks, ReadsPlaced, ReadsLines, OwnsTarget, At
<1>12. StockBooks(r)'
  BY <1>2, QuietStock DEF TouchesNoStock, Sales, Catalogue
<1>13. Decides(r)' /\ Edits(r)'
  BY <1>2, <1>3, <1>5, <1>6 DEF Decides, Edits, MovesStatus, Sales, IsPlaced
<1> QED
  BY <1>2, <1>10, <1>11, <1>12, <1>13, StatementBooks DEF RequestBooks

\* GetOrder reads the row of an order, locking nothing.
LEMMA GetOrderRowBooks ==
    ASSUME IInv, Rules, Books, NEW r \in Requests, Preserved(r), OwnReads(r),
           GetOrderRow(r)
    PROVE  Books'
<1>1. TypeOK /\ RequestRules(r) /\ RequestBooks(r)
  BY DEF IInv, Rules, Books
<1>2. /\ op[r] = "GetOrder" /\ pc[r] = "order" /\ pc'[r] = "items"
      /\ target[r] \in OrderIDs /\ current'[r] = orders[target[r]]
      /\ UNCHANGED <<products, productsW, orders, items, ordersW, itemsW, productLock,
                     orderLock, tables, op, target, want, seen, lines>>
  BY <1>1 DEF GetOrderRow, OrderExists, At, Goto, TypeOK, database, tables, working, locks
<1>3. \A o \in OrderIDs : orderLock[o] # r
  BY <1>1, <1>2 DEF RequestRules, LocksItsOrder, HoldsNoOrder
<1>4. Adds(orders[target[r]], items[target[r]])
  BY <1>2 DEF Books
<1>5. TotalBooks(r)'
  BY <1>2, <1>3 DEF TotalBooks, FillsUp, SellsCart, IsFilling, At
<1>6. ReadBooks(r)'
  BY <1>2, <1>3, <1>4 DEF ReadBooks, ReadsPlaced, ReadsLines, At, Adds, IsPlaced
<1>7. StockBooks(r)'
  BY <1>2, QuietStock DEF TouchesNoStock, Sales, Catalogue
<1>8. Decides(r)' /\ Edits(r)'
  BY <1>2 DEF Decides, Edits
<1> QED
  BY <1>2, <1>5, <1>6, <1>7, <1>8, StatementBooks DEF RequestBooks

\* GetOrder reads the lines: of an order that was placed, those of its row.
LEMMA GetOrderItemsBooks ==
    ASSUME IInv, Rules, Books, NEW r \in Requests, Preserved(r), OwnReads(r),
           GetOrderItems(r)
    PROVE  Books'
<1>1. TypeOK /\ RequestBooks(r) /\ RequestInv(r)
  BY DEF IInv, Books
<1>2. /\ op[r] = "GetOrder" /\ pc[r] = "items" /\ pc'[r] = "commit"
      /\ lines'[r] = LinesSeenBy(r, target[r])
      /\ UNCHANGED <<products, productsW, orders, items, ordersW, itemsW, productLock,
                     orderLock, tables, op, target, want, seen, current>>
  BY <1>1 DEF GetOrderItems, At, Goto, TypeOK, database, tables, working, locks
<1>3. /\ \A o \in OrderIDs : orderLock[o] # r
      /\ ReadsPlaced(r)
  BY <1>1, <1>2 DEF RequestBooks, ReadBooks, At
<1>4. target[r] \in OrderIDs /\ lines'[r] = items[target[r]]
  BY <1>1, <1>2, <1>3 DEF LinesSeenBy, RequestInv
<1>5. TotalBooks(r)'
  BY <1>2, <1>3 DEF TotalBooks, FillsUp, SellsCart, IsFilling, At
<1>6. ReadBooks(r)'
  BY <1>2, <1>3, <1>4 DEF ReadBooks, ReadsPlaced, ReadsLines, At, IsPlaced
<1>7. StockBooks(r)'
  BY <1>2, QuietStock DEF TouchesNoStock, Sales, Catalogue
<1>8. Decides(r)' /\ Edits(r)'
  BY <1>2, <1>3 DEF Decides, Edits, MovesStatus, Sales
<1> QED
  BY <1>2, <1>5, <1>6, <1>7, <1>8, StatementBooks DEF RequestBooks

\* A method of the cart picks a draft.
LEMMA GetDraftSnapshotBooks ==
    ASSUME IInv, Rules, Books, NEW r \in Requests, Preserved(r), OwnReads(r),
           GetDraftSnapshot(r)
    PROVE  Books'
<1>1. TypeOK /\ RequestInv(r) /\ RequestRules(r) /\ RequestBooks(r)
  BY DEF IInv, Rules, Books
<1>2. /\ pc[r] = "snapshot" /\ pc'[r] = "draft"
      /\ op[r] \in {"GetCart", "AddItem", "UpdateItem", "DeleteItem", "Checkout"}
      /\ UNCHANGED <<products, productsW, orders, items, ordersW, itemsW, productLock,
                     orderLock, tables, op, want, seen, current, lines>>
  BY <1>1 DEF GetDraftSnapshot, RequestInv, Goto, TypeOK, database, tables, working, locks
<1>3. \A o \in OrderIDs : orderLock[o] # r
  BY <1>1, <1>2 DEF RequestRules, LocksItsOrder, HoldsNoOrder
<1>4. TotalBooks(r)'
  BY <1>2, <1>3 DEF TotalBooks, FillsUp, SellsCart, IsFilling, At
<1>5. ReadBooks(r)'
  BY <1>1, <1>2 DEF RequestBooks, ReadBooks, ReadsPlaced, ReadsLines, At
<1>6. StockBooks(r)'
  BY <1>2, QuietStock DEF TouchesNoStock, Sales, Catalogue
<1>7. Decides(r)' /\ Edits(r)'
  BY <1>2 DEF Decides, Edits
<1> QED
  BY <1>2, <1>4, <1>5, <1>6, <1>7, StatementBooks DEF RequestBooks

\* It locks the draft, which is balanced as committed.
LEMMA GetDraftLockBooks ==
    ASSUME IInv, Rules, Books, NEW r \in Requests, Preserved(r), OwnReads(r),
           GetDraftLock(r)
    PROVE  Books'
<1> USE NullAssumption, NoRowAssumption
<1>1. TypeOK /\ RequestInv(r) /\ RequestRules(r) /\ RequestBooks(r)
  BY DEF IInv, Rules, Books
<1>2. /\ pc[r] = "draft" /\ pc'[r] = AfterDraft(op[r]) /\ target[r] \in OrderIDs
      /\ op[r] \in {"GetCart", "AddItem", "UpdateItem", "DeleteItem", "Checkout"}
      /\ current'[r] = ordersW[target[r]] /\ IsDraft(ordersW[target[r]], user[r])
      /\ UNCHANGED <<products, productsW, orders, items, ordersW, itemsW, productLock,
                     tables, op, target, want, seen, lines>>
  BY <1>1 DEF GetDraftLock, RequestInv, Goto, TypeOK, AfterDraft, Labels, tables, working
<1>3. /\ pc'[r] \in {"product", "remove", "items"}
      /\ op[r] \in {"Checkout", "GetCart"} => pc'[r] = "items"
  BY <1>2 DEF AfterDraft
<1>4. /\ orderLock[target[r]] = None
      /\ \A o \in OrderIDs : orderLock'[o] = r => o = target[r]
  BY <1>1, <1>2 DEF GetDraftLock, OrderAvailable, LockOrder, TypeOK,
     RequestRules, LocksItsOrder, HoldsNoOrder
<1>5. TotalBooks(r)'
  BY <1>2, <1>3, <1>4, FreeOrderAdds DEF TotalBooks, FillsUp, SellsCart, IsFilling, At
<1>6. ReadBooks(r)'
  BY <1>2, <1>3 DEF ReadBooks, ReadsPlaced, ReadsLines, At, IsPlaced, IsDraft
<1>7. StockBooks(r)'
  BY <1>2, <1>3, QuietStock DEF TouchesNoStock, Sales, Catalogue
<1>8. Decides(r)' /\ Edits(r)'
  BY <1>3 DEF Decides, Edits
<1> QED
  BY <1>2, <1>5, <1>6, <1>7, <1>8, StatementBooks DEF RequestBooks

\* There is no draft: GetCart is done, AddItem will make one.
LEMMA NoDraftBooks ==
    ASSUME IInv, Rules, Books, NEW r \in Requests, Preserved(r), OwnReads(r),
           GetCartEmpty(r) \/ AddItemNoDraft(r)
    PROVE  Books'
<1>1. TypeOK /\ RequestRules(r) /\ RequestBooks(r)
  BY DEF IInv, Rules, Books
<1>2. /\ pc[r] \in {"snapshot", "draft"} /\ op[r] \in {"GetCart", "AddItem"}
      /\ UNCHANGED <<products, productsW, orders, items, ordersW, itemsW, productLock,
                     orderLock, tables, op, target, want, seen, current, lines>>
  BY DEF GetCartEmpty, AddItemNoDraft, NoDraft, database, tables, working, locks
<1>3. \/ op[r] = "GetCart" /\ pc'[r] = "commit"
      \/ op[r] = "AddItem" /\ pc'[r] = "create"
  BY <1>1 DEF GetCartEmpty, AddItemNoDraft, Goto, TypeOK
<1>4. \A o \in OrderIDs : orderLock[o] # r
  BY <1>1, <1>2 DEF RequestRules, LocksItsOrder, HoldsNoOrder
<1>5. TotalBooks(r)'
  BY <1>2, <1>4 DEF TotalBooks, FillsUp, SellsCart, IsFilling, At
<1>6. ReadBooks(r)'
  BY <1>1, <1>2, <1>3 DEF RequestBooks, ReadBooks, ReadsPlaced, ReadsLines, At
<1>7. StockBooks(r)'
  BY <1>2, <1>3, QuietStock DEF TouchesNoStock, Sales, Catalogue
<1>8. Decides(r)' /\ Edits(r)'
  BY <1>2, <1>3, <1>4 DEF Decides, Edits, MovesStatus, Sales
<1> QED
  BY <1>2, <1>5, <1>6, <1>7, <1>8, StatementBooks DEF RequestBooks

\* GetCart reads the lines of the row it has locked.
LEMMA GetCartItemsBooks ==
    ASSUME IInv, Rules, Books, NEW r \in Requests, Preserved(r), OwnReads(r),
           GetCartItems(r)
    PROVE  Books'
<1> USE NullAssumption, NoRowAssumption
<1>1. TypeOK /\ RowInv /\ RequestInv(r) /\ RequestRules(r) /\ RequestBooks(r)
  BY DEF IInv, Rules, Books
<1>2. /\ op[r] = "GetCart" /\ pc[r] = "items" /\ pc'[r] = "commit"
      /\ lines'[r] = LinesSeenBy(r, target[r])
      /\ UNCHANGED <<products, productsW, orders, items, ordersW, itemsW, productLock,
                     orderLock, tables, op, target, want, seen, current>>
  BY <1>1 DEF GetCartItems, At, Goto, TypeOK, database, tables, working, locks
<1>3. PICK x \in OrderIDs : x = target[r]
  BY <1>1, <1>2 DEF RequestInv, OwnsTarget
<1>4. /\ orderLock[x] = r /\ \A o \in OrderIDs : orderLock[o] = r => o = x
      /\ current[r] = ordersW[x] /\ ~IsPlaced(ordersW[x])
      /\ lines'[r] = itemsW[x]
      /\ Adds(ordersW[x], itemsW[x])
  BY <1>1, <1>2, <1>3 DEF RequestInv, OwnsTarget, RequestRules, LocksItsOrder,
     RequestBooks, ReadBooks, TotalBooks, IsWriting, IsFilling, At, LinesSeenBy
<1>5. ~IsPlaced(orders[x])
  BY <1>1, <1>4, MovesKeepPlaced DEF RowInv, Rules, OrderRules
<1>6. TotalBooks(r)'
  BY <1>2, <1>4 DEF TotalBooks, FillsUp, SellsCart, IsFilling, At
<1>7. ReadBooks(r)'
  BY <1>2, <1>4 DEF ReadBooks, ReadsPlaced, ReadsLines, OwnsTarget, At, Adds
<1>8. StockBooks(r)'
  BY <1>2, QuietStock DEF TouchesNoStock, Sales, Catalogue
<1>9. Decides(r)' /\ Edits(r)'
  BY <1>2, <1>4, <1>5 DEF Decides, Edits, MovesStatus, Sales
<1> QED
  BY <1>2, <1>6, <1>7, <1>8, <1>9, StatementBooks DEF RequestBooks

\* AddItem makes an empty cart, which costs nothing.
LEMMA CreateDraftBooks ==
    ASSUME IInv, Rules, Books, NEW r \in Requests, Preserved(r), OwnReads(r),
           CreateDraft(r)
    PROVE  Books'
<1> USE NullAssumption, NoRowAssumption
<1>1. TypeOK /\ RequestInv(r) /\ RequestRules(r) /\ RequestBooks(r) /\ Others(r)
  BY DEF IInv, Rules, Books, Preserved
<1>2. /\ op[r] = "AddItem" /\ pc[r] = "create" /\ pc'[r] = "product"
      /\ InsertOrder(r, [user |-> user[r], status |-> "draft",
                         total |-> 0, currency |-> NoCurrency])
      /\ UNCHANGED <<products, productsW, orders, items, itemsW, productLock, nextProduct,
                     tables, op, want, seen, current, lines>>
  BY <1>1 DEF CreateDraft, At, Goto, TypeOK, tables
<1>3. PICK row \in OrderRow :
          InsertOrder(r, row) /\ row.status = "draft" /\ row.total = 0
  <2>1. user[r] \in Users
    BY <1>1, <1>2 DEF RequestInv
  <2> QED
    BY <1>2, <2>1 DEF OrderRow, Statuses
<1>4. /\ target'[r] \in OrderIDs /\ itemsW'[target'[r]] = NoLines
      /\ ordersW'[target'[r]] = row
      /\ \A o \in OrderIDs : orderLock'[o] = r => o = target'[r]
  <2>1. HoldsNoOrder(r) /\ UNCHANGED tables
    BY <1>2 DEF HoldsNoOrder
  <2> QED
    BY <1>1, <1>2, <1>3, <2>1, InsertRules
<1>5. Adds(row, NoLines)
  BY <1>3, NoLinesTotal DEF Adds, IsPlaced
<1>6. TotalBooks(r)'
  BY <1>2, <1>4, <1>5 DEF TotalBooks, FillsUp, SellsCart, IsFilling, At
<1>7. ReadBooks(r)'
  BY <1>2 DEF ReadBooks, ReadsPlaced, ReadsLines, At
<1>8. StockBooks(r)'
  BY <1>2, QuietStock DEF TouchesNoStock, Sales, Catalogue
<1>9. Decides(r)' /\ Edits(r)'
  BY <1>2 DEF Decides, Edits
<1> QED
  BY <1>2, <1>6, <1>7, <1>8, <1>9, StatementBooks DEF RequestBooks

\* A line of the cart is written: the total comes next.
LEMMA WriteLineBooks ==
    ASSUME IInv, Rules, Books, NEW r \in Requests, Preserved(r), OwnReads(r),
           AddItemToLine(r) \/ AddItemNewLine(r) \/ UpdateItemRun(r)
    PROVE  Books'
<1> USE NullAssumption, NoRowAssumption
<1>1. TypeOK /\ RowInv /\ RequestBooks(r)
  BY DEF IInv, Books
<1>2. /\ op[r] \in {"AddItem", "UpdateItem"} /\ pc[r] = "product"
      /\ \E p \in ProductIDs : \E q, ls : WriteLine(r, p, q, ls)
  BY DEF AddItemToLine, AddItemNewLine, UpdateItemRun, At
<1>3. /\ pc'[r] = "recalculate"
      /\ UNCHANGED <<products, productsW, orders, items, ordersW, orderLock,
                     tables, op, target, want, seen, current, lines>>
  BY <1>1, <1>2 DEF WriteLine, Goto, TypeOK, tables
<1>4. PICK p \in ProductIDs : /\ productLock' = [productLock EXCEPT ![p] = r]
                              /\ productLock[p] \in {None, r} /\ products[p] # NoRow
  BY <1>2 DEF WriteLine, ProductExists, ProductAvailable, LockProduct
<1>5. \A x \in ProductIDs : productLock'[x] = r =>
          productLock[x] = r \/ (products[x] # NoRow /\ productsW[x] = products[x])
  BY <1>1, <1>4 DEF RowInv, UnlockedRowsAgree, TypeOK
<1>6. TotalBooks(r)'
  BY <1>2, <1>3 DEF TotalBooks, FillsUp, SellsCart, IsWriting, IsFilling, At
<1>7. ReadBooks(r)'
  BY <1>2, <1>3 DEF ReadBooks, ReadsPlaced, ReadsLines, At
<1>8. StockBooks(r)'
  BY <1>2, <1>3, <1>5, QuietStock DEF TouchesNoStock, Sales, Catalogue
<1>9. Decides(r)' /\ Edits(r)'
  BY <1>2, <1>3 DEF Decides, Edits
<1> QED
  BY <1>3, <1>6, <1>7, <1>8, <1>9, StatementBooks DEF RequestBooks

\* A line of the cart goes: the total comes next.
LEMMA DeleteItemBooks ==
    ASSUME IInv, Rules, Books, NEW r \in Requests, Preserved(r), OwnReads(r),
           DeleteItemRun(r)
    PROVE  Books'
<1>1. TypeOK /\ RequestBooks(r)
  BY DEF IInv, Books
<1>2. /\ op[r] = "DeleteItem" /\ pc[r] = "remove" /\ pc'[r] = "recalculate"
      /\ UNCHANGED <<products, productsW, orders, items, ordersW, productLock, orderLock,
                     tables, op, target, want, seen, current, lines>>
  BY <1>1 DEF DeleteItemRun, At, Goto, TypeOK, tables, locks
<1>3. TotalBooks(r)'
  BY <1>2 DEF TotalBooks, FillsUp, SellsCart, IsWriting, IsFilling, At
<1>4. ReadBooks(r)'
  BY <1>2 DEF ReadBooks, ReadsPlaced, ReadsLines, At
<1>5. StockBooks(r)'
  BY <1>2, QuietStock DEF TouchesNoStock, Sales, Catalogue
<1>6. Decides(r)' /\ Edits(r)'
  BY <1>2 DEF Decides, Edits
<1> QED
  BY <1>2, <1>3, <1>4, <1>5, <1>6, StatementBooks DEF RequestBooks

\* recalculate writes the total of the lines.
LEMMA RecalculateBooks ==
    ASSUME IInv, Rules, Books, NEW r \in Requests, Preserved(r), OwnReads(r),
           Recalculate(r)
    PROVE  Books'
<1> USE NullAssumption, NoRowAssumption
<1>1. TypeOK /\ RequestInv(r) /\ RequestRules(r) /\ RequestBooks(r)
  BY DEF IInv, Rules, Books
<1>2. /\ pc[r] = "recalculate" /\ pc'[r] = "commit"
      /\ op[r] \in {"AddItem", "UpdateItem", "DeleteItem"}
      /\ UNCHANGED <<products, productsW, orders, items, itemsW, productLock, orderLock,
                     tables, op, target, want, seen, current, lines>>
  BY <1>1 DEF Recalculate, RequestBooks, Edits, Goto, TypeOK, tables, locks
<1>3. PICK x \in OrderIDs : x = target[r]
  BY <1>1, <1>2 DEF RequestInv, OwnsTarget
<1>4. /\ orderLock[x] = r /\ \A o \in OrderIDs : orderLock[o] = r => o = x
      /\ ordersW[x] \in OrderRow /\ ordersW[x].status = "draft" /\ ~IsPlaced(orders[x])
  BY <1>1, <1>2, <1>3 DEF RequestInv, OwnsTarget, RequestRules, LocksItsOrder, EditsDraft,
     TypeOK, Orders
<1>5. PICK c \in Currencies \cup {NoCurrency} :
          ordersW'[x] = WithTotal(ordersW[x], LinesTotal(itemsW[x]), c)
  BY <1>1, <1>3, NoLinesTotal DEF Recalculate, UpdateTotal, TypeOK, Orders
<1>6. /\ ordersW'[x].total = LinesTotal(itemsW[x])
      /\ ordersW'[x].status = "draft"
  BY <1>4, <1>5 DEF WithTotal, OrderRow
<1>7. ~IsPlaced(ordersW'[x]) /\ ~IsPlaced(orders'[x])
  BY <1>2, <1>4, <1>6 DEF IsPlaced
<1>8. Adds(ordersW'[x], itemsW'[x])
  BY <1>2, <1>6, <1>7 DEF Adds
<1>9. TotalBooks(r)'
  BY <1>2, <1>4, <1>8 DEF TotalBooks, FillsUp, SellsCart, IsFilling, At
<1>10. ReadBooks(r)'
  BY <1>2 DEF ReadBooks, ReadsPlaced, ReadsLines, OwnsTarget, At
<1>11. StockBooks(r)'
  BY <1>2, QuietStock DEF TouchesNoStock, Sales, Catalogue
<1>12. Decides(r)' /\ Edits(r)'
  BY <1>2, <1>4, <1>7 DEF Decides, Edits, MovesStatus, Sales
<1> QED
  BY <1>2, <1>9, <1>10, <1>11, <1>12, StatementBooks DEF RequestBooks

\* Checkout reads the lines of the cart: they are what it is going to sell.
LEMMA CheckoutItemsBooks ==
    ASSUME IInv, Rules, Books, NEW r \in Requests, Preserved(r), OwnReads(r),
           CheckoutItems(r)
    PROVE  Books'
<1>1. TypeOK /\ RequestBooks(r)
  BY DEF IInv, Books
<1>2. /\ op[r] = "Checkout" /\ pc[r] = "items" /\ pc'[r] = "lock"
      /\ itemsW[target[r]] # NoLines
      /\ want'[r] = [p \in ProductIDs |-> LineQuantity(itemsW[target[r]], p)]
      /\ UNCHANGED <<products, productsW, orders, items, ordersW, itemsW, productLock,
                     orderLock, tables, op, target, seen, current, lines>>
  BY <1>1 DEF CheckoutItems, At, Goto, TypeOK, database, tables, working, locks
<1>3. SellsCart(r)'
  BY <1>2 DEF SellsCart
<1>4. TotalBooks(r)'
  BY <1>1, <1>2, <1>3 DEF RequestBooks, TotalBooks, FillsUp, IsWriting, IsFilling, At
<1>5. ReadBooks(r)'
  BY <1>2 DEF ReadBooks, ReadsPlaced, ReadsLines, At
<1>6. StockBooks(r)'
  BY <1>2, QuietStock DEF TouchesNoStock, Sales, Catalogue
<1>7. Decides(r)' /\ Edits(r)'
  BY <1>2 DEF Decides, Edits
<1> QED
  BY <1>2, <1>4, <1>5, <1>6, <1>7, StatementBooks DEF RequestBooks

-----------------------------------------------------------------------------
(* The quantities of the lines.                                            *)

\* Of p there are the lines there were, as large as they were.
LEMMA SameQuantity ==
    ASSUME NEW ls \in Lines, NEW new \in Lines, OnceEach(ls), OnceEach(new), NEW p,
           \A s \in Slots : new[s] # NoRow /\ new[s].product = p =>
               ls[s] # NoRow /\ ls[s].product = p /\ ls[s].quantity = new[s].quantity,
           References(ls, p) => References(new, p)
    PROVE  LineQuantity(new, p) = LineQuantity(ls, p)
<1>1. CASE ~References(new, p)
  BY <1>1 DEF LineQuantity
<1>2. CASE References(new, p)
  <2>1. PICK s \in Slots : new[s] # NoRow /\ new[s].product = p
    BY <1>2 DEF References
  <2> QED
    BY <2>1, LineQuantityIs
<1> QED
  BY <1>1, <1>2

\* A line more of a product that had none.
LEMMA AppendQuantity ==
    ASSUME NEW ls \in Lines, NEW s \in Slots, IsFreeSlot(ls, s), NEW p \in ProductIDs,
           NEW q \in Nat \ {0}, NEW price \in Nat, OnceEach(ls), ~References(ls, p)
    PROVE  /\ LineQuantity(AppendLine(ls, s, p, q, price), p) = q
           /\ LineQuantity(ls, p) = 0
           /\ \A x \in ProductIDs \ {p} :
                 LineQuantity(AppendLine(ls, s, p, q, price), x) = LineQuantity(ls, x)
<1> USE NoRowAssumption
<1> DEFINE line == [product |-> p, quantity |-> q, price |-> price]
           new == AppendLine(ls, s, p, q, price)
<1>1. line \in ItemRow /\ line # NoRow /\ line.product = p /\ line.quantity = q
  BY DEF ItemRow
<1>2. new \in Lines /\ OnceEach(new)
  BY AppendTotal, AppendLineRules
<1>3. new = [ls EXCEPT ![s] = line]
  BY DEF AppendLine
<1> HIDE DEF line, new
<1>4. new[s] = line /\ \A t \in Slots \ {s} : new[t] = ls[t]
  BY <1>3 DEF Lines
<1>5. LineQuantity(new, p) = q
  BY <1>1, <1>2, <1>4, LineQuantityIs
<1>6. ASSUME NEW x \in ProductIDs \ {p} PROVE LineQuantity(new, x) = LineQuantity(ls, x)
  <2>1. \A t \in Slots : new[t] # NoRow /\ new[t].product = x =>
            ls[t] # NoRow /\ ls[t].product = x /\ ls[t].quantity = new[t].quantity
    BY <1>1, <1>4
  <2>2. References(ls, x) => References(new, x)
    BY <1>4 DEF References, IsFreeSlot
  <2> QED
    BY <1>2, <2>1, <2>2, SameQuantity
<1>7. LineQuantity(ls, p) = 0
  BY DEF LineQuantity
<1> QED
  BY <1>5, <1>6, <1>7 DEF new

\* A line less.
LEMMA RemoveQuantity ==
    ASSUME NEW ls \in Lines, OnceEach(ls), NEW s \in Slots, ls[s] # NoRow
    PROVE  /\ LineQuantity([ls EXCEPT ![s] = NoRow], ls[s].product) = 0
           /\ \A x \in ProductIDs \ {ls[s].product} :
                 LineQuantity([ls EXCEPT ![s] = NoRow], x) = LineQuantity(ls, x)
<1> DEFINE new == [ls EXCEPT ![s] = NoRow]
<1>1. new \in Lines /\ new[s] = NoRow /\ \A t \in Slots \ {s} : new[t] = ls[t]
  BY DEF Lines
<1> HIDE DEF new
<1>2. OnceEach(new)
  BY <1>1 DEF OnceEach
<1>3. ~References(new, ls[s].product)
  BY <1>1 DEF References, OnceEach
<1>4. ASSUME NEW x \in ProductIDs \ {ls[s].product}
      PROVE  LineQuantity(new, x) = LineQuantity(ls, x)
  <2>1. \A t \in Slots : new[t] # NoRow /\ new[t].product = x =>
            ls[t] # NoRow /\ ls[t].product = x /\ ls[t].quantity = new[t].quantity
    BY <1>1
  <2>2. References(ls, x) => References(new, x)
    BY <1>1 DEF References
  <2> QED
    BY <1>1, <1>2, <2>1, <2>2, SameQuantity
<1> QED
  BY <1>3, <1>4 DEF new, LineQuantity

\* The lines at other prices.
LEMMA PriceQuantity ==
    ASSUME NEW ls \in Lines, OnceEach(ls),
           \A s \in Slots : ls[s] # NoRow => productsW[ls[s].product] \in ProductRow
    PROVE  /\ AtCurrentPrices(ls) \in Lines
           /\ \A x : LineQuantity(AtCurrentPrices(ls), x) = LineQuantity(ls, x)
           /\ \A s \in Slots : AtCurrentPrices(ls)[s] = NoRow <=> ls[s] = NoRow
           /\ \A s \in Slots : ls[s] # NoRow =>
                 /\ AtCurrentPrices(ls)[s].quantity = ls[s].quantity
                 /\ AtCurrentPrices(ls)[s].price = productsW[ls[s].product].price
<1> USE NoRowAssumption
<1> DEFINE new == AtCurrentPrices(ls)
<1>1. \A s \in Slots : ls[s] = NoRow => new[s] = NoRow
  BY DEF AtCurrentPrices
<1>2. ASSUME NEW s \in Slots, ls[s] # NoRow
      PROVE  /\ new[s] \in ItemRow /\ new[s].product = ls[s].product
             /\ new[s].quantity = ls[s].quantity
             /\ new[s].price = productsW[ls[s].product].price
  <2>1. ls[s] \in ItemRow
    BY <1>2, LineRefers
  <2>2. PICK n \in Nat : n = productsW[ls[s].product].price
    BY <1>2 DEF ProductRow
  <2>3. new[s] = LineWithPrice(ls[s], n)
    BY <1>2, <2>2 DEF AtCurrentPrices
  <2>4. /\ LineWithPrice(ls[s], n) \in ItemRow
        /\ LineWithPrice(ls[s], n).product = ls[s].product
        /\ LineWithPrice(ls[s], n).quantity = ls[s].quantity
        /\ LineWithPrice(ls[s], n).price = n
    BY <2>1, <2>2 DEF LineWithPrice, ItemRow
  <2> QED
    BY <2>2, <2>3, <2>4
<1>3. DOMAIN new = Slots /\ new = [s \in Slots |-> new[s]]
  BY DEF AtCurrentPrices
<1>4. OnceEach(new)
  BY AtCurrentPricesRules
<1> HIDE DEF new
<1>5. new \in Lines
  BY <1>1, <1>2, <1>3 DEF Lines
<1>6. \A s \in Slots : new[s] = NoRow <=> ls[s] = NoRow
  BY <1>1, <1>2
<1>7. ASSUME NEW x PROVE LineQuantity(new, x) = LineQuantity(ls, x)
  <2>1. \A s \in Slots : new[s] # NoRow /\ new[s].product = x =>
            ls[s] # NoRow /\ ls[s].product = x /\ ls[s].quantity = new[s].quantity
    BY <1>2, <1>6
  <2>2. References(ls, x) => References(new, x)
    BY <1>2, <1>6 DEF References
  <2> QED
    BY <1>4, <1>5, <2>1, <2>2, SameQuantity
<1> QED
  BY <1>2, <1>5, <1>6, <1>7 DEF new

-----------------------------------------------------------------------------
(* Sales.                                                                  *)

\* UPDATE products SET stock twice is as good as once.
LEMMA WithStockTwice ==
    ASSUME NEW row \in ProductRow
    PROVE  /\ WithStock(row, row.stock) = row
           /\ \A n : WithStock(row, n).stock = n
           /\ \A n, m : WithStock(WithStock(row, n), m) = WithStock(row, m)
<1>1. ASSUME NEW n, NEW m
      PROVE  /\ WithStock(row, n).stock = n
             /\ WithStock(WithStock(row, n), m) = WithStock(row, m)
  BY DEF WithStock, ProductRow
<1>2. WithStock(row, row.stock) = row
  BY DEF WithStock, ProductRow
<1> QED
  BY <1>1, <1>2

\* What a sale has not touched it has taken nothing of.
LEMMA TookNothing ==
    ASSUME TypeOK, NEW r \in Requests, StockBooks(r), TouchesNoStock(r), op[r] \in Sales,
           NEW p \in ProductIDs
    PROVE  Took(r, p, 0)
<1>1. CASE productLock[p] # r
  BY <1>1 DEF Took
<1>2. CASE productLock[p] = r
  <2>1. products[p] \in ProductRow /\ productsW[p] = products[p]
    BY <1>2 DEF TypeOK, Products, StockBooks, Sales
  <2>2. products[p].stock \in Nat
    BY <2>1 DEF ProductRow
  <2>3. products[p].stock - 0 = products[p].stock /\ 0 <= products[p].stock
    BY <2>2
  <2>4. productsW[p] = WithStock(products[p], products[p].stock)
    BY <2>1, WithStockTwice
  <2>5. productsW[p] = WithStock(products[p], products[p].stock - 0)
    BY <2>3, <2>4
  <2> QED
    BY <1>2, <2>3, <2>5 DEF Took
<1> QED
  BY <1>1, <1>2

\* A sale takes what it wants of the product that it takes next.
LEMMA SaleTakes ==
    ASSUME IInv, NEW r \in Requests, NEW p \in ProductIDs, seen[r][p] # NoRow,
           StockBooks(r), op[r] \in Sales, Took(r, p, 0), DecreaseStock(p, want[r][p])
    PROVE  /\ productLock[p] = r
           /\ want[r][p] \in Nat \ {0} /\ want[r][p] <= products[p].stock
           /\ productsW'[p] = WithStock(products[p], products[p].stock - want[r][p])
           /\ \A x \in ProductIDs \ {p} : productsW'[x] = productsW[x]
<1>1. TypeOK /\ Claim(r, p)
  BY DEF IInv, RequestInv
<1>2. /\ productLock[p] = r /\ want[r][p] \in Nat \ {0}
      /\ productsW[p] = seen[r][p] /\ seen[r][p].stock >= want[r][p]
  BY <1>1 DEF Claim, TypeOK
<1>3. products[p] \in ProductRow
  BY <1>1, <1>2 DEF StockBooks, Sales, TypeOK, Products
<1>4. products[p].stock \in Nat
  BY <1>3 DEF ProductRow
<1>5. productsW[p] = WithStock(products[p], products[p].stock)
  <2>1. productsW[p] = WithStock(products[p], products[p].stock - 0)
    BY <1>2 DEF Took
  <2>2. products[p].stock - 0 = products[p].stock
    BY <1>4
  <2> QED
    BY <2>1, <2>2
<1>6. productsW[p] = products[p]
  BY <1>3, <1>5, WithStockTwice
<1>7. /\ productsW'[p] = WithStock(productsW[p], productsW[p].stock - want[r][p])
      /\ \A x \in ProductIDs \ {p} : productsW'[x] = productsW[x]
  BY <1>1 DEF DecreaseStock, TypeOK, Products
<1>8. want[r][p] <= products[p].stock
  BY <1>2, <1>4, <1>6
<1> QED
  BY <1>2, <1>6, <1>7, <1>8

\* CreateOrder inserts the order: nothing of its total is in the lines yet.
LEMMA CreateOrderInsertBooks ==
    ASSUME IInv, Rules, Books, NEW r \in Requests, Preserved(r), OwnReads(r),
           CreateOrderInsert(r)
    PROVE  Books'
<1> USE NullAssumption, NoRowAssumption
<1>1. TypeOK /\ RequestInv(r) /\ RequestRules(r) /\ RequestBooks(r) /\ Others(r)
  BY DEF IInv, Rules, Books, Preserved
<1>2. /\ op[r] = "CreateOrder" /\ pc[r] = "insert" /\ pc'[r] = "lines"
      /\ SaleTotal(r) \in Nat
      /\ UNCHANGED <<products, productsW, orders, items, itemsW, productLock, nextProduct,
                     tables, op, want, seen, current, lines>>
  BY <1>1 DEF CreateOrderInsert, IsAmount, At, Goto, TypeOK, tables
<1>3. PICK row \in OrderRow : InsertOrder(r, row) /\ row.status = "pending"
                              /\ row.total = SaleTotal(r)
  <2>1. user[r] \in Users
    BY <1>1, <1>2 DEF RequestInv
  <2> QED
    BY <1>2, <2>1 DEF CreateOrderInsert, OrderRow, Statuses
<1>4. /\ target'[r] \in OrderIDs /\ itemsW'[target'[r]] = NoLines
      /\ ordersW'[target'[r]] = row
      /\ \A o \in OrderIDs : orderLock'[o] = r => o = target'[r]
  <2>1. HoldsNoOrder(r) /\ UNCHANGED tables
    BY <1>2 DEF HoldsNoOrder
  <2> QED
    BY <1>1, <1>2, <1>3, <2>1, InsertRules
<1>5. seen[r] # NoProduct
  BY DEF CreateOrderInsert, IsSaleCurrency, NoProduct
<1>6. FillsUp(r)'
  <2>1. SaleTotal(r)' = SaleTotal(r)
    BY <1>2 DEF SaleTotal
  <2> QED
    BY <1>2, <1>3, <1>4, <1>5, <2>1, NoLinesTotal DEF FillsUp
<1>7. TotalBooks(r)'
  BY <1>2, <1>6 DEF TotalBooks, SellsCart, IsWriting, IsFilling, At
<1>8. ReadBooks(r)'
  BY <1>2 DEF ReadBooks, ReadsPlaced, ReadsLines, At
<1>9. StockBooks(r)'
  <2>1. ASSUME NEW p \in ProductIDs
        PROVE  Took(r, p, LineQuantity(itemsW[target[r]], p))'
    <3>1. Took(r, p, 0)
      BY <1>1, <1>2, TookNothing DEF RequestBooks, TouchesNoStock, Sales
    <3>2. LineQuantity(NoLines, p) = 0
      BY DEF LineQuantity, References, NoLines
    <3> QED
      BY <1>2, <1>4, <3>1, <3>2 DEF Took
  <2> QED
    BY <1>1, <1>2, <2>1 DEF RequestBooks, StockBooks, TouchesNoStock, IsFilling, At, Sales,
       Catalogue
<1>10. Decides(r)' /\ Edits(r)'
  BY <1>2 DEF Decides, Edits
<1> QED
  BY <1>2, <1>7, <1>8, <1>9, <1>10, StatementBooks DEF RequestBooks

\* CreateOrder puts a product into the lines and takes it from the stock.
LEMMA CreateOrderLineBooks ==
    ASSUME IInv, Rules, Books, NEW r \in Requests, Preserved(r), OwnReads(r),
           CreateOrderLine(r)
    PROVE  Books'
<1> USE NullAssumption, NoRowAssumption
<1>1. TypeOK /\ RequestInv(r) /\ RequestRules(r) /\ RequestBooks(r)
  BY DEF IInv, Rules, Books
<1>2. /\ op[r] = "CreateOrder" /\ pc[r] = "lines" /\ op[r] \in Sales /\ IsFilling(r)
      /\ UNCHANGED <<products, orders, items, ordersW, productLock, orderLock,
                     tables, op, pc, target, want, current, lines>>
  BY DEF CreateOrderLine, At, Sales, IsFilling, tables, locks
<1>3. PICK x \in OrderIDs : x = target[r]
  BY <1>1, <1>2 DEF RequestInv, OwnsTarget
<1>4. PICK p \in ProductIDs, s \in Slots :
          /\ seen[r][p] # NoRow /\ IsFreeSlot(itemsW[x], s)
          /\ itemsW' = [itemsW EXCEPT ![x] =
                          AppendLine(@, s, p, want[r][p], seen[r][p].price)]
          /\ DecreaseStock(p, want[r][p])
          /\ seen' = [seen EXCEPT ![r] = [@ EXCEPT ![p] = NoRow]]
  BY <1>3 DEF CreateOrderLine, IsNextToTake
<1> DEFINE ls == itemsW[x]
           q == want[r][p]
           price == seen[r][p].price
           new == AppendLine(ls, s, p, q, price)
<1>5. /\ ls \in Lines /\ OnceEach(ls) /\ ~References(ls, p)
      /\ seen[r] \in Products /\ seen[r][p] \in ProductRow /\ want[r] \in [ProductIDs -> Nat]
  BY <1>1, <1>2, <1>3, <1>4 DEF TypeOK, Products, Rules, OrderRules, RequestRules,
     FillsNewOrder, At
<1>6. /\ itemsW'[x] = new
      /\ seen'[r] = [seen[r] EXCEPT ![p] = NoRow]
  BY <1>1, <1>4 DEF TypeOK
<1>7. q \in Nat \ {0} /\ price \in Nat
  BY <1>1, <1>4, <1>5 DEF RequestInv, Claim, ProductRow
<1>8. /\ new # NoLines /\ LinesTotal(new) = LinesTotal(ls) + price * q
      /\ LineQuantity(new, p) = q /\ LineQuantity(ls, p) = 0
      /\ \A y \in ProductIDs \ {p} : LineQuantity(new, y) = LineQuantity(ls, y)
  BY <1>4, <1>5, <1>7, AppendTotal, AppendQuantity
<1>9. SaleTotal(r) = SaleTotal(r)' + price * q
  <2>1. SaleTotal(r) = SumOver(SaleAmounts(seen[r], want[r]))
    BY TotalsAreSums
  <2>2. SaleTotal(r)' = SumOver(SaleAmounts(seen'[r], want[r]))
    BY <1>2, SumsAreOne DEF SaleTotal, SaleAmounts
  <2>3. PICK sn \in Products : sn = seen[r]
    BY <1>5
  <2>4. PICK w \in [ProductIDs -> Nat] : w = want[r]
    BY <1>5
  <2>5. SumOver(SaleAmounts(sn, w)) =
            SumOver(SaleAmounts([sn EXCEPT ![p] = NoRow], w)) + sn[p].price * w[p]
    BY <1>4, <2>3, SaleTotalTakes
  <2> QED
    BY <1>6, <2>1, <2>2, <2>3, <2>4, <2>5
<1>10. LinesTotal(ls) \in Nat /\ SaleTotal(r)' \in Nat /\ price * q \in Nat
  <2>1. seen'[r] \in Products
    BY <1>5, <1>6 DEF Products
  <2>2. SaleAmounts(seen'[r], want[r]) \in [ProductIDs -> Nat]
    BY <1>5, <2>1, SaleAmountsType
  <2>3. SaleTotal(r)' = SumOver(SaleAmounts(seen'[r], want[r]))
    BY <1>2, SumsAreOne DEF SaleTotal, SaleAmounts
  <2> QED
    BY <1>5, <1>7, <2>2, <2>3, LinesTotalInNat, SlotsAreFinite, SumInNat, ProductInNat
<1>11. FillsUp(r)'
  <2>1. ordersW[x].total = LinesTotal(ls) + SaleTotal(r)
    BY <1>1, <1>2, <1>3 DEF RequestBooks, TotalBooks, FillsUp
  <2> HIDE DEF new, q, price, ls
  <2>2. ordersW[x].total = LinesTotal(new) + SaleTotal(r)'
    BY <1>8, <1>9, <1>10, <2>1
  <2> QED
    BY <1>2, <1>3, <1>6, <1>8, <2>2 DEF FillsUp
<1>12. TotalBooks(r)'
  BY <1>2, <1>11 DEF TotalBooks, SellsCart, IsWriting, IsFilling, At
<1>13. ReadBooks(r)'
  BY <1>2 DEF ReadBooks, ReadsPlaced, ReadsLines, At
<1>14. StockBooks(r)'
  <2>1. \A y \in ProductIDs : Took(r, y, LineQuantity(ls, y))
    BY <1>1, <1>2, <1>3 DEF RequestBooks, StockBooks
  <2>2. /\ productLock[p] = r /\ q <= products[p].stock
        /\ productsW'[p] = WithStock(products[p], products[p].stock - q)
        /\ \A y \in ProductIDs \ {p} : productsW'[y] = productsW[y]
    <3>1. Took(r, p, 0)
      BY <1>8, <2>1
    <3> QED
      BY <1>1, <1>2, <1>4, <3>1, SaleTakes DEF RequestBooks
  <2> HIDE DEF new, q, ls
  <2>3. ASSUME NEW y \in ProductIDs
        PROVE  Took(r, y, LineQuantity(itemsW[target[r]], y))'
    <3>1. CASE y = p
      BY <1>2, <1>3, <1>6, <1>8, <2>2, <3>1 DEF Took
    <3>2. CASE y # p
      BY <1>2, <1>3, <1>6, <1>8, <2>1, <2>2, <3>2 DEF Took
    <3> QED
      BY <3>1, <3>2
  <2> QED
    BY <1>1, <1>2, <2>3 DEF RequestBooks, StockBooks, TouchesNoStock, At, Sales, Catalogue
<1>15. Decides(r)' /\ Edits(r)'
  BY <1>2 DEF Decides, Edits
<1> QED
  BY <1>2, <1>12, <1>13, <1>14, <1>15, StatementBooks DEF RequestBooks

\* All its products are in the lines: so is its total.
LEMMA CreateOrderDoneBooks ==
    ASSUME IInv, Rules, Books, NEW r \in Requests, Preserved(r), OwnReads(r),
           CreateOrderDone(r)
    PROVE  Books'
<1> USE NullAssumption, NoRowAssumption
<1>1. TypeOK /\ RequestInv(r) /\ RequestRules(r) /\ RequestBooks(r)
  BY DEF IInv, Rules, Books
<1>2. /\ op[r] = "CreateOrder" /\ pc[r] = "lines" /\ pc'[r] = "commit" /\ IsFilling(r)
      /\ AllTaken(r)
      /\ UNCHANGED <<products, productsW, orders, items, ordersW, itemsW, productLock,
                     orderLock, tables, op, target, want, seen, current, lines>>
  BY <1>1 DEF CreateOrderDone, At, Goto, TypeOK, IsFilling, database, tables, working, locks
<1>3. PICK x \in OrderIDs : x = target[r]
  BY <1>1, <1>2 DEF RequestInv, OwnsTarget
<1>4. /\ orderLock[x] = r /\ \A o \in OrderIDs : orderLock[o] = r => o = x
      /\ orders[x] = NoRow /\ IsPlaced(ordersW[x]) /\ itemsW[x] \in Lines
  BY <1>1, <1>2, <1>3 DEF RequestInv, OwnsTarget, RequestRules, LocksItsOrder,
     FillsNewOrder, At, TypeOK
<1>5. seen[r] = NoProduct
  BY <1>1, <1>2 DEF AllTaken, TypeOK, Products, NoProduct
<1>6. SaleTotal(r) = 0
  BY <1>5, TotalsAreSums, NothingLeftTotal
<1>7. LinesTotal(itemsW[x]) \in Nat
  BY <1>4, LinesTotalInNat
<1>8. Adds(ordersW[x], itemsW[x])
  BY <1>1, <1>2, <1>3, <1>5, <1>6, <1>7 DEF RequestBooks, TotalBooks, FillsUp, Adds
<1>9. ordersW[x].status = "pending"
  <2>1. OneMove(x)
    BY DEF Rules, OrderRules
  <2>2. StatusOf(orders[x]) = Absent
    BY <1>4 DEF StatusOf
  <2>3. Lifecycle!Successors(Absent) = {"draft", "pending"}
    BY DEF Lifecycle!Successors
  <2>4. StatusOf(ordersW[x]) \in {Absent, "draft", "pending"}
    BY <2>1, <2>2, <2>3 DEF OneMove
  <2>5. ordersW[x] \in OrderRow /\ StatusOf(ordersW[x]) = ordersW[x].status
    BY <1>1, <1>4 DEF TypeOK, Orders, IsPlaced, StatusOf
  <2>6. ordersW[x].status # Absent
    BY <2>5 DEF OrderRow, Statuses, Absent
  <2> QED
    BY <1>4, <2>4, <2>5, <2>6 DEF IsPlaced
<1>10. TotalBooks(r)'
  BY <1>2, <1>4, <1>8 DEF TotalBooks, FillsUp, SellsCart, IsFilling, At
<1>11. ReadBooks(r)'
  BY <1>2 DEF ReadBooks, ReadsPlaced, ReadsLines, At
<1>12. StockBooks(r)'
  BY <1>1, <1>2 DEF RequestBooks, StockBooks, TouchesNoStock, IsFilling, At, Sales,
     Catalogue, Took
<1>13. Decides(r)' /\ Edits(r)'
  BY <1>2, <1>3, <1>4, <1>9 DEF Decides, Edits, MovesStatus, Sales, IsPlaced
<1> QED
  BY <1>2, <1>10, <1>11, <1>12, <1>13, StatementBooks DEF RequestBooks

\* Checkout fixes the prices: the total of the order is that of the sale.
LEMMA CheckoutPriceBooks ==
    ASSUME IInv, Rules, Books, NEW r \in Requests, Preserved(r), OwnReads(r),
           CheckoutPrice(r)
    PROVE  Books'
<1> USE NullAssumption, NoRowAssumption
<1>1. TypeOK /\ RequestInv(r) /\ RequestRules(r) /\ RequestBooks(r)
  BY DEF IInv, Rules, Books
<1>2. /\ op[r] = "Checkout" /\ pc[r] = "price" /\ pc'[r] = "take"
      /\ UNCHANGED <<products, productsW, orders, items, productLock, orderLock,
                     tables, op, target, want, seen, current, lines>>
  BY <1>1 DEF CheckoutPrice, At, Goto, TypeOK, tables, locks
<1>3. PICK x \in OrderIDs : x = target[r]
  BY <1>1, <1>2 DEF RequestInv, OwnsTarget
<1> DEFINE ls == itemsW[x]
           new == AtCurrentPrices(ls)
<1>4. /\ orderLock[x] = r /\ \A o \in OrderIDs : orderLock[o] = r => o = x
      /\ ordersW[x] \in OrderRow /\ ordersW[x].status = "draft"
      /\ ls \in Lines /\ OnceEach(ls)
      /\ seen[r] \in Products /\ want[r] \in [ProductIDs -> Nat]
  BY <1>1, <1>2, <1>3 DEF RequestInv, OwnsTarget, RequestRules, LocksItsOrder, EditsDraft,
     EditMethods, TypeOK, Orders, Rules, OrderRules
<1>5. /\ ls # NoLines
      /\ \A p \in ProductIDs : want[r][p] = LineQuantity(ls, p)
  BY <1>1, <1>2, <1>3 DEF RequestBooks, TotalBooks, SellsCart
<1>6. \A p \in ProductIDs : /\ seen[r][p] # NoRow <=> want[r][p] > 0
                            /\ seen[r][p] # NoRow => productsW[p] = seen[r][p]
  BY <1>1, <1>2 DEF RequestInv, Claim, AllLocked
<1>7. \A s \in Slots : ls[s] # NoRow => productsW[ls[s].product] \in ProductRow
  BY <1>2, <1>3, CartIsLocked
<1>8. PICK c \in Currencies : ordersW'[x] = WithTotal(ordersW[x], SaleTotal(r), c)
  BY <1>1, <1>3 DEF CheckoutPrice, UpdateTotal, TypeOK, Orders
<1>9. itemsW'[x] = new
  BY <1>1, <1>3 DEF CheckoutPrice, TypeOK
<1>10. /\ ordersW'[x].total = SaleTotal(r) /\ ordersW'[x].status = "draft"
  BY <1>4, <1>8 DEF WithTotal, OrderRow
<1> HIDE DEF ls, new
<1>11. /\ new \in Lines
       /\ \A p \in ProductIDs : LineQuantity(new, p) = LineQuantity(ls, p)
       /\ \A s \in Slots : new[s] = NoRow <=> ls[s] = NoRow
       /\ \A s \in Slots : ls[s] # NoRow =>
             /\ new[s].quantity = ls[s].quantity
             /\ new[s].price = productsW[ls[s].product].price
  BY <1>4, <1>7, PriceQuantity DEF new
<1>12. \A s \in Slots : ls[s] # NoRow =>
             /\ new[s].quantity = ls[s].quantity
             /\ new[s].price = seen[r][ls[s].product].price
  <2>1. ASSUME NEW s \in Slots, ls[s] # NoRow
        PROVE  productsW[ls[s].product] = seen[r][ls[s].product]
    <3>1. ls[s].product \in ProductIDs /\ References(ls, ls[s].product)
      BY <1>4, <2>1, LineRefers
    <3>2. want[r][ls[s].product] > 0
      BY <1>4, <1>5, <3>1, QuantityIsPositive
    <3> QED
      BY <1>6, <3>1, <3>2
  <2> QED
    BY <1>11, <2>1
<1>13. LinesTotal(new) = SumOver(SaleAmounts(seen[r], want[r]))
  BY <1>4, <1>5, <1>6, <1>11, <1>12, CartTotal
<1>14. Adds(ordersW'[x], itemsW'[x])
  BY <1>9, <1>10, <1>13, TotalsAreSums DEF Adds, IsPlaced
<1>15. new # NoLines
  <2>1. PICK s \in Slots : ls[s] # NoRow
    BY <1>4, <1>5 DEF Lines, NoLines
  <2> QED
    BY <1>11, <2>1 DEF NoLines
<1>16. SellsCart(r)'
  BY <1>2, <1>3, <1>5, <1>9, <1>11, <1>15 DEF SellsCart
<1>17. TotalBooks(r)'
  BY <1>2, <1>4, <1>14, <1>16 DEF TotalBooks, FillsUp, IsFilling, At
<1>18. ReadBooks(r)'
  BY <1>2 DEF ReadBooks, ReadsPlaced, ReadsLines, At
<1>19. StockBooks(r)'
  <2>1. ASSUME NEW p \in ProductIDs
        PROVE  Took(r, p, IF seen[r][p] = NoRow THEN want[r][p] ELSE 0)
    <3>1. (IF seen[r][p] = NoRow THEN want[r][p] ELSE 0) = 0
      BY <1>4, <1>6
    <3>2. Took(r, p, 0)
      BY <1>1, <1>2, TookNothing DEF RequestBooks, TouchesNoStock, Sales
    <3> QED
      BY <3>1, <3>2
  <2>2. (\A p \in ProductIDs : Took(r, p, IF seen[r][p] = NoRow THEN want[r][p] ELSE 0))'
    BY <1>2, <2>1 DEF Took
  <2> QED
    BY <1>1, <1>2, <2>2 DEF RequestBooks, StockBooks, TouchesNoStock, IsFilling, At, Sales,
       Catalogue
<1>20. Decides(r)' /\ Edits(r)'
  BY <1>2 DEF Decides, Edits
<1> QED
  BY <1>2, <1>17, <1>18, <1>19, <1>20, StatementBooks DEF RequestBooks

\* Checkout takes a product from the stock.
LEMMA CheckoutTakeBooks ==
    ASSUME IInv, Rules, Books, NEW r \in Requests, Preserved(r), OwnReads(r),
           CheckoutTake(r)
    PROVE  Books'
<1> USE NullAssumption, NoRowAssumption
<1>1. TypeOK /\ RequestInv(r) /\ RequestRules(r) /\ RequestBooks(r)
  BY DEF IInv, Rules, Books
<1>2. /\ op[r] = "Checkout" /\ pc[r] = "take" /\ op[r] \in Sales
      /\ UNCHANGED <<products, orders, items, ordersW, itemsW, productLock, orderLock,
                     tables, op, pc, target, want, current, lines>>
  BY DEF CheckoutTake, At, Sales, tables, locks
<1>3. PICK p \in ProductIDs :
          /\ seen[r][p] # NoRow /\ DecreaseStock(p, want[r][p])
          /\ seen' = [seen EXCEPT ![r] = [@ EXCEPT ![p] = NoRow]]
  BY DEF CheckoutTake, IsNextToTake
<1>4. seen'[r][p] = NoRow /\ \A y \in ProductIDs \ {p} : seen'[r][y] = seen[r][y]
  BY <1>1, <1>3 DEF TypeOK, Products
<1>5. \A y \in ProductIDs : Took(r, y, IF seen[r][y] = NoRow THEN want[r][y] ELSE 0)
  BY <1>1, <1>2 DEF RequestBooks, StockBooks, At
<1>6. Took(r, p, 0)
  BY <1>3, <1>5
<1>7. /\ productLock[p] = r /\ want[r][p] <= products[p].stock
      /\ productsW'[p] = WithStock(products[p], products[p].stock - want[r][p])
      /\ \A y \in ProductIDs \ {p} : productsW'[y] = productsW[y]
  BY <1>1, <1>2, <1>3, <1>6, SaleTakes DEF RequestBooks
<1>8. ASSUME NEW y \in ProductIDs
      PROVE  Took(r, y, IF seen[r][y] = NoRow THEN want[r][y] ELSE 0)'
  <2>1. CASE y = p
    BY <1>2, <1>4, <1>7, <2>1 DEF Took
  <2>2. CASE y # p
    BY <1>2, <1>4, <1>5, <1>7, <2>2 DEF Took
  <2> QED
    BY <2>1, <2>2
<1>9. StockBooks(r)'
  BY <1>1, <1>2, <1>8 DEF RequestBooks, StockBooks, TouchesNoStock, IsFilling, At, Sales,
     Catalogue
<1>10. TotalBooks(r)'
  BY <1>1, <1>2 DEF RequestBooks, TotalBooks, FillsUp, SellsCart, IsWriting, IsFilling, At
<1>11. ReadBooks(r)' /\ Decides(r)' /\ Edits(r)'
  BY <1>2 DEF ReadBooks, ReadsPlaced, ReadsLines, Decides, Edits, At
<1> QED
  BY <1>2, <1>9, <1>10, <1>11, StatementBooks DEF RequestBooks

\* Checkout places the order, all the stock of its lines taken.
LEMMA CheckoutSubmitBooks ==
    ASSUME IInv, Rules, Books, NEW r \in Requests, Preserved(r), OwnReads(r),
           CheckoutSubmit(r)
    PROVE  Books'
<1> USE NullAssumption, NoRowAssumption
<1>1. TypeOK /\ RequestInv(r) /\ RequestRules(r) /\ RequestBooks(r)
  BY DEF IInv, Rules, Books
<1>2. /\ op[r] = "Checkout" /\ pc[r] = "take" /\ pc'[r] = "commit" /\ AllTaken(r)
      /\ SetStatus(target[r], "pending")
      /\ UNCHANGED <<products, productsW, orders, items, itemsW, productLock, orderLock,
                     tables, op, target, want, seen, current, lines>>
  BY <1>1 DEF CheckoutSubmit, At, Goto, TypeOK, tables, locks
<1>3. PICK x \in OrderIDs : x = target[r]
  BY <1>1, <1>2 DEF RequestInv, OwnsTarget
<1>4. /\ orderLock[x] = r /\ \A o \in OrderIDs : orderLock[o] = r => o = x
      /\ ordersW[x] \in OrderRow /\ ~IsPlaced(orders[x])
  BY <1>1, <1>2, <1>3 DEF RequestInv, OwnsTarget, RequestRules, LocksItsOrder, EditsDraft,
     EditMethods, TypeOK, Orders
<1>5. \A p \in ProductIDs : want[r][p] = LineQuantity(itemsW[x], p)
  BY <1>1, <1>2, <1>3 DEF RequestBooks, TotalBooks, SellsCart
<1>6. itemsW[x] # NoLines /\ Adds(ordersW[x], itemsW[x])
  BY <1>1, <1>2, <1>3, <1>4 DEF RequestBooks, TotalBooks, SellsCart, IsWriting, IsFilling, At
<1>7. ordersW'[x] = WithStatus(ordersW[x], "pending")
  BY <1>1, <1>2, <1>3 DEF SetStatus, TypeOK, Orders
<1>8. ordersW'[x].status = "pending" /\ Adds(ordersW'[x], itemsW'[x])
  BY <1>2, <1>4, <1>6, <1>7, WithStatusAdds
<1>9. ordersW'[x] # NoRow
  <2>1. WithStatus(ordersW[x], "pending") \in OrderRow
    BY <1>4, WithStatusType DEF Statuses
  <2> QED
    BY <1>7, <2>1
<1>10. TotalBooks(r)'
  BY <1>2, <1>4, <1>8 DEF TotalBooks, FillsUp, SellsCart, IsFilling, At
<1>11. ReadBooks(r)'
  BY <1>2 DEF ReadBooks, ReadsPlaced, ReadsLines, At
<1>12. StockBooks(r)'
  <2>1. \A p \in ProductIDs : Took(r, p, LineQuantity(itemsW[target[r]], p))
    BY <1>1, <1>2, <1>3, <1>5 DEF RequestBooks, StockBooks, AllTaken, At
  <2>2. (\A p \in ProductIDs : Took(r, p, LineQuantity(itemsW[target[r]], p)))'
    BY <1>2, <2>1 DEF Took
  <2> QED
    BY <1>1, <1>2, <2>2 DEF RequestBooks, StockBooks, TouchesNoStock, IsFilling, At, Sales,
       Catalogue
<1>13. Decides(r)' /\ Edits(r)'
  BY <1>2, <1>3, <1>4, <1>8, <1>9 DEF Decides, Edits, MovesStatus, Sales
<1> QED
  BY <1>2, <1>10, <1>11, <1>12, <1>13, StatementBooks DEF RequestBooks

-----------------------------------------------------------------------------
(* Cancellations.                                                          *)

\* CancelOrder reads the lines of the order that it locks: it has all of
\* them to give back.
LEMMA CancelOrderReadBooks ==
    ASSUME IInv, Rules, Books, NEW r \in Requests, Preserved(r), OwnReads(r),
           CancelOrderRead(r)
    PROVE  Books'
<1> USE NullAssumption, NoRowAssumption
<1>1. TypeOK /\ RowInv /\ RequestInv(r) /\ RequestRules(r) /\ RequestBooks(r)
  BY DEF IInv, Rules, Books
<1>2. /\ op[r] = "CancelOrder" /\ pc[r] = "order" /\ pc'[r] = "restock"
      /\ target[r] \in OrderIDs
      /\ lines'[r] = LinesSeenBy(r, target[r])
      /\ UNCHANGED <<products, productsW, orders, items, ordersW, itemsW, productLock,
                     tables, op, target, want, seen>>
  BY <1>1 DEF CancelOrderRead, ReadOrderForUpdate, OrderExists, Goto, TypeOK, tables, working
<1>3. PICK x \in OrderIDs : x = target[r]
  BY <1>2
<1>4. /\ orderLock[x] = None
      /\ \A o \in OrderIDs : orderLock'[o] = r => o = x
  BY <1>1, <1>2, <1>3 DEF CancelOrderRead, ReadOrderForUpdate, OrderAvailable, LockOrder,
     TypeOK, RequestRules, LocksItsOrder, HoldsNoOrder
<1>5. lines'[r] = itemsW[x]
  BY <1>1, <1>2, <1>3, <1>4 DEF LinesSeenBy, RowInv, UnlockedRowsAgree
<1>6. TotalBooks(r)'
  BY <1>2, <1>4, FreeOrderAdds DEF TotalBooks, FillsUp, SellsCart, IsFilling, At
<1>7. ReadBooks(r)'
  BY <1>2, <1>3, <1>5 DEF ReadBooks, ReadsPlaced, ReadsLines, At
<1>8. StockBooks(r)'
  <2>1. \A p \in ProductIDs : productLock[p] # r
    BY <1>1, <1>2 DEF RequestBooks, StockBooks
  <2>2. \A p \in ProductIDs : GaveBack(r, p, LineQuantity(itemsW[target[r]], p),
                                       LineQuantity(lines[r], p))'
    BY <1>2, <1>3, <1>5, <2>1 DEF GaveBack
  <2> QED
    BY <1>2, <2>1, <2>2 DEF StockBooks, TouchesNoStock, IsFilling, At, Sales
<1>9. Decides(r)' /\ Edits(r)'
  BY <1>2 DEF Decides, Edits
<1> QED
  BY <1>2, <1>6, <1>7, <1>8, <1>9, StatementBooks DEF RequestBooks

\* UPDATE products SET stock = stock + quantity, for a line whose units have
\* not been given back.
LEMMA RestockGivesBack ==
    ASSUME IInv, NEW r \in Requests, NEW p \in ProductIDs, NEW q \in Nat,
           products[p] # NoRow, GaveBack(r, p, q, q), IncreaseStock(r, p, q)
    PROVE  /\ productLock' = [productLock EXCEPT ![p] = r]
           /\ productsW'[p] = WithStock(products[p], products[p].stock + q)
           /\ \A y \in ProductIDs \ {p} : productsW'[y] = productsW[y]
<1> USE NullAssumption, NoRowAssumption
<1>1. TypeOK /\ RowInv
  BY DEF IInv
<1>2. /\ productLock[p] \in {None, r}
      /\ productLock' = [productLock EXCEPT ![p] = r]
      /\ productsW' = [productsW EXCEPT ![p] = WithStock(@, productsW[p].stock + q)]
  BY DEF IncreaseStock, ProductExists, ProductAvailable, LockProduct
<1>3. products[p] \in ProductRow /\ products[p].stock \in Nat
  BY <1>1 DEF TypeOK, Products, ProductRow
<1>4. productsW[p] = products[p]
  <2>1. CASE productLock[p] = None
    BY <1>1, <2>1 DEF RowInv, UnlockedRowsAgree
  <2>2. CASE productLock[p] = r
    <3>1. productsW[p] = WithStock(products[p], products[p].stock + q - q)
      BY <2>2 DEF GaveBack
    <3>2. products[p].stock + q - q = products[p].stock
      BY <1>3
    <3>3. productsW[p] = WithStock(products[p], products[p].stock)
      BY <3>1, <3>2
    <3> QED
      BY <1>3, <3>3, WithStockTwice
  <2> QED
    BY <1>2, <2>1, <2>2
<1>5. /\ productsW'[p] = WithStock(productsW[p], productsW[p].stock + q)
      /\ \A y \in ProductIDs \ {p} : productsW'[y] = productsW[y]
  BY <1>1, <1>2 DEF TypeOK, Products
<1> QED
  BY <1>2, <1>4, <1>5

\* CancelOrder gives a line back.
LEMMA CancelOrderRestockBooks ==
    ASSUME IInv, Rules, Books, NEW r \in Requests, Preserved(r), OwnReads(r),
           CancelOrderRestock(r)
    PROVE  Books'
<1> USE NullAssumption, NoRowAssumption
<1>1. TypeOK /\ RowInv /\ RequestInv(r) /\ RequestRules(r) /\ RequestBooks(r)
  BY DEF IInv, Rules, Books
<1>2. /\ op[r] = "CancelOrder" /\ pc[r] = "restock"
      /\ UNCHANGED <<products, orders, items, ordersW, itemsW, orderLock,
                     tables, op, pc, target, want, seen, current>>
  BY DEF CancelOrderRestock, At, tables
<1>3. PICK x \in OrderIDs : x = target[r]
  BY <1>1, <1>2 DEF RequestInv, OwnsTarget
<1>4. PICK s \in Slots :
          /\ lines[r][s] # NoRow
          /\ IncreaseStock(r, lines[r][s].product, lines[r][s].quantity)
          /\ lines' = [lines EXCEPT ![r] = [@ EXCEPT ![s] = NoRow]]
  BY DEF CancelOrderRestock, IsNextLine
<1>5. PICK ls \in Lines : ls = itemsW[x]
  BY <1>1 DEF TypeOK
<1>6. PICK had \in Lines : had = lines[r]
  BY <1>1 DEF TypeOK
<1>7. /\ OnceEach(ls)
      /\ \A t \in Slots : had[t] \in {NoRow, ls[t]}
  BY <1>1, <1>2, <1>3, <1>5, <1>6 DEF Rules, OrderRules, RequestBooks, ReadBooks,
     ReadsLines, OwnsTarget
<1>8. OnceEach(had) /\ had[s] # NoRow /\ had[s] = ls[s]
  BY <1>4, <1>6, <1>7 DEF OnceEach
<1>9. PICK p \in ProductIDs, q \in Nat \ {0} : p = had[s].product /\ q = had[s].quantity
  BY <1>8 DEF Lines, ItemRow
<1>10. lines'[r] = [had EXCEPT ![s] = NoRow]
  BY <1>1, <1>4, <1>6 DEF TypeOK
<1>11. LineQuantity(had, p) = q /\ LineQuantity(ls, p) = q
  BY <1>7, <1>8, <1>9, LineQuantityIs
<1>12. /\ LineQuantity(lines'[r], p) = 0
       /\ \A y \in ProductIDs \ {p} : LineQuantity(lines'[r], y) = LineQuantity(had, y)
  <2>1. /\ LineQuantity([had EXCEPT ![s] = NoRow], had[s].product) = 0
        /\ \A y \in ProductIDs \ {had[s].product} :
              LineQuantity([had EXCEPT ![s] = NoRow], y) = LineQuantity(had, y)
    BY <1>8, RemoveQuantity
  <2> QED
    BY <1>9, <1>10, <2>1
<1>13. products[p] # NoRow
  <2>1. IsPlaced(orders[x])
    BY <1>1, <1>2, <1>3 DEF RequestRules, MovesPending, OwnsTarget, IsPlaced
  <2>2. items[x] = ls
    BY <1>5, <2>1 DEF Rules, OrderRules, OnlyStatusMoves
  <2> QED
    BY <1>8, <1>9, <2>2 DEF Rules, OrderRules, CommittedLinesExist, References
<1>14. \A y \in ProductIDs : GaveBack(r, y, LineQuantity(ls, y), LineQuantity(had, y))
  BY <1>1, <1>2, <1>3, <1>5, <1>6 DEF RequestBooks, StockBooks
<1>15. /\ productLock' = [productLock EXCEPT ![p] = r]
       /\ productsW'[p] = WithStock(products[p], products[p].stock + q)
       /\ \A y \in ProductIDs \ {p} : productsW'[y] = productsW[y]
  <2>1. GaveBack(r, p, q, q)
    BY <1>11, <1>14
  <2> QED
    BY <1>4, <1>6, <1>9, <1>13, <2>1, RestockGivesBack
<1>16. /\ productLock'[p] = r
       /\ \A y \in ProductIDs \ {p} : productLock'[y] = productLock[y]
  BY <1>1, <1>15 DEF TypeOK
<1>17. ASSUME NEW y \in ProductIDs
       PROVE  GaveBack(r, y, LineQuantity(itemsW[target[r]], y), LineQuantity(lines[r], y))'
  <2>1. CASE y = p
    <3>1. products[p].stock + q - 0 = products[p].stock + q
      <4>1. products[p].stock \in Nat
        BY <1>1, <1>13 DEF TypeOK, Products, ProductRow
      <4> QED
        BY <4>1
    <3> QED
      BY <1>2, <1>3, <1>5, <1>11, <1>12, <1>15, <1>16, <2>1, <3>1 DEF GaveBack
  <2>2. CASE y # p
    BY <1>2, <1>3, <1>5, <1>12, <1>14, <1>15, <1>16, <2>2 DEF GaveBack
  <2> QED
    BY <2>1, <2>2
<1>18. StockBooks(r)'
  BY <1>1, <1>2, <1>13, <1>16, <1>17
     DEF RequestBooks, StockBooks, TouchesNoStock, IsFilling, At, Sales
<1>19. TotalBooks(r)'
  BY <1>1, <1>2 DEF RequestBooks, TotalBooks, FillsUp, SellsCart, IsWriting, IsFilling, At
<1>20. ReadBooks(r)'
  <2>1. \A t \in Slots : lines'[r][t] \in {NoRow, ls[t]}
    BY <1>7, <1>10 DEF Lines
  <2> QED
    BY <1>2, <1>3, <1>5, <2>1 DEF ReadBooks, ReadsPlaced, ReadsLines, At
<1>21. Decides(r)' /\ Edits(r)'
  BY <1>2 DEF Decides, Edits
<1> QED
  BY <1>2, <1>18, <1>19, <1>20, <1>21, StatementBooks DEF RequestBooks

\* All its lines are given back.
LEMMA CancelOrderRestockedBooks ==
    ASSUME IInv, Rules, Books, NEW r \in Requests, Preserved(r), OwnReads(r),
           CancelOrderRestocked(r)
    PROVE  Books'
<1>1. TypeOK /\ RequestBooks(r)
  BY DEF IInv, Books
<1>2. /\ op[r] = "CancelOrder" /\ pc[r] = "restock" /\ pc'[r] = "mark"
      /\ lines[r] = NoLines
      /\ UNCHANGED <<products, productsW, orders, items, ordersW, itemsW, productLock,
                     orderLock, tables, op, target, want, seen, current, lines>>
  BY <1>1 DEF CancelOrderRestocked, At, Goto, TypeOK, database, tables, working, locks
<1>3. TotalBooks(r)'
  BY <1>1, <1>2 DEF RequestBooks, TotalBooks, FillsUp, SellsCart, IsWriting, IsFilling, At
<1>4. ReadBooks(r)'
  BY <1>1, <1>2 DEF RequestBooks, ReadBooks, ReadsPlaced, ReadsLines, OwnsTarget, At
<1>5. StockBooks(r)'
  BY <1>1, <1>2 DEF RequestBooks, StockBooks, TouchesNoStock, IsFilling, At, Sales, GaveBack
<1>6. Decides(r)' /\ Edits(r)'
  BY <1>2 DEF Decides, Edits
<1> QED
  BY <1>2, <1>3, <1>4, <1>5, <1>6, StatementBooks DEF RequestBooks

\* CancelOrder marks the order as cancelled, all its units given back.
LEMMA CancelOrderMarkBooks ==
    ASSUME IInv, Rules, Books, NEW r \in Requests, Preserved(r), OwnReads(r),
           CancelOrderMark(r)
    PROVE  Books'
<1> USE NullAssumption, NoRowAssumption
<1>1. TypeOK /\ RequestInv(r) /\ RequestRules(r) /\ RequestBooks(r)
  BY DEF IInv, Rules, Books
<1>2. /\ op[r] = "CancelOrder" /\ pc[r] = "mark" /\ pc'[r] = "commit"
      /\ SetStatus(target[r], "cancelled")
      /\ UNCHANGED <<products, productsW, orders, items, itemsW, productLock,
                     orderLock, tables, op, target, want, seen, current, lines>>
  BY <1>1 DEF CancelOrderMark, Mark, Goto, TypeOK, tables, locks
<1>3. PICK x \in OrderIDs : x = target[r]
  BY <1>1, <1>2 DEF RequestInv, OwnsTarget
<1>4. /\ orderLock[x] = r /\ ordersW[x] = orders[x] /\ IsPlaced(orders[x])
      /\ orders[x].status = "pending" /\ ordersW[x] \in OrderRow
      /\ \A o \in OrderIDs : orderLock[o] = r => o = x
  BY <1>1, <1>2, <1>3 DEF RequestInv, OwnsTarget, RequestRules, MovesPending, IsPlaced,
     LocksItsOrder, TypeOK, Orders
<1>5. Adds(ordersW[x], itemsW[x]) /\ itemsW[x] # NoLines
  BY <1>1, <1>2, <1>4 DEF RequestBooks, TotalBooks, IsWriting, IsFilling, At, Adds, IsPlaced
<1>6. ordersW'[x] = WithStatus(ordersW[x], "cancelled")
  BY <1>1, <1>2, <1>3 DEF SetStatus, TypeOK, Orders
<1>7. ordersW'[x].status = "cancelled" /\ Adds(ordersW'[x], itemsW'[x])
  BY <1>2, <1>4, <1>5, <1>6, WithStatusAdds
<1>8. TotalBooks(r)'
  BY <1>2, <1>4, <1>7 DEF TotalBooks, FillsUp, SellsCart, IsFilling, At
<1>9. ReadBooks(r)'
  <2>1. ReadsLines(r)'
    BY <1>1, <1>2 DEF RequestBooks, ReadBooks, ReadsLines, OwnsTarget
  <2> QED
    BY <1>2, <2>1 DEF ReadBooks, ReadsPlaced, At
<1>10. StockBooks(r)'
  BY <1>1, <1>2 DEF RequestBooks, StockBooks, TouchesNoStock, IsFilling, At, Sales, GaveBack
<1>11. Decides(r)' /\ Edits(r)'
  BY <1>2, <1>3, <1>4, <1>7 DEF Decides, Edits, MovesStatus, Sales, IsPlaced
<1> QED
  BY <1>2, <1>8, <1>9, <1>10, <1>11, StatementBooks DEF RequestBooks

-----------------------------------------------------------------------------
(* The catalogue.                                                          *)

\* The administrator's methods lock no order and read none: what is left to
\* show is that of the products they write.
LEMMA CatalogueBooks ==
    ASSUME IInv, Rules, Books, NEW r \in Requests, Preserved(r), OwnReads(r),
           op[r] \in Catalogue, pc[r] \in {"product", "references"},
           pc'[r] \in {"references", "commit"},
           UNCHANGED <<op, orderLock, tables, target>>,
           \A p \in ProductIDs : productLock'[p] = r =>
               /\ op[r] # "CreateProduct" => products[p] # NoRow
               /\ op[r] = "CreateProduct" => products[p] = NoRow
               /\ op[r] = "DeleteProduct" => productsW'[p] = NoRow
    PROVE  Books'
<1>1. TypeOK /\ RequestRules(r)
  BY DEF IInv, Rules
<1>2. \A o \in OrderIDs : orderLock[o] # r
  BY <1>1 DEF RequestRules, LocksItsOrder, HoldsNoOrder, Catalogue
<1>3. TotalBooks(r)'
  BY <1>2 DEF TotalBooks, FillsUp, SellsCart, IsFilling, At, Catalogue
<1>4. ReadBooks(r)'
  BY DEF ReadBooks, ReadsPlaced, ReadsLines, At, Catalogue
<1>5. StockBooks(r)'
  BY DEF StockBooks, TouchesNoStock, IsFilling, At, Sales, Catalogue, tables
<1>6. Decides(r)' /\ Edits(r)'
  BY <1>2 DEF Decides, Edits, MovesStatus, Sales, Catalogue
<1> QED
  BY <1>3, <1>4, <1>5, <1>6, StatementBooks DEF RequestBooks

\* A new product, a body put over a product, a product that goes.
LEMMA ProductServiceBooks ==
    ASSUME IInv, Rules, Books, NEW r \in Requests, Preserved(r), OwnReads(r),
           \/ CreateProduct(r) \/ UpdateProduct(r)
           \/ DeleteProduct(r) \/ DeleteProductChecked(r)
    PROVE  Books'
<1> USE NullAssumption, NoRowAssumption
<1>1. TypeOK /\ RowInv /\ RequestBooks(r) /\ StockBooks(r)
  BY DEF IInv, Books, RequestBooks
<1>2. CASE CreateProduct(r)
  <2>1. /\ op[r] = "CreateProduct" /\ pc[r] = "product" /\ pc'[r] = "commit"
        /\ UNCHANGED <<op, orderLock, tables, target>>
        /\ nextProduct \in ProductIDs
        /\ productLock' = [productLock EXCEPT ![nextProduct] = r]
    BY <1>1, <1>2 DEF CreateProduct, CreateRow, LockProduct, At, Goto, TypeOK
  <2>2. products[nextProduct] = NoRow
    BY <1>1, <2>1 DEF RowInv, FreshIds, ProductIDs
  <2>3. \A p \in ProductIDs : productLock'[p] = r => products[p] = NoRow
    BY <1>1, <2>1, <2>2 DEF StockBooks, TypeOK
  <2> QED
    BY <2>1, <2>3, CatalogueBooks DEF Catalogue
<1>3. CASE UpdateProduct(r)
  <2>1. /\ op[r] = "UpdateProduct" /\ pc[r] = "product" /\ pc'[r] = "commit"
        /\ UNCHANGED <<op, orderLock, tables, target>>
        /\ \E p \in ProductIDs : /\ products[p] # NoRow
                                 /\ productLock' = [productLock EXCEPT ![p] = r]
    BY <1>1, <1>3 DEF UpdateProduct, ProductExists, LockProduct, At, Goto, TypeOK
  <2>2. \A p \in ProductIDs : productLock'[p] = r => products[p] # NoRow
    BY <1>1, <2>1 DEF StockBooks, TypeOK
  <2> QED
    BY <2>1, <2>2, CatalogueBooks DEF Catalogue
<1>4. CASE DeleteProduct(r)
  <2>1. /\ op[r] = "DeleteProduct" /\ pc[r] = "product" /\ pc'[r] = "references"
        /\ UNCHANGED <<op, orderLock, tables, target>>
        /\ \E p \in ProductIDs : /\ products[p] # NoRow
                                 /\ productLock' = [productLock EXCEPT ![p] = r]
                                 /\ productsW' = [productsW EXCEPT ![p] = NoRow]
    BY <1>1, <1>4 DEF DeleteProduct, DeleteRow, ProductExists, LockProduct, At, Goto, TypeOK
  <2>2. \A p \in ProductIDs :
            productLock'[p] = r => products[p] # NoRow /\ productsW'[p] = NoRow
    BY <1>1, <2>1 DEF StockBooks, TypeOK, Products
  <2> QED
    BY <2>1, <2>2, CatalogueBooks DEF Catalogue
<1>5. CASE DeleteProductChecked(r)
  <2>1. /\ op[r] = "DeleteProduct" /\ pc[r] = "references" /\ pc'[r] = "commit"
        /\ UNCHANGED <<op, orderLock, tables, target, productLock, productsW>>
    BY <1>1, <1>5 DEF DeleteProductChecked, At, Goto, TypeOK, database, locks, working
  <2>2. \A p \in ProductIDs :
            productLock'[p] = r => products[p] # NoRow /\ productsW'[p] = NoRow
    BY <1>1, <2>1 DEF StockBooks
  <2> QED
    BY <2>1, <2>2, CatalogueBooks DEF Catalogue
<1> QED
  BY <1>2, <1>3, <1>4, <1>5

-----------------------------------------------------------------------------
(* The invariant.                                                          *)

\* Every step of the order service.
LEMMA OrderServiceStepBooks ==
    ASSUME IInv, Rules, Books, NEW r \in Requests, Preserved(r), OwnReads(r),
           OrderServiceStep(r)
    PROVE  Books'
<1>1. CASE CreateOrderLock(r)
  BY <1>1, LockSaleBooks
<1>2. CASE CreateOrderInsert(r)
  BY <1>2, CreateOrderInsertBooks
<1>3. CASE CreateOrderLine(r)
  BY <1>3, CreateOrderLineBooks
<1>4. CASE CreateOrderDone(r)
  BY <1>4, CreateOrderDoneBooks
<1>5. CASE CancelOrderRead(r)
  BY <1>5, CancelOrderReadBooks
<1>6. CASE CancelOrderRestock(r)
  BY <1>6, CancelOrderRestockBooks
<1>7. CASE CancelOrderRestocked(r)
  BY <1>7, CancelOrderRestockedBooks
<1>8. CASE CancelOrderMark(r)
  BY <1>8, CancelOrderMarkBooks
<1>9. CASE PayOrderRead(r)
  BY <1>9, PayOrderReadBooks
<1>10. CASE PayOrderSucceeds(r)
  BY <1>10, PayOrderSucceedsBooks
<1>11. CASE PayOrderMark(r)
  BY <1>11, PayOrderMarkBooks
<1>12. CASE UpdateOrderStatusRun(r)
  BY <1>12, UpdateOrderStatusBooks
<1>13. CASE GetOrderRow(r)
  BY <1>13, GetOrderRowBooks
<1>14. CASE GetOrderItems(r)
  BY <1>14, GetOrderItemsBooks
<1>15. CASE CreateOrderRefuse(r) \/ CancelOrderRefuse(r) \/ PayOrderRefuse(r)
            \/ PayOrderFails(r) \/ PayOrderTimesOut(r) \/ UpdateOrderStatusRefuse(r)
            \/ GetOrderRefuse(r)
  BY <1>15, RollbackBooks DEF CreateOrderRefuse, RefuseSale, CancelOrderRefuse,
     PayOrderRefuse, RefuseOrder, PayOrderFails, PayOrderTimesOut,
     UpdateOrderStatusRefuse, GetOrderRefuse, Reject
<1> QED
  BY <1>1, <1>2, <1>3, <1>4, <1>5, <1>6, <1>7, <1>8, <1>9, <1>10, <1>11, <1>12,
     <1>13, <1>14, <1>15 DEF OrderServiceStep

\* Every step of the cart service.
LEMMA CartServiceStepBooks ==
    ASSUME IInv, Rules, Books, NEW r \in Requests, Preserved(r), OwnReads(r),
           CartServiceStep(r)
    PROVE  Books'
<1>1. CASE GetDraftSnapshot(r)
  BY <1>1, GetDraftSnapshotBooks
<1>2. CASE GetDraftLock(r)
  BY <1>2, GetDraftLockBooks
<1>3. CASE GetCartEmpty(r) \/ AddItemNoDraft(r)
  BY <1>3, NoDraftBooks
<1>4. CASE GetCartItems(r)
  BY <1>4, GetCartItemsBooks
<1>5. CASE CreateDraft(r)
  BY <1>5, CreateDraftBooks
<1>6. CASE Recalculate(r)
  BY <1>6, RecalculateBooks
<1>7. CASE AddItemToLine(r) \/ AddItemNewLine(r) \/ UpdateItemRun(r)
  BY <1>7, WriteLineBooks
<1>8. CASE DeleteItemRun(r)
  BY <1>8, DeleteItemBooks
<1>9. CASE CheckoutItems(r)
  BY <1>9, CheckoutItemsBooks
<1>10. CASE CheckoutLock(r)
  BY <1>10, LockSaleBooks
<1>11. CASE CheckoutPrice(r)
  BY <1>11, CheckoutPriceBooks
<1>12. CASE CheckoutTake(r)
  BY <1>12, CheckoutTakeBooks
<1>13. CASE CheckoutSubmit(r)
  BY <1>13, CheckoutSubmitBooks
<1>14. CASE CartNotFound(r) \/ CreateDraftRefuse(r) \/ RecalculateRefuse(r)
            \/ AddItemRefuse(r) \/ UpdateItemRefuse(r) \/ DeleteItemRefuse(r)
            \/ EmptyCart(r) \/ CheckoutRefuse(r)
  BY <1>14, RollbackBooks DEF CartNotFound, CreateDraftRefuse, RecalculateRefuse,
     AddItemRefuse, UpdateItemRefuse, DeleteItemRefuse, EmptyCart, CheckoutRefuse,
     RefuseSale, Reject
<1> QED
  BY <1>1, <1>2, <1>3, <1>4, <1>5, <1>6, <1>7, <1>8, <1>9, <1>10, <1>11, <1>12,
     <1>13, <1>14 DEF CartServiceStep

\* Every step of the product service.
LEMMA ProductServiceStepBooks ==
    ASSUME IInv, Rules, Books, NEW r \in Requests, Preserved(r), OwnReads(r),
           ProductServiceStep(r)
    PROVE  Books'
<1>1. CASE CreateProduct(r) \/ UpdateProduct(r) \/ DeleteProduct(r)
           \/ DeleteProductChecked(r)
  BY <1>1, ProductServiceBooks
<1>2. CASE ProductNotFound(r) \/ DeleteProductRefuse(r)
  BY <1>2, RollbackBooks DEF ProductNotFound, DeleteProductRefuse, Reject
<1> QED
  BY <1>1, <1>2 DEF ProductServiceStep

\* No order exists, nothing is locked and no request runs.
LEMMA InitBooks == Init => Books
<1> SUFFICES ASSUME Init PROVE Books
  OBVIOUS
<1>1. \A o \in OrderIDs : Adds(orders[o], items[o])
  BY DEF Init, StoreInit, Adds
<1>2. ASSUME NEW r \in Requests PROVE RequestBooks(r)
  <2>1. op[r] = "none" /\ pc[r] = "idle" /\ current[r] = NoRow
    BY DEF Init, StoreInit
  <2>2. /\ \A o \in OrderIDs : orderLock[o] # r
        /\ \A p \in ProductIDs : productLock[p] # r
    BY NullAssumption DEF Init, StoreInit
  <2> QED
    BY <2>1, <2>2
       DEF RequestBooks, TotalBooks, FillsUp, SellsCart, ReadBooks, ReadsPlaced, ReadsLines,
           StockBooks, TouchesNoStock, Sales, Catalogue, Decides, Edits, IsFilling, At
<1> QED
  BY <1>1, <1>2 DEF Books

\* Every step of the backend preserves Books, given IInv and Rules.
LEMMA NextBooks == IInv /\ Rules /\ Books /\ [Next]_vars => Books'
<1> SUFFICES ASSUME IInv, Rules, Books, [Next]_vars PROVE Books'
  OBVIOUS
<1>1. CASE Next
  <2>1. PICK r \in Requests : Begins(r) \/ Step(r) \/ Abort(r)
    BY <1>1 DEF Next
  <2>2. OwnReads(r)
    BY <2>1, StepsOwnReads DEF IInv
  <2>3. CASE Begins(r)
    BY <2>2, <2>3, BeginsPreserve, BeginsBooks
  <2>4. CASE Abort(r)
    BY <2>2, <2>4, AbortPreserves, RollbackBooks DEF Abort
  <2>5. CASE OrderServiceStep(r)
    BY <2>2, <2>5, OrderServiceStepPreserves, OrderServiceStepBooks
  <2>6. CASE CartServiceStep(r)
    BY <2>2, <2>6, CartServiceStepPreserves, CartServiceStepBooks
  <2>7. CASE ProductServiceStep(r)
    BY <2>2, <2>7, ProductServiceStepPreserves, ProductServiceStepBooks
  <2>8. CASE CommitRequest(r)
    BY <2>2, <2>8, CommitPreserves, CommitBooks
  <2>9. CASE TableFull(r)
    BY <2>2, <2>9, RejectPreserves, RollbackBooks DEF TableFull, Reject
  <2> QED
    BY <2>1, <2>3, <2>4, <2>5, <2>6, <2>7, <2>8, <2>9 DEF Step
<1>2. CASE UNCHANGED vars
  <2>1. /\ UNCHANGED <<products, orders, items, productsW, ordersW, itemsW,
                       productLock, orderLock>>
        /\ UNCHANGED <<op, pc, target, want, seen, current, lines>>
    BY <1>2 DEF vars, database, tables, working, locks, session
  <2>2. \A o \in OrderIDs : Adds(orders'[o], items'[o])
    BY <2>1 DEF Books
  <2>3. ASSUME NEW r \in Requests PROVE RequestBooks(r)'
    <3>1. RequestBooks(r) /\ SaleTotal(r)' = SaleTotal(r)
      BY <2>1 DEF Books, SaleTotal
    <3>2. TotalBooks(r)'
      BY <2>1, <3>1 DEF RequestBooks, TotalBooks, FillsUp, SellsCart, IsWriting, IsFilling, At
    <3>3. ReadBooks(r)'
      BY <2>1, <3>1 DEF RequestBooks, ReadBooks, ReadsPlaced, ReadsLines, OwnsTarget, At,
         IsPlaced
    <3>4. StockBooks(r)'
      BY <2>1, <3>1 DEF RequestBooks, StockBooks, TouchesNoStock, Took, GaveBack,
         IsFilling, At
    <3>5. Decides(r)' /\ Edits(r)'
      BY <2>1, <3>1 DEF RequestBooks, Decides, Edits, IsPlaced
    <3> QED
      BY <3>2, <3>3, <3>4, <3>5 DEF RequestBooks
  <2> QED
    BY <2>2, <2>3 DEF Books
<1> QED
  BY <1>1, <1>2

\* The books are right in every state of every run.
THEOREM BooksHold == Spec => []Books
<1>1. IInv /\ Rules /\ Books /\ [Next]_vars => Books'
  BY NextBooks
<1> QED
  BY <1>1, InitBooks, InvariantHolds, RulesHold, PTL DEF Spec

-----------------------------------------------------------------------------
(* What follows.                                                           *)

\* TotalsMatchLines: every committed order costs what its lines cost, and
\* none is placed without lines, although CreateOrder, Checkout and the
\* edits of a cart write the two in statements of their own.
THEOREM TotalsAlwaysMatch == Spec => []TotalsMatchLines
<1>1. Books => TotalsMatchLines
  BY DEF Books, Adds, TotalsMatchLines
<1> QED
  BY <1>1, BooksHold, PTL

\* PaidOrderIsTheChargedOne: while PayOrder waits for the provider its order
\* stays what it has read.
THEOREM ChargedOrdersStay == Spec => []PaidOrderIsTheChargedOne
<1>1. ASSUME IInv, Rules, Books PROVE PaidOrderIsTheChargedOne
  <2>1. ASSUME NEW r \in Requests, At(r, "PayOrder", "charge") \/ At(r, "PayOrder", "mark")
        PROVE  /\ orders[target[r]] = current[r]
               /\ current[r].status = "pending"
               /\ current[r].total = LinesTotal(items[target[r]])
    <3>1. op[r] = "PayOrder" /\ OwnsTarget(r)
      BY <2>1 DEF At, OwnsTarget
    <3>2. /\ target[r] \in OrderIDs
          /\ orders[target[r]] # NoRow /\ orders[target[r]].status = "pending"
          /\ current[r] = orders[target[r]]
      BY <1>1, <3>1 DEF IInv, RequestInv, Rules, RequestRules, MovesPending, Books,
         RequestBooks, ReadBooks
    <3> QED
      BY <1>1, <3>2 DEF Books, Adds
  <2> QED
    BY <2>1 DEF PaidOrderIsTheChargedOne
<1> QED
  BY <1>1, BooksHold, InvariantHolds, RulesHold, PTL

\* RepliesAreConsistent: what GetCart and, of a placed order, GetOrder
\* return adds up, although GetOrder reads the row and the lines in two
\* statements and locks nothing.
THEOREM RepliesAddUp == Spec => []RepliesAreConsistent
<1>1. Books => RepliesAreConsistent
  BY DEF Books, RequestBooks, ReadBooks, RepliesAreConsistent, At
<1> QED
  BY <1>1, BooksHold, PTL

-----------------------------------------------------------------------------
(* The stock and the orders.                                               *)

\* The units of p that an order holds.
Holds(row, ls, p) ==
    IF IsPlaced(row) /\ row.status # "cancelled" THEN QuantityOf(ls, p) ELSE 0

\* Holds of an order, with one line per product.
LEMMA HoldsIs ==
    ASSUME NEW row, NEW ls \in Lines, OnceEach(ls), NEW p
    PROVE  /\ Holds(row, ls, p) \in Nat
           /\ Holds(row, ls, p) = IF IsPlaced(row) /\ row.status # "cancelled"
                                  THEN LineQuantity(ls, p) ELSE 0
<1>1. QuantityOf(ls, p) = LineQuantity(ls, p) /\ LineQuantity(ls, p) \in Nat
  BY QuantityIsLineQuantity, QuantityIsPositive
<1> QED
  BY <1>1 DEF Holds

\* A commit that is no sale and no cancellation leaves the stock of a product
\* that was there and stays, unless it is that of UpdateProduct.
LEMMA QuietCommitKeepsStock ==
    ASSUME IInv, Books, NEW r \in Requests, Commit(r), NEW p \in ProductIDs,
           op[r] \notin Sales \cup {"CancelOrder"},
           products[p] # NoRow, products'[p] # NoRow, ~StockOverwritten(p)
    PROVE  products'[p] = products[p]
<1>1. /\ pc[r] = "commit" /\ StockBooks(r)
      /\ products'[p] = IF productLock[p] = r THEN productsW[p] ELSE products[p]
  BY DEF Commit, Books, RequestBooks
<1>2. CASE productLock[p] # r
  BY <1>1, <1>2
<1>3. CASE productLock[p] = r
  <2>1. op[r] # "UpdateProduct"
    BY <1>1, <1>3 DEF StockOverwritten, At
  <2>2. op[r] # "CreateProduct" /\ op[r] # "DeleteProduct"
    BY <1>1, <1>3 DEF StockBooks
  <2> QED
    BY <1>1, <1>3, <2>1, <2>2 DEF StockBooks, TouchesNoStock, Catalogue
<1> QED
  BY <1>2, <1>3

\* What a commit takes of p from the stock it gives to its order, and the
\* other way round.
LEMMA CommitBalances ==
    ASSUME IInv, Rules, Books, NEW r \in Requests, Commit(r), NEW p \in ProductIDs,
           products[p] # NoRow, products'[p] # NoRow,
           ~StockOverwritten(p), ~CancelledByStatus,
           NEW x \in OrderIDs, orderLock[x] = r
    PROVE  products'[p].stock + Holds(ordersW[x], itemsW[x], p)
               = products[p].stock + Holds(orders[x], items[x], p)
<1> USE NoRowAssumption
<1>1. /\ TypeOK /\ OrdersStay /\ OneMove(x) /\ OnlyStatusMoves(x)
      /\ pc[r] = "commit" /\ StockBooks(r) /\ Decides(r) /\ MarksPaid(r)
      /\ x = target[r]
  BY DEF IInv, RowInv, Rules, OrderRules, RequestRules, LocksItsOrder, Commit, Books,
     RequestBooks
<1>2. PICK old \in Lines, new \in Lines : old = items[x] /\ new = itemsW[x]
  BY <1>1 DEF TypeOK
<1>3. PICK had \in Nat, has \in Nat :
          /\ had = Holds(orders[x], items[x], p)
          /\ has = Holds(ordersW[x], itemsW[x], p)
          /\ had = IF IsPlaced(orders[x]) /\ orders[x].status # "cancelled"
                   THEN LineQuantity(old, p) ELSE 0
          /\ has = IF IsPlaced(ordersW[x]) /\ ordersW[x].status # "cancelled"
                   THEN LineQuantity(new, p) ELSE 0
  <2>1. OnceEach(old) /\ OnceEach(new)
    BY <1>2 DEF Rules, OrderRules
  <2> QED
    BY <1>2, <2>1, HoldsIs
<1>4. PICK row \in ProductRow : row = products[p]
  BY <1>1 DEF TypeOK, Products
<1>5. PICK stock \in Nat : stock = row.stock
  BY DEF ProductRow
<1>6. products'[p] = IF productLock[p] = r THEN productsW[p] ELSE products[p]
  BY DEF Commit
<1>7. CASE op[r] \in Sales
  <2>1. PICK n \in Nat : n = LineQuantity(new, p)
    BY QuantityIsPositive
  <2>2. had = 0 /\ has = n
    BY <1>1, <1>3, <1>7, <2>1 DEF Decides, IsPlaced
  <2>3. Took(r, p, n)
    BY <1>1, <1>2, <1>7, <2>1 DEF StockBooks
  <2>4. CASE productLock[p] = r
    <3>1. n <= stock /\ products'[p] = WithStock(row, stock - n)
      BY <1>4, <1>5, <1>6, <2>3, <2>4 DEF Took
    <3>2. products'[p].stock = stock - n
      BY <3>1, WithStockTwice
    <3>3. products'[p].stock + has = stock + had
      BY <2>2, <3>1, <3>2
    <3> QED
      BY <1>3, <1>4, <1>5, <3>3
  <2>5. CASE productLock[p] # r
    BY <1>3, <1>6, <2>2, <2>3, <2>5 DEF Took
  <2> QED
    BY <2>4, <2>5
<1>8. CASE op[r] = "CancelOrder"
  <2>1. PICK n \in Nat : n = LineQuantity(new, p)
    BY QuantityIsPositive
  <2>2. /\ orders[x] # NoRow /\ orders[x].status = "pending"
        /\ ordersW[x].status = "cancelled"
    BY <1>1, <1>8 DEF Decides
  <2>3. IsPlaced(orders[x]) /\ new = old
    BY <1>1, <1>2, <2>2 DEF OnlyStatusMoves, IsPlaced
  <2>4. had = n /\ has = 0
    BY <1>3, <2>1, <2>2, <2>3
  <2>5. GaveBack(r, p, n, 0)
    <3>1. lines[r] = NoLines
      BY <1>1, <1>8 DEF StockBooks, At
    <3>2. LineQuantity(lines[r], p) = 0
      BY <3>1 DEF LineQuantity, References, NoLines
    <3>3. GaveBack(r, p, LineQuantity(itemsW[target[r]], p), LineQuantity(lines[r], p))
      BY <1>1, <1>8 DEF StockBooks
    <3> QED
      BY <1>1, <1>2, <2>1, <3>2, <3>3
  <2>6. CASE productLock[p] = r
    <3>1. products'[p] = WithStock(row, stock + n - 0)
      BY <1>4, <1>5, <1>6, <2>5, <2>6 DEF GaveBack
    <3>2. products'[p].stock = stock + n - 0
      BY <3>1, WithStockTwice
    <3>3. products'[p].stock + has = stock + had
      BY <2>4, <3>2
    <3> QED
      BY <1>3, <1>4, <1>5, <3>3
  <2>7. CASE productLock[p] # r
    <3>1. n = 0
      BY <2>5, <2>7 DEF GaveBack
    <3> QED
      BY <1>3, <1>6, <2>4, <2>7, <3>1
  <2> QED
    BY <2>6, <2>7
<1>9. CASE op[r] \notin Sales \cup {"CancelOrder"}
  <2>1. products'[p] = products[p]
    BY <1>9, QuietCommitKeepsStock
  <2>2. CASE ~IsPlaced(orders[x]) /\ ~IsPlaced(ordersW[x])
    BY <1>3, <2>1, <2>2
  <2>3. ASSUME IsPlaced(orders[x]), ordersW[x].status # "cancelled"
        PROVE  had = has
    <3>1. IsPlaced(ordersW[x]) /\ new = old
      BY <1>1, <1>2, <2>3, MovesKeepPlaced DEF OnlyStatusMoves
    <3>2. orders[x].status # "cancelled"
      BY <1>1, <2>3, <3>1 DEF OneMove, StatusOf, IsPlaced, Absent,
         Lifecycle!Successors, Lifecycle!Moves
    <3> QED
      BY <1>3, <2>3, <3>1, <3>2
  <2>4. CASE op[r] = "UpdateOrderStatus"
    <3>1. IsPlaced(orders[x])
      BY <1>1, <2>4 DEF Decides, MovesStatus
    <3>2. ordersW[x].status # "cancelled"
      BY <1>1, <2>4 DEF CancelledByStatus, At
    <3> QED
      BY <1>3, <2>1, <2>3, <3>1, <3>2
  <2>5. CASE op[r] = "PayOrder"
    <3>1. IsPaid(ordersW[x])
      BY <1>1, <2>5 DEF MarksPaid, At
    <3>2. ordersW[x] # NoRow /\ ordersW[x].status \in PaidStatuses
      BY <3>1 DEF IsPaid
    <3>3. IsPlaced(orders[x])
      <4>1. orders[x] # NoRow
        BY <1>1, <3>2 DEF OneMove, StatusOf, PaidStatuses, Absent, Lifecycle!Successors
      <4>2. orders[x].status # "draft"
        BY <1>1, <3>2, <4>1 DEF OneMove, StatusOf, PaidStatuses, Absent,
           Lifecycle!Successors, Lifecycle!Moves
      <4> QED
        BY <4>1, <4>2 DEF IsPlaced
    <3>4. ordersW[x].status # "cancelled"
      BY <3>2 DEF PaidStatuses
    <3> QED
      BY <1>3, <2>1, <2>3, <3>3, <3>4
  <2>6. CASE op[r] \notin MovesStatus \cup {"PayOrder"}
    <3>1. ~IsPlaced(orders[x]) /\ ~IsPlaced(ordersW[x])
      BY <1>1, <2>6 DEF Decides
    <3> QED
      BY <2>2, <3>1
  <2> QED
    BY <1>9, <2>4, <2>5, <2>6 DEF MovesStatus
<1> QED
  BY <1>7, <1>8, <1>9

\* ... and so the sum of the stock of p and of what all orders hold stays.
LEMMA CommitKeepsUnits ==
    ASSUME IInv, Rules, Books, NEW r \in Requests, Commit(r), NEW p \in ProductIDs,
           products[p] # NoRow, products'[p] # NoRow,
           ~StockOverwritten(p), ~CancelledByStatus
    PROVE  products'[p].stock + Held(orders', items', p)
               = products[p].stock + Held(orders, items, p)
<1> DEFINE before == [o \in OrderIDs |-> Holds(orders[o], items[o], p)]
           after  == [o \in OrderIDs |-> Holds(orders'[o], items'[o], p)]
<1>1. Held(orders, items, p) = SumOver(before) /\ Held(orders', items', p) = SumOver(after)
  BY DEF Held, Holds, Sum, SumOver
<1>2. \A o \in OrderIDs :
          IF orderLock[o] = r THEN orders'[o] = ordersW[o] /\ items'[o] = itemsW[o]
          ELSE orders'[o] = orders[o] /\ items'[o] = items[o]
  BY DEF Commit
<1>3. before \in [OrderIDs -> Nat] /\ after \in [OrderIDs -> Nat]
  <2>1. ASSUME NEW o \in OrderIDs
        PROVE  /\ Holds(orders[o], items[o], p) \in Nat
               /\ Holds(orders'[o], items'[o], p) \in Nat
    <3>1. /\ items[o] \in Lines /\ OnceEach(items[o])
          /\ itemsW[o] \in Lines /\ OnceEach(itemsW[o])
      BY DEF IInv, TypeOK, Rules, OrderRules
    <3>2. items'[o] \in Lines /\ OnceEach(items'[o])
      BY <1>2, <3>1
    <3> QED
      BY <3>1, <3>2, HoldsIs
  <2> QED
    BY <2>1
<1>4. CASE \A o \in OrderIDs : orderLock[o] # r
  <2>1. op[r] \notin Sales \cup {"CancelOrder"}
    BY <1>4 DEF Commit, Books, RequestBooks, Decides, MovesStatus
  <2>2. products'[p] = products[p]
    BY <2>1, QuietCommitKeepsStock
  <2>3. after = before
    BY <1>2, <1>4
  <2> QED
    BY <1>1, <2>2, <2>3
<1>5. ASSUME NEW x \in OrderIDs, orderLock[x] = r
      PROVE  products'[p].stock + Held(orders', items', p)
                 = products[p].stock + Held(orders, items, p)
  <2>1. \A o \in OrderIDs \ {x} : orderLock[o] # r
    BY <1>5 DEF Rules, RequestRules, LocksItsOrder
  <2>2. products'[p].stock + after[x] = products[p].stock + before[x]
    BY <1>2, <1>5, CommitBalances
  <2>3. \A o \in OrderIDs \ {x} : before[o] = after[o]
    BY <1>2, <2>1
  <2>4. products[p].stock \in Nat
    BY DEF IInv, TypeOK, Products, ProductRow
  <2>5. products'[p].stock \in Nat
    <3>1. products'[p] \in ProductRow
      BY DEF Commit, IInv, TypeOK, Products
    <3> QED
      BY <3>1 DEF ProductRow
  <2> HIDE DEF before, after
  <2>6. SumOver(after) + before[x] = SumOver(before) + after[x]
    BY <1>3, <2>3, SlotsAreFinite, SumOfChange
  <2>7. /\ SumOver(after) \in Nat /\ SumOver(before) \in Nat
        /\ after[x] \in Nat /\ before[x] \in Nat
    BY <1>3, SlotsAreFinite, SumInNat
  <2> QED
    BY <1>1, <2>2, <2>4, <2>5, <2>6, <2>7
<1> QED
  BY <1>4, <1>5

\* StockFollowsOrders: units are neither made nor lost.  What CreateOrder and
\* Checkout commit to take from the stock is what their orders hold, and what
\* CancelOrder commits to give back is what its order held; everyone else,
\* but an administrator who overwrites the stock or cancels an order by its
\* status, moves neither.
THEOREM UnitsAreKept == Spec => StockFollowsOrders
<1>1. ASSUME IInv, Rules, Books, [Next]_vars, NEW p \in ProductIDs,
             products[p] # NoRow, products'[p] # NoRow
      PROVE  \/ products'[p].stock + Held(orders', items', p)
                    = products[p].stock + Held(orders, items, p)
             \/ StockOverwritten(p)
             \/ CancelledByStatus
  <2>1. CASE UNCHANGED <<products, orders, items>>
    BY <2>1 DEF Held
  <2>2. CASE \E r \in Requests : CommitRequest(r)
    BY <1>1, <2>2, CommitKeepsUnits DEF CommitRequest
  <2>3. CASE \A r \in Requests : ~CommitRequest(r)
    <3>1. CASE Next
      BY <1>1, <2>1, <2>3, <3>1, OnlyCommitsWrite DEF Next
    <3>2. CASE UNCHANGED vars
      BY <2>1, <3>2 DEF vars, database, tables
    <3> QED
      BY <1>1, <3>1, <3>2
  <2> QED
    BY <2>2, <2>3
<1>2. IInv /\ Rules /\ Books /\ [Next]_vars =>
        [\A p \in ProductIDs :
            products[p] # NoRow /\ products'[p] # NoRow =>
                \/ products'[p].stock + Held(orders', items', p)
                       = products[p].stock + Held(orders, items, p)
                \/ StockOverwritten(p)
                \/ CancelledByStatus]_vars
  BY <1>1
<1> QED
  BY <1>2, BooksHold, InvariantHolds, RulesHold, PTL DEF Spec, StockFollowsOrders

-----------------------------------------------------------------------------
(* What a step of one request leaves of the effects of another.            *)

\* The committed versions of the rows that t has locked.
KeepsLocked(t) ==
    /\ \A p \in ProductIDs : productLock[p] = t => products'[p] = products[p]
    /\ \A o \in OrderIDs : orderLock[o] = t => orders'[o] = orders[o] /\ items'[o] = items[o]

\* A cart edit has locked its order from the SELECT ... FOR UPDATE on, and
\* CreateOrder from its INSERT on.
LEMMA EffectsOwnTarget ==
    ASSUME NEW t \in Requests, RequestEffects(t),
           \/ op[t] \in EditMethods /\ HasOrder(t)
           \/ op[t] = "CreateOrder" /\ pc[t] \in {"lines", "commit"}
    PROVE  target[t] \in OrderIDs /\ orderLock[target[t]] = t
  BY DEF RequestEffects, CartEffects, EditsOwnCart, SellsRequest

\* The effects of t are about its session and the rows it has locked.
LEMMA OthersKeepEffects ==
    ASSUME Effects, NEW r \in Requests, NEW t \in Requests, t # r,
           Others(r), KeepsLocked(t)
    PROVE  RequestEffects(t)'
<1> USE NullAssumption
<1>1. RequestEffects(t)
  BY DEF Effects
<1>2. /\ op'[t] = op[t] /\ pc'[t] = pc[t] /\ user'[t] = user[t]
      /\ target'[t] = target[t] /\ want'[t] = want[t] /\ seen'[t] = seen[t]
  BY DEF Others, OtherSessions
<1>3. \A p \in ProductIDs :
          /\ productLock'[p] = t <=> productLock[p] = t
          /\ productLock[p] = t => productsW'[p] = productsW[p] /\ products'[p] = products[p]
  BY DEF Others, OtherRows, KeepsLocked
<1>4. \A o \in OrderIDs :
          /\ orderLock'[o] = t <=> orderLock[o] = t
          /\ orderLock[o] = t => /\ ordersW'[o] = ordersW[o] /\ itemsW'[o] = itemsW[o]
                                 /\ orders'[o] = orders[o] /\ items'[o] = items[o]
  BY DEF Others, OtherRows, KeepsLocked
<1>5. OwnsTarget(t)' <=> OwnsTarget(t)
  BY <1>2 DEF OwnsTarget
<1>6. HasOrder(t)' <=> HasOrder(t)
  BY <1>2, <1>5 DEF HasOrder
<1>7. ASSUME \/ op[t] \in EditMethods /\ HasOrder(t)
             \/ op[t] = "CreateOrder" /\ pc[t] \in {"lines", "commit"}
      PROVE  /\ target[t] \in OrderIDs
             /\ orderLock[target[t]] = t /\ orderLock'[target[t]] = t
             /\ ordersW'[target[t]] = ordersW[target[t]]
             /\ itemsW'[target[t]] = itemsW[target[t]]
             /\ orders'[target[t]] = orders[target[t]]
             /\ items'[target[t]] = items[target[t]]
  BY <1>1, <1>4, <1>7, EffectsOwnTarget
<1>8. Asks(t)'
  BY <1>1, <1>2 DEF RequestEffects, Asks
<1>9. EditsOwnCart(t)'
  BY <1>1, <1>2, <1>6, <1>7 DEF RequestEffects, CartEffects, EditsOwnCart
<1>10. LinesUnwritten(t)'
  BY <1>1, <1>2, <1>5, <1>7 DEF RequestEffects, CartEffects, LinesUnwritten, HasOrder
<1>11. OnlyReads(t)'
  BY <1>1, <1>2, <1>4 DEF RequestEffects, CartEffects, OnlyReads
<1>12. HasEdited(t)'
  <2> SUFFICES ASSUME pc[t] \in {"recalculate", "commit"}
               PROVE  /\ op[t] = "AddItem" => AddedItem(t)'
                      /\ op[t] = "UpdateItem" => UpdatedItem(t)'
                      /\ op[t] = "DeleteItem" => DeletedItem(t)'
    BY <1>2 DEF HasEdited
  <2>1. op[t] \in EditMethods => HasOrder(t)
    BY DEF HasOrder, OwnsTarget
  <2>2. \A p \in ProductIDs : \A n : HoldsStock(t, p, n) => HoldsStock(t, p, n)'
    BY <1>3 DEF HoldsStock
  <2>3. \A p \in ProductIDs : \A n : HoldsStock(t, p, n) => products'[p] = products[p]
    BY <1>3 DEF HoldsStock
  <2>4. op[t] = "AddItem" => AddedItem(t)'
    <3> SUFFICES ASSUME op[t] = "AddItem" PROVE AddedItem(t)'
      OBVIOUS
    <3>1. AddedItem(t) /\ HasOrder(t) /\ op[t] \in EditMethods
      BY <1>1, <2>1 DEF RequestEffects, CartEffects, HasEdited, EditMethods
    <3> QED
      BY <1>2, <1>7, <2>2, <2>3, <3>1 DEF AddedItem
  <2>5. op[t] = "UpdateItem" => UpdatedItem(t)'
    <3> SUFFICES ASSUME op[t] = "UpdateItem" PROVE UpdatedItem(t)'
      OBVIOUS
    <3>1. UpdatedItem(t) /\ HasOrder(t) /\ op[t] \in EditMethods
      BY <1>1, <2>1 DEF RequestEffects, CartEffects, HasEdited, EditMethods
    <3> QED
      BY <1>2, <1>7, <2>2, <3>1 DEF UpdatedItem
  <2>6. op[t] = "DeleteItem" => DeletedItem(t)'
    <3> SUFFICES ASSUME op[t] = "DeleteItem" PROVE DeletedItem(t)'
      OBVIOUS
    <3>1. DeletedItem(t) /\ HasOrder(t) /\ op[t] \in EditMethods
      BY <1>1, <2>1 DEF RequestEffects, CartEffects, HasEdited, EditMethods
    <3> QED
      BY <1>2, <1>7, <3>1 DEF DeletedItem
  <2> QED
    BY <2>4, <2>5, <2>6
<1>13. HasCurrency(t)' /\ ChecksOutCart(t)'
  <2>1. op[t] \in EditMethods /\ pc[t] \in {"take", "commit"} => HasOrder(t)
    BY DEF HasOrder, OwnsTarget
  <2>2. "Checkout" \in EditMethods /\ ItemMethods \subseteq EditMethods
    BY DEF EditMethods, ItemMethods
  <2> QED
    BY <1>1, <1>2, <1>7, <2>1, <2>2
       DEF RequestEffects, CartEffects, HasCurrency, ChecksOutCart
<1>14. SellsRequest(t)'
  <2>1. AllLocked(t)' <=> AllLocked(t)
    BY <1>2 DEF AllLocked
  <2> QED
    BY <1>1, <1>2, <1>7, <2>1 DEF RequestEffects, SellsRequest
<1>15. WritesOneProduct(t)'
  BY <1>1, <1>2, <1>3 DEF RequestEffects, WritesOneProduct
<1> QED
  BY <1>8, <1>9, <1>10, <1>11, <1>12, <1>13, <1>14, <1>15 DEF RequestEffects, CartEffects

\* A statement commits nothing.
LEMMA StatementEffects ==
    ASSUME Effects, NEW r \in Requests, Preserved(r), UNCHANGED tables, RequestEffects(r)'
    PROVE  Effects'
<1>1. ASSUME NEW t \in Requests PROVE RequestEffects(t)'
  <2>1. CASE t = r
    BY <2>1
  <2>2. CASE t # r
    <3>1. KeepsLocked(t)
      BY DEF KeepsLocked, tables
    <3> QED
      BY <2>2, <3>1, OthersKeepEffects DEF Preserved
  <2> QED
    BY <2>1, <2>2
<1> QED
  BY <1>1 DEF Effects

\* The methods that only move a status, and a request that is over, have no
\* effects to keep.
LEMMA NoEffects ==
    ASSUME NEW r \in Requests,
           op'[r] \in {"none", "CancelOrder", "PayOrder", "UpdateOrderStatus"},
           pc'[r] = "commit" => op'[r] # "none"
    PROVE  RequestEffects(r)'
  BY DEF RequestEffects, Asks, CartEffects, EditsOwnCart, LinesUnwritten, OnlyReads,
         HasEdited, HasCurrency, ChecksOutCart, SellsRequest, WritesOneProduct,
         CartCalls, EditMethods, ItemMethods, Catalogue, Methods

\* A transaction that is rolled back has no effects.
LEMMA RollbackEffects ==
    ASSUME IInv, Effects, NEW r \in Requests, Preserved(r), Rollback(r)
    PROVE  Effects'
<1>1. op'[r] = "none" /\ pc'[r] = "idle"
  BY DEF Rollback, Return, Goto, IInv, TypeOK
<1> QED
  BY <1>1, NoEffects, StatementEffects DEF Rollback

\* What r commits are the rows that it has locked.
LEMMA CommitEffects ==
    ASSUME IInv, Effects, NEW r \in Requests, Preserved(r), CommitRequest(r)
    PROVE  Effects'
<1>1. op'[r] = "none" /\ pc'[r] = "idle" /\ Others(r)
  BY DEF CommitRequest, Commit, Return, Goto, IInv, TypeOK, Preserved
<1>2. ASSUME NEW t \in Requests PROVE RequestEffects(t)'
  <2>1. CASE t = r
    BY <1>1, <2>1, NoEffects
  <2>2. CASE t # r
    <3>1. KeepsLocked(t)
      BY <2>2 DEF CommitRequest, Commit, KeepsLocked
    <3> QED
      BY <1>1, <2>2, <3>1, OthersKeepEffects
  <2> QED
    BY <2>1, <2>2
<1> QED
  BY <1>2 DEF Effects

-----------------------------------------------------------------------------
(* The statements that read.                                               *)

\* A request that begins holds nothing; what it asks for is in its arguments.
LEMMA BeginsEffects ==
    ASSUME IInv, Rules, Effects, NEW r \in Requests, Begins(r), Preserved(r)
    PROVE  Effects'
<1> USE NullAssumption, NoRowAssumption
<1> DEFINE Legal(m, u, w, l) ==
               \/ /\ m = "CreateOrder" /\ l = "lock" /\ u \in Users /\ IsOrderRequest(w)
               \/ /\ m \in {"CancelOrder", "PayOrder", "UpdateOrderStatus", "GetOrder"}
                  /\ l = "order"
               \/ /\ m \in CartCalls /\ l = "snapshot" /\ u \in Users
                  /\ m \in {"AddItem", "UpdateItem"} =>
                        \E p \in ProductIDs, q \in Quantities : w = Only(p, q)
                  /\ m = "DeleteItem" => \E p \in ProductIDs : w = Only(p, 1)
               \/ /\ m \in Catalogue /\ l = "product"
                  /\ m = "UpdateProduct" => \E p \in ProductIDs : w = Only(p, 1)
<1>1. TypeOK /\ RequestInv(r) /\ RequestRules(r)
  BY DEF IInv, Rules
<1>2. \E m, u, o, w, l : Begin(r, m, u, o, w, l) /\ Legal(m, u, w, l)
  <2>1. CASE BeginCreateOrder(r)
    BY <2>1 DEF BeginCreateOrder, IsOrderRequest
  <2>2. CASE BeginCancelOrder(r) \/ BeginPayOrder(r) \/ BeginUpdateOrderStatus(r) \/ BeginGetOrder(r)
    <3>1. PICK m \in {"CancelOrder", "PayOrder", "UpdateOrderStatus", "GetOrder"} :
              BeginOnOrder(r, m)
      BY <2>2 DEF BeginCancelOrder, BeginPayOrder, BeginUpdateOrderStatus, BeginGetOrder
    <3> QED
      BY <3>1 DEF BeginOnOrder
  <2>3. CASE BeginGetCart(r) \/ BeginCheckout(r)
    <3>1. PICK m \in {"GetCart", "Checkout"} : BeginCart(r, m, Nothing)
      BY <2>3 DEF BeginGetCart, BeginCheckout
    <3> QED
      BY <3>1 DEF BeginCart, CartCalls, EditMethods
  <2>4. CASE BeginAddItem(r) \/ BeginUpdateItem(r)
    <3>1. PICK m \in {"AddItem", "UpdateItem"} : BeginOnItem(r, m, Quantities)
      BY <2>4 DEF BeginAddItem, BeginUpdateItem
    <3>2. PICK p \in ProductIDs, q \in Quantities : BeginCart(r, m, Only(p, q))
      BY <3>1 DEF BeginOnItem
    <3>3. PICK u \in Users : Begin(r, m, u, NoOrder, Only(p, q), "snapshot")
      BY <3>2 DEF BeginCart
    <3>4. Legal(m, u, Only(p, q), "snapshot")
      BY DEF CartCalls, EditMethods
    <3> QED
      BY <3>3, <3>4
  <2>5. CASE BeginDeleteItem(r)
    <3>1. PICK p \in ProductIDs : BeginCart(r, "DeleteItem", Only(p, 1))
      BY <2>5 DEF BeginDeleteItem, BeginOnItem
    <3>2. PICK u \in Users : Begin(r, "DeleteItem", u, NoOrder, Only(p, 1), "snapshot")
      BY <3>1 DEF BeginCart
    <3>3. Legal("DeleteItem", u, Only(p, 1), "snapshot")
      BY DEF CartCalls, EditMethods
    <3> QED
      BY <3>2, <3>3
  <2>6. CASE BeginCreateProduct(r)
    BY <2>6 DEF BeginCreateProduct, Catalogue
  <2>7. CASE BeginUpdateProduct(r) \/ BeginDeleteProduct(r)
    <3>1. PICK m \in {"UpdateProduct", "DeleteProduct"} : BeginOnProduct(r, m)
      BY <2>7 DEF BeginUpdateProduct, BeginDeleteProduct
    <3>2. PICK p \in ProductIDs : Begin(r, m, None, NoOrder, Only(p, 1), "product")
      BY <3>1 DEF BeginOnProduct
    <3>3. Legal(m, None, Only(p, 1), "product")
      BY DEF Catalogue
    <3> QED
      BY <3>2, <3>3
  <2> QED
    BY <2>1, <2>2, <2>3, <2>4, <2>5, <2>6, <2>7
       DEF Begins, OrderServiceBegin, CartServiceBegin, ProductServiceBegin
<1>3. PICK m, u, o, w, l : Begin(r, m, u, o, w, l) /\ Legal(m, u, w, l)
  BY <1>2
<1>4. /\ op'[r] = m /\ pc'[r] = l /\ user'[r] = u /\ want'[r] = w
      /\ pc[r] = "idle" /\ UNCHANGED database
  BY <1>1, <1>3 DEF Begin, Goto, TypeOK
<1>5. /\ \A p \in ProductIDs : productLock'[p] # r
      /\ \A x \in OrderIDs : orderLock'[x] # r
  BY <1>1, <1>4 DEF RequestInv, RequestRules, LocksItsOrder, HoldsNoOrder, database, locks
<1>6. Asks(r)'
  BY <1>3, <1>4 DEF Asks, CartCalls, EditMethods, Catalogue
<1>7. CartEffects(r)'
  BY <1>3, <1>4, <1>5 DEF CartEffects, EditsOwnCart, LinesUnwritten, OnlyReads, HasEdited,
     HasCurrency, ChecksOutCart, HasOrder, OwnsTarget, CartCalls, EditMethods, Catalogue
<1>8. SellsRequest(r)' /\ WritesOneProduct(r)'
  BY <1>3, <1>4, <1>5 DEF SellsRequest, WritesOneProduct, CartCalls, EditMethods, Catalogue
<1> QED
  BY <1>4, <1>6, <1>7, <1>8, StatementEffects DEF RequestEffects, database

\* GetOrder locks nothing.
LEMMA GetOrderEffects ==
    ASSUME IInv, Rules, Books, Effects, NEW r \in Requests, Preserved(r),
           GetOrderRow(r) \/ GetOrderItems(r)
    PROVE  Effects'
<1>1. TypeOK /\ RequestEffects(r)
  BY DEF IInv, Effects
<1>2. /\ op'[r] = "GetOrder" /\ op[r] = "GetOrder" /\ UNCHANGED database
  BY <1>1 DEF GetOrderRow, GetOrderItems, At, TypeOK
<1>3. OnlyReads(r)'
  BY <1>1, <1>2 DEF RequestEffects, CartEffects, OnlyReads, database, tables, working, locks
<1> QED
  BY <1>2, <1>3, StatementEffects
     DEF RequestEffects, Asks, CartEffects, EditsOwnCart, LinesUnwritten, HasEdited,
         HasCurrency, ChecksOutCart, SellsRequest, WritesOneProduct, CartCalls,
         EditMethods, ItemMethods, Catalogue, Methods, database

\* The snapshot of GetDraft, and its finding no draft.
LEMMA NoCartYetEffects ==
    ASSUME IInv, Rules, Books, Effects, NEW r \in Requests, Preserved(r),
           GetDraftSnapshot(r) \/ GetCartEmpty(r) \/ AddItemNoDraft(r)
    PROVE  Effects'
<1> USE NullAssumption
<1>1. TypeOK /\ RequestInv(r) /\ RequestRules(r) /\ RequestEffects(r)
  BY DEF IInv, Rules, Effects
<1>2. /\ pc[r] \in {"snapshot", "draft"} /\ op[r] \in CartCalls /\ op'[r] = op[r]
      /\ user'[r] = user[r] /\ want'[r] = want[r]
      /\ \/ pc'[r] = "draft"
         \/ pc'[r] = "create" /\ op[r] = "AddItem"
         \/ pc'[r] = "commit" /\ op[r] = "GetCart"
      /\ UNCHANGED database
  BY <1>1 DEF GetDraftSnapshot, GetCartEmpty, AddItemNoDraft, NoDraft, RequestInv, Goto,
     TypeOK, CartCalls, EditMethods
<1>3. \A o \in OrderIDs : orderLock'[o] # r
  BY <1>1, <1>2 DEF RequestRules, LocksItsOrder, HoldsNoOrder, database, locks
<1>4. Asks(r)'
  BY <1>1, <1>2 DEF RequestEffects, Asks, CartCalls, EditMethods, Methods
<1> QED
  BY <1>2, <1>3, <1>4, StatementEffects
     DEF RequestEffects, CartEffects, EditsOwnCart, LinesUnwritten, OnlyReads, HasEdited,
         HasCurrency, ChecksOutCart, SellsRequest, WritesOneProduct, CartCalls,
         EditMethods, ItemMethods, Catalogue, HasOrder, OwnsTarget, database

\* The draft that GetDraft locks is as committed, and the user's.
LEMMA GetDraftLockEffects ==
    ASSUME IInv, Rules, Books, Effects, NEW r \in Requests, Preserved(r), GetDraftLock(r)
    PROVE  Effects'
<1> USE NullAssumption
<1>1. TypeOK /\ RowInv /\ RequestInv(r) /\ RequestRules(r) /\ RequestEffects(r)
  BY DEF IInv, Rules, Effects
<1>2. /\ pc[r] = "draft" /\ pc'[r] = AfterDraft(op[r]) /\ op[r] \in CartCalls
      /\ op'[r] = op[r] /\ user'[r] = user[r] /\ want'[r] = want[r]
      /\ target[r] \in OrderIDs /\ target'[r] = target[r]
      /\ IsDraft(ordersW[target[r]], user[r])
      /\ UNCHANGED <<tables, orders, items, ordersW, itemsW>>
  BY <1>1 DEF GetDraftLock, RequestInv, Goto, TypeOK, CartCalls, EditMethods, AfterDraft,
     Labels, tables, working
<1>3. PICK x \in OrderIDs : x = target[r]
  BY <1>2
<1>4. /\ orderLock[x] = None /\ orderLock' = [orderLock EXCEPT ![x] = r]
      /\ \A o \in OrderIDs : orderLock'[o] = r => o = x
      /\ orderLock'[x] = r
  BY <1>1, <1>2, <1>3 DEF GetDraftLock, OrderAvailable, LockOrder, TypeOK,
     RequestRules, LocksItsOrder, HoldsNoOrder
<1>5. ordersW[x] = orders[x] /\ itemsW[x] = items[x]
  BY <1>1, <1>4 DEF RowInv, UnlockedRowsAgree
<1>6. pc'[r] \in {"product", "remove", "items"}
  BY <1>2 DEF AfterDraft
<1>7. Asks(r)'
  BY <1>1, <1>2, <1>6 DEF RequestEffects, Asks, CartCalls, EditMethods
<1>8. EditsOwnCart(r)' /\ LinesUnwritten(r)' /\ OnlyReads(r)'
  BY <1>2, <1>3, <1>4, <1>5, <1>6
     DEF EditsOwnCart, LinesUnwritten, OnlyReads, IsDraft, CartCalls, EditMethods
<1> QED
  BY <1>2, <1>6, <1>7, <1>8, StatementEffects
     DEF RequestEffects, CartEffects, HasEdited, HasCurrency, ChecksOutCart, SellsRequest,
         WritesOneProduct, CartCalls, EditMethods, ItemMethods, Catalogue

\* GetCart has written nothing.
LEMMA GetCartItemsEffects ==
    ASSUME IInv, Rules, Books, Effects, NEW r \in Requests, Preserved(r), GetCartItems(r)
    PROVE  Effects'
<1>1. TypeOK /\ RequestEffects(r)
  BY DEF IInv, Effects
<1>2. /\ op'[r] = "GetCart" /\ op[r] = "GetCart" /\ user'[r] = user[r] /\ UNCHANGED database
  BY <1>1 DEF GetCartItems, At, TypeOK
<1>3. OnlyReads(r)'
  BY <1>1, <1>2 DEF RequestEffects, CartEffects, OnlyReads, database, tables, working, locks
<1> QED
  BY <1>1, <1>2, <1>3, StatementEffects
     DEF RequestEffects, Asks, CartEffects, EditsOwnCart, LinesUnwritten, HasEdited,
         HasCurrency, ChecksOutCart, SellsRequest, WritesOneProduct, CartCalls,
         EditMethods, ItemMethods, Catalogue, Methods, database

-----------------------------------------------------------------------------
(* The edits of a cart.                                                    *)

\* Of the quantity of one product only that product has any.
LEMMA OnlyOne ==
    ASSUME NEW p \in ProductIDs, NEW q \in Nat, NEW x \in ProductIDs, Only(p, q)[x] > 0
    PROVE  x = p /\ Only(p, q)[x] = q
  BY DEF Only, Nothing

\* AddItem makes a cart for a user who has none.
LEMMA CreateDraftEffects ==
    ASSUME IInv, Rules, Books, Effects, NEW r \in Requests, Preserved(r), CreateDraft(r)
    PROVE  Effects'
<1> USE NullAssumption, NoRowAssumption
<1>1. TypeOK /\ RequestInv(r) /\ RequestRules(r) /\ RequestEffects(r) /\ Others(r)
  BY DEF IInv, Rules, Effects, Preserved
<1>2. /\ op[r] = "AddItem" /\ pc'[r] = "product" /\ op'[r] = op[r]
      /\ user'[r] = user[r] /\ want'[r] = want[r] /\ pc[r] = "create"
      /\ InsertOrder(r, [user |-> user[r], status |-> "draft",
                         total |-> 0, currency |-> NoCurrency])
      /\ UNCHANGED <<productsW, orders, items, itemsW, productLock, nextProduct, tables>>
  BY <1>1 DEF CreateDraft, At, Goto, TypeOK, tables
<1>3. PICK row \in OrderRow :
          InsertOrder(r, row) /\ row.status = "draft" /\ row.user = user[r]
  <2>1. user[r] \in Users
    BY <1>1, <1>2 DEF RequestInv
  <2> QED
    BY <1>2, <2>1 DEF OrderRow, Statuses
<1>4. PICK x \in OrderIDs :
          /\ target'[r] = x /\ orders[x] = NoRow /\ itemsW'[x] = NoLines
          /\ orderLock[x] = None /\ ordersW'[x] = row
  <2>1. HoldsNoOrder(r) /\ UNCHANGED tables
    BY <1>2 DEF HoldsNoOrder
  <2> QED
    BY <1>1, <1>2, <1>3, <2>1, InsertRules
<1>5. itemsW[x] = items[x] /\ orderLock'[x] = r
  <2>1. x = nextOrder
    BY <1>1, <1>3, <1>4 DEF InsertOrder, TypeOK
  <2> QED
    BY <1>1, <1>3, <1>4, <2>1 DEF IInv, RowInv, UnlockedRowsAgree, InsertOrder, LockOrder, TypeOK
<1>6. Asks(r)'
  BY <1>1, <1>2 DEF RequestEffects, Asks, CartCalls, EditMethods
<1>7. EditsOwnCart(r)' /\ LinesUnwritten(r)'
  BY <1>2, <1>3, <1>4, <1>5 DEF EditsOwnCart, LinesUnwritten
<1> QED
  BY <1>2, <1>6, <1>7, StatementEffects
     DEF RequestEffects, CartEffects, OnlyReads, HasEdited, HasCurrency, ChecksOutCart,
         SellsRequest, WritesOneProduct, Catalogue

\* What an edit of the cart can rely on when it writes the lines.
LEMMA CartIsOwn ==
    ASSUME IInv, Rules, Effects, NEW r \in Requests, op[r] \in EditMethods, OwnsTarget(r)
    PROVE  /\ target[r] \in OrderIDs /\ orderLock[target[r]] = r
           /\ ordersW[target[r]].user = user[r] /\ ordersW[target[r]] # NoRow
           /\ itemsW[target[r]] \in Lines /\ OnceEach(itemsW[target[r]])
           /\ pc[r] \notin {"recalculate", "take"} => itemsW[target[r]] = items[target[r]]
  BY CartOf DEF Effects, RequestEffects, CartEffects, EditsOwnCart, LinesUnwritten, HasOrder

\* A product that an edit gets to lock is as committed.
LEMMA LockedForEdit ==
    ASSUME IInv, Rules, Books, NEW r \in Requests, op[r] \in {"AddItem", "UpdateItem"},
           NEW p \in ProductIDs, ProductAvailable(r, p)
    PROVE  productsW[p] = products[p]
<1>1. CASE productLock[p] = r
  BY <1>1 DEF Books, RequestBooks, StockBooks, TouchesNoStock, Sales, Catalogue
<1>2. CASE productLock[p] = None
  BY <1>2 DEF IInv, RowInv, UnlockedRowsAgree
<1> QED
  BY <1>1, <1>2 DEF ProductAvailable

\* A line is written: it is left to show that it is the edit asked for.
LEMMA EditEffects ==
    ASSUME IInv, Rules, Books, Effects, NEW r \in Requests, Preserved(r),
           op[r] \in ItemMethods, pc[r] \in {"product", "remove"}, OwnsTarget(r),
           op'[r] = op[r], pc'[r] = "recalculate",
           UNCHANGED <<tables, ordersW, orderLock, user, target, want>>,
           op[r] = "AddItem" => AddedItem(r)',
           op[r] = "UpdateItem" => UpdatedItem(r)',
           op[r] = "DeleteItem" => DeletedItem(r)'
    PROVE  Effects'
<1>1. RequestEffects(r) /\ op[r] \in EditMethods
  BY DEF Effects, ItemMethods, EditMethods
<1>2. Asks(r)'
  BY <1>1 DEF RequestEffects, Asks
<1>3. EditsOwnCart(r)'
  BY <1>1 DEF RequestEffects, CartEffects, EditsOwnCart, HasOrder, tables
<1>4. LinesUnwritten(r)' /\ HasEdited(r)' /\ HasCurrency(r)'
  BY <1>1 DEF LinesUnwritten, HasEdited, HasCurrency
<1> QED
  BY <1>2, <1>3, <1>4, StatementEffects
     DEF RequestEffects, CartEffects, OnlyReads, ChecksOutCart, SellsRequest,
         WritesOneProduct, ItemMethods, Catalogue

\* AddItem adds to a line.
LEMMA AddItemToLineEffects ==
    ASSUME IInv, Rules, Books, Effects, NEW r \in Requests, Preserved(r), AddItemToLine(r)
    PROVE  Effects'
<1> USE NullAssumption, NoRowAssumption
<1>1. TypeOK /\ RequestEffects(r) /\ op[r] = "AddItem" /\ pc[r] = "product" /\ OwnsTarget(r)
  BY DEF IInv, Effects, AddItemToLine, At, OwnsTarget
<1>2. PICK x \in OrderIDs, ls \in Lines : x = target[r] /\ ls = itemsW[x] /\ ls = items[x]
  BY <1>1, CartIsOwn DEF EditMethods
<1>3. PICK p \in ProductIDs :
          /\ want[r][p] > 0 /\ References(ls, p)
          /\ WriteLine(r, p, want[r][p] + LineQuantity(ls, p),
                       WithQuantity(ls, p, want[r][p] + LineQuantity(ls, p)))
  BY <1>2 DEF AddItemToLine
<1>4. want[r][p] \in Quantities
  <2>1. PICK y \in ProductIDs, q \in Quantities : want[r] = Only(y, q)
    BY <1>1 DEF RequestEffects, Asks
  <2>2. q \in Nat
    BY BoundsAssumption
  <2> QED
    BY <1>3, <2>1, <2>2, OnlyOne
<1>5. /\ productsW[p].stock >= want[r][p] + LineQuantity(ls, p) /\ ProductAvailable(r, p)
      /\ productLock'[p] = r
      /\ itemsW'[x] = WithQuantity(ls, p, want[r][p] + LineQuantity(ls, p))
      /\ op'[r] = op[r] /\ pc'[r] = "recalculate"
      /\ UNCHANGED <<tables, ordersW, orderLock, user, target, want>>
  BY <1>1, <1>2, <1>3 DEF WriteLine, LockProduct, Goto, TypeOK
<1>6. AddedItem(r)'
  <2>1. products'[p].stock >= want[r][p] + LineQuantity(ls, p)
    BY <1>1, <1>5, LockedForEdit DEF tables
  <2>2. items'[target'[r]] = ls
    BY <1>2, <1>5 DEF tables
  <2> QED
    BY <1>2, <1>3, <1>4, <1>5, <2>1, <2>2 DEF AddedItem, HoldsStock
<1> QED
  BY <1>1, <1>5, <1>6, EditEffects DEF ItemMethods

\* AddItem makes a line.
LEMMA AddItemNewLineEffects ==
    ASSUME IInv, Rules, Books, Effects, NEW r \in Requests, Preserved(r), AddItemNewLine(r)
    PROVE  Effects'
<1> USE NullAssumption, NoRowAssumption
<1>1. TypeOK /\ RequestEffects(r) /\ op[r] = "AddItem" /\ pc[r] = "product" /\ OwnsTarget(r)
  BY DEF IInv, Effects, AddItemNewLine, At, OwnsTarget
<1>2. PICK x \in OrderIDs, ls \in Lines : x = target[r] /\ ls = itemsW[x] /\ ls = items[x]
  BY <1>1, CartIsOwn DEF EditMethods
<1>3. PICK p \in ProductIDs, s \in Slots :
          /\ want[r][p] > 0 /\ ~References(ls, p) /\ IsFreeSlot(ls, s)
          /\ WriteLine(r, p, want[r][p],
                       AppendLine(ls, s, p, want[r][p], productsW[p].price))
  BY <1>2 DEF AddItemNewLine
<1>4. want[r][p] \in Quantities
  <2>1. PICK y \in ProductIDs, q \in Quantities : want[r] = Only(y, q)
    BY <1>1 DEF RequestEffects, Asks
  <2>2. q \in Nat
    BY BoundsAssumption
  <2> QED
    BY <1>3, <2>1, <2>2, OnlyOne
<1>5. /\ productsW[p].stock >= want[r][p] /\ ProductAvailable(r, p)
      /\ productLock'[p] = r
      /\ itemsW'[x] = AppendLine(ls, s, p, want[r][p], productsW[p].price)
      /\ op'[r] = op[r] /\ pc'[r] = "recalculate"
      /\ UNCHANGED <<tables, ordersW, orderLock, user, target, want>>
  BY <1>1, <1>2, <1>3 DEF WriteLine, LockProduct, Goto, TypeOK
<1>6. AddedItem(r)'
  <2>1. productsW[p] = products[p] /\ products'[p] = products[p]
    BY <1>1, <1>5, LockedForEdit DEF tables
  <2>2. want[r][p] + LineQuantity(ls, p) = want[r][p]
    BY <1>1, <1>3 DEF LineQuantity, TypeOK
  <2>3. items'[target'[r]] = ls
    BY <1>2, <1>5 DEF tables
  <2> QED
    BY <1>2, <1>3, <1>4, <1>5, <2>1, <2>2, <2>3 DEF AddedItem, HoldsStock
<1> QED
  BY <1>1, <1>5, <1>6, EditEffects DEF ItemMethods

\* UpdateItem changes a line.
LEMMA UpdateItemEffects ==
    ASSUME IInv, Rules, Books, Effects, NEW r \in Requests, Preserved(r), UpdateItemRun(r)
    PROVE  Effects'
<1> USE NullAssumption, NoRowAssumption
<1>1. TypeOK /\ RequestEffects(r) /\ op[r] = "UpdateItem" /\ pc[r] = "product" /\ OwnsTarget(r)
  BY DEF IInv, Effects, UpdateItemRun, At, OwnsTarget
<1>2. PICK x \in OrderIDs, ls \in Lines : x = target[r] /\ ls = itemsW[x] /\ ls = items[x]
  BY <1>1, CartIsOwn DEF EditMethods
<1>3. PICK p \in ProductIDs :
          /\ want[r][p] > 0 /\ References(ls, p)
          /\ WriteLine(r, p, want[r][p], WithQuantity(ls, p, want[r][p]))
  BY <1>2 DEF UpdateItemRun
<1>4. want[r][p] \in Quantities
  <2>1. PICK y \in ProductIDs, q \in Quantities : want[r] = Only(y, q)
    BY <1>1 DEF RequestEffects, Asks
  <2>2. q \in Nat
    BY BoundsAssumption
  <2> QED
    BY <1>3, <2>1, <2>2, OnlyOne
<1>5. /\ productsW[p].stock >= want[r][p] /\ ProductAvailable(r, p)
      /\ productLock'[p] = r
      /\ itemsW'[x] = WithQuantity(ls, p, want[r][p])
      /\ op'[r] = op[r] /\ pc'[r] = "recalculate"
      /\ UNCHANGED <<tables, ordersW, orderLock, user, target, want>>
  BY <1>1, <1>2, <1>3 DEF WriteLine, LockProduct, Goto, TypeOK
<1>6. UpdatedItem(r)'
  <2>1. productsW[p] = products[p] /\ products'[p] = products[p]
    BY <1>1, <1>5, LockedForEdit DEF tables
  <2>2. items'[target'[r]] = ls
    BY <1>2, <1>5 DEF tables
  <2> QED
    BY <1>2, <1>3, <1>4, <1>5, <2>1, <2>2 DEF UpdatedItem, HoldsStock
<1> QED
  BY <1>1, <1>5, <1>6, EditEffects DEF ItemMethods

\* DeleteItem takes a line out.
LEMMA DeleteItemEffects ==
    ASSUME IInv, Rules, Books, Effects, NEW r \in Requests, Preserved(r), DeleteItemRun(r)
    PROVE  Effects'
<1>1. TypeOK /\ op[r] = "DeleteItem" /\ pc[r] = "remove" /\ OwnsTarget(r)
  BY DEF IInv, DeleteItemRun, At, OwnsTarget
<1>2. PICK x \in OrderIDs, ls \in Lines : x = target[r] /\ ls = itemsW[x] /\ ls = items[x]
  BY <1>1, CartIsOwn DEF EditMethods
<1>3. PICK p \in ProductIDs :
          References(ls, p) /\ itemsW'[x] = WithoutProduct(ls, p)
  BY <1>1, <1>2 DEF DeleteItemRun, TypeOK
<1>4. /\ op'[r] = op[r] /\ pc'[r] = "recalculate"
      /\ UNCHANGED <<tables, ordersW, orderLock, user, target, want>>
  BY <1>1 DEF DeleteItemRun, Goto, TypeOK, locks
<1>5. DeletedItem(r)'
  <2>1. items'[target'[r]] = ls
    BY <1>2, <1>4 DEF tables
  <2> QED
    BY <1>2, <1>3, <1>4, <2>1 DEF DeletedItem
<1> QED
  BY <1>1, <1>4, <1>5, EditEffects DEF ItemMethods

\* recalculate gives a cart with lines a currency, and an empty one none.
LEMMA RecalculateEffects ==
    ASSUME IInv, Rules, Books, Effects, NEW r \in Requests, Preserved(r), Recalculate(r)
    PROVE  Effects'
<1> USE NullAssumption, NoRowAssumption
<1>1. TypeOK /\ RequestBooks(r) /\ RequestEffects(r)
  BY DEF IInv, Books, Effects
<1>2. /\ pc[r] = "recalculate" /\ pc'[r] = "commit" /\ op'[r] = op[r]
      /\ op[r] \in ItemMethods /\ op[r] \in EditMethods /\ OwnsTarget(r)
      /\ UNCHANGED <<tables, productsW, itemsW, productLock, orderLock, user, target, want>>
  BY <1>1 DEF Recalculate, RequestBooks, Edits, Goto, TypeOK, locks, ItemMethods,
     EditMethods, OwnsTarget
<1>3. PICK x \in OrderIDs : x = target[r]
  BY <1>2, CartIsOwn
<1>4. /\ orderLock[x] = r /\ ordersW[x] \in OrderRow /\ ordersW[x] # NoRow
      /\ ordersW[x].user = user[r]
  BY <1>1, <1>2, <1>3, CartIsOwn, CartOf
<1>5. PICK c \in Currencies \cup {NoCurrency} :
          /\ ordersW'[x] = WithTotal(ordersW[x], LinesTotal(itemsW[x]), c)
          /\ c = NoCurrency <=> itemsW[x] = NoLines
  <2>1. CASE itemsW[x] = NoLines /\ UpdateTotal(x, 0, NoCurrency)
    BY <1>1, <2>1, NoLinesTotal DEF UpdateTotal, TypeOK, Orders
  <2>2. ASSUME NEW c \in Currencies, LineCurrencies(r, itemsW[x]) = {c},
               UpdateTotal(x, LinesTotal(itemsW[x]), c)
        PROVE  /\ ordersW'[x] = WithTotal(ordersW[x], LinesTotal(itemsW[x]), c)
               /\ c # NoCurrency /\ itemsW[x] # NoLines
    <3>1. \E t \in Slots : itemsW[x][t] # NoRow
      BY <2>2 DEF LineCurrencies
    <3> QED
      BY <1>1, <2>2, <3>1, BoundsAssumption DEF UpdateTotal, TypeOK, Orders, NoLines
  <2> QED
    BY <1>3, <2>1, <2>2 DEF Recalculate
<1>6. PICK n \in Nat : n = LinesTotal(itemsW[x])
  BY <1>1, LinesTotalInNat DEF TypeOK
<1>7. ordersW'[x].user = user[r] /\ ordersW'[x].currency = c /\ ordersW'[x] # NoRow
  <2>1. WithTotal(ordersW[x], n, c) \in OrderRow
    BY <1>4, WithTotalType
  <2> QED
    BY <1>4, <1>5, <1>6, <2>1 DEF WithTotal, OrderRow
<1>8. Asks(r)'
  BY <1>1, <1>2 DEF RequestEffects, Asks, ItemMethods, Methods
<1>9. EditsOwnCart(r)' /\ LinesUnwritten(r)' /\ HasCurrency(r)'
  BY <1>1, <1>2, <1>3, <1>4, <1>5, <1>7
     DEF RequestEffects, CartEffects, EditsOwnCart, LinesUnwritten, HasCurrency, HasOrder,
         OwnsTarget, tables
<1>10. HasEdited(r)'
  BY <1>1, <1>2 DEF RequestEffects, CartEffects, HasEdited, AddedItem, UpdatedItem,
     DeletedItem, HoldsStock, tables
<1> QED
  BY <1>2, <1>8, <1>9, <1>10, StatementEffects
     DEF RequestEffects, CartEffects, OnlyReads, ChecksOutCart, SellsRequest,
         WritesOneProduct, ItemMethods, Catalogue

-----------------------------------------------------------------------------
(* Sales.                                                                  *)

\* The places of AtomicShop are numbers of products.
LEMMA PlaceIs ==
    ASSUME NEW w, NEW p
    PROVE  /\ Atomic!AskedFor(w) = {q \in ProductIDs : w[q] > 0}
           /\ Atomic!Place(w, p) = Cardinality({q \in Atomic!AskedFor(w) : q <= p})
<1>1. Atomic!AskedFor(w) = {q \in ProductIDs : w[q] > 0}
  BY DEF Atomic!AskedFor, Atomic!ProductIDs, ProductIDs
<1>2. \A S : Atomic!Cardinality(S) = Cardinality(S)
  BY DEF Atomic!Cardinality, Cardinality
<1> QED
  BY <1>1, <1>2 DEF Atomic!Place

\* A line more of the product that is next.
LEMMA SaleLineFits ==
    ASSUME NEW ls \in Lines, OnceEach(ls), NEW w \in [ProductIDs -> Nat],
           NEW sn \in Products, SoldSoFar(ls, w, sn),
           NEW p \in ProductIDs, sn[p] # NoRow, w[p] > 0, ~References(ls, p),
           \A q \in ProductIDs : sn[q] # NoRow => p <= q,
           NEW s \in Slots, IsFreeSlot(ls, s), NEW price \in Nat
    PROVE  SoldSoFar(AppendLine(ls, s, p, w[p], price), w, [sn EXCEPT ![p] = NoRow])
<1> USE NoRowAssumption
<1> DEFINE line == [product |-> p, quantity |-> w[p], price |-> price]
           new == AppendLine(ls, s, p, w[p], price)
           asked == Atomic!AskedFor(w)
           upto(q) == {x \in asked : x <= q}
<1>1. line \in ItemRow /\ line # NoRow /\ line.product = p
  BY DEF ItemRow
<1>2. new[s] = line /\ \A t \in Slots \ {s} : new[t] = ls[t]
  BY DEF AppendLine, Lines
<1>3. \A t \in Slots : ls[t] # NoRow => ls[t].product \in ProductIDs /\ ls[t].product < p
  BY LineRefers DEF SoldSoFar
<1>4. \A t \in Slots : ls[t] # NoRow <=> t < s
  BY DEF SoldSoFar, InOrder, IsFreeSlot, Slots
<1>5. ASSUME NEW q \in asked, q <= p, q # p
      PROVE  \E t \in Slots : t < s /\ ls[t].product = q
  <2>1. q \in ProductIDs /\ w[q] > 0
    BY PlaceIs
  <2>2. sn[q] = NoRow
    BY <1>5, <2>1 DEF ProductIDs
  <2>3. LineQuantity(ls, q) = w[q]
    BY <2>1, <2>2 DEF SoldSoFar
  <2>4. References(ls, q)
    BY <2>1, <2>3 DEF LineQuantity
  <2> QED
    BY <1>4, <2>4 DEF References
<1>6. p \in asked /\ asked \subseteq ProductIDs
  BY PlaceIs
<1>7. Atomic!Place(w, p) = s
  <2>1. CASE s = 1
    <3>1. upto(p) = {p}
      <4>1. \A q \in upto(p) : q = p
        BY <1>5, <2>1 DEF Slots
      <4> QED
        BY <1>6, <4>1 DEF ProductIDs
    <3>2. Cardinality({p}) = 1
      BY FS_Singleton
    <3> QED
      BY <2>1, <3>1, <3>2, PlaceIs
  <2>2. CASE s # 1
    <3>1. PICK t \in Slots : t = s - 1
      BY <2>2, BoundsAssumption DEF Slots
    <3>2. ls[t] # NoRow /\ t \in Nat /\ s = t + 1
      BY <1>4, <3>1 DEF Slots
    <3>3. PICK prev \in ProductIDs : prev = ls[t].product /\ prev < p
      BY <1>3, <3>2
    <3>4. Atomic!Place(w, prev) = t
      BY <3>2, <3>3 DEF SoldSoFar, InPlace
    <3>5. upto(p) = upto(prev) \cup {p}
      <4>1. ASSUME NEW q \in upto(p), q # p PROVE q \in upto(prev)
        <5>1. PICK u \in Slots : u < s /\ ls[u].product = q
          BY <1>5, <4>1
        <5>2. ls[u] # NoRow /\ (u < t \/ u = t)
          BY <1>4, <3>2, <5>1 DEF Slots
        <5>3. u < t => q < prev
          BY <3>2, <3>3, <5>1 DEF SoldSoFar, InOrder
        <5>4. q \in ProductIDs
          BY <5>1, <5>2, LineRefers
        <5> QED
          BY <3>3, <5>1, <5>2, <5>3, <5>4 DEF ProductIDs
      <4>2. ASSUME NEW q \in upto(prev) PROVE q \in upto(p)
        <5>1. q \in ProductIDs /\ q <= prev
          BY <1>6
        <5> QED
          BY <3>3, <5>1 DEF ProductIDs
      <4> QED
        BY <1>6, <4>1, <4>2 DEF ProductIDs
    <3>6. p \notin upto(prev) /\ upto(prev) \subseteq ProductIDs
      BY <1>6, <3>3 DEF ProductIDs
    <3>7. IsFiniteSet(upto(prev))
      BY <3>6, SlotsAreFinite, FS_Subset
    <3> HIDE DEF upto
    <3>8. Cardinality(upto(p)) = Cardinality(upto(prev)) + 1
      BY <3>5, <3>6, <3>7, FS_AddElement
    <3> USE DEF upto
    <3> QED
      BY <3>2, <3>4, <3>8, PlaceIs
  <2> QED
    BY <2>1, <2>2
<1>8. \A x \in ProductIDs : LineQuantity(new, x) = IF x = p THEN w[p] ELSE LineQuantity(ls, x)
  BY AppendQuantity
<1> HIDE DEF line, new
<1>9. InOrder(new)
  BY <1>1, <1>2, <1>3, <1>4 DEF SoldSoFar, InOrder, Slots
<1>10. InPlace(new, w)
  BY <1>1, <1>2, <1>7 DEF SoldSoFar, InPlace
<1>11. PICK rest \in Products : rest = [sn EXCEPT ![p] = NoRow]
  BY DEF Products
<1>12. rest[p] = NoRow /\ \A x \in ProductIDs \ {p} : rest[x] = sn[x]
  BY <1>11 DEF Products
<1>13. \A x \in ProductIDs : LineQuantity(new, x) = IF rest[x] = NoRow THEN w[x] ELSE 0
  BY <1>8, <1>12 DEF SoldSoFar
<1>14. ASSUME NEW t \in Slots, NEW x \in ProductIDs, new[t] # NoRow, rest[x] # NoRow
       PROVE  new[t].product < x
  <2>1. x # p /\ sn[x] # NoRow
    BY <1>12, <1>14
  <2>2. CASE t = s
    BY <1>1, <1>2, <2>1, <2>2 DEF ProductIDs
  <2>3. CASE t # s
    BY <1>2, <1>14, <2>1, <2>3 DEF SoldSoFar
  <2> QED
    BY <2>2, <2>3
<1>15. SoldSoFar(new, w, rest)
  BY <1>9, <1>10, <1>13, <1>14 DEF SoldSoFar
<1> QED
  BY <1>11, <1>15 DEF new

\* The lock loop of CreateOrder and Checkout.
LEMMA LockSaleEffects ==
    ASSUME IInv, Rules, Books, Effects, NEW r \in Requests, Preserved(r),
           CreateOrderLock(r) \/ CheckoutLock(r)
    PROVE  Effects'
<1>1. TypeOK /\ RequestEffects(r)
  BY DEF IInv, Effects
<1>2. PICK done \in {"insert", "price"} :
          /\ LockSaleProduct(r, done)
          /\ \/ op[r] = "CreateOrder" /\ done = "insert"
             \/ op[r] = "Checkout" /\ done = "price"
  BY DEF CreateOrderLock, CheckoutLock
<1>3. /\ pc[r] = "lock" /\ pc'[r] \in {"lock", done} /\ op'[r] = op[r]
      /\ pc'[r] # "lock" => AllLocked(r) /\ seen' = seen
      /\ UNCHANGED <<tables, orders, items, ordersW, itemsW, orderLock, user, target, want>>
  BY <1>1, <1>2 DEF LockSaleProduct, Goto, TypeOK, tables, working
<1>4. Asks(r)'
  BY <1>1, <1>2, <1>3 DEF RequestEffects, Asks
<1>5. CASE op[r] = "CreateOrder"
  <2>1. SellsRequest(r)'
    BY <1>2, <1>3, <1>5 DEF SellsRequest, AllLocked
  <2> QED
    BY <1>3, <1>4, <1>5, <2>1, StatementEffects
       DEF RequestEffects, CartEffects, EditsOwnCart, LinesUnwritten, OnlyReads, HasEdited,
           HasCurrency, ChecksOutCart, WritesOneProduct, EditMethods, ItemMethods, Catalogue
<1>6. CASE op[r] = "Checkout"
  <2>1. op[r] \in EditMethods /\ OwnsTarget(r) /\ OwnsTarget(r)'
    BY <1>2, <1>3, <1>6 DEF EditMethods, OwnsTarget
  <2>2. EditsOwnCart(r)' /\ LinesUnwritten(r)'
    BY <1>1, <1>2, <1>3, <1>6, <2>1
       DEF RequestEffects, CartEffects, EditsOwnCart, LinesUnwritten, HasOrder
  <2> QED
    BY <1>2, <1>3, <1>4, <1>6, <2>2, StatementEffects
       DEF RequestEffects, CartEffects, OnlyReads, HasEdited, HasCurrency, ChecksOutCart,
           SellsRequest, WritesOneProduct, ItemMethods, Catalogue
<1> QED
  BY <1>2, <1>5, <1>6

\* CreateOrder inserts its order, without lines.
LEMMA CreateOrderInsertEffects ==
    ASSUME IInv, Rules, Books, Effects, NEW r \in Requests, Preserved(r),
           CreateOrderInsert(r)
    PROVE  Effects'
<1> USE NullAssumption, NoRowAssumption
<1>1. TypeOK /\ RequestInv(r) /\ RequestEffects(r) /\ Others(r)
  BY DEF IInv, Effects, Preserved
<1>2. /\ op[r] = "CreateOrder" /\ pc[r] = "insert" /\ pc'[r] = "lines" /\ op'[r] = op[r]
      /\ user'[r] = user[r] /\ want'[r] = want[r] /\ seen'[r] = seen[r]
      /\ UNCHANGED <<tables, productsW, orders, items, itemsW, productLock, nextProduct>>
  BY <1>1 DEF CreateOrderInsert, At, Goto, TypeOK, tables
<1>3. PICK row \in OrderRow : InsertOrder(r, row) /\ row.status = "pending"
                              /\ row.user = user[r]
  <2>1. user[r] \in Users
    BY <1>1, <1>2 DEF RequestInv
  <2>2. SaleTotal(r) \in Nat
    BY DEF CreateOrderInsert, IsAmount
  <2> QED
    BY <2>1, <2>2 DEF CreateOrderInsert, OrderRow, Statuses
<1>4. PICK x \in OrderIDs :
          /\ target'[r] = x /\ orders[x] = NoRow /\ itemsW'[x] = NoLines
          /\ ordersW'[x] = row
  <2>1. HoldsNoOrder(r)
    BY <1>2 DEF HoldsNoOrder
  <2> QED
    BY <1>1, <1>2, <1>3, <2>1, InsertRules
<1>5. orderLock'[x] = r
  <2>1. x = nextOrder
    BY <1>1, <1>3, <1>4 DEF InsertOrder, TypeOK
  <2> QED
    BY <1>1, <1>3, <2>1 DEF InsertOrder, LockOrder, TypeOK
<1>6. SoldSoFar(NoLines, want[r], seen[r])
  <2>1. \A s \in Slots : NoLines[s] = NoRow
    BY DEF NoLines
  <2>2. \A p \in ProductIDs : LineQuantity(NoLines, p) = 0
    BY <2>1 DEF LineQuantity, References
  <2>3. \A p \in ProductIDs : seen[r][p] = NoRow => want[r][p] = 0
    BY <1>1, <1>2 DEF RequestEffects, SellsRequest, AllLocked, TypeOK
  <2> QED
    BY <2>1, <2>2, <2>3 DEF SoldSoFar, InOrder, InPlace
<1>7. SellsRequest(r)'
  BY <1>2, <1>3, <1>4, <1>5, <1>6 DEF SellsRequest
<1>8. Asks(r)'
  BY <1>1, <1>2 DEF RequestEffects, Asks
<1> QED
  BY <1>2, <1>7, <1>8, StatementEffects
     DEF RequestEffects, CartEffects, EditsOwnCart, LinesUnwritten, OnlyReads, HasEdited,
         HasCurrency, ChecksOutCart, WritesOneProduct, EditMethods, ItemMethods, Catalogue

\* CreateOrder puts the next product into the lines.
LEMMA CreateOrderLineEffects ==
    ASSUME IInv, Rules, Books, Effects, NEW r \in Requests, Preserved(r), CreateOrderLine(r)
    PROVE  Effects'
<1> USE NullAssumption, NoRowAssumption
<1>1. TypeOK /\ RequestInv(r) /\ RequestRules(r) /\ RequestEffects(r)
  BY DEF IInv, Rules, Effects
<1>2. /\ op[r] = "CreateOrder" /\ pc[r] = "lines" /\ op'[r] = op[r] /\ pc'[r] = pc[r]
      /\ UNCHANGED <<tables, orders, items, ordersW, orderLock, user, target, want>>
  BY DEF CreateOrderLine, At, tables, locks
<1>3. PICK x \in OrderIDs :
          /\ x = target[r] /\ orderLock[x] = r /\ orders[x] = NoRow
          /\ ordersW[x] # NoRow /\ ordersW[x].user = user[r]
          /\ SoldSoFar(itemsW[x], want[r], seen[r])
  BY <1>1, <1>2 DEF RequestEffects, SellsRequest
<1>4. PICK p \in ProductIDs, s \in Slots :
          /\ IsNextToTake(r, p) /\ IsFreeSlot(itemsW[x], s)
          /\ itemsW' = [itemsW EXCEPT ![x] =
                          AppendLine(@, s, p, want[r][p], seen[r][p].price)]
          /\ seen' = [seen EXCEPT ![r] = [@ EXCEPT ![p] = NoRow]]
  BY <1>3 DEF CreateOrderLine
<1>5. PICK ls \in Lines, w \in [ProductIDs -> Nat], sn \in Products, price \in Nat :
          /\ ls = itemsW[x] /\ w = want[r] /\ sn = seen[r] /\ price = seen[r][p].price
          /\ OnceEach(ls) /\ ~References(ls, p) /\ w[p] > 0
  <2>1. seen[r][p] # NoRow
    BY <1>4 DEF IsNextToTake
  <2>2. seen[r][p] \in ProductRow /\ want[r][p] > 0
    BY <1>1, <2>1 DEF TypeOK, Products, RequestInv, Claim
  <2>3. OnceEach(itemsW[x]) /\ ~References(itemsW[x], p)
    BY <1>1, <1>2, <1>3, <2>1 DEF Rules, OrderRules, RequestRules, FillsNewOrder, At
  <2> QED
    BY <1>1, <1>3, <2>2, <2>3 DEF TypeOK, ProductRow
<1>6. /\ itemsW'[x] = AppendLine(ls, s, p, w[p], price)
      /\ seen'[r] = [sn EXCEPT ![p] = NoRow]
  BY <1>1, <1>4, <1>5 DEF TypeOK
<1>7. SoldSoFar(AppendLine(ls, s, p, w[p], price), w, [sn EXCEPT ![p] = NoRow])
  BY <1>3, <1>4, <1>5, SaleLineFits DEF IsNextToTake
<1>8. SellsRequest(r)'
  <2>1. SoldSoFar(itemsW[target[r]], want[r], seen[r])'
    BY <1>2, <1>3, <1>5, <1>6, <1>7
  <2> QED
    BY <1>2, <1>3, <2>1 DEF SellsRequest
<1>9. Asks(r)'
  BY <1>1, <1>2 DEF RequestEffects, Asks
<1> QED
  BY <1>2, <1>8, <1>9, StatementEffects
     DEF RequestEffects, CartEffects, EditsOwnCart, LinesUnwritten, OnlyReads, HasEdited,
         HasCurrency, ChecksOutCart, WritesOneProduct, EditMethods, ItemMethods, Catalogue

\* All of them are in the lines.
LEMMA CreateOrderDoneEffects ==
    ASSUME IInv, Rules, Books, Effects, NEW r \in Requests, Preserved(r), CreateOrderDone(r)
    PROVE  Effects'
<1>1. TypeOK /\ RequestEffects(r)
  BY DEF IInv, Effects
<1>2. /\ op[r] = "CreateOrder" /\ pc[r] = "lines" /\ op'[r] = op[r] /\ pc'[r] = "commit"
      /\ UNCHANGED <<tables, orders, items, ordersW, itemsW, orderLock,
                     user, target, want, seen>>
  BY <1>1 DEF CreateOrderDone, At, Goto, TypeOK, database, tables, working, locks
<1>3. SellsRequest(r)'
  BY <1>1, <1>2 DEF RequestEffects, SellsRequest
<1>4. Asks(r)'
  BY <1>1, <1>2 DEF RequestEffects, Asks, Methods
<1> QED
  BY <1>2, <1>3, <1>4, StatementEffects
     DEF RequestEffects, CartEffects, EditsOwnCart, LinesUnwritten, OnlyReads, HasEdited,
         HasCurrency, ChecksOutCart, WritesOneProduct, EditMethods, ItemMethods, Catalogue,
         CartCalls

\* Checkout reads the lines of the cart.
LEMMA CheckoutItemsEffects ==
    ASSUME IInv, Rules, Books, Effects, NEW r \in Requests, Preserved(r), CheckoutItems(r)
    PROVE  Effects'
<1>1. TypeOK /\ RequestEffects(r)
  BY DEF IInv, Effects
<1>2. /\ op[r] = "Checkout" /\ pc[r] = "items" /\ op'[r] = op[r] /\ pc'[r] = "lock"
      /\ UNCHANGED <<tables, orders, items, ordersW, itemsW, orderLock, user, target>>
  BY <1>1 DEF CheckoutItems, At, Goto, TypeOK, database, tables, working, locks
<1>3. op[r] \in EditMethods /\ OwnsTarget(r)
  BY <1>2 DEF EditMethods, OwnsTarget
<1>4. EditsOwnCart(r)' /\ LinesUnwritten(r)'
  BY <1>1, <1>2, <1>3
     DEF RequestEffects, CartEffects, EditsOwnCart, LinesUnwritten, HasOrder
<1>5. Asks(r)'
  BY <1>1, <1>2 DEF RequestEffects, Asks, CartCalls, EditMethods
<1> QED
  BY <1>2, <1>4, <1>5, StatementEffects
     DEF RequestEffects, CartEffects, OnlyReads, HasEdited, HasCurrency, ChecksOutCart,
         SellsRequest, WritesOneProduct, ItemMethods, Catalogue

\* Checkout fixes the prices of the lines, and nothing else of them.
LEMMA CheckoutPriceEffects ==
    ASSUME IInv, Rules, Books, Effects, NEW r \in Requests, Preserved(r), CheckoutPrice(r)
    PROVE  Effects'
<1> USE NullAssumption, NoRowAssumption
<1>1. TypeOK /\ RequestInv(r) /\ RequestEffects(r)
  BY DEF IInv, Effects
<1>2. /\ op[r] = "Checkout" /\ pc[r] = "price" /\ op'[r] = op[r] /\ pc'[r] = "take"
      /\ op[r] \in EditMethods /\ OwnsTarget(r)
      /\ UNCHANGED <<tables, orders, items, orderLock, user, target, want>>
  BY <1>1 DEF CheckoutPrice, At, Goto, TypeOK, tables, locks, EditMethods, OwnsTarget
<1>3. PICK x \in OrderIDs, ls \in Lines :
          /\ x = target[r] /\ ls = itemsW[x] /\ ls = items[x]
          /\ ordersW[x] \in OrderRow /\ ordersW[x].user = user[r]
  BY <1>1, <1>2, CartIsOwn DEF TypeOK, Orders
<1>4. PICK c \in Currencies :
          /\ SaleTotal(r) \in Nat
          /\ ordersW'[x] = WithTotal(ordersW[x], SaleTotal(r), c)
          /\ itemsW'[x] = AtCurrentPrices(ls)
  BY <1>1, <1>3 DEF CheckoutPrice, UpdateTotal, IsAmount, TypeOK, Orders
<1>5. ordersW'[x] # NoRow /\ ordersW'[x].user = user[r]
  <2>1. PICK n \in Nat : n = SaleTotal(r)
    BY <1>4
  <2>2. WithTotal(ordersW[x], n, c) \in OrderRow
    BY <1>3, WithTotalType
  <2>3. WithTotal(ordersW[x], n, c).user = user[r]
    BY <1>3 DEF WithTotal, OrderRow
  <2> QED
    BY <1>4, <2>1, <2>2, <2>3
<1>6. SameGoods(ls, AtCurrentPrices(ls))
  <2>1. \A s \in Slots : ls[s] # NoRow => productsW[ls[s].product] \in ProductRow
    BY <1>2, <1>3, CartIsLocked
  <2>2. OnceEach(ls)
    BY <1>3 DEF Rules, OrderRules
  <2>3. \A s \in Slots : ls[s] # NoRow => AtCurrentPrices(ls)[s].product = ls[s].product
    BY DEF AtCurrentPrices, LineWithPrice, Lines, ItemRow
  <2> QED
    BY <2>1, <2>2, <2>3, PriceQuantity DEF SameGoods
<1>7. EditsOwnCart(r)' /\ ChecksOutCart(r)'
  BY <1>1, <1>2, <1>3, <1>4, <1>5, <1>6
     DEF RequestEffects, CartEffects, EditsOwnCart, ChecksOutCart, HasOrder
<1>8. Asks(r)'
  BY <1>1, <1>2 DEF RequestEffects, Asks, CartCalls, EditMethods
<1> QED
  BY <1>2, <1>7, <1>8, StatementEffects
     DEF RequestEffects, CartEffects, LinesUnwritten, OnlyReads, HasEdited, HasCurrency,
         SellsRequest, WritesOneProduct, ItemMethods, Catalogue

\* Checkout takes the stock of a product.
LEMMA CheckoutTakeEffects ==
    ASSUME IInv, Rules, Books, Effects, NEW r \in Requests, Preserved(r), CheckoutTake(r)
    PROVE  Effects'
<1>1. TypeOK /\ RequestEffects(r)
  BY DEF IInv, Effects
<1>2. /\ op[r] = "Checkout" /\ pc[r] = "take" /\ op'[r] = op[r] /\ pc'[r] = pc[r]
      /\ op[r] \in EditMethods /\ OwnsTarget(r)
      /\ UNCHANGED <<tables, orders, items, ordersW, itemsW, orderLock, user, target, want>>
  BY DEF CheckoutTake, At, tables, locks, EditMethods, OwnsTarget
<1>3. Asks(r)' /\ EditsOwnCart(r)' /\ ChecksOutCart(r)'
  BY <1>1, <1>2
     DEF RequestEffects, Asks, CartEffects, EditsOwnCart, ChecksOutCart, HasOrder
<1> QED
  BY <1>2, <1>3, StatementEffects
     DEF RequestEffects, CartEffects, LinesUnwritten, OnlyReads, HasEdited, HasCurrency,
         SellsRequest, WritesOneProduct, ItemMethods, Catalogue

\* Checkout places the order.
LEMMA CheckoutSubmitEffects ==
    ASSUME IInv, Rules, Books, Effects, NEW r \in Requests, Preserved(r), CheckoutSubmit(r)
    PROVE  Effects'
<1> USE NullAssumption, NoRowAssumption
<1>1. TypeOK /\ RequestEffects(r)
  BY DEF IInv, Effects
<1>2. /\ op[r] = "Checkout" /\ pc[r] = "take" /\ op'[r] = op[r] /\ pc'[r] = "commit"
      /\ op[r] \in EditMethods /\ OwnsTarget(r) /\ SetStatus(target[r], "pending")
      /\ UNCHANGED <<tables, orders, items, itemsW, orderLock, user, target, want>>
  BY <1>1 DEF CheckoutSubmit, At, Goto, TypeOK, tables, locks, EditMethods, OwnsTarget
<1>3. PICK x \in OrderIDs :
          x = target[r] /\ ordersW[x] \in OrderRow /\ ordersW[x].user = user[r]
  BY <1>1, <1>2, CartIsOwn DEF TypeOK, Orders
<1>4. ordersW'[x] = WithStatus(ordersW[x], "pending")
  BY <1>1, <1>2, <1>3 DEF SetStatus, TypeOK, Orders
<1>5. ordersW'[x] # NoRow /\ ordersW'[x].user = user[r]
  <2>1. WithStatus(ordersW[x], "pending") \in OrderRow
    BY <1>3, WithStatusType DEF Statuses
  <2>2. WithStatus(ordersW[x], "pending").user = user[r]
    BY <1>3 DEF WithStatus, OrderRow
  <2> QED
    BY <1>4, <2>1, <2>2
<1>6. EditsOwnCart(r)' /\ ChecksOutCart(r)'
  BY <1>1, <1>2, <1>3, <1>5
     DEF RequestEffects, CartEffects, EditsOwnCart, ChecksOutCart, HasOrder
<1>7. Asks(r)'
  BY <1>1, <1>2 DEF RequestEffects, Asks, CartCalls, EditMethods, Methods
<1> QED
  BY <1>2, <1>6, <1>7, StatementEffects
     DEF RequestEffects, CartEffects, LinesUnwritten, OnlyReads, HasEdited, HasCurrency,
         SellsRequest, WritesOneProduct, ItemMethods, Catalogue, OwnsTarget

-----------------------------------------------------------------------------
(* The catalogue.                                                          *)

\* The administrator's methods: what is left to show is that they write one
\* product.
LEMMA CatalogueEffects ==
    ASSUME Effects, NEW r \in Requests, Preserved(r), op[r] \in Catalogue,
           pc'[r] \in {"references", "commit"},
           UNCHANGED <<op, user, want, tables>>, WritesOneProduct(r)'
    PROVE  Effects'
<1>1. RequestEffects(r)
  BY DEF Effects
<1>2. Asks(r)'
  BY <1>1 DEF RequestEffects, Asks, Catalogue, CartCalls, EditMethods, Methods
<1>3. CartEffects(r)' /\ SellsRequest(r)'
  BY DEF CartEffects, EditsOwnCart, LinesUnwritten, OnlyReads, HasEdited, HasCurrency,
     ChecksOutCart, SellsRequest, Catalogue, EditMethods, ItemMethods
<1> QED
  BY <1>2, <1>3, StatementEffects DEF RequestEffects

\* A new product, a body put over a product, a product that goes.
LEMMA ProductServiceEffects ==
    ASSUME IInv, Rules, Books, Effects, NEW r \in Requests, Preserved(r),
           \/ CreateProduct(r) \/ UpdateProduct(r)
           \/ DeleteProduct(r) \/ DeleteProductChecked(r)
    PROVE  Effects'
<1> USE NullAssumption
<1>1. TypeOK /\ RequestEffects(r) /\ WritesOneProduct(r)
  BY DEF IInv, Effects, RequestEffects
<1>2. CASE CreateProduct(r) \/ UpdateProduct(r)
  <2>1. /\ op[r] \in Written /\ op[r] \in Catalogue /\ pc[r] = "product" /\ pc'[r] = "commit"
        /\ UNCHANGED <<op, user, want, tables>>
        /\ \E p \in ProductIDs, row \in ProductBodies :
              /\ productLock' = [productLock EXCEPT ![p] = r]
              /\ productsW' = [productsW EXCEPT ![p] = row]
    BY <1>1, <1>2 DEF CreateProduct, UpdateProduct, CreateRow, UpdateRow, LockProduct, At,
       Goto, TypeOK, Written, Catalogue
  <2>2. WritesOneProduct(r)'
    BY <1>1, <2>1 DEF WritesOneProduct, TypeOK, Products
  <2> QED
    BY <2>1, <2>2, CatalogueEffects
<1>3. CASE DeleteProduct(r)
  <2>1. /\ op[r] = "DeleteProduct" /\ pc[r] = "product" /\ pc'[r] = "references"
        /\ UNCHANGED <<op, user, want, tables>>
        /\ \E p \in ProductIDs : productLock' = [productLock EXCEPT ![p] = r]
    BY <1>1, <1>3 DEF DeleteProduct, DeleteRow, LockProduct, At, Goto, TypeOK
  <2>2. WritesOneProduct(r)'
    BY <1>1, <2>1 DEF WritesOneProduct, TypeOK, Written, Catalogue
  <2> QED
    BY <2>1, <2>2, CatalogueEffects DEF Catalogue
<1>4. CASE DeleteProductChecked(r)
  <2>1. /\ op[r] = "DeleteProduct" /\ pc[r] = "references" /\ pc'[r] = "commit"
        /\ UNCHANGED <<op, user, want, tables, productLock>>
    BY <1>1, <1>4 DEF DeleteProductChecked, At, Goto, TypeOK, database, locks
  <2>2. WritesOneProduct(r)'
    BY <1>1, <2>1 DEF WritesOneProduct, Written, Catalogue
  <2> QED
    BY <2>1, <2>2, CatalogueEffects DEF Catalogue
<1> QED
  BY <1>2, <1>3, <1>4

-----------------------------------------------------------------------------
(* The invariant.                                                          *)

\* The methods that only move a status.
LEMMA MoveEffects ==
    ASSUME IInv, Effects, NEW r \in Requests, Preserved(r),
           \/ CancelOrderRead(r) \/ CancelOrderRestock(r)
           \/ CancelOrderRestocked(r) \/ CancelOrderMark(r)
           \/ PayOrderRead(r) \/ PayOrderSucceeds(r) \/ PayOrderMark(r)
           \/ UpdateOrderStatusRun(r)
    PROVE  Effects'
<1>1. /\ op'[r] \in {"CancelOrder", "PayOrder", "UpdateOrderStatus"}
      /\ UNCHANGED tables
  BY DEF CancelOrderRead, CancelOrderRestock, CancelOrderRestocked, CancelOrderMark,
     PayOrderRead, PayOrderSucceeds, PayOrderMark, UpdateOrderStatusRun,
     ReadOrderForUpdate, Mark, At, database
<1> QED
  BY <1>1, NoEffects, StatementEffects

\* Every step of the order service.
LEMMA OrderServiceStepEffects ==
    ASSUME IInv, Rules, Books, Effects, NEW r \in Requests, Preserved(r),
           OrderServiceStep(r)
    PROVE  Effects'
<1>1. CASE CreateOrderLock(r)
  BY <1>1, LockSaleEffects
<1>2. CASE CreateOrderInsert(r)
  BY <1>2, CreateOrderInsertEffects
<1>3. CASE CreateOrderLine(r)
  BY <1>3, CreateOrderLineEffects
<1>4. CASE CreateOrderDone(r)
  BY <1>4, CreateOrderDoneEffects
<1>5. CASE \/ CancelOrderRead(r) \/ CancelOrderRestock(r)
           \/ CancelOrderRestocked(r) \/ CancelOrderMark(r)
           \/ PayOrderRead(r) \/ PayOrderSucceeds(r) \/ PayOrderMark(r)
           \/ UpdateOrderStatusRun(r)
  BY <1>5, MoveEffects
<1>6. CASE GetOrderRow(r) \/ GetOrderItems(r)
  BY <1>6, GetOrderEffects
<1>7. CASE CreateOrderRefuse(r) \/ CancelOrderRefuse(r) \/ PayOrderRefuse(r)
           \/ PayOrderFails(r) \/ PayOrderTimesOut(r) \/ UpdateOrderStatusRefuse(r)
           \/ GetOrderRefuse(r)
  BY <1>7, RollbackEffects DEF CreateOrderRefuse, RefuseSale, CancelOrderRefuse,
     PayOrderRefuse, RefuseOrder, PayOrderFails, PayOrderTimesOut,
     UpdateOrderStatusRefuse, GetOrderRefuse, Reject
<1> QED
  BY <1>1, <1>2, <1>3, <1>4, <1>5, <1>6, <1>7 DEF OrderServiceStep

\* Every step of the cart service.
LEMMA CartServiceStepEffects ==
    ASSUME IInv, Rules, Books, Effects, NEW r \in Requests, Preserved(r),
           CartServiceStep(r)
    PROVE  Effects'
<1>1. CASE GetDraftSnapshot(r) \/ GetCartEmpty(r) \/ AddItemNoDraft(r)
  BY <1>1, NoCartYetEffects
<1>2. CASE GetDraftLock(r)
  BY <1>2, GetDraftLockEffects
<1>3. CASE GetCartItems(r)
  BY <1>3, GetCartItemsEffects
<1>4. CASE CreateDraft(r)
  BY <1>4, CreateDraftEffects
<1>5. CASE Recalculate(r)
  BY <1>5, RecalculateEffects
<1>6. CASE AddItemToLine(r)
  BY <1>6, AddItemToLineEffects
<1>7. CASE AddItemNewLine(r)
  BY <1>7, AddItemNewLineEffects
<1>8. CASE UpdateItemRun(r)
  BY <1>8, UpdateItemEffects
<1>9. CASE DeleteItemRun(r)
  BY <1>9, DeleteItemEffects
<1>10. CASE CheckoutItems(r)
  BY <1>10, CheckoutItemsEffects
<1>11. CASE CheckoutLock(r)
  BY <1>11, LockSaleEffects
<1>12. CASE CheckoutPrice(r)
  BY <1>12, CheckoutPriceEffects
<1>13. CASE CheckoutTake(r)
  BY <1>13, CheckoutTakeEffects
<1>14. CASE CheckoutSubmit(r)
  BY <1>14, CheckoutSubmitEffects
<1>15. CASE CartNotFound(r) \/ CreateDraftRefuse(r) \/ RecalculateRefuse(r)
            \/ AddItemRefuse(r) \/ UpdateItemRefuse(r) \/ DeleteItemRefuse(r)
            \/ EmptyCart(r) \/ CheckoutRefuse(r)
  BY <1>15, RollbackEffects DEF CartNotFound, CreateDraftRefuse, RecalculateRefuse,
     AddItemRefuse, UpdateItemRefuse, DeleteItemRefuse, EmptyCart, CheckoutRefuse,
     RefuseSale, Reject
<1> QED
  BY <1>1, <1>2, <1>3, <1>4, <1>5, <1>6, <1>7, <1>8, <1>9, <1>10, <1>11, <1>12,
     <1>13, <1>14, <1>15 DEF CartServiceStep

\* Every step of the product service.
LEMMA ProductServiceStepEffects ==
    ASSUME IInv, Rules, Books, Effects, NEW r \in Requests, Preserved(r),
           ProductServiceStep(r)
    PROVE  Effects'
<1>1. CASE CreateProduct(r) \/ UpdateProduct(r) \/ DeleteProduct(r)
           \/ DeleteProductChecked(r)
  BY <1>1, ProductServiceEffects
<1>2. CASE ProductNotFound(r) \/ DeleteProductRefuse(r)
  BY <1>2, RollbackEffects DEF ProductNotFound, DeleteProductRefuse, Reject
<1> QED
  BY <1>1, <1>2 DEF ProductServiceStep

\* No request runs.
LEMMA InitEffects == Init => Effects
<1> SUFFICES ASSUME Init, NEW r \in Requests PROVE RequestEffects(r)
  BY DEF Effects
<1>1. op[r] = "none" /\ pc[r] = "idle"
  BY DEF Init, StoreInit
<1> QED
  BY <1>1 DEF RequestEffects, Asks, CartEffects, EditsOwnCart, LinesUnwritten, OnlyReads,
     HasEdited, HasCurrency, ChecksOutCart, SellsRequest, WritesOneProduct,
     CartCalls, EditMethods, ItemMethods, Catalogue

\* Every step of the backend preserves Effects, given the other three.
LEMMA NextEffects == IInv /\ Rules /\ Books /\ Effects /\ [Next]_vars => Effects'
<1> SUFFICES ASSUME IInv, Rules, Books, Effects, [Next]_vars PROVE Effects'
  OBVIOUS
<1>1. CASE Next
  <2>1. PICK r \in Requests : Begins(r) \/ Step(r) \/ Abort(r)
    BY <1>1 DEF Next
  <2>2. CASE Begins(r)
    BY <2>2, BeginsPreserve, BeginsEffects
  <2>3. CASE Abort(r)
    BY <2>3, AbortPreserves, RollbackEffects DEF Abort
  <2>4. CASE OrderServiceStep(r)
    BY <2>4, OrderServiceStepPreserves, OrderServiceStepEffects
  <2>5. CASE CartServiceStep(r)
    BY <2>5, CartServiceStepPreserves, CartServiceStepEffects
  <2>6. CASE ProductServiceStep(r)
    BY <2>6, ProductServiceStepPreserves, ProductServiceStepEffects
  <2>7. CASE CommitRequest(r)
    BY <2>7, CommitPreserves, CommitEffects
  <2>8. CASE TableFull(r)
    BY <2>8, RejectPreserves, RollbackEffects DEF TableFull, Reject
  <2> QED
    BY <2>1, <2>2, <2>3, <2>4, <2>5, <2>6, <2>7, <2>8 DEF Step
<1>2. CASE UNCHANGED vars
  <2> SUFFICES ASSUME NEW r \in Requests PROVE RequestEffects(r)'
    BY DEF Effects
  <2>1. /\ UNCHANGED <<products, orders, items, productsW, ordersW, itemsW,
                       productLock, orderLock>>
        /\ UNCHANGED <<op, pc, user, target, want, seen>>
    BY <1>2 DEF vars, database, tables, working, locks, session
  <2>2. Asks(r)'
    BY <2>1 DEF Effects, RequestEffects, Asks
  <2>3. CartEffects(r)'
    <3>1. CartEffects(r)
      BY DEF Effects, RequestEffects
    <3>2. EditsOwnCart(r)' /\ LinesUnwritten(r)' /\ OnlyReads(r)'
      BY <2>1, <3>1 DEF CartEffects, EditsOwnCart, LinesUnwritten, OnlyReads, HasOrder,
         OwnsTarget
    <3>3. HasEdited(r)'
      BY <2>1, <3>1 DEF CartEffects, HasEdited, AddedItem, UpdatedItem, DeletedItem,
         HoldsStock
    <3>4. HasCurrency(r)' /\ ChecksOutCart(r)'
      BY <2>1, <3>1 DEF CartEffects, HasCurrency, ChecksOutCart
    <3> QED
      BY <3>2, <3>3, <3>4 DEF CartEffects
  <2>4. SellsRequest(r)' /\ WritesOneProduct(r)'
    BY <2>1 DEF Effects, RequestEffects, SellsRequest, WritesOneProduct, AllLocked
  <2> QED
    BY <2>2, <2>3, <2>4 DEF RequestEffects
<1> QED
  BY <1>1, <1>2

\* What a request has done so far fits its arguments and the committed rows
\* of the moment, in every state of every run.
THEOREM EffectsHold == Spec => []Effects
<1>1. IInv /\ Rules /\ Books /\ Effects /\ [Next]_vars => Effects'
  BY NextEffects
<1> QED
  BY <1>1, InitEffects, InvariantHolds, RulesHold, BooksHold, PTL DEF Spec

-----------------------------------------------------------------------------
(* AtomicShop takes its rows from Rows, as Shop does.                      *)

\* The same ids and slots.
LEMMA SameIds ==
    /\ Atomic!ProductIDs = ProductIDs /\ Atomic!OrderIDs = OrderIDs
    /\ Atomic!Slots = Slots /\ Atomic!NoLines = NoLines
    /\ Atomic!NoCurrency = NoCurrency
  BY DEF Atomic!ProductIDs, Atomic!OrderIDs, Atomic!Slots, Atomic!NoLines,
     Atomic!NoCurrency, ProductIDs, OrderIDs, Slots, NoLines, NoCurrency

\* The same statements.
LEMMA SameStatements ==
    /\ \A row, u : Atomic!IsDraft(row, u) <=> IsDraft(row, u)
    /\ \A row, n : Atomic!WithStock(row, n) = WithStock(row, n)
    /\ \A ls, p : Atomic!References(ls, p) <=> References(ls, p)
    /\ \A ls, p : Atomic!LineQuantity(ls, p) = LineQuantity(ls, p)
    /\ \A ls, s : Atomic!IsFreeSlot(ls, s) <=> IsFreeSlot(ls, s)
    /\ \A ls, s, p, q, price :
          Atomic!AppendLine(ls, s, p, q, price) = AppendLine(ls, s, p, q, price)
    /\ \A ls, p, q : Atomic!WithQuantity(ls, p, q) = WithQuantity(ls, p, q)
    /\ \A ls, p : Atomic!WithoutProduct(ls, p) = WithoutProduct(ls, p)
<1> USE DEF Atomic!Slots, Slots
<1>1. \A row, u : Atomic!IsDraft(row, u) <=> IsDraft(row, u)
  BY DEF Atomic!IsDraft, IsDraft
<1>2. \A row, n : Atomic!WithStock(row, n) = WithStock(row, n)
  BY DEF Atomic!WithStock, WithStock
<1>3. \A ls, p : Atomic!References(ls, p) <=> References(ls, p)
  BY DEF Atomic!References, References
<1>4. \A ls, p : Atomic!LineOf(ls, p) = LineOf(ls, p)
  BY DEF Atomic!LineOf, LineOf
<1>5. \A ls, p : Atomic!LineQuantity(ls, p) = LineQuantity(ls, p)
  BY <1>3, <1>4 DEF Atomic!LineQuantity, LineQuantity
<1>6. \A ls, s : Atomic!IsFreeSlot(ls, s) <=> IsFreeSlot(ls, s)
  BY DEF Atomic!IsFreeSlot, IsFreeSlot
<1>7. \A ls, s, p, q, price :
          Atomic!AppendLine(ls, s, p, q, price) = AppendLine(ls, s, p, q, price)
  BY DEF Atomic!AppendLine, AppendLine
<1>8. \A ls, p, q : Atomic!WithQuantity(ls, p, q) = WithQuantity(ls, p, q)
  BY DEF Atomic!WithQuantity, WithQuantity, Atomic!LineWithQuantity, LineWithQuantity
<1>9. \A ls, p : Atomic!WithoutProduct(ls, p) = WithoutProduct(ls, p)
  BY DEF Atomic!WithoutProduct, WithoutProduct
<1> QED
  BY <1>1, <1>2, <1>3, <1>5, <1>6, <1>7, <1>8, <1>9

\* The same sums.
LEMMA SameSums == \A f : Atomic!Sum(f) = Sum(f)
  BY DEF Atomic!Sum, Sum, Atomic!FoldFunction, FoldFunction, Atomic!FoldFunctionOnSet,
         FoldFunctionOnSet, Atomic!MapThenFoldSet, MapThenFoldSet

LEMMA SameTotals ==
    /\ \A ls : Atomic!LinesTotal(ls) = LinesTotal(ls)
    /\ \A ls, p : Atomic!QuantityOf(ls, p) = QuantityOf(ls, p)
<1>1. ASSUME NEW ls PROVE Atomic!LinesTotal(ls) = LinesTotal(ls)
  BY SameSums DEF Atomic!LinesTotal, LinesTotal, Atomic!Slots, Slots
<1>2. ASSUME NEW ls, NEW p PROVE Atomic!QuantityOf(ls, p) = QuantityOf(ls, p)
  BY SameSums DEF Atomic!QuantityOf, QuantityOf, Atomic!Slots, Slots
<1> QED
  BY <1>1, <1>2

-----------------------------------------------------------------------------
(* What a commit does to the tables.                                       *)

\* To the one order that r has locked.
LEMMA CommitOfOrder ==
    ASSUME Rules, NEW r \in Requests, Commit(r), NEW x \in OrderIDs, TypeOK,
           orderLock[x] = r
    PROVE  /\ orders' = [orders EXCEPT ![x] = ordersW[x]]
           /\ items' = [items EXCEPT ![x] = itemsW[x]]
           /\ x = target[r]
<1>1. \A o \in OrderIDs : orderLock[o] = r => o = target[r]
  BY DEF Rules, RequestRules, LocksItsOrder
<1>2. \A o \in OrderIDs : orderLock[o] = r <=> o = x
  BY <1>1
<1>3. orders \in [OrderIDs -> OrderRow \cup {NoRow}] /\ items \in [OrderIDs -> Lines]
  BY DEF TypeOK, Orders
<1> QED
  BY <1>1, <1>2, <1>3 DEF Commit

\* To no order, if it has locked none.
LEMMA CommitOfNoOrder ==
    ASSUME TypeOK, NEW r \in Requests, Commit(r),
           \A o \in OrderIDs : orderLock[o] = r => ordersW[o] = orders[o] /\ itemsW[o] = items[o]
    PROVE  UNCHANGED <<orders, items>>
<1>1. orders \in [OrderIDs -> OrderRow \cup {NoRow}] /\ items \in [OrderIDs -> Lines]
  BY DEF TypeOK, Orders
<1> QED
  BY <1>1 DEF Commit

\* To no product, if it has changed none.
LEMMA CommitOfNoProduct ==
    ASSUME TypeOK, NEW r \in Requests, Commit(r),
           \A p \in ProductIDs : productLock[p] = r => productsW[p] = products[p]
    PROVE  UNCHANGED products
<1>1. products \in [ProductIDs -> ProductRow \cup {NoRow}]
  BY DEF TypeOK, Products
<1> QED
  BY <1>1 DEF Commit

-----------------------------------------------------------------------------
(* Sales.                                                                  *)

\* The lines of a sale at the prices of the products cost what AtomicShop
\* asks for it.
LEMMA CostIs ==
    ASSUME TypeOK, NEW ls \in Lines, OnceEach(ls), NEW new \in Lines, SameGoods(ls, new),
           NEW w \in [ProductIDs -> Nat],
           \A p \in ProductIDs : w[p] = LineQuantity(ls, p),
           \A s \in Slots : ls[s] # NoRow =>
               /\ products[ls[s].product] # NoRow
               /\ new[s].price = products[ls[s].product].price
    PROVE  LinesTotal(new) = Atomic!Cost(w)
<1> USE NoRowAssumption
<1> DEFINE sn == [p \in ProductIDs |-> IF w[p] > 0 THEN products[p] ELSE NoRow]
           cost == [p \in ProductIDs |-> IF w[p] > 0 THEN w[p] * products[p].price ELSE 0]
<1>1. ASSUME NEW p \in ProductIDs, w[p] > 0 PROVE products[p] \in ProductRow
  <2>1. References(ls, p)
    BY <1>1, QuantityIsPositive
  <2>2. products[p] # NoRow
    BY <2>1 DEF References
  <2> QED
    BY <2>2 DEF TypeOK, Products
<1>2. sn \in Products
  BY <1>1 DEF Products
<1>3. \A p \in ProductIDs : sn[p] # NoRow <=> w[p] > 0
  BY <1>1
<1>4. ASSUME NEW s \in Slots, ls[s] # NoRow
      PROVE  new[s].quantity = ls[s].quantity /\ new[s].price = sn[ls[s].product].price
  <2>1. ls[s].product \in ProductIDs /\ References(ls, ls[s].product)
    BY <1>4, LineRefers
  <2>2. w[ls[s].product] > 0
    BY <2>1, QuantityIsPositive
  <2> QED
    BY <1>4, <2>1, <2>2 DEF SameGoods
<1>5. \A s \in Slots : new[s] = NoRow <=> ls[s] = NoRow
  BY DEF SameGoods
<1>6. SaleAmounts(sn, w) = cost
  <2>1. ASSUME NEW p \in ProductIDs, w[p] > 0
        PROVE  sn[p].price * w[p] = w[p] * products[p].price
    <3>1. products[p].price \in Nat /\ w[p] \in Nat /\ sn[p] = products[p]
      BY <1>1, <2>1 DEF ProductRow
    <3> QED
      BY <3>1
  <2> HIDE DEF sn
  <2> QED
    BY <1>3, <2>1 DEF SaleAmounts
<1>7. Atomic!Cost(w) = SumOver(cost)
  <2>1. Atomic!Cost(w) = Sum(cost)
    BY SameSums DEF Atomic!Cost, Atomic!ProductIDs, ProductIDs
  <2> QED
    BY <2>1, SumsAreOne
<1> HIDE DEF sn, cost
<1>8. LinesTotal(new) = SumOver(SaleAmounts(sn, w))
  BY <1>2, <1>3, <1>4, <1>5, CartTotal
<1> QED
  BY <1>6, <1>7, <1>8

\* What the commits of CreateOrder and Checkout have in common: each product
\* of the order is there with stock and at its price, and its stock is taken.
LEMMA CommitOfSale ==
    ASSUME IInv, Rules, Books, NEW r \in Requests, Commit(r), op[r] \in Sales,
           NEW x \in OrderIDs, x = target[r], NEW w \in [ProductIDs -> Nat],
           \A p \in ProductIDs : w[p] = LineQuantity(itemsW[x], p)
    PROVE  /\ orderLock[x] = r
           /\ ordersW[x] \in OrderRow /\ ordersW[x].status = "pending"
           /\ ordersW[x].currency \in Currencies
           /\ ordersW[x].total = LinesTotal(itemsW[x])
           /\ itemsW[x] # NoLines
           /\ Atomic!CanSell(w, ordersW[x].currency)
           /\ Atomic!TakeStock(w)
           /\ \A s \in Slots : itemsW[x][s] # NoRow =>
                 /\ products[itemsW[x][s].product] # NoRow
                 /\ itemsW[x][s].price = products[itemsW[x][s].product].price
<1> USE NullAssumption, NoRowAssumption
<1>1. TypeOK /\ RequestInv(r) /\ RequestBooks(r) /\ pc[r] = "commit"
  BY DEF IInv, Books, Commit
<1>2. /\ orderLock[x] = r /\ ~IsPlaced(orders[x]) /\ ordersW[x] # NoRow
      /\ ordersW[x].status = "pending" /\ IsPlaced(ordersW[x])
  BY <1>1 DEF RequestBooks, Decides, MovesStatus, IsPlaced
<1>3. PICK ls \in Lines, row \in OrderRow : ls = itemsW[x] /\ row = ordersW[x]
  BY <1>1, <1>2 DEF TypeOK, Orders
<1>4. row.total = LinesTotal(ls) /\ ls # NoLines
  <2>1. ~IsWriting(r)
    BY <1>1 DEF IsWriting, IsFilling, At
  <2> QED
    BY <1>1, <1>2, <1>3, <2>1 DEF RequestBooks, TotalBooks, Adds
<1>5. \A p \in ProductIDs : Took(r, p, w[p])
  BY <1>1 DEF RequestBooks, StockBooks
<1>6. ASSUME NEW p \in ProductIDs, productLock[p] = r
      PROVE  /\ products[p] \in ProductRow /\ products[p] # NoRow
             /\ products[p].stock >= w[p]
             /\ productsW[p] = WithStock(products[p], products[p].stock - w[p])
             /\ productsW[p].price = products[p].price
             /\ productsW[p].currency = products[p].currency
  <2>1. products[p] \in ProductRow /\ products[p] # NoRow
    BY <1>1, <1>6 DEF RequestBooks, StockBooks, Sales, TypeOK, Products
  <2>2. /\ w[p] <= products[p].stock
        /\ productsW[p] = WithStock(products[p], products[p].stock - w[p])
    BY <1>5, <1>6 DEF Took
  <2>3. \A n : /\ WithStock(products[p], n).price = products[p].price
               /\ WithStock(products[p], n).currency = products[p].currency
    BY <2>1 DEF WithStock, ProductRow
  <2>4. products[p].stock \in Nat /\ w[p] \in Nat
    BY <2>1 DEF ProductRow
  <2> QED
    BY <2>1, <2>2, <2>3, <2>4
<1>7. Priced(x)
  BY <1>2 DEF Rules, OrderRules, SoldPriced
<1>8. ASSUME NEW s \in Slots, ls[s] # NoRow
      PROVE  /\ ls[s].product \in ProductIDs /\ productLock[ls[s].product] = r
             /\ products[ls[s].product] # NoRow
             /\ ls[s].price = products[ls[s].product].price
             /\ row.currency = products[ls[s].product].currency
  <2>1. ls[s].product \in ProductIDs
    BY <1>8, LineRefers
  <2>2. /\ productLock[ls[s].product] = r
        /\ productsW[ls[s].product].price = ls[s].price
        /\ productsW[ls[s].product].currency = row.currency
    BY <1>2, <1>3, <1>7, <1>8 DEF Priced
  <2> QED
    BY <1>6, <2>1, <2>2
<1>9. ASSUME NEW p \in ProductIDs, w[p] > 0
      PROVE  productLock[p] = r /\ products[p].currency = row.currency
  <2>1. References(ls, p)
    BY <1>3, <1>9, QuantityIsPositive
  <2> QED
    BY <1>8, <2>1 DEF References
<1>10. row.currency \in Currencies
  <2>1. PICK s \in Slots : ls[s] # NoRow
    BY <1>4 DEF Lines, NoLines
  <2>2. products[ls[s].product] \in ProductRow
    BY <1>6, <1>8, <2>1
  <2> QED
    BY <1>8, <2>1, <2>2 DEF ProductRow
<1>11. Atomic!CanSell(w, row.currency)
  <2> SUFFICES ASSUME NEW p \in Atomic!AskedFor(w)
               PROVE  /\ products[p] # NoRow /\ products[p].stock >= w[p]
                      /\ products[p].currency = row.currency
    BY DEF Atomic!CanSell
  <2>1. p \in ProductIDs /\ w[p] > 0
    BY PlaceIs
  <2> QED
    BY <1>6, <1>9, <2>1
<1>12. Atomic!TakeStock(w)
  <2>1. ASSUME NEW p \in ProductIDs
        PROVE  (IF productLock[p] = r THEN productsW[p] ELSE products[p])
                 = IF w[p] > 0 THEN WithStock(products[p], products[p].stock - w[p])
                               ELSE products[p]
    <3>1. CASE w[p] > 0
      BY <1>6, <1>9, <3>1
    <3>2. CASE ~(w[p] > 0) /\ productLock[p] = r
      <4>1. w[p] = 0 /\ products[p] \in ProductRow
        BY <1>6, <3>2
      <4>2. products[p].stock - w[p] = products[p].stock
        BY <4>1 DEF ProductRow
      <4>3. productsW[p] = WithStock(products[p], products[p].stock)
        BY <1>6, <3>2, <4>2
      <4> QED
        BY <3>2, <4>1, <4>3, WithStockTwice
    <3>3. CASE ~(w[p] > 0) /\ productLock[p] # r
      BY <3>3
    <3> QED
      BY <3>1, <3>2, <3>3
  <2>2. products' = [p \in ProductIDs |->
                       IF w[p] > 0 THEN WithStock(products[p], products[p].stock - w[p])
                                   ELSE products[p]]
    BY <2>1 DEF Commit
  <2> QED
    BY <2>2, SameIds, SameStatements DEF Atomic!TakeStock
<1> QED
  BY <1>2, <1>3, <1>4, <1>8, <1>10, <1>11, <1>12

\* A row with these columns is this record.
LEMMA OrderRowIs ==
    ASSUME NEW row \in OrderRow
    PROVE  row = [user |-> row.user, status |-> row.status,
                  total |-> row.total, currency |-> row.currency]
  BY DEF OrderRow

\* The lines that CreateOrder has written are those of the sale.
LEMMA SaleLinesAre ==
    ASSUME NEW ls \in Lines, OnceEach(ls), NEW w \in [ProductIDs -> Nat], InPlace(ls, w),
           \A p \in ProductIDs : LineQuantity(ls, p) = w[p],
           \A s \in Slots : ls[s] # NoRow => ls[s].price = products[ls[s].product].price
    PROVE  ls = Atomic!SaleLines(w)
<1> USE NoRowAssumption
<1> DEFINE asked == Atomic!AskedFor(w)
           Line(p) == [product |-> p, quantity |-> w[p], price |-> products[p].price]
<1>1. ASSUME NEW p \in asked
      PROVE  \E s \in Slots : ls[s] # NoRow /\ ls[s].product = p /\ Atomic!Place(w, p) = s
  <2>1. p \in ProductIDs /\ w[p] > 0
    BY PlaceIs
  <2>2. References(ls, p)
    BY <2>1, QuantityIsPositive
  <2> QED
    BY <2>2 DEF References, InPlace
<1>2. ASSUME NEW s \in Slots, ls[s] = NoRow
      PROVE  \A p \in asked : Atomic!Place(w, p) # s
  BY <1>1, <1>2
<1>3. ASSUME NEW s \in Slots, ls[s] # NoRow
      PROVE  /\ ls[s].product \in asked /\ Atomic!Place(w, ls[s].product) = s
             /\ (CHOOSE q \in asked : Atomic!Place(w, q) = s) = ls[s].product
             /\ ls[s] = Line(ls[s].product)
  <2>1. ls[s] \in ItemRow /\ ls[s].product \in ProductIDs
        /\ References(ls, ls[s].product)
    BY <1>3, LineRefers
  <2>2. w[ls[s].product] > 0 /\ w[ls[s].product] = ls[s].quantity
    BY <1>3, <2>1, LineQuantityIs, QuantityIsPositive
  <2>3. ls[s].product \in asked /\ Atomic!Place(w, ls[s].product) = s
    BY <1>3, <2>1, <2>2, PlaceIs DEF InPlace
  <2>4. \A q \in asked : Atomic!Place(w, q) = s => q = ls[s].product
    BY <1>1
  <2>5. ls[s] = Line(ls[s].product)
    BY <1>3, <2>1, <2>2 DEF ItemRow
  <2> HIDE DEF asked, Line
  <2> QED
    BY <2>3, <2>4, <2>5
<1>4. Atomic!SaleLines(w) =
        [s \in Slots |-> IF \A p \in asked : Atomic!Place(w, p) # s THEN NoRow
                         ELSE Line(CHOOSE q \in asked : Atomic!Place(w, q) = s)]
  BY SameIds DEF Atomic!SaleLines
<1> HIDE DEF asked, Line
<1>5. ASSUME NEW s \in Slots
      PROVE  ls[s] = IF \A p \in asked : Atomic!Place(w, p) # s THEN NoRow
                     ELSE Line(CHOOSE q \in asked : Atomic!Place(w, q) = s)
  <2>1. CASE ls[s] = NoRow
    BY <1>2, <2>1
  <2>2. CASE ls[s] # NoRow
    BY <1>3, <2>2
  <2> QED
    BY <2>1, <2>2
<1> QED
  BY <1>4, <1>5 DEF Lines

\* CreateOrder places an order.
LEMMA CreateOrderIsPlaced ==
    ASSUME IInv, Rules, Books, Effects, NEW r \in Requests, Commit(r), op[r] = "CreateOrder"
    PROVE  user[r] \in Users /\ Atomic!PlaceOrder(user[r], want[r])
<1> USE NoRowAssumption
<1>1. TypeOK /\ RequestInv(r) /\ RequestEffects(r) /\ pc[r] = "commit"
  BY DEF IInv, Effects, Commit
<1>2. PICK x \in OrderIDs :
          /\ x = target[r] /\ orders[x] = NoRow /\ ordersW[x].user = user[r]
          /\ SoldSoFar(itemsW[x], want[r], seen[r])
  BY <1>1 DEF RequestEffects, SellsRequest
<1>3. PICK ls \in Lines, w \in [ProductIDs -> Nat] :
          ls = itemsW[x] /\ w = want[r] /\ OnceEach(ls)
  BY <1>1 DEF TypeOK, Rules, OrderRules
<1>4. InPlace(ls, w) /\ \A p \in ProductIDs : LineQuantity(ls, p) = w[p]
  <2>1. seen[r] = NoProduct
    BY <1>1 DEF RequestInv, InSale
  <2> QED
    BY <1>2, <1>3, <2>1 DEF SoldSoFar, NoProduct
<1>5. /\ orderLock[x] = r
      /\ ordersW[x] \in OrderRow /\ ordersW[x].status = "pending"
      /\ ordersW[x].currency \in Currencies
      /\ ordersW[x].total = LinesTotal(ls)
      /\ Atomic!CanSell(w, ordersW[x].currency)
      /\ Atomic!TakeStock(w)
      /\ \A s \in Slots : ls[s] # NoRow =>
            /\ products[ls[s].product] # NoRow
            /\ ls[s].price = products[ls[s].product].price
  BY <1>2, <1>3, <1>4, CommitOfSale DEF Sales
<1>6. LinesTotal(ls) = Atomic!Cost(w)
  <2>1. SameGoods(ls, ls)
    BY DEF SameGoods
  <2> QED
    BY <1>1, <1>3, <1>4, <1>5, <2>1, CostIs
<1>7. ls = Atomic!SaleLines(w)
  BY <1>3, <1>4, <1>5, SaleLinesAre
<1>8. Atomic!AskedFor(w) # {}
  <2>1. w \in [ProductIDs -> Quantities \cup {0}] /\ w # Nothing
    BY <1>1, <1>3 DEF RequestEffects, Asks, IsOrderRequest
  <2>2. PICK p \in ProductIDs : w[p] # 0
    BY <2>1 DEF Nothing
  <2>3. w[p] > 0
    BY <2>2
  <2> QED
    BY <2>3, PlaceIs
<1>9. /\ orders' = [orders EXCEPT ![x] =
                      [user |-> user[r], status |-> "pending", total |-> Atomic!Cost(w),
                       currency |-> ordersW[x].currency]]
      /\ items' = [items EXCEPT ![x] = Atomic!SaleLines(w)]
  <2>1. ordersW[x] = [user |-> user[r], status |-> "pending", total |-> Atomic!Cost(w),
                      currency |-> ordersW[x].currency]
    <3>1. PICK row \in OrderRow : row = ordersW[x]
      BY <1>5
    <3> QED
      BY <1>2, <1>5, <1>6, <3>1, OrderRowIs
  <2>2. orders' = [orders EXCEPT ![x] = ordersW[x]] /\ items' = [items EXCEPT ![x] = ls]
    BY <1>1, <1>3, <1>5, CommitOfOrder
  <2> QED
    BY <1>7, <2>1, <2>2
<1>10. user[r] \in Users
  BY <1>1 DEF RequestInv
<1> QED
  BY <1>2, <1>3, <1>5, <1>8, <1>9, <1>10, SameIds DEF Atomic!PlaceOrder

\* Checkout turns the cart of its user into an order.
LEMMA CheckoutIsPlaced ==
    ASSUME IInv, Rules, Books, Effects, NEW r \in Requests, Commit(r), op[r] = "Checkout"
    PROVE  user[r] \in Users /\ Atomic!CheckoutCart(user[r])
<1> USE NoRowAssumption
<1>1. TypeOK /\ RequestEffects(r) /\ pc[r] = "commit" /\ op[r] \in EditMethods
  BY DEF IInv, Effects, Commit, EditMethods
<1>2. PICK x \in OrderIDs :
          /\ x = target[r] /\ ordersW[x].user = user[r] /\ IsDraft(orders[x], user[r])
          /\ SameGoods(items[x], itemsW[x])
  BY <1>1 DEF RequestEffects, CartEffects, EditsOwnCart, ChecksOutCart, HasOrder
<1>3. PICK ls \in Lines, new \in Lines :
          ls = items[x] /\ new = itemsW[x] /\ OnceEach(ls) /\ OnceEach(new)
  BY <1>1 DEF TypeOK, Rules, OrderRules
<1> DEFINE w == [p \in ProductIDs |-> LineQuantity(ls, p)]
<1>4. w \in [ProductIDs -> Nat] /\ \A p \in ProductIDs : w[p] = LineQuantity(ls, p)
  BY QuantityIsPositive
<1> HIDE DEF w
<1>5. \A p \in ProductIDs : w[p] = LineQuantity(new, p)
  <2> TAKE p \in ProductIDs
  <2>1. \A s \in Slots : new[s] # NoRow /\ new[s].product = p =>
            ls[s] # NoRow /\ ls[s].product = p /\ ls[s].quantity = new[s].quantity
    BY <1>2, <1>3 DEF SameGoods
  <2>2. References(ls, p) => References(new, p)
    BY <1>2, <1>3 DEF References, SameGoods
  <2> QED
    BY <1>3, <1>4, <2>1, <2>2, SameQuantity
<1>6. /\ orderLock[x] = r
      /\ ordersW[x] \in OrderRow /\ ordersW[x].status = "pending"
      /\ ordersW[x].currency \in Currencies
      /\ ordersW[x].total = LinesTotal(new)
      /\ new # NoLines
      /\ Atomic!CanSell(w, ordersW[x].currency)
      /\ Atomic!TakeStock(w)
      /\ \A s \in Slots : new[s] # NoRow =>
            /\ products[new[s].product] # NoRow
            /\ new[s].price = products[new[s].product].price
  BY <1>2, <1>3, <1>4, <1>5, CommitOfSale DEF Sales
<1>7. \A s \in Slots : ls[s] # NoRow =>
          /\ products[ls[s].product] # NoRow
          /\ new[s].price = products[ls[s].product].price
  BY <1>2, <1>3, <1>6 DEF SameGoods
<1>8. LinesTotal(new) = Atomic!Cost(w)
  BY <1>1, <1>2, <1>3, <1>4, <1>7, CostIs
<1>9. ls # NoLines
  <2>1. PICK s \in Slots : new[s] # NoRow
    BY <1>6 DEF Lines, NoLines
  <2> QED
    BY <1>2, <1>3, <2>1 DEF SameGoods, NoLines
<1>10. new = Atomic!Repriced(ls)
  <2>1. ASSUME NEW s \in Slots, ls[s] # NoRow
        PROVE  new[s] = [ls[s] EXCEPT !.price = products[ls[s].product].price]
    <3>1. /\ ls[s] \in ItemRow /\ new[s] \in ItemRow
          /\ new[s].product = ls[s].product /\ new[s].quantity = ls[s].quantity
      BY <1>2, <1>3, <2>1, LineRefers DEF SameGoods
    <3> QED
      BY <1>7, <2>1, <3>1 DEF ItemRow
  <2>2. \A s \in Slots : ls[s] = NoRow => new[s] = NoRow
    BY <1>2, <1>3 DEF SameGoods
  <2> QED
    BY <1>3, <2>1, <2>2, SameIds DEF Atomic!Repriced, Atomic!LineWithPrice, Lines
<1>11. /\ orders' = [orders EXCEPT ![x] =
                       [user |-> user[r], status |-> "pending", total |-> Atomic!Cost(w),
                        currency |-> ordersW[x].currency]]
       /\ items' = [items EXCEPT ![x] = Atomic!Repriced(@)]
  <2>1. ordersW[x] = [user |-> user[r], status |-> "pending", total |-> Atomic!Cost(w),
                      currency |-> ordersW[x].currency]
    <3>1. PICK row \in OrderRow : row = ordersW[x]
      BY <1>6
    <3> QED
      BY <1>2, <1>6, <1>8, <3>1, OrderRowIs
  <2>2. orders' = [orders EXCEPT ![x] = ordersW[x]] /\ items' = [items EXCEPT ![x] = new]
    BY <1>1, <1>3, <1>6, CommitOfOrder
  <2> QED
    BY <1>3, <1>10, <2>1, <2>2
<1>12. w = [p \in Atomic!ProductIDs |-> Atomic!LineQuantity(items[x], p)]
  BY <1>3, SameIds, SameStatements DEF w
<1>13. user[r] \in Users
  BY <1>1 DEF RequestEffects, Asks, CartCalls
<1>14. Atomic!IsDraft(orders[x], user[r]) /\ items[x] # Atomic!NoLines
  BY <1>2, <1>3, <1>9, SameIds, SameStatements
<1> QED
  BY <1>6, <1>11, <1>12, <1>13, <1>14, SameIds DEF Atomic!CheckoutCart

-----------------------------------------------------------------------------
(* Carts.                                                                  *)

\* What the commits of AddItem, UpdateItem and DeleteItem have in common: the
\* cart they are about gets its new lines, and a total that is right.
LEMMA CommitOfItem ==
    ASSUME IInv, Rules, Books, Effects, NEW r \in Requests, Commit(r),
           op[r] \in ItemMethods, NEW x, x = target[r]
    PROVE  /\ x \in OrderIDs /\ user[r] \in Users
           /\ Atomic!Refill(x, user[r], itemsW[x])
           /\ \/ IsDraft(orders[x], user[r])
              \/ /\ op[r] = "AddItem" /\ orders[x] = NoRow
                 /\ \A d \in OrderIDs : ~IsDraft(orders[d], user[r])
<1> USE NoRowAssumption
<1>1. TypeOK /\ RequestBooks(r) /\ RequestEffects(r) /\ pc[r] = "commit"
  BY DEF IInv, Books, Effects, Commit
<1>2. op[r] \in EditMethods /\ op[r] \notin MovesStatus \cup {"PayOrder"}
  BY DEF ItemMethods, EditMethods, MovesStatus, Sales
<1>3. /\ x \in OrderIDs /\ orderLock[x] = r /\ ordersW[x] # NoRow
      /\ ordersW[x].user = user[r]
      /\ \/ IsDraft(orders[x], user[r])
         \/ op[r] = "AddItem" /\ orders[x] = NoRow
  BY <1>1, <1>2 DEF RequestEffects, CartEffects, EditsOwnCart, HasOrder
<1>4. PICK ls \in Lines, row \in OrderRow : ls = itemsW[x] /\ row = ordersW[x]
  BY <1>1, <1>3 DEF TypeOK, Orders
<1>5. row.status = "draft"
  BY <1>1, <1>2, <1>3, <1>4 DEF RequestBooks, Decides, IsPlaced
<1>6. row.total = LinesTotal(ls)
  <2>1. ~IsWriting(r)
    BY <1>1 DEF IsWriting, IsFilling, At
  <2> QED
    BY <1>1, <1>3, <1>4, <2>1 DEF RequestBooks, TotalBooks, Adds
<1>7. (row.currency = NoCurrency) <=> (ls = NoLines)
  BY <1>1, <1>4 DEF RequestEffects, CartEffects, HasCurrency
<1>8. user[r] \in Users
  BY <1>1, <1>2 DEF RequestEffects, Asks, CartCalls
<1>9. UNCHANGED products
  <2>1. TouchesNoStock(r)
    BY DEF TouchesNoStock, ItemMethods, Sales, Catalogue
  <2> QED
    BY <1>1, <2>1, CommitOfNoProduct DEF RequestBooks, StockBooks
<1>10. /\ orders' = [orders EXCEPT ![x] = row]
       /\ items' = [items EXCEPT ![x] = ls]
  BY <1>1, <1>3, <1>4, CommitOfOrder
<1>11. Atomic!Refill(x, user[r], itemsW[x])
  <2>1. row = [user |-> user[r], status |-> "draft", total |-> LinesTotal(ls),
               currency |-> row.currency]
    BY <1>3, <1>4, <1>5, <1>6, OrderRowIs
  <2>2. row.currency \in Currencies \cup {NoCurrency}
    BY DEF OrderRow
  <2>3. /\ \E c \in Currencies \cup {NoCurrency} :
             /\ (c = NoCurrency) <=> (ls = NoLines)
             /\ orders' = [orders EXCEPT ![x] =
                             [user |-> user[r], status |-> "draft",
                              total |-> LinesTotal(ls), currency |-> c]]
    BY <1>7, <1>10, <2>1, <2>2
  <2> QED
    BY <1>4, <1>9, <1>10, <2>3, SameIds, SameTotals DEF Atomic!Refill
<1>12. ASSUME orders[x] = NoRow, NEW d \in OrderIDs, IsDraft(orders[d], user[r])
       PROVE  FALSE
  <2>1. MayBeDraft(d, user[r]) /\ MayBeDraft(x, user[r])
    BY <1>3, <1>4, <1>5, <1>12 DEF MayBeDraft, IsDraft
  <2>2. d = x
    BY <1>3, <1>8, <2>1 DEF Rules, DraftRule
  <2> QED
    BY <1>12, <2>2 DEF IsDraft
<1> QED
  BY <1>3, <1>8, <1>11, <1>12

\* What HoldsStock says of the committed product.
LEMMA HeldProductIs ==
    ASSUME NEW r \in Requests, RequestBooks(r), op[r] # "CreateProduct",
           NEW p \in ProductIDs, NEW n, HoldsStock(r, p, n)
    PROVE  products[p] # NoRow /\ products[p].stock >= n
  BY DEF RequestBooks, StockBooks, HoldsStock

\* AddItem.
LEMMA AddItemIsOneStep ==
    ASSUME IInv, Rules, Books, Effects, NEW r \in Requests, Commit(r), op[r] = "AddItem"
    PROVE  /\ user[r] \in Users
           /\ \E p \in ProductIDs, q \in Quantities : Atomic!AddToCart(user[r], p, q)
<1>1. RequestBooks(r) /\ RequestEffects(r) /\ pc[r] = "commit" /\ op[r] \in ItemMethods
  BY DEF Books, Effects, Commit, ItemMethods
<1>2. PICK x : x = target[r]
  OBVIOUS
<1>3. PICK p \in ProductIDs, q \in Quantities :
          /\ HoldsStock(r, p, q + LineQuantity(items[x], p))
          /\ \/ /\ References(items[x], p)
                /\ itemsW[x] = WithQuantity(items[x], p, q + LineQuantity(items[x], p))
             \/ /\ ~References(items[x], p)
                /\ \E s \in Slots :
                      /\ IsFreeSlot(items[x], s)
                      /\ itemsW[x] = AppendLine(items[x], s, p, q, products[p].price)
  BY <1>1, <1>2 DEF RequestEffects, CartEffects, HasEdited, AddedItem
<1>4. products[p] # NoRow /\ products[p].stock >= q + LineQuantity(items[x], p)
  BY <1>1, <1>3, HeldProductIs
<1>5. /\ x \in OrderIDs /\ user[r] \in Users
      /\ Atomic!Refill(x, user[r], itemsW[x])
      /\ \/ IsDraft(orders[x], user[r])
         \/ orders[x] = NoRow /\ \A d \in OrderIDs : ~IsDraft(orders[d], user[r])
  BY <1>1, <1>2, CommitOfItem
<1>6. \/ Atomic!References(items[x], p)
         /\ Atomic!Refill(x, user[r], Atomic!WithQuantity(items[x], p,
                                         q + Atomic!LineQuantity(items[x], p)))
      \/ ~Atomic!References(items[x], p)
         /\ \E s \in Atomic!Slots :
               /\ Atomic!IsFreeSlot(items[x], s)
               /\ Atomic!Refill(x, user[r],
                     Atomic!AppendLine(items[x], s, p, q, products[p].price))
  BY <1>3, <1>5, SameIds, SameStatements
<1>7. Atomic!AddToCart(user[r], p, q)
  BY <1>4, <1>5, <1>6, SameIds, SameStatements DEF Atomic!AddToCart
<1> QED
  BY <1>5, <1>7

\* UpdateItem.
LEMMA UpdateItemIsOneStep ==
    ASSUME IInv, Rules, Books, Effects, NEW r \in Requests, Commit(r), op[r] = "UpdateItem"
    PROVE  /\ user[r] \in Users
           /\ \E p \in ProductIDs, q \in Quantities : Atomic!ChangeQuantity(user[r], p, q)
<1>1. RequestBooks(r) /\ RequestEffects(r) /\ pc[r] = "commit" /\ op[r] \in ItemMethods
  BY DEF Books, Effects, Commit, ItemMethods
<1>2. PICK x : x = target[r]
  OBVIOUS
<1>3. PICK p \in ProductIDs, q \in Quantities :
          /\ References(items[x], p)
          /\ HoldsStock(r, p, q)
          /\ itemsW[x] = WithQuantity(items[x], p, q)
  BY <1>1, <1>2 DEF RequestEffects, CartEffects, HasEdited, UpdatedItem
<1>4. products[p].stock >= q
  BY <1>1, <1>3, HeldProductIs
<1>5. /\ x \in OrderIDs /\ user[r] \in Users
      /\ Atomic!Refill(x, user[r], itemsW[x])
      /\ IsDraft(orders[x], user[r])
  BY <1>1, <1>2, CommitOfItem
<1>6. Atomic!ChangeQuantity(user[r], p, q)
  BY <1>3, <1>4, <1>5, SameIds, SameStatements DEF Atomic!ChangeQuantity
<1> QED
  BY <1>5, <1>6

\* DeleteItem.
LEMMA DeleteItemIsOneStep ==
    ASSUME IInv, Rules, Books, Effects, NEW r \in Requests, Commit(r), op[r] = "DeleteItem"
    PROVE  user[r] \in Users /\ \E p \in ProductIDs : Atomic!RemoveFromCart(user[r], p)
<1>1. RequestEffects(r) /\ pc[r] = "commit" /\ op[r] \in ItemMethods
  BY DEF Effects, Commit, ItemMethods
<1>2. PICK x : x = target[r]
  OBVIOUS
<1>3. PICK p \in ProductIDs :
          References(items[x], p) /\ itemsW[x] = WithoutProduct(items[x], p)
  BY <1>1, <1>2 DEF RequestEffects, CartEffects, HasEdited, DeletedItem
<1>4. /\ x \in OrderIDs /\ user[r] \in Users
      /\ Atomic!Refill(x, user[r], itemsW[x])
      /\ IsDraft(orders[x], user[r])
  BY <1>1, <1>2, CommitOfItem
<1>5. Atomic!RemoveFromCart(user[r], p)
  BY <1>3, <1>4, SameIds, SameStatements DEF Atomic!RemoveFromCart
<1> QED
  BY <1>4, <1>5

-----------------------------------------------------------------------------
(* Orders.                                                                 *)

\* Only the status of a placed order changes.
LEMMA StatusOnly ==
    ASSUME IInv, Rules, NEW x \in OrderIDs, IsPlaced(orders[x])
    PROVE  /\ ordersW[x] = [orders[x] EXCEPT !.status = ordersW[x].status]
           /\ itemsW[x] = items[x]
<1>1. /\ itemsW[x] = items[x]
      /\ [ordersW[x] EXCEPT !.status = orders[x].status] = orders[x]
  BY DEF Rules, OrderRules, OnlyStatusMoves
<1>2. PICK old \in OrderRow, new \in OrderRow : old = orders[x] /\ new = ordersW[x]
  BY DEF IInv, TypeOK, Orders, RowInv, OrdersStay, IsPlaced
<1>3. [new EXCEPT !.status = old.status] = old
  BY <1>1, <1>2
<1>4. new = [old EXCEPT !.status = new.status]
  BY <1>3 DEF OrderRow
<1> QED
  BY <1>1, <1>2, <1>4

\* CancelOrder.
LEMMA CancelOrderIsOneStep ==
    ASSUME IInv, Rules, Books, NEW r \in Requests, Commit(r), op[r] = "CancelOrder"
    PROVE  \E o \in OrderIDs : Atomic!CancelAndRestock(o)
<1> USE NoRowAssumption
<1>1. TypeOK /\ RequestBooks(r) /\ pc[r] = "commit"
  BY DEF IInv, Books, Commit
<1>2. PICK x \in OrderIDs :
          /\ x = target[r] /\ orderLock[x] = r
          /\ orders[x] # NoRow /\ orders[x].status = "pending"
          /\ ordersW[x].status = "cancelled"
  BY <1>1 DEF RequestBooks, Decides, MovesStatus
<1>3. /\ ordersW[x] = [orders[x] EXCEPT !.status = "cancelled"]
      /\ itemsW[x] = items[x]
  BY <1>2, StatusOnly DEF IsPlaced
<1>4. /\ orders' = [orders EXCEPT ![x] = [@ EXCEPT !.status = "cancelled"]]
      /\ items' = [items EXCEPT ![x] = items[x]]
  <2>1. /\ orders' = [orders EXCEPT ![x] = ordersW[x]]
        /\ items' = [items EXCEPT ![x] = itemsW[x]]
    BY <1>1, <1>2, CommitOfOrder
  <2> QED
    BY <1>3, <2>1
<1>5. UNCHANGED items
  BY <1>1, <1>4 DEF TypeOK
<1>6. PICK ls \in Lines : ls = items[x] /\ OnceEach(ls)
  BY <1>1 DEF TypeOK, Rules, OrderRules
<1>7. ASSUME NEW p \in ProductIDs
      PROVE  (IF productLock[p] = r THEN productsW[p] ELSE products[p])
               = IF References(ls, p)
                 THEN WithStock(products[p], products[p].stock + QuantityOf(ls, p))
                 ELSE products[p]
  <2>1. QuantityOf(ls, p) = LineQuantity(ls, p)
    BY <1>6, QuantityIsLineQuantity
  <2>2. LineQuantity(ls, p) \in Nat /\ (LineQuantity(ls, p) > 0 <=> References(ls, p))
    BY QuantityIsPositive
  <2>3. GaveBack(r, p, LineQuantity(ls, p), 0)
    <3>1. lines[r] = NoLines
      BY <1>1 DEF RequestBooks, StockBooks, At
    <3>2. LineQuantity(lines[r], p) = 0
      BY <3>1 DEF LineQuantity, References, NoLines
    <3> QED
      BY <1>1, <1>2, <1>3, <1>6, <3>2 DEF RequestBooks, StockBooks
  <2>4. CASE productLock[p] = r
    <3>1. products[p] \in ProductRow
      BY <1>1, <2>4 DEF RequestBooks, StockBooks, TypeOK, Products
    <3>2. products[p].stock \in Nat
      BY <3>1 DEF ProductRow
    <3>3. productsW[p] = WithStock(products[p], products[p].stock + LineQuantity(ls, p) - 0)
      BY <2>3, <2>4 DEF GaveBack
    <3>4. products[p].stock + LineQuantity(ls, p) - 0
            = products[p].stock + LineQuantity(ls, p)
      BY <2>2, <3>2
    <3>5. CASE References(ls, p)
      BY <2>1, <2>4, <3>3, <3>4, <3>5
    <3>6. CASE ~References(ls, p)
      <4>1. LineQuantity(ls, p) = 0
        BY <3>6 DEF LineQuantity
      <4>2. products[p].stock + LineQuantity(ls, p) - 0 = products[p].stock
        BY <3>2, <4>1
      <4> QED
        BY <2>4, <3>1, <3>3, <3>6, <4>2, WithStockTwice
    <3> QED
      BY <3>5, <3>6
  <2>5. CASE productLock[p] # r
    <3>1. LineQuantity(ls, p) = 0
      BY <2>3, <2>5 DEF GaveBack
    <3> QED
      BY <2>2, <2>5, <3>1
  <2> QED
    BY <2>4, <2>5
<1>8. products' = [p \in ProductIDs |->
                     IF References(ls, p)
                     THEN WithStock(products[p], products[p].stock + QuantityOf(ls, p))
                     ELSE products[p]]
  BY <1>7 DEF Commit
<1>9. Atomic!CancelAndRestock(x)
  BY <1>2, <1>4, <1>5, <1>6, <1>8, SameIds, SameStatements, SameTotals
     DEF Atomic!CancelAndRestock
<1> QED
  BY <1>9

\* Every move of a placed order is one of AtomicShop.
LEMMA MovesAreTransitions ==
    ASSUME NEW s \in Statuses, s # "draft", NEW t \in Lifecycle!Successors(s)
    PROVE  <<s, t>> \in Atomic!Transitions
  BY DEF Statuses, Lifecycle!Successors, Lifecycle!Moves, Absent, Atomic!Transitions

\* PayOrder and UpdateOrderStatus.
LEMMA MoveIsOneStep ==
    ASSUME IInv, Rules, Books, NEW r \in Requests, Commit(r),
           op[r] \in {"PayOrder", "UpdateOrderStatus"}
    PROVE  UNCHANGED <<products, orders, items>> \/ \E o \in OrderIDs : Atomic!MoveOn(o)
<1> USE NoRowAssumption
<1>1. TypeOK /\ RequestBooks(r) /\ RequestRules(r) /\ pc[r] = "commit"
  BY DEF IInv, Books, Rules, Commit
<1>2. UNCHANGED products
  <2>1. TouchesNoStock(r)
    BY DEF TouchesNoStock, Sales, Catalogue
  <2>2. op[r] # "CreateProduct"
    OBVIOUS
  <2> QED
    BY <1>1, <2>1, CommitOfNoProduct DEF RequestBooks, StockBooks
<1>3. CASE UNCHANGED <<orders, items>>
  BY <1>2, <1>3
<1>4. CASE ~UNCHANGED <<orders, items>>
  <2>1. PICK x \in OrderIDs : x = target[r] /\ orderLock[x] = r
    BY <1>1 DEF RequestBooks, Decides, MovesStatus, RequestRules, MarksPaid, At
  <2>2. /\ orders' = [orders EXCEPT ![x] = ordersW[x]]
        /\ items' = [items EXCEPT ![x] = itemsW[x]]
    BY <1>1, <2>1, CommitOfOrder
  <2>3. OneMove(x)
    BY DEF Rules, OrderRules
  <2>4. IsPlaced(orders[x])
    <3>1. CASE op[r] = "UpdateOrderStatus"
      BY <1>1, <2>1, <3>1 DEF RequestBooks, Decides
    <3>2. CASE op[r] = "PayOrder"
      <4>1. ordersW[x] # NoRow /\ ordersW[x].status \in PaidStatuses
        BY <1>1, <2>1, <3>2 DEF RequestRules, MarksPaid, At, IsPaid
      <4>2. StatusOf(ordersW[x]) \in PaidStatuses
        BY <4>1 DEF StatusOf
      <4>3. ASSUME ~IsPlaced(orders[x]) PROVE FALSE
        <5>1. StatusOf(orders[x]) \in {Absent, "draft"}
          BY <4>3 DEF StatusOf, IsPlaced
        <5>2. StatusOf(ordersW[x]) \in {Absent, "draft", "pending"}
          BY <2>3, <5>1 DEF OneMove, Lifecycle!Successors, Lifecycle!Moves, Absent
        <5> QED
          BY <4>2, <5>2 DEF PaidStatuses, Absent
      <4> QED
        BY <4>3
    <3> QED
      BY <3>1, <3>2
  <2>5. /\ ordersW[x] = [orders[x] EXCEPT !.status = ordersW[x].status]
        /\ itemsW[x] = items[x]
    BY <2>4, StatusOnly
  <2>6. UNCHANGED items
    BY <1>1, <2>2, <2>5 DEF TypeOK
  <2>7. PICK old \in OrderRow, new \in OrderRow : old = orders[x] /\ new = ordersW[x]
    BY <2>4 DEF IInv, TypeOK, Orders, RowInv, OrdersStay, IsPlaced
  <2>8. new.status # old.status
    <3>1. ASSUME new.status = old.status PROVE FALSE
      <4>1. new = old
        BY <2>5, <2>7, <3>1 DEF OrderRow
      <4>2. UNCHANGED orders
        BY <1>1, <2>2, <2>7, <4>1 DEF TypeOK, Orders
      <4> QED
        BY <1>4, <2>6, <4>2
    <3> QED
      BY <3>1
  <2>9. <<old.status, new.status>> \in Atomic!Transitions
    <3>1. old.status \in Statuses /\ old.status # "draft"
      BY <2>4, <2>7 DEF OrderRow, IsPlaced
    <3>2. new.status \in Lifecycle!Successors(old.status)
      BY <2>3, <2>7, <2>8 DEF OneMove, StatusOf
    <3> QED
      BY <3>1, <3>2, MovesAreTransitions
  <2>10. Atomic!MoveOn(x)
    <3>1. orders' = [orders EXCEPT ![x] = [@ EXCEPT !.status = new.status]]
      BY <2>2, <2>5, <2>7
    <3>2. /\ <<old.status, new.status>>[1] = orders[x].status
          /\ <<old.status, new.status>>[2] = new.status
      BY <2>7
    <3>3. \E t \in Atomic!Transitions :
             /\ orders[x].status = t[1]
             /\ orders' = [orders EXCEPT ![x] = [@ EXCEPT !.status = t[2]]]
      BY <2>9, <3>1, <3>2
    <3>4. orders[x] # NoRow
      BY <2>4 DEF IsPlaced
    <3> QED
      BY <1>2, <2>6, <3>3, <3>4 DEF Atomic!MoveOn
  <2> QED
    BY <2>10
<1> QED
  BY <1>3, <1>4

\* GetCart and GetOrder.
LEMMA ReadIsNoStep ==
    ASSUME IInv, Books, Effects, NEW r \in Requests, Commit(r),
           op[r] \in {"GetCart", "GetOrder"}
    PROVE  UNCHANGED <<products, orders, items>>
<1>1. TypeOK /\ RequestBooks(r) /\ RequestEffects(r)
  BY DEF IInv, Books, Effects
<1>2. UNCHANGED <<orders, items>>
  BY <1>1, CommitOfNoOrder DEF RequestEffects, CartEffects, OnlyReads
<1>3. UNCHANGED products
  <2>1. TouchesNoStock(r)
    BY DEF TouchesNoStock, Sales, Catalogue
  <2> QED
    BY <1>1, <2>1, CommitOfNoProduct DEF RequestBooks, StockBooks
<1> QED
  BY <1>2, <1>3

-----------------------------------------------------------------------------
(* The catalogue.                                                          *)

\* CreateProduct, UpdateProduct and DeleteProduct.
LEMMA CatalogueIsOneStep ==
    ASSUME IInv, Rules, Books, Effects, NEW r \in Requests, Commit(r), op[r] \in Catalogue
    PROVE  \/ UNCHANGED <<products, orders, items>>
           \/ \E p \in ProductIDs :
                 \/ Atomic!AddProduct(p) \/ Atomic!OverwriteProduct(p)
                 \/ Atomic!RemoveProduct(p)
<1> USE NoRowAssumption
<1>1. /\ TypeOK /\ RequestBooks(r) /\ RequestRules(r) /\ RequestEffects(r)
      /\ pc[r] = "commit"
  BY DEF IInv, Books, Rules, Effects, Commit
<1>2. UNCHANGED <<orders, items>>
  <2>1. \A o \in OrderIDs : orderLock[o] # r
    BY <1>1 DEF RequestRules, LocksItsOrder, HoldsNoOrder, Catalogue
  <2> QED
    BY <1>1, <2>1, CommitOfNoOrder
<1>3. CASE \A p \in ProductIDs : productLock[p] # r
  BY <1>1, <1>2, <1>3, CommitOfNoProduct
<1>4. ASSUME NEW p \in ProductIDs, productLock[p] = r
      PROVE  \/ Atomic!AddProduct(p) \/ Atomic!OverwriteProduct(p)
             \/ Atomic!RemoveProduct(p)
  <2>1. \A q \in ProductIDs : productLock[q] = r <=> q = p
    BY <1>1, <1>4 DEF RequestEffects, WritesOneProduct
  <2>2. products' = [products EXCEPT ![p] = productsW[p]]
    BY <1>1, <2>1 DEF Commit, TypeOK, Products
  <2>3. op[r] \in Written => productsW[p] \in Atomic!Bodies
    BY <1>1, <1>4 DEF RequestEffects, WritesOneProduct, ProductBodies, Atomic!Bodies
  <2>4. CASE op[r] = "CreateProduct"
    <3>1. products[p] = NoRow
      BY <1>1, <1>4, <2>4 DEF RequestBooks, StockBooks
    <3> QED
      BY <1>2, <2>2, <2>3, <2>4, <3>1 DEF Written, Atomic!AddProduct
  <2>5. CASE op[r] = "UpdateProduct"
    <3>1. products[p] # NoRow
      BY <1>1, <1>4, <2>5 DEF RequestBooks, StockBooks
    <3> QED
      BY <1>2, <2>2, <2>3, <2>5, <3>1 DEF Written, Atomic!OverwriteProduct
  <2>6. CASE op[r] = "DeleteProduct"
    <3>1. products[p] # NoRow /\ productsW[p] = NoRow
      BY <1>1, <1>4, <2>6 DEF RequestBooks, StockBooks
    <3>2. \A o \in OrderIDs : ~References(items[o], p)
      BY <1>1, <1>4, <2>6 DEF RequestRules, DeletesUnused
    <3> QED
      BY <1>2, <2>2, <3>1, <3>2, SameIds, SameStatements DEF Atomic!RemoveProduct
  <2> QED
    BY <2>4, <2>5, <2>6 DEF Catalogue
<1> QED
  BY <1>3, <1>4

-----------------------------------------------------------------------------
(* The refinement.                                                         *)

\* A commit is one step of AtomicShop, or changes nothing.
LEMMA CommitIsOneStep ==
    ASSUME IInv, Rules, Books, Effects, NEW r \in Requests, Commit(r)
    PROVE  [Atomic!AtomicNext]_<<products, orders, items>>
<1>1. op[r] \in Methods
  BY DEF Effects, RequestEffects, Asks, Commit
<1>2. CASE op[r] = "CreateOrder"
  <2>1. user[r] \in Users /\ Atomic!PlaceOrder(user[r], want[r])
    BY <1>2, CreateOrderIsPlaced
  <2>2. want[r] \in [ProductIDs -> Quantities \cup {0}]
    BY <1>2 DEF Effects, RequestEffects, Asks, IsOrderRequest
  <2> QED
    BY <2>1, <2>2, SameIds DEF Atomic!AtomicNext
<1>3. CASE op[r] = "Checkout"
  BY <1>3, CheckoutIsPlaced DEF Atomic!AtomicNext
<1>4. CASE op[r] = "AddItem"
  BY <1>4, AddItemIsOneStep, SameIds DEF Atomic!AtomicNext
<1>5. CASE op[r] = "UpdateItem"
  BY <1>5, UpdateItemIsOneStep, SameIds DEF Atomic!AtomicNext
<1>6. CASE op[r] = "DeleteItem"
  BY <1>6, DeleteItemIsOneStep, SameIds DEF Atomic!AtomicNext
<1>7. CASE op[r] = "CancelOrder"
  BY <1>7, CancelOrderIsOneStep, SameIds DEF Atomic!AtomicNext
<1>8. CASE op[r] \in {"PayOrder", "UpdateOrderStatus"}
  BY <1>8, MoveIsOneStep, SameIds DEF Atomic!AtomicNext
<1>9. CASE op[r] \in {"GetCart", "GetOrder"}
  BY <1>9, ReadIsNoStep
<1>10. CASE op[r] \in Catalogue
  BY <1>10, CatalogueIsOneStep, SameIds DEF Atomic!AtomicNext
<1> QED
  BY <1>1, <1>2, <1>3, <1>4, <1>5, <1>6, <1>7, <1>8, <1>9, <1>10 DEF Methods, Catalogue

\* The committed tables of Shop are those of AtomicShop: although any number
\* of transactions run at READ COMMITTED, and each statement sees what has
\* been committed by then, every call changes the tables as if it had read
\* and written all its rows at the moment of its commit.
THEOREM CallsAreAtomic == Spec => RefinesAtomicShop
<1>1. Init => Atomic!AtomicInit
  BY SameIds DEF Init, StoreInit, Atomic!AtomicInit
<1>2. ASSUME IInv, Rules, Books, Effects, [Next]_vars
      PROVE  [Atomic!AtomicNext]_<<products, orders, items>>
  <2>1. CASE UNCHANGED vars
    BY <2>1 DEF vars, database, tables
  <2>2. ASSUME NEW r \in Requests, Begins(r) \/ Step(r) \/ Abort(r)
        PROVE  [Atomic!AtomicNext]_<<products, orders, items>>
    <3>1. CASE CommitRequest(r)
      BY <1>2, <3>1, CommitIsOneStep DEF CommitRequest
    <3>2. CASE ~CommitRequest(r)
      BY <1>2, <2>2, <3>2, OnlyCommitsWrite
    <3> QED
      BY <3>1, <3>2
  <2> QED
    BY <1>2, <2>1, <2>2 DEF Next
<1>3. IInv /\ Rules /\ Books /\ Effects /\ [Next]_vars
        => [Atomic!AtomicNext]_(Atomic!atomicVars)
  BY <1>2 DEF Atomic!atomicVars
<1> QED
  BY <1>1, <1>3, InvariantHolds, RulesHold, BooksHold, EffectsHold, PTL
     DEF Spec, RefinesAtomicShop, Atomic!AtomicSpec

=============================================================================
