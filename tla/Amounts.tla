------------------------------- MODULE Amounts -------------------------------
(***************************************************************************)
(* The arithmetic of a sale: CreateOrder of internal/order/service.go, on  *)
(* Go's int and int64, which wrap, and on the columns of order_items and   *)
(* products, which are narrower and have CHECKs.  One call runs alone: the *)
(* rows it uses are locked (Shop).                                         *)
(***************************************************************************)
EXTENDS Integers, Sequences, FiniteSets, Functions

CONSTANTS
    MaxInt,         \* the largest int and int64: 2^63 - 1 in the code
    MaxColumn,      \* the largest INTEGER of a column: 2^31 - 1
    Products,       \* ids of products
    Prices,         \* their prices, a BIGINT
    Stocks,         \* their stocks, an INTEGER
    Asked,          \* quantities of a line of the request
    MaxLines        \* bound: lines of a request

VARIABLES
    request,        \* the lines of the request that are left to merge
    asked,          \* ghost: the quantity of each product the client asked for
    price, stock,   \* table products
    quantities,     \* the map of merged quantities
    checked,        \* products that have passed the stock check
    totalAmount,
    placed,         \* lines inserted: product to quantity, 0 if there is none
    stage           \* merge, check, insert, placed or refused

amountVars == <<request, asked, price, stock, quantities, checked,
                totalAmount, placed, stage>>

ASSUME WidthAssumption ==
    /\ MaxInt \in Nat
    /\ MaxColumn \in 0..MaxInt
    /\ MaxLines \in Nat
    /\ Asked \subseteq 1..MaxInt
    /\ Prices \subseteq 0..MaxInt
    /\ Stocks \subseteq 0..MaxColumn
    /\ Products \subseteq Nat /\ IsFiniteSet(Products)

\* Two's complement: what Go keeps of n, a number modulo 2^64.
Wrap(n) == ((n + MaxInt + 1) % (2 * (MaxInt + 1))) - (MaxInt + 1)

\* A value outside an INTEGER column is an error, it does not wrap.
FitsColumn(n) == n \in -(MaxColumn + 1)..MaxColumn

Total(f) == FoldFunction(+, 0, f)

\* Every request line has a positive quantity, or is refused before.
Requests == UNION {[1..n -> [product : Products, quantity : Asked]] : n \in 1..MaxLines}

AmountsInit ==
    /\ request \in Requests
    /\ asked = [p \in Products |->
                  Total([i \in DOMAIN request |->
                           IF request[i].product = p THEN request[i].quantity ELSE 0])]
    /\ price \in [Products -> Prices]
    /\ stock \in [Products -> Stocks]
    /\ quantities = [p \in Products |-> 0]
    /\ checked = {}
    /\ totalAmount = 0
    /\ placed = [p \in Products |-> 0]
    /\ stage = "merge"

\* Fault: the last line of a product counts.
Merge_Overwrites ==
    /\ stage = "merge" /\ request # <<>>
    /\ quantities' = [quantities EXCEPT ![Head(request).product] = Head(request).quantity]
    /\ request' = Tail(request)
    /\ UNCHANGED <<asked, price, stock, checked, totalAmount, placed, stage>>

\* quantities[item.ProductID] += item.Quantity
Merge ==
    /\ stage = "merge" /\ request # <<>>
    /\ quantities' = [quantities EXCEPT
                        ![Head(request).product] = Wrap(@ + Head(request).quantity)]
    /\ request' = Tail(request)
    /\ UNCHANGED <<asked, price, stock, checked, totalAmount, placed, stage>>

Merged ==
    /\ stage = "merge" /\ request = <<>>
    /\ stage' = "check"
    /\ UNCHANGED <<request, asked, price, stock, quantities, checked,
                   totalAmount, placed>>

\* The products of the request, which are in the map whatever they sum to.
InRequest == {p \in Products : asked[p] > 0}

\* The stock check, then totalAmount += Price * int64(quantity).
Check(p) ==
    /\ stage = "check" /\ p \in InRequest \ checked
    /\ \A q \in InRequest \ checked : p <= q
    /\ stock[p] >= quantities[p]
    /\ totalAmount' = Wrap(totalAmount + Wrap(price[p] * quantities[p]))
    /\ checked' = checked \cup {p}
    /\ UNCHANGED <<request, asked, price, stock, quantities, placed, stage>>

InsufficientStock ==
    /\ stage = "check"
    /\ \E p \in InRequest \ checked :
          /\ \A q \in InRequest \ checked : p <= q
          /\ stock[p] < quantities[p]
    /\ stage' = "refused"
    /\ UNCHANGED <<request, asked, price, stock, quantities, checked,
                   totalAmount, placed>>

\* INSERT INTO orders: no CHECK on total_amount.
Checked ==
    /\ stage = "check" /\ checked = InRequest
    /\ stage' = "insert"
    /\ UNCHANGED <<request, asked, price, stock, quantities, checked,
                   totalAmount, placed>>

\* Fault: order_items without CHECK (quantity > 0).
RowAllowed_AnyQuantity(p) ==
    FitsColumn(quantities[p]) /\ stock[p] - quantities[p] >= 0

\* order_items: quantity INT CHECK (quantity > 0); products: CHECK (stock >= 0).
RowAllowed(p) ==
    /\ FitsColumn(quantities[p])
    /\ quantities[p] > 0
    /\ stock[p] - quantities[p] >= 0

\* CreateItem and DecreaseStock.
Insert(p) ==
    /\ stage = "insert" /\ p \in InRequest /\ placed[p] = 0
    /\ \A q \in InRequest : placed[q] = 0 => p <= q
    /\ RowAllowed(p)
    /\ placed' = [placed EXCEPT ![p] = quantities[p]]
    /\ stock' = [stock EXCEPT ![p] = @ - quantities[p]]
    /\ UNCHANGED <<request, asked, price, quantities, checked, totalAmount, stage>>

\* A CHECK fails: the transaction rolls back.
InsertFails ==
    /\ stage = "insert"
    /\ \E p \in InRequest :
          /\ placed[p] = 0
          /\ \A q \in InRequest : placed[q] = 0 => p <= q
          /\ ~RowAllowed(p)
    /\ stage' = "refused"
    /\ stock' = [p \in Products |-> stock[p] + placed[p]]
    /\ placed' = [p \in Products |-> 0]
    /\ UNCHANGED <<request, asked, price, quantities, checked, totalAmount>>

Inserted ==
    /\ stage = "insert" /\ \A p \in InRequest : placed[p] # 0
    /\ stage' = "placed"
    /\ UNCHANGED <<request, asked, price, stock, quantities, checked,
                   totalAmount, placed>>

AmountsNext ==
    \/ Merge \/ Merged \/ InsufficientStock \/ Checked \/ InsertFails \/ Inserted
    \/ \E p \in Products : Check(p) \/ Insert(p)

AmountsSpec == AmountsInit /\ [][AmountsNext]_amountVars

-----------------------------------------------------------------------------
\* What a request asks for, and what it costs, in whole numbers.
TrueCost == Total([p \in Products |-> price[p] * asked[p]])

\* However sums wrap, a line that is stored is one of at least a unit, and
\* the stock it took was there: a wrapped sum passes the service's stock
\* check when it is negative, and only the CHECKs of the tables stop it.
StoredLinesAreLegal ==
    /\ \A p \in Products : placed[p] >= 0 /\ stock[p] >= 0
    /\ stage = "placed" => \A p \in InRequest : placed[p] > 0

\* A placed order is what was asked for at what it costs, as long as the
\* quantities of each product and the cost fit 64 bits.
ExactWhenItFits ==
    /\ stage = "placed"
    /\ \A p \in Products : asked[p] <= MaxInt
    /\ TrueCost <= MaxInt
    => placed = asked /\ totalAmount = TrueCost

\* docs/openapi.yaml, Order: total_amount has minimum 0.
TotalsAreNotNegative == stage = "placed" => totalAmount >= 0

=============================================================================
