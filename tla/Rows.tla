-------------------------------- MODULE Rows --------------------------------
(***************************************************************************)
(* The rows of the tables products, orders and order_items, and what the   *)
(* statements of the repositories make of them.  The lines of an order are *)
(* kept in the order of their ids.                                         *)
(***************************************************************************)
EXTENDS Naturals, Functions

CONSTANTS
    Users,          \* customers
    MaxProducts,    \* bound: rows of table products
    MaxOrders,      \* bound: rows of table orders
    Quantities,     \* quantities a client asks for
    Prices,         \* prices an administrator sets
    Stocks,         \* stocks an administrator sets
    NewStatuses,    \* statuses an administrator asks for
    Currencies,     \* three-letter currency codes
    InitProducts,   \* rows of products when the system starts
    NoRow           \* no such row

-----------------------------------------------------------------------------
(* Rows. Names, descriptions and timestamps are left out.                  *)

ProductIDs == 1..MaxProducts
OrderIDs   == 1..MaxOrders
NoOrder    == 0
NoCurrency == ""

\* An order has at most one line per product (OneLinePerProduct in Shop), so
\* its lines, in the order of their ids, fit in as many slots.
Slots == 1..MaxProducts

Statuses == {"draft", "pending", "paid", "processing", "shipped",
             "completed", "cancelled"}

ProductRow == [price : Nat, currency : Currencies, stock : Nat]
OrderRow   == [user : Users, status : Statuses, total : Nat,
               currency : Currencies \cup {NoCurrency}]
ItemRow    == [product : ProductIDs, quantity : Nat \ {0}, price : Nat]

Products == [ProductIDs -> ProductRow \cup {NoRow}]
Orders   == [OrderIDs -> OrderRow \cup {NoRow}]
Lines    == [Slots -> ItemRow \cup {NoRow}]

NoLines   == [s \in Slots |-> NoRow]
NoProduct == [p \in ProductIDs |-> NoRow]
Nothing   == [p \in ProductIDs |-> 0]

ASSUME BoundsAssumption ==
    /\ MaxProducts \in Nat
    /\ MaxOrders \in Nat
    /\ Quantities \subseteq Nat \ {0}
    /\ Prices \subseteq Nat
    /\ Stocks \subseteq Nat
    /\ NewStatuses \subseteq Statuses
    /\ NoCurrency \notin Currencies
ASSUME NoRowAssumption ==
    /\ NoRow \notin ProductRow
    /\ NoRow \notin OrderRow
    /\ NoRow \notin ItemRow
\* The rows of the start are those with the lowest ids; n is the next id.
IsNextId(n) ==
    /\ n \in 1..(MaxProducts + 1)
    /\ \A p \in ProductIDs : InitProducts[p] # NoRow <=> p < n

ASSUME InitAssumption ==
    /\ InitProducts \in Products
    /\ \E n \in 1..(MaxProducts + 1) : IsNextId(n)

-----------------------------------------------------------------------------
(* The statements, as functions on rows.                                   *)

WithStock(row, n) == [row EXCEPT !.stock = n]

IsDraft(row, u) == row # NoRow /\ row.status = "draft" /\ row.user = u

\* Some line is of product p.
References(ls, p) == \E s \in Slots : ls[s] # NoRow /\ ls[s].product = p

\* SELECT ... FROM order_items WHERE order_id AND product_id.
LineOf(ls, p) == CHOOSE s \in Slots : ls[s] # NoRow /\ ls[s].product = p
LineQuantity(ls, p) == IF References(ls, p) THEN ls[LineOf(ls, p)].quantity ELSE 0

\* INSERT INTO order_items: the new line gets the highest id.
IsFreeSlot(ls, s) ==
    /\ s \in Slots
    /\ ls[s] = NoRow
    /\ \A t \in Slots : t < s => ls[t] # NoRow
AppendLine(ls, s, p, q, price) ==
    [ls EXCEPT ![s] = [product |-> p, quantity |-> q, price |-> price]]

\* UPDATE order_items SET quantity WHERE product_id = p.
LineWithQuantity(line, q) == [line EXCEPT !.quantity = q]
WithQuantity(ls, p, q) ==
    [s \in Slots |-> IF ls[s] # NoRow /\ ls[s].product = p
                     THEN LineWithQuantity(ls[s], q) ELSE ls[s]]

\* DELETE FROM order_items WHERE product_id = p: the lines above the first
\* one that goes move down a slot.
WithoutProduct(ls, p) ==
    LET gone(s) == ls[s] # NoRow /\ ls[s].product = p
    IN  [s \in Slots |->
           IF \A t \in 1..s : ~gone(t) THEN ls[s]
           ELSE IF s + 1 \in Slots THEN ls[s + 1] ELSE NoRow]

LineWithPrice(line, price) == [line EXCEPT !.price = price]

-----------------------------------------------------------------------------
(* Sums over the lines of an order.                                        *)

Sum(f) == FoldFunction(+, 0, f)

\* A total that fits the BIGINT column; the bounds of the checked instances
\* stay far below 2^63.
IsAmount(n) == n \in Nat

LinesTotal(ls) ==
    Sum([s \in Slots |-> IF ls[s] = NoRow THEN 0
                         ELSE ls[s].price * ls[s].quantity])
QuantityOf(ls, p) ==
    Sum([s \in Slots |-> IF ls[s] = NoRow \/ ls[s].product # p THEN 0
                         ELSE ls[s].quantity])

=============================================================================
