----------------------------- MODULE AtomicShop -----------------------------
(***************************************************************************)
(* What the services promise over the tables: every call that changes      *)
(* anything is one step, which reads and writes the rows as they are at    *)
(* that moment.  No transactions, locks, snapshots or crashes.             *)
(***************************************************************************)
EXTENDS Rows, FiniteSets

VARIABLES products, orders, items

atomicVars == <<products, orders, items>>

AtomicInit ==
    /\ products = InitProducts
    /\ orders = [o \in OrderIDs |-> NoRow]
    /\ items = [o \in OrderIDs |-> NoLines]

-----------------------------------------------------------------------------
(* Sales.                                                                  *)

AskedFor(w) == {p \in ProductIDs : w[p] > 0}

\* The products of w are there, with stock, and have their prices in c.
CanSell(w, c) ==
    \A p \in AskedFor(w) :
        /\ products[p] # NoRow
        /\ products[p].stock >= w[p]
        /\ products[p].currency = c

Cost(w) ==
    Sum([p \in ProductIDs |-> IF w[p] > 0 THEN w[p] * products[p].price ELSE 0])

\* The place of product p among those of w, in the order of their ids.
Place(w, p) == Cardinality({q \in AskedFor(w) : q <= p})

\* One line for each product of w, in the order of their ids.
SaleLines(w) ==
    [s \in Slots |->
        IF \A p \in AskedFor(w) : Place(w, p) # s THEN NoRow
        ELSE LET p == CHOOSE q \in AskedFor(w) : Place(w, q) = s
             IN  [product |-> p, quantity |-> w[p], price |-> products[p].price]]

\* The lines of a cart at today's prices.
Repriced(ls) ==
    [s \in Slots |-> IF ls[s] = NoRow THEN NoRow
                     ELSE LineWithPrice(ls[s], products[ls[s].product].price)]

TakeStock(w) ==
    products' = [p \in ProductIDs |->
                    IF w[p] > 0 THEN WithStock(products[p], products[p].stock - w[p])
                                ELSE products[p]]

\* CreateOrder: a new order, under any id that has not been used.
PlaceOrder(u, w) ==
    /\ AskedFor(w) # {}
    /\ \E o \in OrderIDs, c \in Currencies :
          /\ CanSell(w, c)
          /\ orders[o] = NoRow
          /\ orders' = [orders EXCEPT ![o] =
                           [user |-> u, status |-> "pending",
                            total |-> Cost(w), currency |-> c]]
          /\ items' = [items EXCEPT ![o] = SaleLines(w)]
    /\ TakeStock(w)

\* Checkout: the draft of u becomes the order.
CheckoutCart(u) ==
    \E o \in OrderIDs, c \in Currencies :
        LET w == [p \in ProductIDs |-> LineQuantity(items[o], p)]
        IN  /\ IsDraft(orders[o], u)
            /\ items[o] # NoLines
            /\ CanSell(w, c)
            /\ orders' = [orders EXCEPT ![o] =
                             [user |-> u, status |-> "pending",
                              total |-> Cost(w), currency |-> c]]
            /\ items' = [items EXCEPT ![o] = Repriced(@)]
            /\ TakeStock(w)

-----------------------------------------------------------------------------
(* Orders.                                                                 *)

Transitions == {<<"pending", "paid">>, <<"pending", "cancelled">>,
                <<"paid", "processing">>, <<"processing", "shipped">>,
                <<"shipped", "completed">>}

\* PayOrder and UpdateOrderStatus.
MoveOn(o) ==
    /\ orders[o] # NoRow
    /\ \E t \in Transitions :
          /\ orders[o].status = t[1]
          /\ orders' = [orders EXCEPT ![o] = [@ EXCEPT !.status = t[2]]]
    /\ UNCHANGED <<products, items>>

\* CancelOrder gives back every unit.
CancelAndRestock(o) ==
    /\ orders[o] # NoRow
    /\ orders[o].status = "pending"
    /\ orders' = [orders EXCEPT ![o] = [@ EXCEPT !.status = "cancelled"]]
    /\ products' = [p \in ProductIDs |->
                       IF References(items[o], p)
                       THEN WithStock(products[p], products[p].stock + QuantityOf(items[o], p))
                       ELSE products[p]]
    /\ UNCHANGED items

-----------------------------------------------------------------------------
(* Carts.                                                                  *)

\* The lines of cart o become ls, and its total is right again.  Its
\* currency is one that its products had when they were looked at: they are
\* read without a lock, and the administrator may change them at once.
Refill(o, u, ls) ==
    /\ items' = [items EXCEPT ![o] = ls]
    /\ \E c \in Currencies \cup {NoCurrency} :
          /\ (c = NoCurrency) <=> (ls = NoLines)
          /\ orders' = [orders EXCEPT ![o] =
                           [user |-> u, status |-> "draft",
                            total |-> LinesTotal(ls), currency |-> c]]
    /\ UNCHANGED products

\* AddItem, into the cart of u or into a new one if u has none.
AddToCart(u, p, q) ==
    \E o \in OrderIDs :
        /\ \/ IsDraft(orders[o], u)
           \/ /\ orders[o] = NoRow
              /\ \A d \in OrderIDs : ~IsDraft(orders[d], u)
        /\ products[p] # NoRow
        /\ products[p].stock >= q + LineQuantity(items[o], p)
        /\ \/ /\ References(items[o], p)
              /\ Refill(o, u, WithQuantity(items[o], p, q + LineQuantity(items[o], p)))
           \/ /\ ~References(items[o], p)
              /\ \E s \in Slots :
                    /\ IsFreeSlot(items[o], s)
                    /\ Refill(o, u, AppendLine(items[o], s, p, q, products[p].price))

\* UpdateItem.
ChangeQuantity(u, p, q) ==
    \E o \in OrderIDs :
        /\ IsDraft(orders[o], u)
        /\ References(items[o], p)
        /\ products[p].stock >= q
        /\ Refill(o, u, WithQuantity(items[o], p, q))

\* DeleteItem.
RemoveFromCart(u, p) ==
    \E o \in OrderIDs :
        /\ IsDraft(orders[o], u)
        /\ References(items[o], p)
        /\ Refill(o, u, WithoutProduct(items[o], p))

-----------------------------------------------------------------------------
(* The catalogue.                                                          *)

Bodies == [price : Prices, currency : Currencies, stock : Stocks]

AddProduct(p) ==
    /\ products[p] = NoRow
    /\ \E row \in Bodies : products' = [products EXCEPT ![p] = row]
    /\ UNCHANGED <<orders, items>>

OverwriteProduct(p) ==
    /\ products[p] # NoRow
    /\ \E row \in Bodies : products' = [products EXCEPT ![p] = row]
    /\ UNCHANGED <<orders, items>>

\* Only a product that no line of any order or cart is of.
RemoveProduct(p) ==
    /\ products[p] # NoRow
    /\ \A o \in OrderIDs : ~References(items[o], p)
    /\ products' = [products EXCEPT ![p] = NoRow]
    /\ UNCHANGED <<orders, items>>

-----------------------------------------------------------------------------
AtomicNext ==
    \/ \E u \in Users :
          \/ \E w \in [ProductIDs -> Quantities \cup {0}] : PlaceOrder(u, w)
          \/ CheckoutCart(u)
          \/ \E p \in ProductIDs :
                \/ \E q \in Quantities : AddToCart(u, p, q) \/ ChangeQuantity(u, p, q)
                \/ RemoveFromCart(u, p)
    \/ \E o \in OrderIDs : MoveOn(o) \/ CancelAndRestock(o)
    \/ \E p \in ProductIDs : AddProduct(p) \/ OverwriteProduct(p) \/ RemoveProduct(p)

AtomicSpec == AtomicInit /\ [][AtomicNext]_atomicVars

=============================================================================
