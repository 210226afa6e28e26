------------------------------ MODULE ShopBooks ------------------------------
(***************************************************************************)
(* The third inductive invariant of Shop, on top of IInv and Rules: the    *)
(* books.  What the total of an order has to do with its lines, what a     *)
(* transaction has taken from the stock with what it will put into the     *)
(* order, and what a request has read with what is in the tables.          *)
(***************************************************************************)
EXTENDS ShopRules

-----------------------------------------------------------------------------
(* Totals.                                                                 *)

\* The total of an order is that of its lines, and a placed one has lines.
Adds(row, ls) ==
    row # NoRow => /\ row.total = LinesTotal(ls)
                   /\ IsPlaced(row) => ls # NoLines

\* r writes the order it has locked, and has not come to its total.
IsFilling(r) == At(r, "CreateOrder", "lines")
IsWriting(r) == pc[r] = "recalculate" \/ IsFilling(r)

\* While CreateOrder writes the lines of the new order, the total it has is
\* that of the lines and of the products that are left.
FillsUp(r) ==
    IsFilling(r) =>
        /\ ordersW[target[r]].total = LinesTotal(itemsW[target[r]]) + SaleTotal(r)
        /\ itemsW[target[r]] # NoLines \/ seen[r] # NoProduct

\* Checkout sells what is in the cart.
SellsCart(r) ==
    op[r] = "Checkout" /\ pc[r] \in {"lock", "price", "take"} =>
        /\ itemsW[target[r]] # NoLines
        /\ \A p \in ProductIDs : want[r][p] = LineQuantity(itemsW[target[r]], p)

TotalBooks(r) ==
    /\ \A o \in OrderIDs :
          orderLock[o] = r /\ ~IsWriting(r) => Adds(ordersW[o], itemsW[o])
    /\ FillsUp(r)
    /\ SellsCart(r)

-----------------------------------------------------------------------------
(* Reads.                                                                  *)

\* What GetOrder has read of a placed order is still so.
ReadsPlaced(r) ==
    op[r] = "GetOrder" /\ pc[r] \in {"items", "commit"} /\ IsPlaced(current[r]) =>
        /\ target[r] \in OrderIDs
        /\ IsPlaced(orders[target[r]])
        /\ current[r].total = LinesTotal(items[target[r]])

\* CancelOrder goes through the lines of its order.
ReadsLines(r) ==
    op[r] = "CancelOrder" /\ OwnsTarget(r) =>
        \A s \in Slots : lines[r][s] \in {NoRow, itemsW[target[r]][s]}

ReadBooks(r) ==
    /\ pc[r] \in {"idle", "snapshot", "draft", "order"} => current[r] = NoRow
    /\ op[r] = "PayOrder" /\ OwnsTarget(r) => current[r] = orders[target[r]]
    /\ At(r, "GetCart", "items") => /\ current[r] = ordersW[target[r]]
                                    /\ ~IsPlaced(current[r])
    /\ At(r, "GetCart", "commit") /\ current[r] # NoRow =>
          current[r].total = LinesTotal(lines[r])
    /\ ReadsPlaced(r)
    /\ At(r, "GetOrder", "items") => \A o \in OrderIDs : orderLock[o] # r
    /\ At(r, "GetOrder", "commit") /\ IsPlaced(current[r]) =>
          current[r].total = LinesTotal(lines[r])
    /\ ReadsLines(r)

-----------------------------------------------------------------------------
(* Stock.                                                                  *)

\* r has taken n units of p; what it has not locked it has not touched.
Took(r, p, n) ==
    IF productLock[p] = r
    THEN /\ n <= products[p].stock
         /\ productsW[p] = WithStock(products[p], products[p].stock - n)
    ELSE n = 0

\* r has given back units of p: of had, all but left.
GaveBack(r, p, had, left) ==
    IF productLock[p] = r
    THEN productsW[p] = WithStock(products[p], products[p].stock + had - left)
    ELSE left = had

Sales == {"CreateOrder", "Checkout"}
Catalogue == {"CreateProduct", "UpdateProduct", "DeleteProduct"}

\* Where r has changed no product.
TouchesNoStock(r) ==
    \/ op[r] \notin Sales \cup Catalogue \cup {"CancelOrder"}
    \/ op[r] \in Sales /\ pc[r] \in {"snapshot", "draft", "items", "lock",
                                     "price", "insert"}

\* A sale has put into its order, or its cart had, what it took; and
\* CancelOrder has given back the lines it went through.
StockBooks(r) ==
    /\ pc[r] = "order" => \A p \in ProductIDs : productLock[p] # r
    /\ \A p \in ProductIDs :
          productLock[p] = r /\ op[r] # "CreateProduct" => products[p] # NoRow
    /\ TouchesNoStock(r) =>
          \A p \in ProductIDs : productLock[p] = r => productsW[p] = products[p]
    /\ At(r, "Checkout", "take") =>
          \A p \in ProductIDs :
              Took(r, p, IF seen[r][p] = NoRow THEN want[r][p] ELSE 0)
    /\ IsFilling(r) \/ (op[r] \in Sales /\ pc[r] = "commit") =>
          \A p \in ProductIDs : Took(r, p, LineQuantity(itemsW[target[r]], p))
    /\ op[r] = "CancelOrder" /\ pc[r] \in {"restock", "mark", "commit"} =>
          \A p \in ProductIDs :
              GaveBack(r, p, LineQuantity(itemsW[target[r]], p),
                       LineQuantity(lines[r], p))
    /\ At(r, "CancelOrder", "mark") \/ At(r, "CancelOrder", "commit") =>
          lines[r] = NoLines
    /\ op[r] = "CreateProduct" =>
          \A p \in ProductIDs : productLock[p] = r => products[p] = NoRow
    /\ op[r] = "DeleteProduct" =>
          \A p \in ProductIDs : productLock[p] = r => productsW[p] = NoRow

\* Who is about to commit a sale, a cancellation or a new status has locked
\* the order, and what it does to it.
MovesStatus == Sales \cup {"CancelOrder", "UpdateOrderStatus"}
Decides(r) ==
    pc[r] = "commit" =>
        /\ op[r] \in MovesStatus => target[r] \in OrderIDs /\ orderLock[target[r]] = r
        /\ op[r] \in Sales => /\ ~IsPlaced(orders[target[r]])
                              /\ ordersW[target[r]] # NoRow
                              /\ ordersW[target[r]].status = "pending"
        /\ op[r] = "CancelOrder" => /\ orders[target[r]] # NoRow
                                    /\ orders[target[r]].status = "pending"
                                    /\ ordersW[target[r]].status = "cancelled"
        /\ op[r] = "UpdateOrderStatus" => IsPlaced(orders[target[r]])
        /\ op[r] \notin MovesStatus \cup {"PayOrder"} =>
              \A o \in OrderIDs : orderLock[o] = r =>
                  ~IsPlaced(orders[o]) /\ ~IsPlaced(ordersW[o])

\* Only the edits of a cart write its total anew.
Edits(r) == pc[r] = "recalculate" => op[r] \in {"AddItem", "UpdateItem", "DeleteItem"}

RequestBooks(r) ==
    TotalBooks(r) /\ ReadBooks(r) /\ StockBooks(r) /\ Decides(r) /\ Edits(r)

Books ==
    /\ \A o \in OrderIDs : Adds(orders[o], items[o])
    /\ \A r \in Requests : RequestBooks(r)

=============================================================================
