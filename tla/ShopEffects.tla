----------------------------- MODULE ShopEffects -----------------------------
(***************************************************************************)
(* The fourth inductive invariant of Shop, on top of IInv, Rules and       *)
(* Books: what a request will have done once it commits.  It relates what  *)
(* a transaction has written to its arguments and to the committed rows,   *)
(* which are those of the moment of the commit; so the refinement of       *)
(* AtomicShop follows from it.                                             *)
(***************************************************************************)
EXTENDS ShopBooks

CartCalls == EditMethods \cup {"GetCart"}
ItemMethods == {"AddItem", "UpdateItem", "DeleteItem"}

-----------------------------------------------------------------------------
(* Arguments.                                                              *)

IsOrderRequest(w) == w \in [ProductIDs -> Quantities \cup {0}] /\ w # Nothing

\* What the client has asked for.
Asks(r) ==
    /\ pc[r] = "commit" => op[r] \in Methods
    /\ op[r] \in CartCalls => user[r] \in Users
    /\ op[r] = "CreateOrder" => IsOrderRequest(want[r])
    /\ op[r] \in {"AddItem", "UpdateItem"} =>
          \E p \in ProductIDs, q \in Quantities : want[r] = Only(p, q)
    /\ op[r] \in {"DeleteItem", "UpdateProduct"} =>
          \E p \in ProductIDs : want[r] = Only(p, 1)

-----------------------------------------------------------------------------
(* Carts.                                                                  *)

\* Where r has locked the order it works on, up to the commit.
HasOrder(r) == OwnsTarget(r) \/ pc[r] = "commit"

\* The cart that an edit works on is of its user, or is a new one.
EditsOwnCart(r) ==
    op[r] \in EditMethods /\ HasOrder(r) =>
        /\ target[r] \in OrderIDs
        /\ orderLock[target[r]] = r
        /\ ordersW[target[r]] # NoRow
        /\ ordersW[target[r]].user = user[r]
        /\ \/ IsDraft(orders[target[r]], user[r])
           \/ op[r] = "AddItem" /\ orders[target[r]] = NoRow

\* It has not written the lines yet.
LinesUnwritten(r) ==
    op[r] \in EditMethods /\ OwnsTarget(r) /\ pc[r] \notin {"recalculate", "take"} =>
        itemsW[target[r]] = items[target[r]]

\* GetCart and GetOrder write nothing at all.
OnlyReads(r) ==
    op[r] \in {"GetCart", "GetOrder"} =>
        \A o \in OrderIDs :
            orderLock[o] = r => ordersW[o] = orders[o] /\ itemsW[o] = items[o]

\* r holds product p locked, and it has n units.
HoldsStock(r, p, n) == productLock[p] = r /\ products[p].stock >= n

\* The lines are those of the cart with the edit made.
AddedItem(r) ==
    LET ls == items[target[r]]
        new == itemsW[target[r]]
    IN  \E p \in ProductIDs, q \in Quantities :
            /\ HoldsStock(r, p, q + LineQuantity(ls, p))
            /\ \/ /\ References(ls, p)
                  /\ new = WithQuantity(ls, p, q + LineQuantity(ls, p))
               \/ /\ ~References(ls, p)
                  /\ \E s \in Slots :
                        /\ IsFreeSlot(ls, s)
                        /\ new = AppendLine(ls, s, p, q, products[p].price)

UpdatedItem(r) ==
    LET ls == items[target[r]]
    IN  \E p \in ProductIDs, q \in Quantities :
            /\ References(ls, p)
            /\ HoldsStock(r, p, q)
            /\ itemsW[target[r]] = WithQuantity(ls, p, q)

DeletedItem(r) ==
    LET ls == items[target[r]]
    IN  \E p \in ProductIDs :
            References(ls, p) /\ itemsW[target[r]] = WithoutProduct(ls, p)

HasEdited(r) ==
    pc[r] \in {"recalculate", "commit"} =>
        /\ op[r] = "AddItem" => AddedItem(r)
        /\ op[r] = "UpdateItem" => UpdatedItem(r)
        /\ op[r] = "DeleteItem" => DeletedItem(r)

\* Only an empty cart has no currency.
HasCurrency(r) ==
    op[r] \in ItemMethods /\ pc[r] = "commit" =>
        (ordersW[target[r]].currency = NoCurrency <=> itemsW[target[r]] = NoLines)

\* Checkout changes nothing of the lines but their prices.
SameGoods(ls, new) ==
    \A s \in Slots :
        /\ new[s] = NoRow <=> ls[s] = NoRow
        /\ ls[s] # NoRow => /\ new[s].product = ls[s].product
                            /\ new[s].quantity = ls[s].quantity
ChecksOutCart(r) ==
    op[r] = "Checkout" /\ pc[r] \in {"take", "commit"} =>
        SameGoods(items[target[r]], itemsW[target[r]])

CartEffects(r) ==
    /\ EditsOwnCart(r)
    /\ LinesUnwritten(r)
    /\ OnlyReads(r)
    /\ HasEdited(r)
    /\ HasCurrency(r)
    /\ ChecksOutCart(r)

-----------------------------------------------------------------------------
(* Sales.                                                                  *)

\* Lines in the order of their products, without a gap.
InOrder(ls) ==
    \A s, t \in Slots :
        s < t /\ ls[t] # NoRow => ls[s] # NoRow /\ ls[s].product < ls[t].product

\* Each line is where AtomicShop has it among the lines of the whole sale.
InPlace(ls, w) ==
    \A s \in Slots : ls[s] # NoRow => Atomic!Place(w, ls[s].product) = s

\* The lines of the products that are not left in sn.
SoldSoFar(ls, w, sn) ==
    /\ InOrder(ls)
    /\ InPlace(ls, w)
    /\ \A p \in ProductIDs : LineQuantity(ls, p) = IF sn[p] = NoRow THEN w[p] ELSE 0
    /\ \A s \in Slots, p \in ProductIDs :
          ls[s] # NoRow /\ sn[p] # NoRow => ls[s].product < p

SellsRequest(r) ==
    op[r] = "CreateOrder" =>
        /\ pc[r] \in {"lock", "insert", "lines", "commit"}
        /\ pc[r] = "insert" => AllLocked(r)
        /\ pc[r] \in {"lines", "commit"} =>
              /\ target[r] \in OrderIDs
              /\ orderLock[target[r]] = r
              /\ orders[target[r]] = NoRow
              /\ ordersW[target[r]] # NoRow
              /\ ordersW[target[r]].user = user[r]
              /\ SoldSoFar(itemsW[target[r]], want[r], seen[r])

-----------------------------------------------------------------------------
(* The catalogue.                                                          *)

Written == {"CreateProduct", "UpdateProduct"}

\* The administrator writes one product, and a whole row of it.
WritesOneProduct(r) ==
    op[r] \in Catalogue =>
        /\ \A p, q \in ProductIDs : productLock[p] = r /\ productLock[q] = r => p = q
        /\ pc[r] \in {"product", "references", "commit"}
        /\ pc[r] = "product" => \A p \in ProductIDs : productLock[p] # r
        /\ pc[r] = "commit" /\ op[r] \in Written =>
              \A p \in ProductIDs : productLock[p] = r => productsW[p] \in ProductBodies

-----------------------------------------------------------------------------
RequestEffects(r) ==
    Asks(r) /\ CartEffects(r) /\ SellsRequest(r) /\ WritesOneProduct(r)

Effects == \A r \in Requests : RequestEffects(r)

=============================================================================
