---------------------------- MODULE ShopInvariant ----------------------------
(***************************************************************************)
(* The inductive invariant of Shop, in the parts its proof goes by: what   *)
(* is true of every row, and what a request can rely on as long as the     *)
(* others leave alone the rows it has locked.                              *)
(***************************************************************************)
EXTENDS Shop

\* A row that nobody has locked has one version.
UnlockedRowsAgree ==
    /\ \A p \in ProductIDs : productLock[p] = None => productsW[p] = products[p]
    /\ \A o \in OrderIDs :
          orderLock[o] = None => ordersW[o] = orders[o] /\ itemsW[o] = items[o]

\* Ids that the sequences have not given out are not in use.
FreshIds ==
    /\ \A p \in ProductIDs :
          p >= nextProduct => products[p] = NoRow /\ productLock[p] = None
    /\ \A o \in OrderIDs :
          o >= nextOrder => orders[o] = NoRow /\ orderLock[o] = None

\* Orders are never deleted.
OrdersStay == \A o \in OrderIDs : orders[o] # NoRow => ordersW[o] # NoRow

RowInv == UnlockedRowsAgree /\ FreshIds /\ OrdersStay

\* Where r has locked the order it works on, or inserted it.
OwnsTarget(r) ==
    \/ pc[r] \in {"lines", "restock", "charge", "mark", "remove",
                  "recalculate", "price", "take"}
    \/ op[r] \in {"AddItem", "UpdateItem"} /\ pc[r] = "product"
    \/ op[r] \in {"Checkout", "GetCart"} /\ pc[r] = "items"
    \/ op[r] = "Checkout" /\ pc[r] = "lock"

\* Where r may have read products for a sale that it has not taken yet.
InSale(r) ==
    /\ op[r] \in {"CreateOrder", "Checkout"}
    /\ pc[r] \in {"lock", "insert", "lines", "price", "take"}

Claim(r, p) ==
    /\ productLock[p] = r
    /\ productsW[p] = seen[r][p]
    /\ want[r][p] > 0
    /\ seen[r][p].stock >= want[r][p]

\* The products of the cart that r checks out are those it locks, and after
\* the lock loop all of them are locked.
CartIsWanted(r) ==
    \A s \in Slots :
        LET line == itemsW[target[r]][s]
        IN  line # NoRow => want[r][line.product] > 0

RequestInv(r) ==
    /\ op[r] \in {"CreateOrder", "AddItem"} => user[r] \in Users
    /\ OwnsTarget(r) => /\ target[r] \in OrderIDs
                        /\ orderLock[target[r]] = r
                        /\ ordersW[target[r]] # NoRow
    /\ pc[r] \in {"snapshot", "draft"} =>
          op[r] \in {"GetCart", "AddItem", "UpdateItem", "DeleteItem", "Checkout"}
    /\ pc[r] \in {"draft", "items"} => target[r] \in OrderIDs
    /\ op[r] = "Checkout" /\ pc[r] \in {"lock", "price"} => CartIsWanted(r)
    /\ op[r] = "Checkout" /\ pc[r] = "price" => AllLocked(r)
    /\ pc[r] = "idle" => \A p \in ProductIDs : productLock[p] # r
    /\ \A p \in ProductIDs :
          productLock[p] = r /\ productsW[p] = NoRow => op[r] = "DeleteProduct"
    /\ ~InSale(r) => seen[r] = NoProduct
    /\ \A p \in ProductIDs : seen[r][p] # NoRow => Claim(r, p)

IInv == TypeOK /\ RowInv /\ \A r \in Requests : RequestInv(r)

=============================================================================
