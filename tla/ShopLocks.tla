------------------------------ MODULE ShopLocks ------------------------------
(***************************************************************************)
(* The inductive invariant behind DeadlockNeedsCancel, on top of IInv and  *)
(* Rules: which locks a request may hold where it can come to wait for     *)
(* another.                                                                *)
(***************************************************************************)
EXTENDS ShopRules, Deadlock

\* Before its first statement on products a request has locked none.
HoldsNoProduct(r) ==
    pc[r] \in {"idle", "order", "snapshot", "draft", "create", "items", "product"} =>
        \A p \in ProductIDs : productLock[p] # r

\* What the lock loop of a sale has locked it has read, and it comes before
\* all that is left to lock.
LocksUpwards(r) ==
    pc[r] = "lock" =>
        \A p, q \in ProductIDs :
            productLock[q] = r =>
                /\ seen[r][q] # NoRow
                /\ want[r][p] > 0 /\ seen[r][p] = NoRow => q < p

\* Who has removed the last line of a product from an order waits for
\* nothing any more.
RemovesLate(r) ==
    pc[r] \notin {"recalculate", "commit"} =>
        \A o \in OrderIDs, p \in ProductIDs :
            orderLock[o] = r /\ References(items[o], p) => References(itemsW[o], p)

RestocksCancelled(r) == pc[r] = "restock" => op[r] = "CancelOrder"

RequestLocks(r) ==
    /\ HoldsNoProduct(r)
    /\ LocksUpwards(r)
    /\ RemovesLate(r)
    /\ RestocksCancelled(r)

LockRules == \A r \in Requests : RequestLocks(r)

=============================================================================
