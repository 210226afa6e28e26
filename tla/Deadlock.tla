------------------------------ MODULE Deadlock ------------------------------
(***************************************************************************)
(* Which requests wait for which, when they wait for each other, and what  *)
(* follows under the fairness of the server and of PostgreSQL: PostgreSQL  *)
(* grants a lock to those who keep asking for it, and aborts a request of  *)
(* every cycle of requests that wait for each other.                       *)
(***************************************************************************)
EXTENDS Shop

\* The owners of the rows that the next statement of r needs.
OrderOwner(o)   == IF o \in OrderIDs THEN {orderLock[o]} ELSE {}
ProductOwner(p) == IF ProductExists(p) THEN {productLock[p]} ELSE {}

Owners(r) ==
    CASE pc[r] = "order" /\ op[r] # "GetOrder" /\ OrderExists(target[r])
                          -> OrderOwner(target[r])
      [] pc[r] = "draft"  -> OrderOwner(target[r])
      [] pc[r] = "create" -> {orderLock[o] : o \in {q \in OrderIDs :
                                IsDraft(orders[q], user[r]) # IsDraft(ordersW[q], user[r])}}
      [] pc[r] = "lock"   -> UNION {ProductOwner(p) : p \in {q \in ProductIDs : IsNextToLock(r, q)}}
      [] pc[r] = "product" -> UNION {ProductOwner(p) : p \in {q \in ProductIDs : want[r][q] > 0}}
      [] pc[r] = "restock" -> UNION {ProductOwner(lines[r][s].product) :
                                     s \in {t \in Slots : IsNextLine(r, t)}}
      [] pc[r] = "references" -> {orderLock[o] : o \in {q \in OrderIDs :
                                \E p \in ProductIDs : want[r][p] > 0
                                    /\ References(items[q], p) /\ ~References(itemsW[q], p)}}
      [] OTHER -> {}

WaitsFor(r) == Owners(r) \ {r, None}

\* Everyone in C waits for someone in C.
Deadlocked(C) == C # {} /\ \A r \in C : WaitsFor(r) \cap C # {}

InDeadlock(r) == \E C \in SUBSET Requests : r \in C /\ Deadlocked(C)

Victim == \E r \in Requests : InDeadlock(r) /\ Abort(r)

\* No request ends by itself in Abort: there is no fairness for it but when
\* requests wait for each other.
Fairness ==
    /\ \A r \in Requests : SF_vars(Step(r))
    /\ WF_vars(Victim)

LiveSpec == Spec /\ Fairness

\* Sorting works where it is done: when requests wait for each other, one
\* of them is a CancelOrder that has locked a product and now waits for one
\* with a lower id, as it goes through the lines in the order of their ids.
DeadlockNeedsCancel ==
    \A C \in SUBSET Requests :
        Deadlocked(C) =>
            \E r \in C, s \in Slots, q \in ProductIDs :
                /\ At(r, "CancelOrder", "restock")
                /\ IsNextLine(r, s)
                /\ productLock[q] = r /\ lines[r][s].product < q

\* Every request ends, in a commit or a rollback.
Termination == \A r \in Requests : pc[r] # "idle" ~> pc[r] = "idle"

=============================================================================
