--------------------------- MODULE OrderLifecycle ---------------------------
(***************************************************************************)
(* What an order promises, whatever transactions run: an id is given to at *)
(* most one order, an order starts as a cart or is placed at once, and     *)
(* moves one status at a time along the state machine of                   *)
(* internal/order/status.go.  Two orders never change in one step.         *)
(***************************************************************************)
EXTENDS Naturals

CONSTANTS MaxOrders, Absent

VARIABLE status     \* of each order, Absent while there is none

Moves == [draft |-> {"pending"}, pending |-> {"paid", "cancelled"},
          paid |-> {"processing"}, processing |-> {"shipped"},
          shipped |-> {"completed"}, completed |-> {}, cancelled |-> {}]

Successors(s) == IF s = Absent THEN {"draft", "pending"} ELSE Moves[s]

LifecycleInit == status = [o \in 1..MaxOrders |-> Absent]

Move(o) == \E s \in Successors(status[o]) : status' = [status EXCEPT ![o] = s]

LifecycleNext == \E o \in 1..MaxOrders : Move(o)

LifecycleSpec == LifecycleInit /\ [][LifecycleNext]_status

=============================================================================
