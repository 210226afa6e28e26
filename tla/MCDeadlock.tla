----------------------------- MODULE MCDeadlock -----------------------------
(***************************************************************************)
(* Small instances of Deadlock for TLC.  The products start scarce enough  *)
(* for requests to be refused.                                             *)
(***************************************************************************)
EXTENDS Deadlock, TLC

CONSTANTS r1, r2

Plenty ==
    <<[price |-> 1, currency |-> "EUR", stock |-> 2],
      [price |-> 3, currency |-> "EUR", stock |-> 2]>>

Ordering == {"CreateOrder", "CancelOrder", "AddItem", "Checkout"}

\* With the other waits: for the one draft, for a reference to a product.
Locking == Ordering \cup {"PayOrder", "DeleteItem", "DeleteProduct"}

RequestSymmetry == Permutations({r1, r2})

=============================================================================
