------------------------------- MODULE Payment -------------------------------
(***************************************************************************)
(* The payment provider behind internal/payment/service.go.  What is in    *)
(* src/ is the interface and a fake; the provider is modelled by what the  *)
(* interface names: success, failed, timeout, or an error.  A result of    *)
(* another name, which PayOrder would take for failed, is left out.  It is *)
(* outside the database: a rollback does not undo a charge.                *)
(***************************************************************************)
EXTENDS OrderRepository

VARIABLES
    charged,    \* orders whose payment the provider has taken
    unsettled   \* of these, those taken for a transaction that rolled back

payment == <<charged, unsettled>>

PaymentInit == charged = {} /\ unsettled = {}

\* The provider takes the money for order o.
Charge(o) == charged' = charged \cup {o}

\* Money taken for order o, whose transaction does not commit.
ChargeLost(o) == unsettled' = unsettled \cup {o}

=============================================================================
