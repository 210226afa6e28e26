------------------------------- MODULE MCHttp -------------------------------
(***************************************************************************)
(* Small instances of Http for TLC.                                        *)
(***************************************************************************)
EXTENDS Http, TLC

CONSTANTS r1, r2

OneUnit == <<[price |-> 1, currency |-> "EUR", stock |-> 1]>>

\* Prices differ, so that a sum tells the products apart; the second product
\* sells out with one unit.
TwoProducts ==
    <<[price |-> 1, currency |-> "EUR", stock |-> 2],
      [price |-> 3, currency |-> "EUR", stock |-> 1]>>

OrderRoutes == {"CreateOrder", "CancelOrder", "PayOrder", "UpdateOrderStatus",
                "ListOrders"}
CartRoutes == {"AddItem", "UpdateItem", "DeleteItem", "Checkout",
               "DeleteProduct", "GetProducts", "GetProductByID"}
CheckoutRoutes == {"AddItem", "Checkout", "UpdateProduct"}

RequestSymmetry == Permutations({r1, r2})

=============================================================================
