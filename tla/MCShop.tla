------------------------------- MODULE MCShop -------------------------------
(***************************************************************************)
(* Small instances of Shop for TLC.                                        *)
(***************************************************************************)
EXTENDS Shop, TLC

CONSTANTS r1, r2

OneOfTwo == <<[price |-> 1, currency |-> "EUR", stock |-> 2], NoRow>>

\* Every method that reads a product or changes the catalogue.
Trading == {"CreateProduct", "UpdateProduct", "DeleteProduct", "AddItem", "UpdateItem",
            "Checkout", "CreateOrder", "GetCart", "GetOrder", "UpdateOrderStatus"}

RequestSymmetry == Permutations({r1, r2})

=============================================================================
