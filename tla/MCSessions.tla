------------------------------ MODULE MCSessions ------------------------------
(* Values for the constants of Sessions. *)
EXTENDS Sessions, TLC

CONSTANTS c1, c2, ann, ANN, right

OneAddress   == ann :> ann
TwoSpellings == (ann :> ann) @@ (ANN :> ann)

Row(e, p, r) == (1 :> [email |-> e, password |-> p, role |-> r])
                @@ [u \in 2..MaxUsers |-> None]

Nobody  == [u \in UserIDs |-> None]
OneUser == Row(ann, right, "user")

Symmetry == Permutations(Callers)

\* No step reads what an earlier one has answered.
View == <<accounts, op, pc, email, secret, me, role, sessions, token, history>>
===============================================================================
