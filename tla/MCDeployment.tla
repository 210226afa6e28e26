----------------------------- MODULE MCDeployment -----------------------------
(* The six files of migrations/ and what they refer to. *)
EXTENDS Deployment

CONSTANTS d1, d2, q1, q2

FincartNeeds == <<{}, {1}, {1}, {2}, {2}, {2}>>
===============================================================================
