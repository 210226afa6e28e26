-------------------------- MODULE MCConnectionPool --------------------------
(***************************************************************************)
(* A pool of two connections for four callers.                              *)
(***************************************************************************)
EXTENDS ConnectionPool

CONSTANTS c1, c2, c3, c4, w1, w2

=============================================================================
