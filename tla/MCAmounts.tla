----------------------------- MODULE MCAmounts -----------------------------
(***************************************************************************)
(* Amounts with few bits.                                                  *)
(***************************************************************************)
EXTENDS Amounts

\* The highest prices and quantities that fit, and small ones.
MCPrices == {0, 1, 3, MaxInt}
MCStocks == {0, 1, 3}
MCAsked  == 1..MaxInt

=============================================================================
