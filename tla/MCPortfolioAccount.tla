------------------------- MODULE MCPortfolioAccount -------------------------
(***************************************************************************)
(* A small account for TLC: one strategy on one instrument, whose default  *)
(* leg can hold shares or a spread and whose second leg a spread only.     *)
(* Inputs include the boundary values each method rejects.                 *)
(***************************************************************************)
EXTENDS PortfolioValuation

MCQuantities == 0..2
MCPrices     == {10, 70}
MCFees       == {0, 30}
MCCredits    == {0, 20}
MCMaxLosses  == {0, 50}
MCCloseCosts == {-1, 0, 70}
MCMarks      == {0, 90}

=============================================================================
