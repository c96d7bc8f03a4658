--------------------------- MODULE MCReplayEngine ---------------------------
(***************************************************************************)
(* Inputs of replays, in the order of the arrays the caller gives.         *)
(***************************************************************************)
EXTENDS ReplayEngine

(* A chain before its candle and one earlier; a candle alone; nothing. *)
SomeInputs ==
  {[candles |-> <<2>>, optionChains |-> <<2, 1>>],
   [candles |-> <<1>>, optionChains |-> <<>>],
   [candles |-> <<>>, optionChains |-> <<>>]}

=============================================================================
