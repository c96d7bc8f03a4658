--------------------------- MODULE RunningTotals ---------------------------
(***************************************************************************)
(* The total of an append-only sequence of integers, read the way a ledger *)
(* is replayed: start from an opening balance and apply one row after the  *)
(* other.  The total is a recursive function over the prefix lengths of    *)
(* the sequence, so that facts about it can be proved.                     *)
(***************************************************************************)
EXTENDS Integers, Sequences

(* h is the function of running balances of deltas, from start. *)
IsBalance(h, start, deltas) ==
  h = [n \in 0..Len(deltas) |->
         IF n = 0 THEN start ELSE h[n - 1] + deltas[n]]

(* The balance after the last row. *)
RunningTotal(start, deltas) ==
  LET balance[n \in 0..Len(deltas)] ==
        IF n = 0 THEN start ELSE balance[n - 1] + deltas[n]
  IN  balance[Len(deltas)]

=============================================================================
