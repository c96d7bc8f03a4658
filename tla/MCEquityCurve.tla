--------------------------- MODULE MCEquityCurve ---------------------------
(***************************************************************************)
(* Values above and below a peak, below zero and at one timestamp twice;   *)
(* batches out of order, with a repeated timestamp, and of three rows.     *)
(***************************************************************************)
EXTENDS EquityCurve, TLC

Given(timestamp, value) ==
  [timestamp |-> timestamp, cashBalance |-> 50, unrealizedPnl |-> 0,
   portfolioValue |-> {value}]

Derived(timestamp, cash, unrealizedPnl) ==
  [timestamp |-> timestamp, cashBalance |-> cash,
   unrealizedPnl |-> unrealizedPnl, portfolioValue |-> {}]

SomeSnapshots ==
  {Given(1, 100), Given(2, 120), Derived(2, 80, 10), Derived(3, 0, -20),
   Derived(1, -10, 100)}

SomeBatches ==
  {<<Given(3, 90), Given(1, 130)>>, <<Given(3, 60), Given(2, 70)>>,
   <<Given(2, 70), Derived(2, 60, 80), Given(3, 60)>>}

Symmetries == Permutations(Calls) \cup Permutations(Portfolios)

=============================================================================
