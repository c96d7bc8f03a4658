-------------------------- MODULE MCLegacyBacktest --------------------------
(***************************************************************************)
(* Runs of four candles, out of order and with a timestamp twice, each     *)
(* candle one of four: chains that price a condor's entry, its profit, its *)
(* loss of exactly the stop, and no chain.  Prices are such that average   *)
(* prices need no rounding.                                                *)
(***************************************************************************)
EXTENDS LegacyBacktest

Q(strike, premium, delta) ==
  [strike |-> strike, premium |-> premium, delta |-> delta]

(* Puts at 18 and 12, calls at 30 and 36: the spreads are 6 wide. *)
Chain(shortPut, longPut, shortCall, longCall) ==
  [puts |-> <<Q(18, shortPut, 15), Q(12, longPut, 5)>>,
   calls |-> <<Q(30, shortCall, 15), Q(36, longCall, 5)>>,
   expiryDate |-> 9]

Sorts ==
  << [close |-> 1200, chain |-> {Chain(4, 2, 4, 2)}],
     [close |-> 2400, chain |-> {Chain(2, 1, 2, 1)}],
     [close |-> 1200, chain |-> {Chain(6, 2, 6, 2)}],
     [close |-> 2400, chain |-> {}] >>

Candles(times, sorts) ==
  [n \in DOMAIN times |->
     [time |-> times[n], close |-> Sorts[sorts[n]].close,
      chain |-> Sorts[sorts[n]].chain]]

SomeCandleLists ==
  {Candles(times, sorts) : times \in {<<2, 1, 3, 4>>, <<1, 2, 1, 3>>},
                           sorts \in [1..4 -> 1..4]}

SomeSpreads ==
  {[shortStrike |-> 18, longStrike |-> long, entryCredit |-> 3] :
     long \in {12, 10}}

=============================================================================
