---------------------------- MODULE LegacyEvents ----------------------------
(***************************************************************************)
(* The two shapes of a backtest's events: a legacy event is a candle that  *)
(* may hold an option chain, the engine's are market events and option     *)
(* chain events.  legacy-market-event.adapter.ts converts both ways,       *)
(* convertLegacyEvents of unified-backtest.engine.ts separates candles     *)
(* from chains, and the loader of the replay merges them again.            *)
(*                                                                         *)
(* A legacy event is [time, close, chain], the chain a set of at most one; *)
(* the other prices go the way of the close.                               *)
(***************************************************************************)
EXTENDS Integers, FiniteSets, SequencesExt

Market(event) ==
  [type |-> "MARKET", time |-> event.time, close |-> event.close]

ChainEvents(event) ==
  {[type |-> "OPTION_CHAIN", time |-> event.time, chain |-> chain] :
     chain \in event.chain}

FromLegacyMarketEvents(events) ==
  FlattenSeq([n \in DOMAIN events |->
                <<Market(events[n])>> \o SetToSeq(ChainEvents(events[n]))])

LegacyEvent(market, chain) ==
  [time |-> market.time, close |-> market.close, chain |-> chain]

Unpaired(pending) == {LegacyEvent(market, {}) : market \in pending}

(* Mutation: a market event not followed by a chain is lost. *)
ReadEventDroppingUnpaired(event, read) ==
  IF event.type = "MARKET" THEN [read EXCEPT !.pending = {event}]
  ELSE [events |-> read.events
          \o SetToSeq({LegacyEvent(market, {event.chain}) :
                         market \in read.pending}),
        pending |-> {}]

(* One turn of the loop: pending is a market event that waits for a chain. *)
ReadEvent(event, read) ==
  IF event.type = "MARKET"
  THEN [events  |-> read.events \o SetToSeq(Unpaired(read.pending)),
        pending |-> {event}]
  ELSE [events |-> read.events
          \o SetToSeq({LegacyEvent(market, {event.chain}) :
                         market \in read.pending}),
        pending |-> {}]

ToLegacyMarketEvents(events) ==
  LET read == FoldLeft(LAMBDA done, event : ReadEvent(event, done),
                       [events |-> <<>>, pending |-> {}], events)
  IN  read.events \o SetToSeq(Unpaired(read.pending))

-----------------------------------------------------------------------------
(* Sorting, which is stable *)

(* The places of a sequence in the order of these times. *)
PlacesByTime(times) ==
  LET N == DOMAIN times
      Before(m, n) == \/ times[m] < times[n]
                      \/ times[m] = times[n] /\ m < n
  IN  [k \in N |-> CHOOSE n \in N :
                     Cardinality({m \in N : Before(m, n)}) = k - 1]

Times(events) == [n \in DOMAIN events |-> events[n].time]

SortByTime(events) ==
  LET places == PlacesByTime(Times(events))
  IN  [n \in DOMAIN events |-> events[places[n]]]

(* convertLegacyEvents, then the loader's merge: market events first among *)
(* those of one time.                                                      *)
ReplayedEvents(events) ==
  LET candles == [n \in DOMAIN events |-> Market(events[n])]
      chains  == FlattenSeq([n \in DOMAIN events |->
                               SetToSeq(ChainEvents(events[n]))])
  IN  SortByTime(candles \o chains)

=============================================================================
