----------------------------- MODULE Strategies -----------------------------
(***************************************************************************)
(* What the four strategies of src/src/strategies decide: bull put spread  *)
(* (with fixed and with risk-based size), iron condor and covered call.    *)
(* Each remembers the one position it believes to hold; a decision depends *)
(* on that, the market snapshot and, for the risk-based size, the equity.  *)
(* Here are the conditions under which a strategy enters and exits and the *)
(* execution steps it then asks for; the modules that run strategies keep  *)
(* the position.                                                           *)
(*                                                                         *)
(* An entry holds what the four position types and their open steps hold.  *)
(* Optional values are sets of at most one element.                        *)
(***************************************************************************)
EXTENDS OptionChains

CONSTANTS
  ProfitTargetPct,   \* profitTargetPct, in percent of the credit
  StopLossMultiple,  \* stopLossMultiple
  SizingPct,         \* maxRiskPct of the risk-based size, in percent
  LotSize,           \* of the execution service and of the risk-based size
  ShortCallLeg       \* the leg group of the covered call's short call

ASSUME StrategyAssumption ==
  /\ ProfitTargetPct \in 0..100
  /\ StopLossMultiple \in Nat
  /\ SizingPct \in Nat
  /\ LotSize \in Nat \ {0}

BuiltInStrategies ==
  {"bull-put-spread", "bull-put-spread-v1", "iron-condor", "covered-call"}

(* Deltas of the default configurations, in percent. *)
ShortDelta == 15
LongDelta == 5
ShortDeltaRange == <<15, 20>>
LongDeltaRange == <<5, 10>>
CallDelta == 30

-----------------------------------------------------------------------------
(* Marking a position by the option chain *)

SpreadStrikes(short, long) ==
  [shortStrike |-> short.strike, longStrike |-> long.strike]

Strikes == [shortStrike : Int, longStrike : Int]

DefinedRiskMarkMetadata ==
  [spreadKind : {"BULL_PUT"}, putSpread : Strikes]
    \cup [spreadKind : {"IRON_CONDOR"}, putSpread : Strikes,
          callSpread : Strikes]
    \cup [spreadKind : {"COVERED_CALL"}, callStrike : Int]

(* resolveDefinedRiskMarkDebit, and the close cost each strategy computes. *)
MarkDebit(metadata, chain) ==
  CASE metadata.spreadKind = "BULL_PUT" ->
         SpreadCloseCost(metadata.putSpread, chain.puts)
    [] metadata.spreadKind = "IRON_CONDOR" ->
         IronCondorCloseCost(metadata.putSpread, metadata.callSpread, chain)
    [] metadata.spreadKind = "COVERED_CALL" ->
         PremiumAt(metadata.callStrike, chain.calls)

-----------------------------------------------------------------------------
(* Entry *)

Entry(credit, maxLoss, quantity, chain, metadata) ==
  [entryCredit |-> credit, maxLoss |-> maxLoss, quantity |-> quantity,
   expiryDate |-> chain.expiryDate, metadata |-> metadata]

AtLeastZero(n) == IF n > 0 THEN n ELSE 0

(* The short and long puts of a bull put spread, when they make one. *)
PutSpreads(shorts, longs) ==
  { legs \in shorts \X longs :
      /\ legs[1].strike > legs[2].strike
      /\ SpreadCredit(legs[1], legs[2]) > 0 }

BullPutEntry(legs, quantity, chain) ==
  LET credit == SpreadCredit(legs[1], legs[2])
      width  == legs[1].strike - legs[2].strike
  IN  Entry(credit, AtLeastZero(width - credit), quantity, chain,
            [spreadKind |-> "BULL_PUT",
             putSpread |-> SpreadStrikes(legs[1], legs[2])])

BullPutEntries(chain) ==
  { BullPutEntry(legs, LotSize, chain) :
      legs \in PutSpreads(FindByTargetDelta(chain.puts, ShortDelta),
                          FindByTargetDelta(chain.puts, LongDelta)) }

InRange(puts, range) == FindPutInDeltaRange(puts, range[1], range[2])

SizeFor(entry, accountEquity) ==
  CalculateDefinedRiskQuantity(accountEquity, entry.maxLoss, LotSize, SizingPct)

BullPutV1Entries(chain, accountEquity) ==
  LET legPairs == PutSpreads(InRange(chain.puts, ShortDeltaRange),
                             InRange(chain.puts, LongDeltaRange))
      unsized  == { BullPutEntry(legs, 0, chain) : legs \in legPairs }
      sized    == { [entry EXCEPT !.quantity = SizeFor(entry, accountEquity)] :
                      entry \in unsized }
  IN  { entry \in sized : entry.quantity > 0 }

Condors(chain) ==
  { legs \in FindByTargetDelta(chain.puts, ShortDelta)
             \X FindByTargetDelta(chain.puts, LongDelta)
             \X FindByTargetDelta(chain.calls, ShortDelta)
             \X FindByTargetDelta(chain.calls, LongDelta) :
      /\ legs[1].strike > legs[2].strike
      /\ legs[3].strike < legs[4].strike
      /\ legs[1].strike < legs[3].strike }

CondorEntry(legs, chain) ==
  LET credit  == SpreadCredit(legs[1], legs[2]) + SpreadCredit(legs[3], legs[4])
      maxLoss == IronCondorMaxLoss(legs[1], legs[2], legs[3], legs[4], credit)
  IN  Entry(credit, maxLoss, LotSize, chain,
            [spreadKind |-> "IRON_CONDOR",
             putSpread |-> SpreadStrikes(legs[1], legs[2]),
             callSpread |-> SpreadStrikes(legs[3], legs[4])])

IronCondorEntries(chain) ==
  { entry \in { CondorEntry(legs, chain) : legs \in Condors(chain) } :
      entry.entryCredit > 0 /\ entry.maxLoss > 0 }

CoveredCallEntries(chain, price) ==
  { Entry(call.premium, AtLeastZero(call.strike - price - call.premium),
          LotSize, chain,
          [spreadKind |-> "COVERED_CALL", callStrike |-> call.strike]) :
      call \in {c \in FindByTargetDelta(chain.calls, CallDelta) :
                  c.strike > price} }

Entries(strategy, snapshot, accountEquity) ==
  CASE strategy = "bull-put-spread" -> BullPutEntries(snapshot.chain)
    [] strategy = "bull-put-spread-v1" ->
         BullPutV1Entries(snapshot.chain, accountEquity)
    [] strategy = "iron-condor" -> IronCondorEntries(snapshot.chain)
    [] strategy = "covered-call" ->
         CoveredCallEntries(snapshot.chain, snapshot.price)

(* legGroupId of the spread's steps; only the covered call gives one. *)
LegOf(strategy) == IF strategy = "covered-call" THEN {ShortCallLeg} ELSE {}

(* The steps of the signal that opens: the covered call buys shares first. *)
OpenSteps(strategy, entry, price) ==
  LET spread == [kind |-> "OPEN_DEFINED_RISK", leg |-> LegOf(strategy),
                 quantity |-> entry.quantity, entryCredit |-> entry.entryCredit,
                 maxLoss |-> entry.maxLoss, metadata |-> {entry.metadata}]
      shares == [kind |-> "OPEN_EQUITY", quantity |-> LotSize, price |-> price]
  IN  IF strategy = "covered-call" THEN <<shares, spread>> ELSE <<spread>>

-----------------------------------------------------------------------------
(* Exit *)

(* Mutation: a cost of exactly the stop loss does not stop. *)
HitsTargetOrPassesStop(entry, cost) ==
  \/ cost * 100 <= entry.entryCredit * (100 - ProfitTargetPct)
  \/ cost > entry.entryCredit * StopLossMultiple

HitsTargetOrStop(entry, cost) ==
  \/ cost * 100 <= entry.entryCredit * (100 - ProfitTargetPct)
  \/ cost >= entry.entryCredit * StopLossMultiple

(* Only the risk-based bull put spread looks at the expiry; it then exits  *)
(* at zero cost when the chain does not have its strikes any more.         *)
Expired(strategy, entry, snapshot) ==
  /\ strategy = "bull-put-spread-v1"
  /\ snapshot.chain.puts # <<>>
  /\ snapshot.time >= entry.expiryDate

ExitCosts(strategy, entry, snapshot) ==
  LET costs == MarkDebit(entry.metadata, snapshot.chain)
  IN  IF Expired(strategy, entry, snapshot)
      THEN IF costs = {} THEN {0} ELSE costs
      ELSE {cost \in costs : HitsTargetOrStop(entry, cost)}

(* Mutation: the close step of the covered call names no leg group. *)
CloseStepsDefaultLeg(strategy, instrument, cost, price) ==
  LET spread == [kind |-> "CLOSE_DEFINED_RISK", leg |-> {},
                 closeCost |-> cost]
      shares == [kind |-> "CLOSE_EQUITY", price |-> price, quantity |-> {},
                 positionId |-> <<strategy, instrument>>]
  IN  IF strategy = "covered-call" THEN <<spread, shares>> ELSE <<spread>>

(* The covered call names its shares by an id without a leg group. *)
CloseSteps(strategy, instrument, cost, price) ==
  LET spread == [kind |-> "CLOSE_DEFINED_RISK", leg |-> LegOf(strategy),
                 closeCost |-> cost]
      shares == [kind |-> "CLOSE_EQUITY", price |-> price, quantity |-> {},
                 positionId |-> <<strategy, instrument>>]
  IN  IF strategy = "covered-call" THEN <<spread, shares>> ELSE <<spread>>

-----------------------------------------------------------------------------
(* evaluate: the position believed held afterwards and the signal's steps  *)

Decision(position, steps) == [position |-> position, steps |-> steps]

EvaluateEntry(strategy, snapshot, accountEquity) ==
  { Decision({entry}, OpenSteps(strategy, entry, snapshot.price)) :
      entry \in Entries(strategy, snapshot, accountEquity) }

EvaluateOpenPosition(strategy, instrument, entry, snapshot) ==
  { Decision({}, CloseSteps(strategy, instrument, cost, snapshot.price)) :
      cost \in ExitCosts(strategy, entry, snapshot) }

(* Holding, which has no steps, is what is left when there is nothing to   *)
(* enter or exit.                                                          *)
Evaluate(strategy, instrument, position, snapshot, accountEquity) ==
  LET changes ==
        IF position = {} THEN EvaluateEntry(strategy, snapshot, accountEquity)
        ELSE UNION { EvaluateOpenPosition(strategy, instrument, entry, snapshot) :
                       entry \in position }
  IN  IF changes = {} THEN {Decision(position, <<>>)} ELSE changes

=============================================================================
