---------------------------- MODULE OptionChains ----------------------------
(***************************************************************************)
(* src/src/strategies/spreads/option-chain.utils.ts.  A list of quotes is  *)
(* a sequence of [strike, premium, delta], delta being the absolute one in *)
(* percent; a chain is [puts, calls, expiryDate].  What the code returns   *)
(* as a value or null is a set of at most one element here.                *)
(***************************************************************************)
EXTENDS Integers, Sequences

OptionQuote == [strike : Int, premium : Int, delta : Int]

OptionChainSnapshot ==
  [puts : Seq(OptionQuote), calls : Seq(OptionQuote), expiryDate : Int]

AbsoluteDifference(a, b) == IF a >= b THEN a - b ELSE b - a

(* The first of these places in a list, if there is one. *)
FirstPlace(places) == {n \in places : \A m \in places : n <= m}

(* Of the quotes at these places, the one nearest to half of twiceDelta;  *)
(* a later one replaces it only when it is strictly nearer.               *)
Nearest(quotes, places, twiceDelta) ==
  LET distance(n) == AbsoluteDifference(2 * quotes[n].delta, twiceDelta)
      nearest == {n \in places : \A m \in places : distance(n) <= distance(m)}
  IN  {quotes[n] : n \in FirstPlace(nearest)}

FindByTargetDelta(quotes, targetDelta) ==
  Nearest(quotes, DOMAIN quotes, 2 * targetDelta)

FindPutInDeltaRange(puts, minDelta, maxDelta) ==
  Nearest(puts, {n \in DOMAIN puts : puts[n].delta \in minDelta..maxDelta},
          minDelta + maxDelta)

(* find: the premium of the first quote at the strike. *)
PremiumAt(strike, quotes) ==
  LET places == {n \in DOMAIN quotes : quotes[n].strike = strike}
  IN  {quotes[n].premium : n \in FirstPlace(places)}

SpreadCloseCost(spread, quotes) ==
  { short - long : short \in PremiumAt(spread.shortStrike, quotes),
                   long \in PremiumAt(spread.longStrike, quotes) }

IronCondorCloseCost(putSpread, callSpread, chain) ==
  { put + call : put \in SpreadCloseCost(putSpread, chain.puts),
                 call \in SpreadCloseCost(callSpread, chain.calls) }

SpreadCredit(short, long) == short.premium - long.premium

IronCondorMaxLoss(shortPut, longPut, shortCall, longCall, credit) ==
  LET putWidth  == shortPut.strike - longPut.strike
      callWidth == longCall.strike - shortCall.strike
  IN  (IF putWidth > callWidth THEN putWidth ELSE callWidth) - credit

(* Whole lots within the risk budget, in percent of the account's equity. *)
CalculateDefinedRiskQuantity(accountEquity, maxLossPerUnit, lotSize, maxRiskPct) ==
  IF accountEquity <= 0 \/ maxLossPerUnit <= 0 THEN 0
  ELSE ((accountEquity * maxRiskPct) \div (100 * maxLossPerUnit * lotSize))
         * lotSize

=============================================================================
