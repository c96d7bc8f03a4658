--------------------------- MODULE MCPaperBroker ---------------------------
(***************************************************************************)
(* Instances of PaperBroker: one strategy, one instrument, request objects *)
(* that cover both sides, both order types and both kinds of position, one *)
(* of them too large for the account and one invalid.                      *)
(***************************************************************************)
EXTENDS PaperBroker

Shares(ref, type, side, quantity, price) ==
  [ref |-> ref, strategy |-> "trend", instrument |-> "nifty",
   leg |-> "default", definedRisk |-> FALSE, side |-> side, type |-> type,
   quantity |-> quantity, price |-> price,
   entryCredit |-> 0, maxLoss |-> 0, closeCost |-> 0]

Spread(ref, type, side, price, leg) ==
  [ref |-> ref, strategy |-> "trend", instrument |-> "nifty",
   leg |-> leg, definedRisk |-> TRUE, side |-> side, type |-> type,
   quantity |-> 2, price |-> price,
   entryCredit |-> 4, maxLoss |-> 10, closeCost |-> price]

MixedRequests ==
  { Shares("buy 1 at 10", "LIMIT", "BUY", 1, 10),
    Shares("buy 4 at 10", "LIMIT", "BUY", 4, 10),
    Shares("sell 1 at 12", "LIMIT", "SELL", 1, 12),
    Shares("buy 1 now", "MARKET", "BUY", 1, 11),
    Spread("open at 10", "LIMIT", "BUY", 10, "week"),
    Spread("close now", "MARKET", "SELL", 3, "week"),
    Shares("nothing", "MARKET", "BUY", 0, 11) }

Quote(price) == [instrument |-> "nifty", price |-> price]

OneOrTwoQuotes ==
  { <<Quote(10)>>, <<Quote(12)>>, <<Quote(11), Quote(9)>>,
    <<Quote(12), Quote(10)>>,
    <<[instrument |-> "bank", price |-> 10]>> }

=============================================================================
