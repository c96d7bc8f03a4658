--------------------------- MODULE MCForwardTest ---------------------------
(***************************************************************************)
(* Instances of ForwardTest: snapshots that price an entry, the profit     *)
(* target, and an inverted spread, whose close is refused; a user's        *)
(* strategy that trades shares; a limit order of someone else, which       *)
(* spends cash of the account.                                             *)
(***************************************************************************)
EXTENDS ForwardTest

Q(strike, premium, delta) ==
  [strike |-> strike, premium |-> premium, delta |-> delta]

(* Puts at 18 and 12, calls at 30 and 36: the spreads are 6 wide. *)
Snapshot(price, shortPut, longPut, shortCall, longCall) ==
  [time |-> 1, price |-> price,
   chain |-> [puts |-> <<Q(18, shortPut, 15), Q(12, longPut, 5)>>,
              calls |-> <<Q(30, shortCall, 15), Q(36, longCall, 5)>>,
              expiryDate |-> 2]]

EntryAt20 == Snapshot(20, 4, 2, 4, 2)    \* credit 2, 2 and 4, a call at 4
Profit == Snapshot(16, 2, 1, 2, 1)       \* half of it: the profit target
Inverted == Snapshot(20, 1, 3, 1, 3)

SomeFeeds ==
  { <<EntryAt20, Profit, EntryAt20>>, <<EntryAt20, Inverted, Profit>> }

BuyShares(quantity) ==
  [kind |-> "OPEN_EQUITY", quantity |-> quantity, price |-> 10]

SellShares(quantity) ==
  [kind |-> "CLOSE_EQUITY", quantity |-> quantity, price |-> 12,
   positionId |-> <<"mine", "nifty", "default">>]

MySignals == { <<BuyShares(2)>>, <<SellShares({1})>>, <<SellShares({})>> }

OthersRequests ==
  [ref : {"buy 2 at 18"}, strategy : {"others"}, instrument : {"nifty"},
   leg : {"default"}, definedRisk : {FALSE}, side : {"BUY"}, type : {"LIMIT"},
   quantity : {2}, price : {18},
   entryCredit : {0}, maxLoss : {0}, closeCost : {18}]

(* What the feeds and requests above are: every field has a value of its   *)
(* type.                                                                   *)
Quotes == [strike : Nat, premium : Nat, delta : 0..100]

ASSUME FeedAssumption ==
  \A feed \in Feeds : \A i \in DOMAIN feed :
    feed[i] \in [time : Nat, price : Nat,
                chain : [puts : Seq(Quotes), calls : Seq(Quotes),
                         expiryDate : Nat]]

ASSUME RequestsAreLimitOrders ==
  ClientRequests \subseteq
    [ref : STRING, strategy : Strategies, instrument : Instruments,
     leg : LegGroups, definedRisk : BOOLEAN, side : {"BUY", "SELL"},
     type : {"LIMIT"}, quantity : Nat, price : Nat, entryCredit : Nat,
     maxLoss : Nat, closeCost : Nat]

=============================================================================
