---------------------------- MODULE MCLiveBroker ----------------------------
(***************************************************************************)
(* Two strategies that trade one instrument through one live broker, and   *)
(* one client that cancels.                                                *)
(***************************************************************************)
EXTENDS LiveBroker

TwoPlacements == {"first", "second"}

OneInstrument == [c \in TwoPlacements |-> "nifty"]

TwoStrategies == [c \in TwoPlacements |->
                    IF c = "first" THEN "trend" ELSE "spread"]

=============================================================================
