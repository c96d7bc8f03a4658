--------------------------- MODULE OrderLifecycle ---------------------------
(***************************************************************************)
(* What every broker of src/src/broker promises about an order, through    *)
(* the statuses of broker/types/broker.types.ts: an order is executed at   *)
(* most once, only while it is not cancelled, and FILLED and CANCELLED are *)
(* final.  executions[o] is the set of fill numbers that name order o.     *)
(***************************************************************************)
EXTENDS Naturals

CONSTANTS OrderIds, FillNumbers

VARIABLES status, executions

orderVars == <<status, executions>>

Statuses == {"NEW", "PENDING", "FILLED", "CANCELLED"}

Init ==
  /\ status = [o \in OrderIds |-> "NEW"]
  /\ executions = [o \in OrderIds |-> {}]

Accept(o) ==
  /\ status[o] = "NEW"
  /\ status' = [status EXCEPT ![o] = "PENDING"]
  /\ UNCHANGED executions

(* A market order is executed when it is placed, a limit order later. *)
Execute(o) ==
  /\ status[o] \in {"NEW", "PENDING"}
  /\ executions[o] = {}
  /\ status' = [status EXCEPT ![o] = "FILLED"]
  /\ \E n \in FillNumbers : executions' = [executions EXCEPT ![o] = {n}]

Cancel(o) ==
  /\ status[o] = "PENDING"
  /\ status' = [status EXCEPT ![o] = "CANCELLED"]
  /\ UNCHANGED executions

Next == \E o \in OrderIds : Accept(o) \/ Execute(o) \/ Cancel(o)

Spec == Init /\ [][Next]_orderVars

=============================================================================
