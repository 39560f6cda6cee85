------------------------------ MODULE MCOrders ------------------------------
(* Constants for TLC: a behaviour is one of the order service of the API,  *)
(* or one of the tasks of an adapter, which share no state.                *)
EXTENDS OrderService, OrderPoller, TLC

CONSTANTS o1, q1, q2, X, session, a, b, c

OneSymbol == (o1 :> X)
UsedStatuses == {"new", "partially_filled", "filled", "done_for_day", "pending_cancel",
                 "canceled", "expired", "rejected", "stopped", "suspended"}
Symmetry == Permutations(Requests) \cup Permutations({a, b, c})

VARIABLE part

MCInit ==
  /\ Init
  /\ PollerInit
  /\ \/ part = "service" /\ HasSession
     \/ part = "adapter" /\ ~kill_switch /\ faults = {}

MCNext ==
  /\ \/ part = "service" /\ Next /\ UNCHANGED reconcileVars
     \/ part = "adapter" /\ PollerNext /\ UNCHANGED vars
  /\ UNCHANGED part

MCSpec == MCInit /\ [][MCNext]_<<part, vars, reconcileVars>>
=============================================================================
