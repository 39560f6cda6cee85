----------------------------- MODULE OrderProofs -----------------------------
(***************************************************************************)
(* Proofs about the two places an order is followed in.  OrderService: for *)
(* every set of orders and of concurrent requests, every number of         *)
(* attempts and every set of faults.  OrderPoller and its HttpAdapter: for *)
(* any number of tasks, orders, polls and attempts, any capacity and any   *)
(* waits, the budget of calls is kept, whoever slept for a token finds it, *)
(* and what the poller reports of an order is true of the broker's order.  *)
(***************************************************************************)
EXTENDS OrderService, OrderPoller, TLAPS

-----------------------------------------------------------------------------
(* OrderService                                                            *)

(* A POST that may still be sent has attempts left. *)
AttemptsLeft ==
  \A o \in Orders : pc[o] \in {"idle", "limits", "post"} => tries[o] < MaxAttempts

(* Ids come from the broker, so what is refreshed is there. *)
IdsAreReal ==
  /\ \A o \in Orders : pc[o] = "acked" \/ broker_order_id[o] => order[o].raw # "none"
  /\ \A r \in requests : r.kind = "refresh" => order[r.order].raw # "none"

TypeInv == TypeOK /\ AttemptsLeft /\ IdsAreReal

RequestType ==
  [id : Requests, kind : {"cancel", "refresh"}, order : Orders,
   step : {"loaded", "answered"}, loaded : OrderStatus,
   raw : RawStatus \cup {"unknown"}]

BrokerOrder == [raw : RawStatus \cup {"none"}, filled : {"nothing", "part", "all"}]

(* An order with shares filled has a status that fits. *)
Sound(b) ==
  /\ b.raw = "filled" <=> b.filled = "all"
  /\ b.raw = "partially_filled" => b.filled # "nothing"

-----------------------------------------------------------------------------
(* The status map. *)

LEMMA TheStatuses ==
  RawStatus = {"new", "pending_new", "accepted", "partially_filled", "filled", "done_for_day",
               "canceled", "expired", "rejected", "replaced", "pending_cancel",
               "pending_replace", "stopped", "suspended", "calculated"}
  BY DEF RawStatus, ALPACA_STATUS_MAP

LEMMA TheMap ==
  ASSUME NEW raw \in RawStatus, NEW default
  PROVE  Mapped(raw, default) =
           CASE raw \in {"new", "pending_new", "accepted", "replaced", "pending_cancel",
                         "pending_replace", "calculated"} -> "SUBMITTED"
             [] raw = "partially_filled" -> "PARTIAL"
             [] raw \in {"filled", "done_for_day"} -> "FILLED"
             [] raw \in {"canceled", "stopped"} -> "CANCELLED"
             [] raw = "expired" -> "EXPIRED"
             [] raw \in {"rejected", "suspended"} -> "REJECTED"
  BY TheStatuses DEF Mapped, ALPACA_STATUS_MAP, RawStatus

LEMMA MappedIsAStatus ==
  ASSUME NEW raw \in RawStatus \cup {"unknown"}, NEW default \in OrderStatus
  PROVE  /\ Mapped(raw, default) \in OrderStatus
         /\ raw = "unknown" => Mapped(raw, default) = default
<1>1. CASE raw \in RawStatus
  BY <1>1, TheStatuses, TheMap DEF OrderStatus
<1>2. CASE raw = "unknown"
  BY <1>2 DEF Mapped, ALPACA_STATUS_MAP
<1>3. "unknown" \notin RawStatus
  BY TheStatuses
<1> QED
  BY <1>1, <1>2, <1>3

(* What was seen at the broker backs the status it is mapped to. *)
LEMMA MappedIsBacked ==
  ASSUME NEW raw \in RawStatus, NEW default, NEW b \in BrokerOrder, Later(raw, b)
  PROVE  Backs(b, Mapped(raw, default))
<1>1. "none" \notin RawStatus
  BY TheStatuses
<1>2. b # NoOrder
  BY <1>1 DEF Later, NoOrder, Order, Working, Halts
<1>3. CASE raw = "partially_filled"
  <2>1. b.filled # "nothing"
    BY <1>3 DEF Later
  <2>2. Mapped(raw, default) = "PARTIAL"
    BY <1>3, TheMap
  <2> QED
    BY <2>1, <2>2 DEF Backs
<1>4. CASE raw = "filled"
  <2>1. b.filled = "all"
    BY <1>4 DEF Later
  <2>2. Mapped(raw, default) = "FILLED"
    BY <1>4, TheMap
  <2> QED
    BY <2>1, <2>2 DEF Backs
<1>5. CASE raw \in {"done_for_day", "expired"}
  <2>1. b.raw = raw /\ Mapped(raw, default) = IF raw = "expired" THEN "EXPIRED" ELSE "FILLED"
    BY <1>5, TheMap DEF Later, Working, Halts
  <2> QED
    BY <1>5, <2>1 DEF Backs
<1>6. CASE raw \notin {"partially_filled", "filled", "done_for_day", "expired"}
  <2>1. Mapped(raw, default) \in {"SUBMITTED", "CANCELLED", "REJECTED"}
    BY <1>6, TheMap, TheStatuses
  <2> QED
    BY <1>2, <2>1 DEF Backs
<1> QED
  BY <1>3, <1>4, <1>5, <1>6

LEMMA BecomesTyped ==
  ASSUME NEW b \in BrokerOrder, NEW raw \in RawStatus
  PROVE  /\ Becomes(b, raw) \in BrokerOrder
         /\ Becomes(b, raw).raw = raw
         /\ raw # "none"
  BY TheStatuses DEF Becomes, Order, BrokerOrder

(* Of an order the broker works on it was seen that it does, unless it was *)
(* seen stopped or suspended.                                              *)
LEMMA MappedOfWorking ==
  ASSUME NEW raw \in RawStatus, NEW default, NEW b \in BrokerOrder, Later(raw, b), b.raw \in Working
  PROVE  IF raw \in Halts THEN Mapped(raw, default) \in {"CANCELLED", "REJECTED"}
         ELSE Mapped(raw, default) \in {"SUBMITTED", "PARTIAL"}
  BY TheStatuses, TheMap DEF Later, Working, Halts

(* The broker's order moves on: nothing that backed a status, or that was  *)
(* seen, stops being so, and the broker does not work again on an order    *)
(* that is over.                                                           *)
LEMMA BrokerMovesOn ==
  ASSUME NEW b \in BrokerOrder, Sound(b), NEW raw \in RawStatus,
         raw \in Ahead(b) \/ (b.raw \in Working /\ raw \in {"canceled", "pending_cancel"})
  PROVE  LET next == Becomes(b, raw)
         IN  /\ next \in BrokerOrder /\ next.raw = raw /\ Sound(next)
             /\ b.raw # "none"
             /\ raw \in Working => b.raw \in Working
             /\ \A s : Backs(b, s) => Backs(next, s)
             /\ \A seen : Later(seen, b) => Later(seen, next)
<1> DEFINE next == Becomes(b, raw)
<1>1. /\ next.raw = raw
      /\ next.filled = CASE raw = "filled" -> "all" [] raw = "partially_filled" -> "part"
                          [] OTHER -> b.filled
      /\ next \in BrokerOrder
  BY DEF Becomes, Order, BrokerOrder
<1>2. /\ b.raw \in Working \cup {"pending_cancel"} /\ b.raw # "none"
      /\ b.raw = "pending_cancel" => raw \in {"filled", "canceled"}
      /\ raw \in Working => b.raw \in Working
  BY DEF Ahead, Working, Halts
<1>3. Sound(next)
  BY <1>1, <1>2 DEF Sound, Working, Halts, BrokerOrder
<1>4. b # NoOrder /\ next # NoOrder
  BY <1>1, <1>2, TheStatuses DEF NoOrder, Order
<1>5. /\ b.filled # "nothing" => next.filled # "nothing"
      /\ b.filled # "all"
      /\ b.raw \notin {"expired", "done_for_day", "filled"}
  BY <1>1, <1>2 DEF Sound, Working, Halts, BrokerOrder
<1> HIDE DEF next
<1>6. ASSUME NEW s, Backs(b, s)  PROVE Backs(next, s)
  BY <1>4, <1>5, <1>6 DEF Backs
<1>7. ASSUME NEW seen, Later(seen, b)  PROVE Later(seen, next)
  BY <1>1, <1>2, <1>4, <1>5, <1>7 DEF Later, Working, Halts
<1> QED
  BY <1>1, <1>2, <1>3, <1>6, <1>7 DEF next

-----------------------------------------------------------------------------
(* Type correctness. *)

LEMMA InitTyped == Init => TypeInv
  BY OrderServiceAssumption DEF Init, TypeInv, TypeOK, AttemptsLeft, IdsAreReal, NoOrder, Order

LEMMA PlaceTyped ==
  ASSUME TypeInv, NEW o \in Orders, Place(o), UNCHANGED faults
  PROVE  TypeInv'
<1> USE OrderServiceAssumption DEF TypeInv, TypeOK, AttemptsLeft, IdsAreReal, rows, switch, Goto,
        CommitRejected, OrderStatus
<1>0. \A raw \in RawStatus : /\ Becomes(NoOrder, raw) \in BrokerOrder
                             /\ Becomes(NoOrder, raw).raw = raw /\ raw # "none"
  BY TheStatuses DEF Becomes, NoOrder, Order, BrokerOrder
<1>1. CASE ReadKillSwitch(o)
  BY <1>1, ZenonT(90) DEF ReadKillSwitch
<1>2. CASE CheckLimits(o)
  BY <1>2, ZenonT(90) DEF CheckLimits
<1>3. CASE PostAccepted(o)
  <2>1. PICK raw \in RawStatus : /\ order' = [order EXCEPT ![o] = Becomes(NoOrder, raw)]
                                 /\ ack' = [ack EXCEPT ![o] = raw]
    BY <1>3 DEF PostAccepted
  <2> QED
    BY <1>0, <1>3, <2>1 DEF PostAccepted, BrokerOrder
<1>4. CASE PostReplyLost(o)
  <2>1. "new" \in RawStatus
    BY TheStatuses
  <2> QED
    BY <1>0, <1>4, <2>1 DEF PostReplyLost, Retry, BrokerOrder
<1>5. CASE PostDropped(o)
  BY <1>5 DEF PostDropped, Retry
<1>6. CASE PostRefused(o)
  BY <1>6 DEF PostRefused
<1>7. CASE CommitAck(o)
  <2>1. Mapped(ack[o], "SUBMITTED") \in OrderStatus
    <3>1. CASE ack[o] = "none"
      BY <3>1, TheStatuses DEF Mapped, RawStatus, OrderStatus
    <3> QED
      BY <3>1, MappedIsAStatus
  <2> QED
    BY <1>7, <2>1 DEF CommitAck
<1>8. CASE CommitFailure(o)
  BY <1>8 DEF CommitFailure
<1>9. CASE PlaceCrashes(o)
  BY <1>9 DEF PlaceCrashes
<1> QED
  BY <1>1, <1>2, <1>3, <1>4, <1>5, <1>6, <1>7, <1>8, <1>9 DEF Place

LEMMA ServeTyped ==
  ASSUME TypeInv, Serve, UNCHANGED faults
  PROVE  TypeInv'
<1> USE DEF TypeInv, TypeOK, AttemptsLeft, IdsAreReal, rows, switch
<1>1. ASSUME NEW q \in Requests, NEW o \in Orders, CancelLoad(q, o) \/ RefreshLoad(q, o)
      PROVE  TypeInv'
  BY <1>1 DEF CancelLoad, RefreshLoad, Load, OrderStatus
<1>2. ASSUME NEW r \in requests  PROVE r \in RequestType
  BY DEF RequestType
<1>3. ASSUME NEW r \in requests, NEW raw \in RawStatus \cup {"unknown"}, Answered(r, raw)
      PROVE  /\ requests' \subseteq RequestType
             /\ \A s \in requests' : s \in requests \/ (s.kind = r.kind /\ s.order = r.order)
  <2> DEFINE new == [r EXCEPT !.step = "answered", !.raw = raw]
  <2>1. new \in RequestType /\ new.kind = r.kind /\ new.order = r.order
    BY <1>2 DEF RequestType
  <2>2. requests' = (requests \ {r}) \cup {new}
    BY <1>3 DEF Answered
  <2> HIDE DEF new
  <2> QED
    BY <1>2, <2>1, <2>2
<1>4. ASSUME NEW r \in requests, CancelAtBroker(r)  PROVE TypeInv'
  <2>1. /\ requests' \subseteq RequestType
        /\ \A s \in requests' : s \in requests \/ (s.kind = r.kind /\ s.order = r.order)
    BY <1>3, <1>4 DEF CancelAtBroker
  <2>2. /\ order' \in [Orders -> BrokerOrder]
        /\ \A o \in Orders : order[o].raw # "none" => order'[o].raw # "none"
    <3>1. ASSUME NEW raw \in {"canceled", "pending_cancel"}
          PROVE  /\ Becomes(order[r.order], raw) \in BrokerOrder
                 /\ Becomes(order[r.order], raw).raw # "none"
      <4>1. r.order \in Orders
        BY <1>2 DEF RequestType
      <4>2. order[r.order] \in BrokerOrder
        BY <4>1 DEF BrokerOrder
      <4> QED
        BY <4>2, TheStatuses, BecomesTyped
    <3>2. CASE order' = order
      BY <3>2 DEF BrokerOrder
    <3>3. ASSUME NEW raw \in {"canceled", "pending_cancel"},
                 order' = [order EXCEPT ![r.order] = Becomes(@, raw)]
          PROVE  /\ order' \in [Orders -> BrokerOrder]
                 /\ \A o \in Orders : order[o].raw # "none" => order'[o].raw # "none"
      <4>1. order \in [Orders -> BrokerOrder]
        BY DEF BrokerOrder
      <4> QED
        BY <3>1, <3>3, <4>1
    <3> QED
      BY <1>4, <3>2, <3>3 DEF CancelAtBroker
  <2>3. IdsAreReal'
    BY <1>2, <1>4, <2>1, <2>2 DEF CancelAtBroker, RequestType
  <2> QED
    BY <1>2, <1>4, <2>1, <2>2, <2>3 DEF CancelAtBroker, RequestType, BrokerOrder
<1>5. ASSUME NEW r \in requests, CancelCommit(r)  PROVE TypeInv'
  BY <1>2, <1>5 DEF CancelCommit, RequestType, OrderStatus
<1>6. ASSUME NEW r \in requests, RefreshGet(r)  PROVE TypeInv'
  <2>1. PICK raw \in {order[r.order].raw, "unknown"} : Answered(r, raw)
    BY <1>6 DEF RefreshGet
  <2>2. raw \in RawStatus \cup {"unknown"}
    BY <1>2, <1>6, <2>1 DEF RefreshGet, RequestType
  <2>3. /\ requests' \subseteq RequestType
        /\ \A s \in requests' : s \in requests \/ (s.kind = r.kind /\ s.order = r.order)
    BY <1>3, <2>1, <2>2
  <2> QED
    BY <1>2, <1>6, <2>3 DEF RefreshGet, RequestType
<1>7. ASSUME NEW r \in requests, RefreshCommit(r)  PROVE TypeInv'
  <2>1. Mapped(r.raw, r.loaded) \in OrderStatus
    BY <1>2, MappedIsAStatus DEF RequestType
  <2> QED
    BY <1>2, <1>7, <2>1 DEF RefreshCommit, RequestType
<1>8. ASSUME NEW r \in requests, RequestEnds(r)  PROVE TypeInv'
  BY <1>8 DEF RequestEnds
<1> QED
  BY <1>1, <1>4, <1>5, <1>6, <1>7, <1>8 DEF Serve

LEMMA StepTyped == TypeInv /\ [Next]_vars => TypeInv'
<1> SUFFICES ASSUME TypeInv, [Next]_vars  PROVE TypeInv'
  OBVIOUS
<1> USE DEF TypeInv, TypeOK, AttemptsLeft, IdsAreReal, rows, switch
<1>0. UNCHANGED faults
  BY DEF Next, vars
<1>1. ASSUME NEW o \in Orders, Place(o)  PROVE TypeInv'
  BY <1>0, <1>1, PlaceTyped
<1>2. ASSUME NEW o \in Orders, BrokerStep(o)  PROVE TypeInv'
  <2>1. PICK raw \in Ahead(order[o]) : order' = [order EXCEPT ![o] = Becomes(@, raw)]
    BY <1>2 DEF BrokerStep
  <2>2. raw \in RawStatus /\ raw # "none"
    BY OrderServiceAssumption, TheStatuses DEF Ahead
  <2>3. Becomes(order[o], raw) \in BrokerOrder /\ Becomes(order[o], raw).raw # "none"
    BY <2>2 DEF Becomes, Order, BrokerOrder
  <2> QED
    BY <1>0, <1>2, <2>1, <2>3 DEF BrokerStep, BrokerOrder
<1>3. CASE Serve
  BY <1>0, <1>3, ServeTyped
<1>4. CASE EngageKillSwitch
  BY <1>0, <1>4 DEF EngageKillSwitch
<1>5. CASE DisengageKillSwitch
  BY <1>0, <1>5 DEF DisengageKillSwitch
<1>6. CASE UNCHANGED vars
  BY <1>6 DEF vars
<1> QED
  BY <1>1, <1>2, <1>3, <1>4, <1>5, <1>6 DEF Next

(* Every reachable state of the order service is well typed: a POST is     *)
(* tried at most MaxAttempts times, and only known statuses are stored     *)
(* (orders.py:38-119, broker.py:76-92).                                    *)
THEOREM TypeCorrect == Spec => []TypeOK
<1>1. TypeInv => TypeOK
  BY DEF TypeInv
<1> QED
  BY <1>1, InitTyped, StepTyped, PTL DEF Spec

-----------------------------------------------------------------------------
(* The inductive invariant. *)

LEMMA InitSafe == Init => ServiceInv
  BY DEF Init, ServiceInv, RowNeverAhead, Backs, InFlightNeverAhead, RowsFollowPlace,
         LateOrdersWait, EachFaultHasItsPlace, WorkingOrdersHaveWorkingRows, Working, Halts,
         NoOrder, Order

(* Steps of place() that leave the broker alone. *)
LEMMA PlaceQuietlySafe ==
  ASSUME TypeInv, ServiceInv, NEW o \in Orders,
         \/ ReadKillSwitch(o) \/ CheckLimits(o) \/ PostDropped(o) \/ PostRefused(o)
         \/ CommitAck(o) \/ CommitFailure(o) \/ PlaceCrashes(o),
         UNCHANGED faults
  PROVE  ServiceInv'
<1> USE DEF TypeInv, TypeOK, rows, switch, Goto
<1>1. /\ order' = order /\ ack' = ack /\ requests' = requests
      /\ kill_switch' = kill_switch /\ late' = late /\ filled_at' = filled_at
      /\ pc' = [pc EXCEPT ![o] = pc'[o]]
      /\ status' = [status EXCEPT ![o] = status'[o]]
  BY DEF ReadKillSwitch, CheckLimits, PostDropped, PostRefused, CommitAck, CommitFailure,
         PlaceCrashes, CommitRejected, Retry
<1>2. pc[o] # "answered"
  BY DEF ReadKillSwitch, CheckLimits, PostDropped, PostRefused, CommitAck, CommitFailure,
         PlaceCrashes
<1>3. Backs(order[o], status[o]) /\ status[o] = "NONE"
  BY <1>2 DEF ServiceInv, RowNeverAhead, RowsFollowPlace
<1>4. "none" \notin Working
  BY DEF Working, Halts
<1>5. InFlightNeverAhead'
  BY <1>1 DEF ServiceInv, InFlightNeverAhead
<1>6. ASSUME pc'[o] \in {"limits", "post", "failed", "answered", "crashed"},
             Backs(order[o], status'[o]),
             status'[o] # "NONE" => pc'[o] = "answered",
             pc'[o] = "limits" => order[o] = NoOrder,
             o \in late => pc'[o] = "answered",
             pc'[o] \in {"post", "failed"} => (order[o] = NoOrder \/ "lost" \in faults),
             pc'[o] = "crashed" => "crash" \in faults,
             order[o].raw \in Working =>
               \/ status'[o] \in {"SUBMITTED", "PARTIAL"}
               \/ pc'[o] = "crashed" /\ "crash" \in faults
               \/ pc'[o] \in {"post", "failed"} /\ "lost" \in faults
               \/ status'[o] = "REJECTED" /\ faults \cap {"lost", "halted"} # {}
      PROVE  ServiceInv'
  <2>1. RowNeverAhead'
    BY <1>1, <1>6 DEF ServiceInv, RowNeverAhead
  <2>2. RowsFollowPlace'
    BY <1>1, <1>2, <1>6 DEF ServiceInv, RowsFollowPlace
  <2>3. LateOrdersWait'
    BY <1>1, <1>6 DEF ServiceInv, LateOrdersWait
  <2>4. EachFaultHasItsPlace'
    BY <1>1, <1>6 DEF ServiceInv, EachFaultHasItsPlace
  <2>5. WorkingOrdersHaveWorkingRows'
    BY <1>1, <1>6 DEF ServiceInv, WorkingOrdersHaveWorkingRows
  <2> QED
    BY <1>5, <2>1, <2>2, <2>3, <2>4, <2>5 DEF ServiceInv
<1>7. CASE status'[o] = status[o] /\ pc'[o] = "limits" /\ pc[o] = "idle" /\ ~kill_switch
  <2>1. order[o] = NoOrder /\ o \notin late
    BY <1>7 DEF ServiceInv, RowsFollowPlace, LateOrdersWait
  <2> QED
    BY <1>3, <1>4, <1>6, <1>7, <2>1 DEF NoOrder, Order
<1>8. CASE status'[o] = status[o] /\ pc'[o] \in {"post", "failed"} /\ pc[o] \in {"limits", "post"}
  <2>1. order[o] = NoOrder \/ "lost" \in faults
    BY <1>8 DEF ServiceInv, RowsFollowPlace, EachFaultHasItsPlace
  <2>2. o \notin late
    BY <1>8 DEF ServiceInv, LateOrdersWait
  <2> QED
    BY <1>3, <1>4, <1>6, <1>8, <2>1, <2>2 DEF NoOrder, Order
<1>9. CASE status'[o] = "REJECTED" /\ pc'[o] = "answered" /\ pc[o] \in {"idle", "limits", "failed"}
  <2>1. Backs(order[o], "REJECTED")
    BY DEF Backs
  <2>2. order[o] = NoOrder \/ "lost" \in faults
    BY <1>9 DEF ServiceInv, RowsFollowPlace, EachFaultHasItsPlace
  <2> QED
    BY <1>4, <1>6, <1>9, <2>1, <2>2 DEF NoOrder, Order
<1>10. CASE status'[o] = Mapped(ack[o], "SUBMITTED") /\ pc'[o] = "answered" /\ pc[o] = "acked"
  <2>1. ack[o] \in RawStatus /\ Later(ack[o], order[o]) /\ ack[o] \notin Halts
    BY <1>10 DEF ServiceInv, InFlightNeverAhead, RowsFollowPlace
  <2>2. order[o] \in BrokerOrder
    BY DEF BrokerOrder
  <2>3. Backs(order[o], status'[o])
    BY <1>10, <2>1, <2>2, MappedIsBacked
  <2>4. order[o].raw \in Working => status'[o] \in {"SUBMITTED", "PARTIAL"}
    BY <1>10, <2>1, <2>2, MappedOfWorking
  <2>5. o \notin late
    BY <1>10 DEF ServiceInv, LateOrdersWait
  <2> QED
    BY <1>6, <1>10, <2>3, <2>4, <2>5
<1>11. CASE /\ status'[o] = status[o] /\ pc'[o] = "crashed" /\ "crash" \in faults
            /\ pc[o] \in {"limits", "post", "acked", "failed"}
  <2>1. o \notin late
    BY <1>11 DEF ServiceInv, LateOrdersWait
  <2> QED
    BY <1>3, <1>6, <1>11, <2>1
<1> QED
  BY <1>7, <1>8, <1>9, <1>10, <1>11 DEF ReadKillSwitch, CheckLimits, PostDropped, PostRefused,
     CommitAck, CommitFailure, PlaceCrashes, CommitRejected, Retry

(* Steps that change nothing but the broker's order, which moves on. *)
LEMMA OrderMovesOnSafe ==
  ASSUME TypeInv, ServiceInv, NEW o \in Orders, NEW raw \in RawStatus,
         \/ raw \in Ahead(order[o])
         \/ (order[o].raw \in Working /\ raw \in {"canceled", "pending_cancel"}),
         raw \in Halts => "halted" \in faults,
         order' = [order EXCEPT ![o] = Becomes(@, raw)],
         pc' = pc, ack' = ack, status' = status, filled_at' = filled_at,
         kill_switch' = kill_switch, late' = late, faults' = faults,
         \A s \in requests' :
           s \in requests \/ \E r \in requests :
             /\ s.order = r.order /\ s.loaded = r.loaded /\ s.raw = "unknown"
             /\ s.kind = "cancel" => r.order = o /\ raw \notin Working
  PROVE  ServiceInv'
<1> USE DEF TypeInv, TypeOK
<1> DEFINE next == Becomes(order[o], raw)
<1>1. order[o] \in BrokerOrder /\ Sound(order[o])
  BY DEF ServiceInv, InFlightNeverAhead, Sound, BrokerOrder
<1>2. /\ next.raw = raw /\ Sound(next)
      /\ order[o].raw # "none"
      /\ raw \in Working => order[o].raw \in Working
      /\ \A s : Backs(order[o], s) => Backs(next, s)
      /\ \A seen : Later(seen, order[o]) => Later(seen, next)
  BY <1>1, BrokerMovesOn
<1>3. order' = [p \in Orders |-> IF p = o THEN next ELSE order[p]]
  OBVIOUS
<1> HIDE DEF next
<1>4. order[o] # NoOrder /\ next # NoOrder
  <2>1. raw # "none"
    BY TheStatuses
  <2> QED
    BY <1>2, <2>1 DEF NoOrder, Order
<1>5. \A r \in requests : r \in RequestType
  BY DEF RequestType
<1>6. RowNeverAhead'
  BY <1>2, <1>3 DEF ServiceInv, RowNeverAhead
<1>7. InFlightNeverAhead'
  <2>1. \A p \in Orders : ack'[p] # "none" => Later(ack'[p], order'[p]) /\ ack'[p] \notin Halts
    BY <1>2, <1>3 DEF ServiceInv, InFlightNeverAhead
  <2>2. ASSUME NEW r \in requests
        PROVE  /\ order'[r.order] # NoOrder
               /\ Backs(order'[r.order], r.loaded)
               /\ r.raw # "unknown" => Later(r.raw, order'[r.order])
               /\ r.raw \in Halts => "halted" \in faults
    <3>1. r.order \in Orders
      BY <1>5 DEF RequestType
    <3> QED
      BY <1>2, <1>3, <1>4, <3>1 DEF ServiceInv, InFlightNeverAhead
  <2>3. "unknown" \notin Halts
    BY DEF Halts
  <2>4. \A p \in Orders : /\ (order'[p].raw \in Halts => "halted" \in faults)
                          /\ (order'[p].raw = "filled" <=> order'[p].filled = "all")
                          /\ (order'[p].raw = "partially_filled" => order'[p].filled # "nothing")
    BY <1>2, <1>3 DEF ServiceInv, InFlightNeverAhead, Sound
  <2> QED
    BY <2>1, <2>2, <2>3, <2>4 DEF InFlightNeverAhead
<1>8. RowsFollowPlace'
  BY <1>3, <1>4, <1>5 DEF ServiceInv, RowsFollowPlace, RequestType
<1>9. LateOrdersWait'
  BY <1>3, <1>4 DEF ServiceInv, LateOrdersWait
<1>10. EachFaultHasItsPlace'
  <2>1. \A p \in Orders : (pc[p] \in {"post", "failed"} /\ "lost" \notin faults) => order'[p] = NoOrder
    BY <1>3, <1>4 DEF ServiceInv, EachFaultHasItsPlace
  <2>2. ASSUME "cancel_refused" \notin faults, NEW s \in requests', s.kind = "cancel", s.step = "answered"
        PROVE  order'[s.order].raw \notin Working
    <3>1. CASE s \in requests
      <4>1. order[s.order].raw \notin Working /\ s.order \in Orders
        BY <1>5, <2>2, <3>1 DEF ServiceInv, EachFaultHasItsPlace, RequestType
      <4> QED
        BY <1>2, <1>3, <4>1
    <3>2. CASE s.order = o /\ raw \notin Working
      BY <1>2, <1>3, <3>2
    <3> QED
      BY <2>2, <3>1, <3>2
  <2>3. \A p \in Orders : pc[p] = "crashed" => "crash" \in faults
    BY DEF ServiceInv, EachFaultHasItsPlace
  <2> QED
    BY <2>1, <2>2, <2>3 DEF EachFaultHasItsPlace
<1>11. WorkingOrdersHaveWorkingRows'
  BY <1>2, <1>3 DEF ServiceInv, WorkingOrdersHaveWorkingRows
<1> QED
  BY <1>6, <1>7, <1>8, <1>9, <1>10, <1>11 DEF ServiceInv

(* The broker takes an order. *)
LEMMA PostSafe ==
  ASSUME TypeInv, ServiceInv, NEW o \in Orders, PostAccepted(o) \/ PostReplyLost(o),
         UNCHANGED faults
  PROVE  ServiceInv'
<1> USE DEF TypeInv, TypeOK, rows, switch, Goto
<1>1. pc[o] = "post" /\ order[o] = NoOrder /\ status[o] = "NONE" /\ ack[o] = "none" /\ ~filled_at[o]
  <2>1. pc[o] = "post" /\ order[o] = NoOrder
    BY DEF PostAccepted, PostReplyLost
  <2>2. \A raw \in RawStatus : ~Later(raw, NoOrder)
    BY TheStatuses DEF Later, NoOrder, Order
  <2>3. ~Backs(NoOrder, "FILLED")
    BY DEF Backs, NoOrder, Order
  <2> QED
    BY <2>1, <2>2, <2>3 DEF ServiceInv, RowsFollowPlace, InFlightNeverAhead, RowNeverAhead
<1>2. PICK raw \in {"pending_new", "accepted", "new", "partially_filled", "filled"} :
        /\ order' = [order EXCEPT ![o] = Becomes(NoOrder, raw)]
        /\ ack' = [ack EXCEPT ![o] = ack'[o]]
        /\ \/ pc'[o] = "acked" /\ ack'[o] = raw
           \/ pc'[o] \in {"post", "failed"} /\ ack'[o] = "none" /\ "lost" \in faults
  <2>1. CASE PostAccepted(o)
    BY <2>1 DEF PostAccepted
  <2>2. CASE PostReplyLost(o)
    BY <1>1, <2>2 DEF PostReplyLost, Retry
  <2> QED
    BY <2>1, <2>2
<1>3. /\ status' = status /\ filled_at' = filled_at /\ requests' = requests
      /\ kill_switch' = kill_switch /\ late' = late
      /\ pc' = [pc EXCEPT ![o] = pc'[o]]
  BY DEF PostAccepted, PostReplyLost, Retry
<1>4. o \notin late /\ \A r \in requests : r.order # o
  BY <1>1 DEF ServiceInv, LateOrdersWait, RowsFollowPlace
<1> DEFINE next == Becomes(NoOrder, raw)
<1>5. /\ next.raw = raw /\ raw \notin Halts
      /\ raw = "filled" <=> next.filled = "all"
      /\ raw = "partially_filled" => next.filled # "nothing"
      /\ Later(raw, next)
  BY DEF Becomes, NoOrder, Order, Halts, Later, Working
<1>6. order' = [p \in Orders |-> IF p = o THEN next ELSE order[p]]
  BY <1>2
<1> HIDE DEF next
<1>7. RowNeverAhead'
  <2>1. Backs(next, "NONE")
    BY DEF Backs
  <2> QED
    BY <1>1, <1>3, <1>6, <2>1 DEF ServiceInv, RowNeverAhead
<1>8. InFlightNeverAhead'
  <2>1. \A p \in Orders : ack'[p] # "none" => Later(ack'[p], order'[p]) /\ ack'[p] \notin Halts
    BY <1>2, <1>5, <1>6 DEF ServiceInv, InFlightNeverAhead
  <2>2. \A r \in requests : order'[r.order] = order[r.order]
    BY <1>4, <1>6
  <2>3. \A p \in Orders : /\ (order'[p].raw \in Halts => "halted" \in faults)
                          /\ (order'[p].raw = "filled" <=> order'[p].filled = "all")
                          /\ (order'[p].raw = "partially_filled" => order'[p].filled # "nothing")
    BY <1>5, <1>6 DEF ServiceInv, InFlightNeverAhead
  <2> QED
    BY <1>3, <2>1, <2>2, <2>3 DEF ServiceInv, InFlightNeverAhead
<1>9. RowsFollowPlace'
  BY <1>1, <1>2, <1>3, <1>4, <1>6 DEF ServiceInv, RowsFollowPlace
<1>10. LateOrdersWait'
  BY <1>3, <1>4, <1>6 DEF ServiceInv, LateOrdersWait
<1>11. EachFaultHasItsPlace'
  BY <1>2, <1>3, <1>4, <1>6 DEF ServiceInv, EachFaultHasItsPlace
<1>12. WorkingOrdersHaveWorkingRows'
  BY <1>2, <1>3, <1>6 DEF ServiceInv, WorkingOrdersHaveWorkingRows
<1> QED
  BY <1>7, <1>8, <1>9, <1>10, <1>11, <1>12 DEF ServiceInv

(* Steps that change only the requests: each one is as it was, or agrees   *)
(* with the row and the order of now.                                      *)
LEMMA RequestsSafe ==
  ASSUME ServiceInv,
         pc' = pc, ack' = ack, status' = status, filled_at' = filled_at,
         kill_switch' = kill_switch, late' = late, faults' = faults, order' = order,
         \A s \in requests' : s \in requests \/
           /\ pc[s.order] = "answered"
           /\ order[s.order] # NoOrder
           /\ Backs(order[s.order], s.loaded)
           /\ s.raw # "unknown" => Later(s.raw, order[s.order])
           /\ s.raw \in Halts => "halted" \in faults
           /\ s.kind = "cancel" /\ s.step = "answered" /\ "cancel_refused" \notin faults =>
                order[s.order].raw \notin Working
  PROVE  ServiceInv'
<1>1. RowNeverAhead' /\ LateOrdersWait' /\ WorkingOrdersHaveWorkingRows'
  BY DEF ServiceInv, RowNeverAhead, LateOrdersWait, WorkingOrdersHaveWorkingRows
<1>2. InFlightNeverAhead'
  BY DEF ServiceInv, InFlightNeverAhead
<1>3. RowsFollowPlace'
  BY DEF ServiceInv, RowsFollowPlace
<1>4. EachFaultHasItsPlace'
  BY DEF ServiceInv, EachFaultHasItsPlace
<1> QED
  BY <1>1, <1>2, <1>3, <1>4 DEF ServiceInv

LEMMA LoadSafe ==
  ASSUME TypeInv, ServiceInv, NEW q \in Requests, NEW o \in Orders,
         CancelLoad(q, o) \/ RefreshLoad(q, o), UNCHANGED faults
  PROVE  ServiceInv'
<1>1. PICK kind : Load(q, kind, o) /\ status[o] # "NONE"
  BY DEF CancelLoad, RefreshLoad
<1>2. pc[o] = "answered" /\ Backs(order[o], status[o])
  BY <1>1 DEF ServiceInv, RowsFollowPlace, RowNeverAhead
<1>3. "unknown" \notin Halts
  BY DEF Halts
<1>4. order[o] # NoOrder
  <2>1. CASE CancelLoad(q, o)
    BY <1>2, <2>1 DEF CancelLoad, Backs, NoOrder, Order, TypeInv, TypeOK, OrderStatus
  <2>2. CASE RefreshLoad(q, o)
    BY <2>2 DEF RefreshLoad, TypeInv, IdsAreReal, NoOrder, Order
  <2> QED
    BY <2>1, <2>2
<1> QED
  BY <1>1, <1>2, <1>3, <1>4, RequestsSafe DEF Load, rows, switch

(* A commit by a request: it is over, and the row backs what it wrote. *)
LEMMA CommitSafe ==
  ASSUME TypeInv, ServiceInv, NEW r \in requests, NEW new, NEW fill \in BOOLEAN,
         pc' = pc, ack' = ack, kill_switch' = kill_switch, late' = late, order' = order,
         faults' = faults,
         status' = [status EXCEPT ![r.order] = new],
         filled_at' = [filled_at EXCEPT ![r.order] = fill],
         requests' \subseteq requests,
         Backs(order[r.order], new),
         fill => Backs(order[r.order], "FILLED"),
         order[r.order].raw \in Working =>
           \/ new \in {"SUBMITTED", "PARTIAL"}
           \/ new = "REJECTED" /\ "halted" \in faults
           \/ new = "CANCELLED" /\ faults \cap {"cancel_refused", "halted"} # {}
           \/ new = status[r.order]
  PROVE  ServiceInv'
<1> USE DEF TypeInv, TypeOK
<1>1. pc[r.order] = "answered" /\ r.order \in Orders
  BY DEF ServiceInv, RowsFollowPlace
<1>2. RowNeverAhead'
  BY DEF ServiceInv, RowNeverAhead
<1>3. RowsFollowPlace'
  BY <1>1 DEF ServiceInv, RowsFollowPlace
<1>4. WorkingOrdersHaveWorkingRows'
  BY DEF ServiceInv, WorkingOrdersHaveWorkingRows
<1>5. InFlightNeverAhead' /\ LateOrdersWait' /\ EachFaultHasItsPlace'
  BY DEF ServiceInv, InFlightNeverAhead, LateOrdersWait, EachFaultHasItsPlace
<1> QED
  BY <1>2, <1>3, <1>4, <1>5 DEF ServiceInv

LEMMA CancelCommitSafe ==
  ASSUME TypeInv, ServiceInv, NEW r \in requests, CancelCommit(r), UNCHANGED faults
  PROVE  ServiceInv'
<1>1. r \in RequestType /\ r.kind = "cancel" /\ r.step = "answered"
  BY DEF TypeInv, TypeOK, RequestType, CancelCommit
<1>2. Backs(order[r.order], "CANCELLED")
  BY <1>1 DEF ServiceInv, InFlightNeverAhead, Backs
<1>3. order[r.order].raw \in Working => "cancel_refused" \in faults
  BY <1>1 DEF ServiceInv, EachFaultHasItsPlace
<1>4. filled_at' = [filled_at EXCEPT ![r.order] = filled_at[r.order]]
  BY <1>1 DEF CancelCommit, TypeInv, TypeOK
<1>5. filled_at[r.order] \in BOOLEAN /\ (filled_at[r.order] => Backs(order[r.order], "FILLED"))
  BY <1>1 DEF TypeInv, TypeOK, RequestType, ServiceInv, RowNeverAhead
<1> QED
  BY <1>2, <1>3, <1>4, <1>5, CommitSafe DEF CancelCommit, switch

LEMMA RefreshCommitSafe ==
  ASSUME TypeInv, ServiceInv, NEW r \in requests, RefreshCommit(r), UNCHANGED faults
  PROVE  ServiceInv'
<1>1. r \in RequestType
  BY DEF TypeInv, TypeOK, RequestType
<1> DEFINE mapped == Mapped(r.raw, r.loaded)
           new    == IF mapped = r.loaded THEN status[r.order] ELSE mapped
           fill   == IF mapped = "FILLED" THEN TRUE ELSE filled_at[r.order]
<1>2. /\ status' = [status EXCEPT ![r.order] = new]
      /\ filled_at' = [filled_at EXCEPT ![r.order] = fill]
      /\ fill \in BOOLEAN
  BY <1>1 DEF RefreshCommit, TypeInv, TypeOK, RequestType
<1>3. /\ Backs(order[r.order], r.loaded) /\ Backs(order[r.order], status[r.order])
      /\ filled_at[r.order] => Backs(order[r.order], "FILLED")
      /\ order[r.order] \in BrokerOrder
  BY <1>1 DEF ServiceInv, InFlightNeverAhead, RowNeverAhead, RequestType, TypeInv, TypeOK, BrokerOrder
<1>4. CASE mapped = r.loaded
  <2>1. new = status[r.order] /\ (fill => Backs(order[r.order], "FILLED"))
    BY <1>3, <1>4
  <2> HIDE DEF mapped, new, fill
  <2> QED
    BY <1>2, <1>3, <2>1, CommitSafe DEF RefreshCommit, switch
<1>5. CASE mapped # r.loaded
  <2>1. /\ r.raw \in RawStatus /\ Later(r.raw, order[r.order])
        /\ r.raw \in Halts => "halted" \in faults
    BY <1>1, <1>5, MappedIsAStatus DEF RequestType, ServiceInv, InFlightNeverAhead
  <2>2. new = mapped /\ Backs(order[r.order], mapped)
    BY <1>3, <1>5, <2>1, MappedIsBacked
  <2>3. order[r.order].raw \in Working =>
          \/ mapped \in {"SUBMITTED", "PARTIAL"}
          \/ mapped \in {"CANCELLED", "REJECTED"} /\ "halted" \in faults
    BY <1>3, <2>1, MappedOfWorking
  <2>4. fill => Backs(order[r.order], "FILLED")
    BY <1>3, <2>2
  <2> HIDE DEF mapped, new, fill
  <2> QED
    BY <1>2, <2>2, <2>3, <2>4, CommitSafe DEF RefreshCommit, switch
<1> QED
  BY <1>4, <1>5

(* The answer to a request becomes part of it. *)
LEMMA AnsweredIs ==
  ASSUME NEW r \in RequestType, NEW raw, Answered(r, raw)
  PROVE  \A s \in requests' : s \in requests \/
           (/\ s.order = r.order /\ s.kind = r.kind /\ s.loaded = r.loaded
            /\ s.step = "answered" /\ s.raw = raw)
<1> DEFINE new == [r EXCEPT !.step = "answered", !.raw = raw]
<1>1. /\ new.order = r.order /\ new.kind = r.kind /\ new.loaded = r.loaded
      /\ new.step = "answered" /\ new.raw = raw
  BY DEF RequestType
<1>2. requests' = (requests \ {r}) \cup {new}
  BY DEF Answered
<1> HIDE DEF new
<1> QED
  BY <1>1, <1>2

LEMMA RefreshGetSafe ==
  ASSUME TypeInv, ServiceInv, NEW r \in requests, RefreshGet(r), UNCHANGED faults
  PROVE  ServiceInv'
<1>1. r \in RequestType /\ r.kind = "refresh"
  BY DEF TypeInv, TypeOK, RequestType, RefreshGet
<1>2. PICK raw \in {order[r.order].raw, "unknown"} : Answered(r, raw)
  BY DEF RefreshGet
<1>3. /\ order[r.order].raw \in RawStatus /\ order[r.order] \in BrokerOrder
      /\ order[r.order] # NoOrder
  BY <1>1 DEF TypeInv, TypeOK, IdsAreReal, RequestType, BrokerOrder, NoOrder, Order
<1>4. /\ Sound(order[r.order])
      /\ order[r.order].raw \in Halts => "halted" \in faults
  BY <1>1 DEF ServiceInv, InFlightNeverAhead, RequestType, Sound
<1>5. Later(order[r.order].raw, order[r.order])
  BY <1>3, <1>4 DEF Later, Sound, BrokerOrder
<1>6. pc[r.order] = "answered" /\ Backs(order[r.order], r.loaded)
  BY DEF ServiceInv, RowsFollowPlace, InFlightNeverAhead
<1>7. "unknown" \notin Halts
  BY DEF Halts
<1>8. \A s \in requests' : s \in requests \/
        (s.order = r.order /\ s.kind = "refresh" /\ s.loaded = r.loaded /\ s.raw = raw)
  BY <1>1, <1>2, AnsweredIs
<1>9. raw # "unknown" => /\ Later(raw, order[r.order])
                         /\ raw \in Halts => "halted" \in faults
  BY <1>4, <1>5
<1> QED
  BY <1>3, <1>6, <1>7, <1>8, <1>9, RequestsSafe DEF RefreshGet, rows, switch

LEMMA CancelAtBrokerSafe ==
  ASSUME TypeInv, ServiceInv, NEW r \in requests, CancelAtBroker(r), UNCHANGED faults
  PROVE  ServiceInv'
<1>1. r \in RequestType /\ r.kind = "cancel" /\ Answered(r, "unknown")
  BY DEF TypeInv, TypeOK, RequestType, CancelAtBroker
<1>2. pc[r.order] = "answered" /\ order[r.order] # NoOrder /\ Backs(order[r.order], r.loaded)
  BY DEF ServiceInv, RowsFollowPlace, InFlightNeverAhead
<1>3. \A s \in requests' : s \in requests \/
        (s.order = r.order /\ s.loaded = r.loaded /\ s.raw = "unknown")
  BY <1>1, AnsweredIs
<1>4. ASSUME order[r.order].raw \in Working, NEW raw \in {"canceled", "pending_cancel"},
             order' = [order EXCEPT ![r.order] = Becomes(@, raw)]
      PROVE  ServiceInv'
  <2>1. raw \in RawStatus /\ raw \notin Working /\ raw \notin Halts /\ r.order \in Orders
    BY <1>1, TheStatuses DEF Working, Halts, RequestType
  <2> QED
    BY <1>1, <1>3, <1>4, <2>1, OrderMovesOnSafe DEF CancelAtBroker, rows, switch
<1>5. CASE /\ order[r.order].raw \notin Working \/ "cancel_refused" \in faults
           /\ order' = order
  <2>1. "unknown" \notin Halts
    BY DEF Halts
  <2> QED
    BY <1>1, <1>2, <1>3, <1>5, <2>1, RequestsSafe DEF CancelAtBroker, rows, switch
<1> QED
  BY <1>4, <1>5 DEF CancelAtBroker

LEMMA StepSafe == TypeInv /\ ServiceInv /\ [Next]_vars => ServiceInv'
<1> SUFFICES ASSUME TypeInv, ServiceInv, [Next]_vars  PROVE ServiceInv'
  OBVIOUS
<1>0. UNCHANGED faults
  BY DEF Next, vars
<1>1. ASSUME NEW o \in Orders, Place(o)  PROVE ServiceInv'
  BY <1>0, <1>1, PlaceQuietlySafe, PostSafe DEF Place
<1>2. ASSUME NEW o \in Orders, BrokerStep(o)  PROVE ServiceInv'
  <2>1. PICK raw \in Ahead(order[o]) : /\ raw \in Halts => "halted" \in faults
                                       /\ order' = [order EXCEPT ![o] = Becomes(@, raw)]
    BY <1>2 DEF BrokerStep
  <2>2. raw \in RawStatus
    BY OrderServiceAssumption, TheStatuses DEF Ahead
  <2> QED
    BY <1>0, <1>2, <2>1, <2>2, OrderMovesOnSafe DEF BrokerStep, rows, switch
<1>3. CASE Serve
  <2>1. ASSUME NEW r \in requests, RequestEnds(r)  PROVE ServiceInv'
    BY <1>0, <2>1, RequestsSafe DEF RequestEnds, rows, switch
  <2> QED
    BY <1>0, <1>3, <2>1, LoadSafe, CancelAtBrokerSafe, CancelCommitSafe, RefreshGetSafe,
       RefreshCommitSafe DEF Serve
<1>4. CASE EngageKillSwitch \/ DisengageKillSwitch
  <2>1. /\ UNCHANGED <<pc, ack, status, filled_at, requests, order, faults>>
    BY <1>0, <1>4 DEF EngageKillSwitch, DisengageKillSwitch, rows
  <2>2. RowNeverAhead' /\ InFlightNeverAhead' /\ RowsFollowPlace' /\ EachFaultHasItsPlace'
    BY <2>1 DEF ServiceInv, RowNeverAhead, InFlightNeverAhead, RowsFollowPlace, EachFaultHasItsPlace
  <2>3. WorkingOrdersHaveWorkingRows'
    BY <2>1 DEF ServiceInv, WorkingOrdersHaveWorkingRows
  <2>4. LateOrdersWait'
    BY <1>4, <2>1 DEF EngageKillSwitch, DisengageKillSwitch, ServiceInv, RowsFollowPlace, LateOrdersWait
  <2> QED
    BY <2>2, <2>3, <2>4 DEF ServiceInv
<1>5. CASE UNCHANGED vars
  <2>1. UNCHANGED <<pc, ack, status, filled_at, requests, order, faults, kill_switch, late>>
    BY <1>5 DEF vars, rows, switch
  <2>2. RowNeverAhead' /\ InFlightNeverAhead' /\ RowsFollowPlace' /\ EachFaultHasItsPlace'
    BY <2>1 DEF ServiceInv, RowNeverAhead, InFlightNeverAhead, RowsFollowPlace, EachFaultHasItsPlace
  <2>3. WorkingOrdersHaveWorkingRows' /\ LateOrdersWait'
    BY <2>1 DEF ServiceInv, WorkingOrdersHaveWorkingRows, LateOrdersWait
  <2> QED
    BY <2>2, <2>3 DEF ServiceInv
<1> QED
  BY <1>1, <1>2, <1>3, <1>4, <1>5 DEF Next

(* What place(), the requests in flight and the rows agree on in every     *)
(* reachable state (orders.py:38-119).                                     *)
THEOREM ServiceInvHolds == Spec => []ServiceInv
<1>1. Spec => []TypeInv
  BY InitTyped, StepTyped, PTL DEF Spec
<1> QED
  BY <1>1, InitSafe, StepSafe, PTL DEF Spec

(* orders.py:5-10: whatever requests interleave, fail or die, a row says   *)
(* SUBMITTED or CANCELLED only of an order the broker took, PARTIAL of one *)
(* with shares filled, EXPIRED of an expired one, and FILLED only of one   *)
(* that is filled as a whole or was done for the day.                      *)
THEOREM RowsAreNeverAhead == Spec => []RowNeverAhead
<1>1. ServiceInv => RowNeverAhead
  BY DEF ServiceInv
<1> QED
  BY <1>1, ServiceInvHolds, PTL

(* manager.py:101-103: no order begun while the kill switch is engaged     *)
(* reaches the broker before the switch is released.                       *)
THEOREM KillSwitchHolds == Spec => []KillSwitchStopsNewOrders
<1>1. ServiceInv => KillSwitchStopsNewOrders
  BY DEF ServiceInv, LateOrdersWait, KillSwitchStopsNewOrders
<1> QED
  BY <1>1, ServiceInvHolds, PTL

(* orders.py:12: an order the broker works on has a working row, or is     *)
(* about to have one, but for what a lost reply, a refused cancel, a killed *)
(* process or a halted order brings, each in its own way.                  *)
THEOREM QuietRowsMatch == Spec => []WorkingOrdersHaveWorkingRows
<1>1. ServiceInv => WorkingOrdersHaveWorkingRows
  BY DEF ServiceInv
<1> QED
  BY <1>1, ServiceInvHolds, PTL

-----------------------------------------------------------------------------
(* HttpAdapter and OrderPoller                                             *)

(* The queue of the lock holds the tasks that acquire, each once. *)
QueueHoldsWaiters ==
  /\ \A i \in DOMAIN queue : step[queue[i]] = "acquire"
  /\ \A i, j \in DOMAIN queue : i # j => queue[i] # queue[j]
  /\ \A c \in Callers : step[c] = "acquire" => \E i \in DOMAIN queue : queue[i] = c

(* Who sleeps while it acquires has the lock, and its bucket will hold a   *)
(* token when it wakes.                                                    *)
SleeperGetsToken ==
  \A c \in Callers :
    step[c] = "acquire" /\ until[c] # 0 =>
      /\ c = Head(queue)
      /\ tokens + (until[c] - last) * Capacity >= PerTicks

(* Only a task that acquires or waits sleeps, and the poller between two   *)
(* polls; a task with a request is at one of its attempts.                 *)
SleepsWhereItMay ==
  \A c \in Callers :
    /\ step[c] \in {"send", "done", "failed"} => until[c] = 0
    /\ step[c] = "idle" /\ until[c] # 0 => c = Poller /\ phase = "asleep"
    /\ step[c] # "idle" => attempt[c] # 0

AdapterCore == AdapterTypeOK /\ QueueHoldsWaiters /\ SleeperGetsToken /\ BucketInv

(* What an answer p of an order says of shares was true once, and the      *)
(* order o has at least as many now; what it says of an end is true for    *)
(* good.                                                                   *)
Answers == [status : Statuses, filled_qty : 0 .. Quantity]

TrueOf(p, o) ==
  \/ p \in {Nothing, NotADict}
  \/ /\ p \in Answers
     /\ p.filled_qty <= o.filled_qty
     /\ p.status \in Final => p = o

(* An answer, on its way or kept, is of the order the poller is at.        *)
AnswersAreTrue ==
  /\ phase # "get" => payload = Nothing
  /\ last_payload # NotADict
  /\ IF Current <= Acks
     THEN TrueOf(payload, orders[Current]) /\ TrueOf(last_payload, orders[Current])
     ELSE payload = Nothing /\ last_payload = Nothing

ReportsStayTrue ==
  /\ out \in Seq([last : Answers \cup {Nothing}, polls : 0 .. MaxPolls])
  /\ \A n \in DOMAIN out :
       /\ TrueOf(out[n].last, orders[n])
       /\ out[n].last.status \notin _TERMINAL_STATUSES => out[n].polls = MaxPolls

(* The broker fills only an order that has shares left to fill. *)
WorkingHasRoom ==
  \A n \in 1 .. Acks :
    orders[n].status \in {"new", "partially_filled"} => orders[n].filled_qty < Quantity

(* Where the poller is says what it still has to do. *)
PhaseMeans ==
  /\ phase \notin {"no session", "poll"} => Current <= Acks
  /\ phase = "report" => last_payload.status \in _TERMINAL_STATUSES \/ polls = MaxPolls

PollerCore ==
  /\ PollerTypeOK
  /\ AnswersAreTrue
  /\ ReportsStayTrue
  /\ WorkingHasRoom
  /\ PhaseMeans

Inv == AdapterCore /\ SleepsWhereItMay /\ PollerCore

-----------------------------------------------------------------------------
(* Sequences and the arithmetic of the bucket. *)

LEMMA TailOfQueue ==
  ASSUME NEW S, NEW s \in Seq(S), s # <<>>
  PROVE  /\ Tail(s) \in Seq(S)
         /\ Head(s) = s[1] /\ 1 \in DOMAIN s
         /\ DOMAIN Tail(s) = 1 .. (Len(s) - 1) /\ DOMAIN s = 1 .. Len(s) /\ Len(s) \in Nat
         /\ \A i \in 1 .. (Len(s) - 1) : Tail(s)[i] = s[i + 1]
  OBVIOUS

LEMMA ElementOf ==
  ASSUME NEW S, NEW s \in Seq(S), NEW n \in DOMAIN s
  PROVE  s[n] \in S
  OBVIOUS

LEMMA NothingIn == DOMAIN <<>> = {} /\ \A S : <<>> \in Seq(S)
  OBVIOUS

LEMMA AppendToQueue ==
  ASSUME NEW S, NEW s \in Seq(S), NEW x \in S
  PROVE  /\ Append(s, x) \in Seq(S)
         /\ Len(Append(s, x)) = Len(s) + 1 /\ Len(s) \in Nat
         /\ DOMAIN s = 1 .. Len(s) /\ DOMAIN Append(s, x) = 1 .. (Len(s) + 1)
         /\ \A i \in 1 .. Len(s) : Append(s, x)[i] = s[i]
         /\ Append(s, x)[Len(s) + 1] = x
  OBVIOUS

LEMMA CeilingCovers ==
  ASSUME NEW d \in Nat, NEW c \in Nat \ {0}
  PROVE  /\ (d + c - 1) \div c \in Nat
         /\ ((d + c - 1) \div c) * c >= d
  OBVIOUS

LEMMA ProductsGrow ==
  ASSUME NEW a \in Int, NEW b \in Int, a <= b, NEW c \in Nat
  PROVE  a * c <= b * c
<1>1. (b - a) * c >= 0
  OBVIOUS
<1> QED
  BY <1>1

(* What a refill is: never more than full, nor than the time has brought,  *)
(* and never less than there was.                                          *)
LEMMA RefillBounds ==
  ASSUME AdapterTypeOK
  PROVE  /\ Refilled \in Nat
         /\ Refilled <= Full
         /\ Refilled <= tokens + (now - last) * Capacity
         /\ tokens <= Refilled
         /\ Full \in Nat /\ PerTicks <= Full
<1>1. /\ now - last \in Nat /\ tokens \in Nat /\ tokens <= Full
      /\ Capacity \in Nat \ {0} /\ PerTicks \in Nat \ {0}
  BY AdapterAssumption DEF AdapterTypeOK
<1>2. (now - last) * Capacity \in Nat
  BY <1>1
<1>3. Full \in Nat /\ PerTicks <= Full
  BY <1>1 DEF Full
<1> QED
  BY <1>1, <1>2, <1>3 DEF Refilled

(* A refill over a time e after a time d, seen over both.                  *)
LEMMA RefillOverBoth ==
  ASSUME NEW d \in Int, NEW e \in Int, NEW c \in Nat, NEW x \in Int,
         NEW tok \in Int, NEW refilled \in Int, NEW f \in Int,
         refilled <= tok + e * c, tok + x <= f + d * c
  PROVE  refilled + x <= f + (d + e) * c
<1>1. (d + e) * c = d * c + e * c /\ d * c \in Int /\ e * c \in Int
  OBVIOUS
<1> QED
  BY <1>1

LEMMA OneMore ==
  ASSUME NEW n \in Int, NEW p \in Int
  PROVE  /\ n * p \in Int /\ (n + 1) * p = n * p + p
  OBVIOUS

-----------------------------------------------------------------------------
(* The bucket: what each of its two steps leaves in it. *)

LEMMA TakeKeepsBudget ==
  ASSUME AdapterTypeOK, BucketInv, NEW c \in Callers, TakeToken(c)
  PROVE  BucketInv'
<1> DEFINE L == Len(calls)
           R == Refilled
<1>1. /\ calls' = Append(calls, now)
      /\ tokens' = R - PerTicks /\ last' = now /\ PerTicks <= R
  BY DEF TakeToken
<1>2. /\ calls \in Seq(Nat) /\ L \in Nat /\ now \in Nat /\ last \in Nat /\ last <= now
      /\ tokens \in Nat /\ Capacity \in Nat /\ PerTicks \in Nat
  BY AdapterAssumption DEF AdapterTypeOK
<1>3. /\ R \in Nat /\ R <= Full /\ R <= tokens + (now - last) * Capacity /\ Full \in Nat
  BY RefillBounds
<1>4. /\ Len(calls') = L + 1
      /\ \A i \in 1 .. L : calls'[i] = calls[i] /\ calls[i] \in Nat
      /\ calls'[L + 1] = now
  BY <1>1, <1>2
<1> HIDE DEF R, L
<1>5. ASSUME NEW i \in 1 .. L
      PROVE  /\ calls[i] <= now
             /\ R + (L - i + 1) * PerTicks <= Full + (now - calls[i]) * Capacity
  <2>1. /\ calls[i] <= last
        /\ tokens + (L - i + 1) * PerTicks <= Full + (last - calls[i]) * Capacity
    BY DEF BucketInv, L
  <2> DEFINE x == (L - i + 1) * PerTicks
             d == last - calls[i]
             e == now - last
  <2>2. /\ calls[i] \in Nat /\ d \in Int /\ e \in Int /\ x \in Int
        /\ d + e = now - calls[i]
    BY <1>4, <1>2
  <2>3. tokens + x <= Full + d * Capacity /\ R <= tokens + e * Capacity
    BY <1>3, <2>1
  <2> HIDE DEF x, d, e
  <2>4. R + x <= Full + (d + e) * Capacity
    BY <1>2, <1>3, <2>2, <2>3, RefillOverBoth
  <2>5. calls[i] <= now
    BY <1>2, <2>1, <2>2
  <2> QED
    BY <2>2, <2>4, <2>5 DEF x
<1>6. ASSUME NEW i \in 1 .. (L + 1)
      PROVE  /\ calls'[i] \in Nat /\ calls'[i] <= now
             /\ R + (L - i + 1) * PerTicks <= Full + (now - calls'[i]) * Capacity
  <2>1. CASE i \in 1 .. L
    BY <1>2, <1>4, <1>5, <2>1
  <2>2. CASE i = L + 1
    <3>1. (L - i + 1) * PerTicks = 0 /\ (now - calls'[i]) * Capacity = 0
      BY <1>2, <1>4, <2>2
    <3> QED
      BY <1>2, <1>3, <1>4, <2>2, <3>1
  <2> QED
    BY <1>2, <2>1, <2>2
<1>7. ASSUME NEW i \in 1 .. (L + 1)
      PROVE  tokens' + ((L + 1) - i + 1) * PerTicks <= Full + (now - calls'[i]) * Capacity
  <2> DEFINE n == L - i + 1
             Y == (now - calls'[i]) * Capacity
  <2>1. /\ n \in Int /\ (L + 1) - i + 1 = n + 1 /\ Y \in Int
    BY <1>2, <1>6
  <2>2. R + n * PerTicks <= Full + Y
    BY <1>6
  <2> HIDE DEF n, Y
  <2>3. n * PerTicks \in Int /\ (n + 1) * PerTicks = n * PerTicks + PerTicks
    BY <1>2, <2>1, OneMore
  <2>4. tokens' + (n + 1) * PerTicks <= Full + Y
    BY <1>1, <1>2, <1>3, <2>1, <2>2, <2>3
  <2> QED
    BY <2>1, <2>4 DEF Y
<1>8. tokens' + (L + 1) * PerTicks <= PerTicks + now * Capacity
  <2>1. tokens + L * PerTicks <= PerTicks + last * Capacity
    BY DEF BucketInv, L
  <2>2. last * Capacity + (now - last) * Capacity = now * Capacity
    BY <1>2
  <2>3. (L + 1) * PerTicks = L * PerTicks + PerTicks
    BY <1>2
  <2>4. L * PerTicks \in Int /\ last * Capacity \in Int /\ (now - last) * Capacity \in Int
    BY <1>2
  <2> QED
    BY <1>1, <1>2, <1>3, <2>1, <2>2, <2>3, <2>4
<1>9. ASSUME NEW i \in 1 .. (L + 1), NEW j \in 1 .. (L + 1), i <= j
      PROVE  (j - i + 1) * PerTicks <= Full + (calls'[j] - calls'[i]) * Capacity
  <2>1. CASE j \in 1 .. L
    <3>1. i \in 1 .. L
      BY <1>2, <1>9, <2>1
    <3>2. (j - i + 1) * PerTicks <= Full + (calls[j] - calls[i]) * Capacity
      BY <1>9, <2>1, <3>1 DEF BucketInv, WindowBudget, L
    <3>3. calls'[j] = calls[j] /\ calls'[i] = calls[i]
      BY <1>4, <2>1, <3>1
    <3> QED
      BY <3>2, <3>3
  <2>2. CASE j = L + 1
    <3>1. tokens' \in Nat
      BY <1>1, <1>2, <1>3
    <3>2. tokens' + ((L + 1) - i + 1) * PerTicks <= Full + (now - calls'[i]) * Capacity
      BY <1>7
    <3>3. ((L + 1) - i + 1) * PerTicks \in Int /\ (now - calls'[i]) * Capacity \in Int
      BY <1>2, <1>6
    <3>4. ((L + 1) - i + 1) * PerTicks <= Full + (now - calls'[i]) * Capacity
      BY <1>3, <3>1, <3>2, <3>3
    <3>5. /\ (j - i + 1) * PerTicks = ((L + 1) - i + 1) * PerTicks
          /\ (calls'[j] - calls'[i]) * Capacity = (now - calls'[i]) * Capacity
      BY <1>4, <2>2
    <3> QED
      BY ONLY <3>4, <3>5
  <2> QED
    BY <1>2, <2>1, <2>2
<1> QED
  BY <1>1, <1>4, <1>6, <1>7, <1>8, <1>9 DEF BucketInv, WindowBudget

LEMMA RefillKeepsBudget ==
  ASSUME AdapterTypeOK, BucketInv, NEW c \in Callers, AwaitToken(c)
  PROVE  BucketInv'
<1> DEFINE L == Len(calls)
           R == Refilled
<1>1. calls' = calls /\ tokens' = R /\ last' = now
  BY DEF AwaitToken
<1>2. /\ calls \in Seq(Nat) /\ L \in Nat /\ now \in Nat /\ last \in Nat /\ last <= now
      /\ tokens \in Nat /\ Capacity \in Nat /\ PerTicks \in Nat
      /\ \A i \in 1 .. L : calls[i] \in Nat
  BY AdapterAssumption DEF AdapterTypeOK
<1>3. /\ R \in Nat /\ R <= tokens + (now - last) * Capacity /\ Full \in Nat
  BY RefillBounds
<1> HIDE DEF R
<1>4. ASSUME NEW i \in 1 .. L
      PROVE  /\ calls[i] <= now
             /\ R + (L - i + 1) * PerTicks <= Full + (now - calls[i]) * Capacity
  <2>1. /\ calls[i] <= last
        /\ tokens + (L - i + 1) * PerTicks <= Full + (last - calls[i]) * Capacity
    BY DEF BucketInv
  <2> DEFINE x == (L - i + 1) * PerTicks
             d == last - calls[i]
             e == now - last
  <2>2. /\ calls[i] \in Nat /\ d \in Int /\ e \in Int /\ x \in Int
        /\ d + e = now - calls[i]
    BY <1>2, <1>2
  <2>3. tokens + x <= Full + d * Capacity /\ R <= tokens + e * Capacity
    BY <1>3, <2>1
  <2> HIDE DEF x, d, e
  <2>4. R + x <= Full + (d + e) * Capacity
    BY <1>2, <1>3, <2>2, <2>3, RefillOverBoth
  <2>5. calls[i] <= now
    BY <1>2, <2>1, <2>2
  <2> QED
    BY <2>2, <2>4, <2>5 DEF x
<1>5. R + L * PerTicks <= PerTicks + now * Capacity
  <2>1. tokens + L * PerTicks <= PerTicks + last * Capacity
    BY DEF BucketInv
  <2>2. last * Capacity + (now - last) * Capacity = now * Capacity
    BY <1>2
  <2>3. L * PerTicks \in Int /\ last * Capacity \in Int /\ (now - last) * Capacity \in Int
    BY <1>2
  <2> HIDE DEF L
  <2> QED
    BY <1>2, <1>3, <2>1, <2>2, <2>3
<1> QED
  BY <1>1, <1>4, <1>5 DEF BucketInv, WindowBudget

-----------------------------------------------------------------------------
(* The queue of the lock and who sleeps with it in hand. *)

LEMMA Enqueue ==
  ASSUME AdapterCore, NEW c \in Callers, step[c] # "acquire",
         step' = [step EXCEPT ![c] = "acquire"],
         queue' = Append(queue, c),
         until'[c] = 0, \A d \in Callers \ {c} : until'[d] = until[d],
         UNCHANGED <<tokens, last>>
  PROVE  QueueHoldsWaiters' /\ SleeperGetsToken'
<1> DEFINE L == Len(queue)
<1>1. /\ queue' \in Seq(Callers) /\ queue \in Seq(Callers)
      /\ Len(queue') = L + 1 /\ L \in Nat
      /\ DOMAIN queue = 1 .. L /\ DOMAIN queue' = 1 .. (L + 1)
      /\ \A i \in 1 .. L : queue'[i] = queue[i]
      /\ queue'[L + 1] = c
  BY AppendToQueue DEF AdapterCore, AdapterTypeOK
<1> HIDE DEF L
<1>2. /\ \A i \in 1 .. L : step[queue[i]] = "acquire"
      /\ \A i, j \in 1 .. L : i # j => queue[i] # queue[j]
      /\ \A d \in Callers : step[d] = "acquire" => \E i \in 1 .. L : queue[i] = d
  BY <1>1 DEF AdapterCore, QueueHoldsWaiters
<1>3. \A d \in Callers : step'[d] = IF d = c THEN "acquire" ELSE step[d]
  BY DEF AdapterCore, AdapterTypeOK
<1>4. \A i \in 1 .. L : queue[i] \in Callers \ {c}
  BY <1>1, <1>2
<1>5. QueueHoldsWaiters'
  <2>1. ASSUME NEW i \in 1 .. (L + 1)  PROVE step'[queue'[i]] = "acquire"
    BY <1>1, <1>2, <1>3, <1>4
  <2>2. ASSUME NEW i \in 1 .. (L + 1), NEW j \in 1 .. (L + 1), i # j
        PROVE  queue'[i] # queue'[j]
    BY <1>1, <1>2, <1>4, <2>2
  <2>3. ASSUME NEW d \in Callers, step'[d] = "acquire"
        PROVE  \E i \in 1 .. (L + 1) : queue'[i] = d
    BY <1>1, <1>2, <1>3, <2>3
  <2> QED
    BY <1>1, <2>1, <2>2, <2>3, SMTT(40) DEF QueueHoldsWaiters
<1>6. SleeperGetsToken'
  <2> SUFFICES ASSUME NEW d \in Callers, step'[d] = "acquire", until'[d] # 0
               PROVE  /\ d = Head(queue')
                      /\ tokens + (until'[d] - last) * Capacity >= PerTicks
    BY DEF SleeperGetsToken
  <2>1. d # c /\ step[d] = "acquire" /\ until'[d] = until[d]
    BY <1>3
  <2>2. d = Head(queue) /\ tokens + (until[d] - last) * Capacity >= PerTicks
    BY <2>1 DEF AdapterCore, SleeperGetsToken
  <2>3. PICK i \in 1 .. L : queue[i] = d
    BY <1>2, <2>1
  <2>4. Head(queue) = queue[1] /\ Head(queue') = queue'[1] /\ 1 \in 1 .. L
    BY <1>1, <2>3 DEF L
  <2> QED
    BY <1>1, <2>1, <2>2, <2>4
<1> QED
  BY <1>5, <1>6

(* A step of a task that is not at the lock. *)
LEMMA AwayFromLock ==
  ASSUME AdapterCore, NEW c \in Callers, step[c] # "acquire", NEW x, x # "acquire",
         step' = [step EXCEPT ![c] = x],
         \A d \in Callers \ {c} : until'[d] = until[d],
         UNCHANGED <<queue, tokens, last>>
  PROVE  QueueHoldsWaiters' /\ SleeperGetsToken'
<1>1. \A d \in Callers : step'[d] = IF d = c THEN x ELSE step[d]
  BY DEF AdapterCore, AdapterTypeOK
<1>2. \A i \in DOMAIN queue : queue[i] \in Callers
  BY DEF AdapterCore, AdapterTypeOK
<1>3. QueueHoldsWaiters'
  BY <1>1, <1>2 DEF AdapterCore, QueueHoldsWaiters
<1>4. SleeperGetsToken'
  BY <1>1 DEF AdapterCore, SleeperGetsToken
<1> QED
  BY <1>3, <1>4

LEMMA TakeMovesQueue ==
  ASSUME AdapterCore, NEW c \in Callers, TakeToken(c)
  PROVE  queue' \in Seq(Callers) /\ QueueHoldsWaiters' /\ SleeperGetsToken'
<1> DEFINE L == Len(queue)
<1>1. /\ step[c] = "acquire" /\ c = Head(queue)
      /\ queue' = Tail(queue)
      /\ step' = [step EXCEPT ![c] = "send"]
      /\ until' = [until EXCEPT ![c] = 0]
  BY DEF TakeToken, HasLock, Enters, Awake
<1>2. queue \in Seq(Callers) /\ queue # <<>>
  BY <1>1 DEF AdapterCore, AdapterTypeOK, QueueHoldsWaiters
<1>3. /\ queue' \in Seq(Callers) /\ c = queue[1] /\ 1 \in 1 .. L
      /\ DOMAIN queue' = 1 .. (L - 1) /\ DOMAIN queue = 1 .. L /\ L \in Nat
      /\ \A i \in 1 .. (L - 1) : queue'[i] = queue[i + 1]
  BY <1>1, <1>2, TailOfQueue
<1>9. \A i \in 1 .. L : queue[i] \in Callers
  BY <1>2
<1> HIDE DEF L
<1>4. /\ \A i \in 1 .. L : step[queue[i]] = "acquire"
      /\ \A i \in 1 .. L : queue[i] \in Callers
      /\ \A i, j \in 1 .. L : i # j => queue[i] # queue[j]
      /\ \A d \in Callers : step[d] = "acquire" => \E i \in 1 .. L : queue[i] = d
  BY <1>3, <1>9 DEF AdapterCore, QueueHoldsWaiters
<1>5. \A d \in Callers : step'[d] = IF d = c THEN "send" ELSE step[d]
  BY <1>1 DEF AdapterCore, AdapterTypeOK
<1>6. \A i \in 1 .. (L - 1) : i + 1 \in 1 .. L /\ i + 1 # 1
  BY <1>3
<1>7. QueueHoldsWaiters'
  <2>1. ASSUME NEW i \in 1 .. (L - 1)  PROVE step'[queue'[i]] = "acquire"
    <3>1. queue[i + 1] # queue[1] /\ queue[i + 1] \in Callers
      BY <1>3, <1>4, <1>6
    <3>2. step[queue[i + 1]] = "acquire"
      BY <1>4, <1>6
    <3> QED
      BY <1>3, <1>5, <3>1, <3>2
  <2>2. ASSUME NEW i \in 1 .. (L - 1), NEW j \in 1 .. (L - 1), i # j
        PROVE  queue'[i] # queue'[j]
    <3>1. i + 1 \in 1 .. L /\ j + 1 \in 1 .. L /\ i + 1 # j + 1
      BY <1>3, <2>2
    <3> QED
      BY <1>3, <1>4, <3>1, SMTT(40)
  <2>3. ASSUME NEW d \in Callers, step'[d] = "acquire"
        PROVE  \E i \in 1 .. (L - 1) : queue'[i] = d
    <3>1. d # c /\ step[d] = "acquire"
      BY <1>5, <2>3
    <3>2. PICK k \in 1 .. L : queue[k] = d
      BY <1>4, <3>1
    <3>3. k - 1 \in 1 .. (L - 1) /\ (k - 1) + 1 = k
      BY <1>3, <3>1, <3>2
    <3> QED
      BY <1>3, <3>2, <3>3
  <2> QED
    BY <1>3, <2>1, <2>2, <2>3 DEF QueueHoldsWaiters
<1>8. SleeperGetsToken'
  <2> SUFFICES ASSUME NEW d \in Callers, step'[d] = "acquire", until'[d] # 0
               PROVE  FALSE
    BY DEF SleeperGetsToken
  <2>1. d # c /\ step[d] = "acquire" /\ until[d] # 0
    BY <1>1, <1>5 DEF AdapterCore, AdapterTypeOK
  <2> QED
    BY <1>1, <2>1 DEF AdapterCore, SleeperGetsToken
<1> QED
  BY <1>3, <1>7, <1>8

LEMMA AwaitSleepsEnough ==
  ASSUME AdapterCore, NEW c \in Callers, AwaitToken(c)
  PROVE  /\ until' \in [Callers -> Nat] /\ tokens' \in Nat
         /\ QueueHoldsWaiters' /\ SleeperGetsToken'
<1> DEFINE short == PerTicks - Refilled
           ticks == (short + Capacity - 1) \div Capacity
<1>1. /\ step[c] = "acquire" /\ c = Head(queue) /\ Refilled < PerTicks
      /\ tokens' = Refilled /\ last' = now
      /\ until' = [until EXCEPT ![c] = now + ticks]
      /\ UNCHANGED <<queue, step>>
  BY DEF AwaitToken, HasLock, Sleep
<1>2. /\ Refilled \in Nat /\ PerTicks \in Nat /\ Capacity \in Nat \ {0} /\ now \in Nat
      /\ until \in [Callers -> Nat]
  BY RefillBounds, AdapterAssumption DEF AdapterCore, AdapterTypeOK
<1>3. short \in Nat /\ Refilled + short = PerTicks
  BY <1>1, <1>2
<1> HIDE DEF short
<1>4. ticks \in Nat /\ ticks * Capacity >= short
  BY <1>2, <1>3, CeilingCovers
<1> HIDE DEF ticks
<1>5. until' \in [Callers -> Nat] /\ until'[c] = now + ticks
  BY <1>1, <1>2, <1>4
<1>6. SleeperGetsToken'
  <2> SUFFICES ASSUME NEW d \in Callers, step[d] = "acquire", until'[d] # 0
               PROVE  /\ d = Head(queue)
                      /\ Refilled + (until'[d] - now) * Capacity >= PerTicks
    BY <1>1 DEF SleeperGetsToken
  <2>1. d = c
    BY <1>1, <1>2 DEF AdapterCore, SleeperGetsToken
  <2>2. until'[d] - now = ticks
    BY <1>2, <1>4, <1>5, <2>1
  <2>3. ticks * Capacity \in Int
    BY <1>2, <1>4
  <2>4. Refilled + ticks * Capacity >= PerTicks
    BY <1>2, <1>3, <1>4, <2>3
  <2> QED
    BY <1>1, <2>1, <2>2, <2>4
<1>7. QueueHoldsWaiters'
  BY <1>1 DEF AdapterCore, QueueHoldsWaiters
<1> QED
  BY <1>1, <1>2, <1>5, <1>6, <1>7

-----------------------------------------------------------------------------
(* Every step of the adapter keeps AdapterCore. *)

LEMMA WaitIsFinite ==
  ASSUME AdapterCore, NEW c \in Callers, attempt[c] # 0, MayBeTransient(c)
  PROVE  until' \in [Callers -> Nat]
<1> DEFINE backoff == IF HasAttempts(c) THEN Backoff(attempt[c]) ELSE 0
<1>1. backoff \in Nat
  <2>1. attempt[c] \in Nat \ {0}
    BY AdapterAssumption DEF AdapterCore, AdapterTypeOK
  <2>2. Len(Doublings) = 6 /\ \A n \in 1 .. 6 : Doublings[n] \in Nat
    BY DEF Doublings
  <2> QED
    BY <2>1, <2>2 DEF Backoff, MaxBackoff
<1>2. PICK after \in RetryAfters \cup {0} :
        until' = [until EXCEPT ![c] =
          now + ((IF after < MaxRetryAfter THEN after ELSE MaxRetryAfter) + backoff)]
  BY DEF MayBeTransient, Sleep
<1> HIDE DEF backoff
<1>3. (IF after < MaxRetryAfter THEN after ELSE MaxRetryAfter) \in Nat
  BY AdapterAssumption DEF MaxRetryAfter
<1>4. now \in Nat /\ until \in [Callers -> Nat]
  BY DEF AdapterCore, AdapterTypeOK
<1>5. now + ((IF after < MaxRetryAfter THEN after ELSE MaxRetryAfter) + backoff) \in Nat
  BY <1>1, <1>3, <1>4
<1> QED
  BY <1>2, <1>4, <1>5

LEMMA RequestKeeps ==
  ASSUME AdapterCore, NEW c \in Callers, until[c] = 0, Request(c)
  PROVE  AdapterCore'
<1>1. /\ step[c] = "idle" /\ step' = [step EXCEPT ![c] = "acquire"]
      /\ queue' = Append(queue, c) /\ attempt' = [attempt EXCEPT ![c] = 1]
      /\ UNCHANGED <<now, tokens, last, calls, until>>
  BY DEF Request, Enters, bucket
<1>2. QueueHoldsWaiters' /\ SleeperGetsToken'
  BY <1>1, Enqueue
<1>3. AdapterTypeOK'
  BY <1>1, AppendToQueue, AdapterAssumption DEF AdapterCore, AdapterTypeOK, Full
<1>4. BucketInv'
  BY <1>1 DEF AdapterCore, BucketInv, WindowBudget, Full
<1> QED
  BY <1>2, <1>3, <1>4 DEF AdapterCore

LEMMA TakeTokenKeeps ==
  ASSUME AdapterCore, NEW c \in Callers, TakeToken(c)
  PROVE  AdapterCore'
<1>1. BucketInv'
  BY TakeKeepsBudget DEF AdapterCore
<1>2. queue' \in Seq(Callers) /\ QueueHoldsWaiters' /\ SleeperGetsToken'
  BY TakeMovesQueue
<1>3. /\ Refilled >= PerTicks /\ tokens' = Refilled - PerTicks
      /\ last' = now /\ calls' = Append(calls, now)
      /\ step' = [step EXCEPT ![c] = "send"] /\ until' = [until EXCEPT ![c] = 0]
      /\ UNCHANGED <<now, attempt>>
  BY DEF TakeToken, Enters, Awake
<1>4. tokens' \in Nat /\ tokens' <= Full
  BY <1>3, RefillBounds, AdapterAssumption DEF AdapterCore
<1>5. calls' \in Seq(Nat)
  BY <1>3, AppendToQueue DEF AdapterCore, AdapterTypeOK
<1>6. AdapterTypeOK'
  BY <1>2, <1>3, <1>4, <1>5 DEF AdapterCore, AdapterTypeOK, Full
<1> QED
  BY <1>1, <1>2, <1>6 DEF AdapterCore

LEMMA AwaitTokenKeeps ==
  ASSUME AdapterCore, NEW c \in Callers, AwaitToken(c)
  PROVE  AdapterCore'
<1>1. BucketInv'
  BY RefillKeepsBudget DEF AdapterCore
<1>2. /\ until' \in [Callers -> Nat] /\ QueueHoldsWaiters' /\ SleeperGetsToken'
  BY AwaitSleepsEnough
<1>3. /\ tokens' = Refilled /\ last' = now
      /\ UNCHANGED <<now, calls, queue, step, attempt>>
  BY DEF AwaitToken
<1>4. AdapterTypeOK'
  BY <1>2, <1>3, RefillBounds DEF AdapterCore, AdapterTypeOK, Full
<1> QED
  BY <1>1, <1>2, <1>4 DEF AdapterCore

(* The answers, the waits and the returns leave the bucket alone. *)
LEMMA AnswerKeeps ==
  ASSUME AdapterCore, NEW c \in Callers, step[c] # "acquire",
         NEW x \in {"idle", "send", "wait", "done", "failed"},
         step' = [step EXCEPT ![c] = x],
         until' \in [Callers -> Nat],
         \A d \in Callers \ {c} : until'[d] = until[d],
         attempt' \in [Callers -> 0 .. MaxRetries],
         UNCHANGED <<now, tokens, last, calls, queue>>
  PROVE  AdapterCore'
<1>1. QueueHoldsWaiters' /\ SleeperGetsToken'
  BY AwayFromLock
<1>2. AdapterTypeOK'
  BY DEF AdapterCore, AdapterTypeOK, Full
<1>3. BucketInv'
  BY DEF AdapterCore, BucketInv, WindowBudget, Full
<1> QED
  BY <1>1, <1>2, <1>3 DEF AdapterCore

LEMMA RetryKeeps ==
  ASSUME AdapterCore, NEW c \in Callers, RetryOrRaise(c)
  PROVE  AdapterCore'
<1>1. /\ step[c] = "wait" /\ until' = [until EXCEPT ![c] = 0]
      /\ UNCHANGED <<now, tokens, last, calls>>
  BY DEF RetryOrRaise, Awake, bucket
<1>2. /\ until \in [Callers -> Nat] /\ attempt \in [Callers -> 0 .. MaxRetries]
      /\ MaxRetries \in Nat
  BY AdapterAssumption DEF AdapterCore, AdapterTypeOK
<1>3. CASE HasAttempts(c)
  <2>1. /\ attempt' = [attempt EXCEPT ![c] = @ + 1]
        /\ queue' = Append(queue, c)
        /\ step' = [step EXCEPT ![c] = "acquire"]
    BY <1>3 DEF RetryOrRaise, Enters
  <2>2. QueueHoldsWaiters' /\ SleeperGetsToken'
    BY <1>1, <1>2, <2>1, Enqueue
  <2>3. attempt[c] + 1 \in 0 .. MaxRetries
    BY <1>2, <1>3 DEF HasAttempts
  <2>4. AdapterTypeOK'
    BY <1>1, <1>2, <2>1, <2>3, AppendToQueue DEF AdapterCore, AdapterTypeOK, Full
  <2>5. BucketInv'
    BY <1>1 DEF AdapterCore, BucketInv, WindowBudget, Full
  <2> QED
    BY <2>2, <2>4, <2>5 DEF AdapterCore
<1>4. CASE ~HasAttempts(c)
  <2>1. step' = [step EXCEPT ![c] = "failed"] /\ UNCHANGED <<attempt, queue>>
    BY <1>4 DEF RetryOrRaise, Enters
  <2> QED
    BY <1>1, <1>2, <2>1, AnswerKeeps
<1> QED
  BY <1>3, <1>4

LEMMA TransferKeeps ==
  ASSUME AdapterCore, NEW c \in Callers, step[c] # "idle" => attempt[c] # 0,
         Transfer(c) \/ Succeeds(c) \/ Return(c)
  PROVE  AdapterCore'
<1>0. /\ until \in [Callers -> Nat] /\ attempt \in [Callers -> 0 .. MaxRetries]
      /\ MaxRetries \in Nat
  BY AdapterAssumption DEF AdapterCore, AdapterTypeOK
<1>1. CASE TakeToken(c)
  BY <1>1, TakeTokenKeeps
<1>2. CASE AwaitToken(c)
  BY <1>2, AwaitTokenKeeps
<1>3. CASE MayBeTransient(c)
  <2>1. until' \in [Callers -> Nat]
    BY <1>3, WaitIsFinite DEF MayBeTransient
  <2> QED
    BY <1>0, <1>3, <2>1, AnswerKeeps DEF MayBeTransient, Enters, Sleep, bucket
<1>4. CASE RetryOrRaise(c)
  BY <1>4, RetryKeeps
<1>5. CASE Succeeds(c) \/ Refused(c)
  BY <1>0, <1>5, AnswerKeeps DEF Succeeds, Refused, Enters, bucket
<1>6. CASE Return(c)
  <2>1. attempt' \in [Callers -> 0 .. MaxRetries]
    BY <1>0, <1>6 DEF Return
  <2> QED
    BY <1>0, <1>6, <2>1, AnswerKeeps DEF Return, Enters, bucket
<1> QED
  BY <1>1, <1>2, <1>3, <1>4, <1>5, <1>6 DEF Transfer

LEMMA TickKeeps ==
  ASSUME AdapterCore, Tick
  PROVE  AdapterCore'
<1>1. /\ now' = now + 1
      /\ UNCHANGED <<tokens, last, calls, queue, step, attempt, until>>
  BY DEF Tick, bucket
<1>2. AdapterTypeOK'
  BY <1>1 DEF AdapterCore, AdapterTypeOK, Full
<1>3. QueueHoldsWaiters' /\ SleeperGetsToken' /\ BucketInv'
  BY <1>1 DEF AdapterCore, QueueHoldsWaiters, SleeperGetsToken, BucketInv, WindowBudget, Full
<1> QED
  BY <1>2, <1>3 DEF AdapterCore

-----------------------------------------------------------------------------
(* A step of one task, seen by all. *)

LEMMA SleepsStep ==
  ASSUME Inv, NEW c \in Callers,
         \A d \in Callers \ {c} :
           step'[d] = step[d] /\ until'[d] = until[d] /\ attempt'[d] = attempt[d],
         step'[c] \in {"send", "done", "failed"} => until'[c] = 0,
         step'[c] = "idle" /\ until'[c] # 0 => c = Poller /\ phase' = "asleep",
         step'[c] # "idle" => attempt'[c] # 0,
         phase = "asleep" => phase' = "asleep" \/ c = Poller
  PROVE  SleepsWhereItMay'
<1> SUFFICES ASSUME NEW d \in Callers
             PROVE  /\ step'[d] \in {"send", "done", "failed"} => until'[d] = 0
                    /\ step'[d] = "idle" /\ until'[d] # 0 => d = Poller /\ phase' = "asleep"
                    /\ step'[d] # "idle" => attempt'[d] # 0
  BY DEF SleepsWhereItMay
<1>1. CASE d = c
  BY <1>1
<1>2. CASE d # c
  BY <1>2 DEF Inv, SleepsWhereItMay
<1> QED
  BY <1>1, <1>2

LEMMA RequestStep ==
  ASSUME Inv, NEW c \in Callers, Request(c), phase # "asleep"
  PROVE  /\ AdapterCore' /\ SleepsWhereItMay'
         /\ step'[c] # "idle"
         /\ \A d \in Callers \ {c} : step'[d] = step[d]
<1>1. /\ step[c] = "idle" /\ step' = [step EXCEPT ![c] = "acquire"]
      /\ attempt' = [attempt EXCEPT ![c] = 1] /\ until' = until
  BY DEF Request, Enters
<1>2. /\ step \in [Callers -> {"idle", "acquire", "send", "wait", "done", "failed"}]
      /\ attempt \in [Callers -> 0 .. MaxRetries]
  BY DEF Inv, AdapterCore, AdapterTypeOK
<1>3. until[c] = 0
  BY <1>1 DEF Inv, SleepsWhereItMay
<1>4. AdapterCore'
  BY <1>3, RequestKeeps DEF Inv
<1>5. SleepsWhereItMay'
  BY <1>1, <1>2, SleepsStep
<1> QED
  BY <1>1, <1>2, <1>4, <1>5

LEMMA TransferStep ==
  ASSUME Inv, NEW c \in Callers, Transfer(c) \/ Succeeds(c), phase' = phase
  PROVE  /\ AdapterCore' /\ SleepsWhereItMay'
         /\ step[c] # "idle" /\ step'[c] # "idle"
         /\ \A d \in Callers \ {c} : step'[d] = step[d]
<1>1. /\ step \in [Callers -> {"idle", "acquire", "send", "wait", "done", "failed"}]
      /\ attempt \in [Callers -> 0 .. MaxRetries]
      /\ until \in [Callers -> Nat]
      /\ MaxRetries \in Nat
  BY AdapterAssumption DEF Inv, AdapterCore, AdapterTypeOK
<1>2. /\ step[c] # "idle" => attempt[c] # 0
      /\ step[c] = "send" => until[c] = 0
  BY DEF Inv, SleepsWhereItMay
<1>3. AdapterCore'
  BY <1>2, TransferKeeps DEF Inv
<1>4. /\ step[c] \in {"acquire", "send", "wait"}
      /\ \E x \in {"acquire", "send", "wait", "done", "failed"} :
           step' = [step EXCEPT ![c] = x]
      /\ step'[c] \in {"send", "done", "failed"} => until'[c] = 0
      /\ \A d \in Callers \ {c} : until'[d] = until[d]
      /\ attempt' \in {attempt, [attempt EXCEPT ![c] = @ + 1]}
  <2>1. CASE TakeToken(c)
    BY <1>1, <2>1 DEF TakeToken, HasLock, Enters, Awake
  <2>2. CASE AwaitToken(c)
    BY <1>1, <2>2 DEF AwaitToken, HasLock, Sleep
  <2>3. CASE MayBeTransient(c)
    BY <1>1, <2>3 DEF MayBeTransient, Enters, Sleep
  <2>4. CASE RetryOrRaise(c)
    BY <1>1, <2>4 DEF RetryOrRaise, Enters, Awake
  <2>5. CASE Succeeds(c) \/ Refused(c)
    BY <1>1, <1>2, <2>5 DEF Succeeds, Refused, Enters
  <2> QED
    BY <2>1, <2>2, <2>3, <2>4, <2>5 DEF Transfer
<1>5. /\ step'[c] # "idle" /\ attempt'[c] # 0
      /\ \A d \in Callers \ {c} : step'[d] = step[d] /\ attempt'[d] = attempt[d]
  BY <1>1, <1>2, <1>4
<1>6. SleepsWhereItMay'
  BY <1>4, <1>5, SleepsStep
<1> QED
  BY <1>3, <1>4, <1>5, <1>6

LEMMA ReturnStep ==
  ASSUME Inv, NEW c \in Callers, Return(c), phase # "asleep"
  PROVE  /\ AdapterCore' /\ SleepsWhereItMay'
         /\ step[c] # "idle" /\ step'[c] = "idle"
         /\ \A d \in Callers \ {c} : step'[d] = step[d]
<1>1. /\ step \in [Callers -> {"idle", "acquire", "send", "wait", "done", "failed"}]
      /\ attempt \in [Callers -> 0 .. MaxRetries]
  BY DEF Inv, AdapterCore, AdapterTypeOK
<1>2. /\ step[c] \in {"done", "failed"}
      /\ step' = [step EXCEPT ![c] = "idle"]
      /\ attempt' = [attempt EXCEPT ![c] = 0] /\ until' = until
  BY DEF Return, Enters
<1>3. until[c] = 0 /\ attempt[c] # 0
  BY <1>2 DEF Inv, SleepsWhereItMay
<1>4. AdapterCore'
  BY <1>3, TransferKeeps DEF Inv
<1>5. SleepsWhereItMay'
  BY <1>1, <1>2, <1>3, SleepsStep
<1> QED
  BY <1>1, <1>2, <1>4, <1>5

-----------------------------------------------------------------------------
(* Answers and orders. *)

LEMMA AnswerFacts ==
  /\ Nothing.status = "unknown" /\ Nothing.filled_qty = 0
  /\ NotADict # Nothing
  /\ \A p \in Answers : p \notin {Nothing, NotADict}
  /\ \A p \in Answers : p.status \in Statuses /\ p.filled_qty \in 0 .. Quantity
  /\ _TERMINAL_STATUSES \subseteq Statuses
  /\ Final \subseteq _TERMINAL_STATUSES
  /\ "unknown" \notin Statuses
<1>1. /\ Nothing.status = "unknown" /\ Nothing.filled_qty = 0
      /\ NotADict.status = "not a dict" /\ NotADict.filled_qty = 0
  BY DEF Nothing, NotADict, Payload
<1>2. /\ _TERMINAL_STATUSES \subseteq Statuses /\ Final \subseteq _TERMINAL_STATUSES
      /\ "unknown" \notin Statuses /\ "not a dict" \notin Statuses
  BY DEF Statuses, Final, _TERMINAL_STATUSES
<1>3. \A p \in Answers : p.status \in Statuses /\ p.filled_qty \in 0 .. Quantity
  BY DEF Answers
<1> QED
  BY <1>1, <1>2, <1>3

(* An order gains shares, and what ends it is its last change. *)
MovesOn(o, p) ==
  /\ o \in Answers /\ p \in Answers
  /\ o.filled_qty <= p.filled_qty
  /\ o.status \in Final => p = o

LEMMA TruthLasts ==
  ASSUME NEW p, NEW o, NEW o2, TrueOf(p, o), MovesOn(o, o2)
  PROVE  TrueOf(p, o2)
<1>1. CASE p \in {Nothing, NotADict}
  BY <1>1 DEF TrueOf
<1>2. CASE p \notin {Nothing, NotADict}
  <2>1. p \in Answers /\ p.filled_qty <= o.filled_qty /\ (p.status \in Final => p = o)
    BY <1>2 DEF TrueOf
  <2>2. p.filled_qty \in Int /\ o.filled_qty \in Int /\ o2.filled_qty \in Int
    BY <2>1, AnswerFacts, PollerAssumption DEF MovesOn
  <2>3. p.filled_qty <= o2.filled_qty
    BY <2>1, <2>2 DEF MovesOn
  <2>4. p.status \in Final => p = o2
    BY <2>1 DEF MovesOn
  <2> QED
    BY <2>1, <2>3, <2>4 DEF TrueOf
<1> QED
  BY <1>1, <1>2

LEMMA InvFacts ==
  ASSUME Inv
  PROVE  /\ orders \in [1 .. Acks -> Answers]
         /\ phase \in {"no session", "poll", "get", "sleep", "asleep", "report"}
         /\ polls \in 0 .. MaxPolls /\ MaxPolls \in Nat /\ Acks \in Nat /\ Quantity \in Nat \ {0}
         /\ Len(out) \in Nat /\ Len(out) <= Acks /\ Current \in 1 .. (Acks + 1)
         /\ step[Poller] = "idle" <=> phase # "get"
         /\ step \in [Callers -> {"idle", "acquire", "send", "wait", "done", "failed"}]
         /\ until \in [Callers -> Nat]
         /\ Poller \in Callers
<1>1. orders \in [1 .. Acks -> Answers]
  BY DEF Inv, PollerCore, PollerTypeOK, Answers
<1>2. MaxPolls \in Nat /\ Acks \in Nat /\ Quantity \in Nat \ {0} /\ Poller \in Callers
  BY PollerAssumption
<1>3. Len(out) \in Nat /\ Len(out) <= Acks
  <2>1. Len(out) <= Acks
    BY DEF Inv, PollerCore, PollerTypeOK
  <2>2. \E S : out \in Seq(S)
    BY DEF Inv, PollerCore, ReportsStayTrue
  <2> QED
    BY <2>1, <2>2
<1>4. Current \in 1 .. (Acks + 1)
  BY <1>2, <1>3 DEF Current
<1> QED
  BY <1>1, <1>2, <1>3, <1>4 DEF Inv, PollerCore, PollerTypeOK, AdapterCore, AdapterTypeOK

LEMMA InvNumbers ==
  ASSUME Inv
  PROVE  /\ polls \in Nat /\ MaxPolls \in Nat /\ polls <= MaxPolls
         /\ Acks \in Nat /\ Len(out) \in Nat /\ Len(out) <= Acks
         /\ Current \in Nat \ {0} /\ Current = Len(out) + 1
<1>1. /\ polls \in 0 .. MaxPolls /\ MaxPolls \in Nat /\ Acks \in Nat
      /\ Len(out) \in Nat /\ Len(out) <= Acks
  BY InvFacts
<1>2. Current = Len(out) + 1
  BY DEF Current
<1> QED
  BY <1>1, <1>2

(* What the poller does leaves the orders alone. *)
LEMMA TypeStep ==
  ASSUME Inv, AdapterCore',
         phase' \in {"no session", "poll", "get", "sleep", "asleep", "report"},
         polls' \in 0 .. MaxPolls,
         Len(out') <= Acks,
         orders' \in [1 .. Acks -> Answers],
         step'[Poller] = "idle" <=> phase' # "get"
  PROVE  PollerTypeOK'
BY DEF PollerTypeOK, Answers, AdapterCore

LEMMA OrdersStay ==
  ASSUME Inv, UNCHANGED <<orders, out>>
  PROVE  ReportsStayTrue' /\ WorkingHasRoom' /\ Current' = Current
BY DEF Inv, PollerCore, ReportsStayTrue, WorkingHasRoom, Current

LEMMA GetStep ==
  ASSUME Inv, Get
  PROVE  Inv'
<1>1. /\ phase = "poll" /\ Current <= Acks /\ polls < MaxPolls /\ Request(Poller)
      /\ polls' = polls + 1 /\ phase' = "get"
      /\ UNCHANGED <<orders, payload, last_payload, out>>
  BY DEF Get
<1>2. /\ AdapterCore' /\ SleepsWhereItMay' /\ step'[Poller] # "idle"
  BY <1>1, InvFacts, RequestStep
<1>3. ReportsStayTrue' /\ WorkingHasRoom' /\ Current' = Current
  BY <1>1, OrdersStay
<1>4. PollerTypeOK'
  BY <1>1, <1>2, InvFacts, TypeStep
<1>5. AnswersAreTrue'
  BY <1>1, <1>3 DEF Inv, PollerCore, AnswersAreTrue
<1>6. PhaseMeans'
  BY <1>1, <1>3 DEF PhaseMeans
<1> QED
  BY <1>2, <1>3, <1>4, <1>5, <1>6 DEF Inv, PollerCore

LEMMA AnswerStep ==
  ASSUME Inv, Answer
  PROVE  Inv'
<1>1. /\ Succeeds(Poller) /\ payload' \in {orders[Current], NotADict}
      /\ UNCHANGED <<orders, phase, polls, last_payload, out>>
  BY DEF Answer
<1>2. /\ AdapterCore' /\ SleepsWhereItMay'
      /\ step[Poller] # "idle" /\ step'[Poller] # "idle"
  BY <1>1, InvFacts, TransferStep
<1>3. ReportsStayTrue' /\ WorkingHasRoom' /\ Current' = Current
  BY <1>1, OrdersStay
<1>4. phase = "get" /\ Current <= Acks
  BY <1>2, InvFacts DEF Inv, PollerCore, PhaseMeans
<1>5. PollerTypeOK'
  BY <1>1, <1>2, <1>4, InvFacts, TypeStep
<1>6. orders[Current] \in Answers /\ orders[Current].filled_qty \in Int
  BY <1>4, InvFacts, AnswerFacts
<1>7. TrueOf(payload', orders[Current])
  BY <1>1, <1>6 DEF TrueOf
<1>8. AnswersAreTrue'
  BY <1>1, <1>3, <1>4, <1>7 DEF Inv, PollerCore, AnswersAreTrue
<1>9. PhaseMeans'
  BY <1>1, <1>3 DEF Inv, PollerCore, PhaseMeans
<1> QED
  BY <1>2, <1>3, <1>5, <1>8, <1>9 DEF Inv, PollerCore

LEMMA ReadPayloadStep ==
  ASSUME Inv, ReadPayload
  PROVE  Inv'
<1>1. /\ phase = "get" /\ step[Poller] = "done" /\ payload # NotADict
      /\ Return(Poller) /\ last_payload' = payload /\ payload' = Nothing
      /\ phase' = IF payload.status \in _TERMINAL_STATUSES THEN "report" ELSE "sleep"
      /\ UNCHANGED <<orders, polls, out>>
  BY DEF ReadPayload
<1>2. AdapterCore' /\ SleepsWhereItMay' /\ step'[Poller] = "idle"
  BY <1>1, InvFacts, ReturnStep
<1>3. ReportsStayTrue' /\ WorkingHasRoom' /\ Current' = Current
  BY <1>1, OrdersStay
<1>4. Current <= Acks
  BY <1>1 DEF Inv, PollerCore, PhaseMeans
<1>5. PollerTypeOK'
  BY <1>1, <1>2, InvFacts, TypeStep
<1>6. TrueOf(payload, orders[Current]) /\ TrueOf(Nothing, orders[Current])
  BY <1>4 DEF Inv, PollerCore, AnswersAreTrue, TrueOf
<1>7. AnswersAreTrue'
  BY <1>1, <1>3, <1>4, <1>6 DEF AnswersAreTrue
<1>8. PhaseMeans'
  BY <1>1, <1>3, <1>4 DEF PhaseMeans
<1> QED
  BY <1>2, <1>3, <1>5, <1>7, <1>8 DEF Inv, PollerCore

LEMMA PollFailedStep ==
  ASSUME Inv, PollFailed
  PROVE  Inv'
<1>1. /\ phase = "get" /\ Return(Poller) /\ phase' = "sleep" /\ payload' = Nothing
      /\ UNCHANGED <<orders, polls, last_payload, out>>
  BY DEF PollFailed
<1>2. AdapterCore' /\ SleepsWhereItMay' /\ step'[Poller] = "idle"
  BY <1>1, InvFacts, ReturnStep
<1>3. ReportsStayTrue' /\ WorkingHasRoom' /\ Current' = Current
  BY <1>1, OrdersStay
<1>4. Current <= Acks
  BY <1>1 DEF Inv, PollerCore, PhaseMeans
<1>5. PollerTypeOK'
  BY <1>1, <1>2, InvFacts, TypeStep
<1>6. TrueOf(Nothing, orders[Current])
  BY DEF TrueOf
<1>7. AnswersAreTrue'
  BY <1>1, <1>3, <1>4, <1>6 DEF Inv, PollerCore, AnswersAreTrue
<1>8. PhaseMeans'
  BY <1>1, <1>3, <1>4 DEF PhaseMeans
<1> QED
  BY <1>2, <1>3, <1>5, <1>7, <1>8 DEF Inv, PollerCore

LEMMA SleepStep ==
  ASSUME Inv, FallAsleep \/ WakeUp
  PROVE  Inv'
<1>1. /\ phase \in {"sleep", "asleep"} /\ phase' \in {"asleep", "poll", "report"}
      /\ phase' = "report" => ~(polls < MaxPolls)
      /\ phase' = "asleep" \/ until' = [until EXCEPT ![Poller] = 0]
      /\ \E t \in Nat : until' = [until EXCEPT ![Poller] = t]
      /\ UNCHANGED <<now, tokens, last, calls, queue, step, attempt, orders, polls,
                     payload, last_payload, out>>
  <2>1. now \in Nat /\ Interval \in Nat
    BY PollerAssumption DEF Inv, AdapterCore, AdapterTypeOK
  <2> QED
    BY <2>1 DEF FallAsleep, WakeUp, Sleep, Awake, bucket
<1>2. step[Poller] = "idle" /\ Current <= Acks
  BY <1>1, InvFacts DEF Inv, PollerCore, PhaseMeans
<1>3. AdapterCore'
  <2>1. step' = [step EXCEPT ![Poller] = "idle"] /\ until' \in [Callers -> Nat]
    BY <1>1, <1>2, InvFacts
  <2>2. \A d \in Callers \ {Poller} : until'[d] = until[d]
    BY <1>1, InvFacts
  <2>3. attempt' \in [Callers -> 0 .. MaxRetries]
    BY <1>1 DEF Inv, AdapterCore, AdapterTypeOK
  <2> QED
    BY <1>1, <1>2, <2>1, <2>2, <2>3, InvFacts, AnswerKeeps DEF Inv
<1>4. SleepsWhereItMay'
  <2>1. until'[Poller] = 0 \/ phase' = "asleep"
    BY <1>1, InvFacts
  <2>2. \A d \in Callers \ {Poller} : until'[d] = until[d]
    BY <1>1, InvFacts
  <2> QED
    BY <1>1, <1>2, <2>1, <2>2, InvFacts, SleepsStep
<1>5. ReportsStayTrue' /\ WorkingHasRoom' /\ Current' = Current
  BY <1>1, OrdersStay
<1>6. PollerTypeOK'
  BY <1>1, <1>2, <1>3, InvFacts, TypeStep
<1>7. AnswersAreTrue'
  BY <1>1, <1>5 DEF Inv, PollerCore, AnswersAreTrue
<1>8. PhaseMeans'
  <2>1. phase' = "report" => polls = MaxPolls
    BY <1>1, InvNumbers
  <2> QED
    BY <1>1, <1>2, <1>5, <2>1 DEF PhaseMeans
<1> QED
  BY <1>3, <1>4, <1>5, <1>6, <1>7, <1>8 DEF Inv, PollerCore

LEMMA ReportStep ==
  ASSUME Inv, Report
  PROVE  Inv'
<1> DEFINE report == [last |-> last_payload, polls |-> polls]
           L == Len(out)
           Reports == [last : Answers \cup {Nothing}, polls : 0 .. MaxPolls]
<1>1. /\ phase = "report" /\ phase' = "poll" /\ polls' = 0
      /\ out' = Append(out, report) /\ last_payload' = Nothing
      /\ UNCHANGED <<now, tokens, last, calls, queue, step, attempt, until, orders, payload>>
  BY DEF Report, adapterVars, bucket
<1>2. /\ Current <= Acks /\ payload = Nothing /\ L + 1 = Current
      /\ TrueOf(last_payload, orders[L + 1]) /\ last_payload # NotADict
      /\ last_payload.status \in _TERMINAL_STATUSES \/ polls = MaxPolls
  BY <1>1 DEF Inv, PollerCore, PhaseMeans, AnswersAreTrue, Current
<1>3. /\ report.last = last_payload /\ report.polls = polls
      /\ report \in Reports
  BY <1>2, InvFacts DEF TrueOf
<1>4. out \in Seq(Reports)
  BY DEF Inv, PollerCore, ReportsStayTrue
<1> HIDE DEF report, Reports
<1>5. /\ out' \in Seq(Reports) /\ Len(out') = L + 1 /\ L \in Nat
      /\ DOMAIN out = 1 .. L /\ DOMAIN out' = 1 .. (L + 1)
      /\ \A n \in 1 .. L : out'[n] = out[n]
      /\ out'[L + 1] = report
  BY <1>1, <1>3, <1>4, AppendToQueue
<1> HIDE DEF L
<1>6. ReportsStayTrue'
  <2>1. ASSUME NEW n \in 1 .. (L + 1)
        PROVE  /\ TrueOf(out'[n].last, orders[n])
               /\ out'[n].last.status \notin _TERMINAL_STATUSES => out'[n].polls = MaxPolls
    <3>1. CASE n \in 1 .. L
      BY <1>5, <3>1 DEF Inv, PollerCore, ReportsStayTrue
    <3>2. CASE n = L + 1
      BY <1>2, <1>3, <1>5, <3>2
    <3> QED
      BY <1>5, <3>1, <3>2
  <2> QED
    BY <1>1, <1>5, <2>1 DEF ReportsStayTrue, Reports
<1>7. WorkingHasRoom'
  BY <1>1 DEF Inv, PollerCore, WorkingHasRoom
<1>8. AdapterCore'
  <2>1. AdapterTypeOK' /\ QueueHoldsWaiters' /\ SleeperGetsToken' /\ BucketInv'
    BY <1>1 DEF Inv, AdapterCore, AdapterTypeOK, QueueHoldsWaiters, SleeperGetsToken,
                BucketInv, WindowBudget
  <2> QED
    BY <2>1 DEF AdapterCore
<1>9. SleepsWhereItMay'
  BY <1>1 DEF Inv, SleepsWhereItMay
<1>10. PollerTypeOK'
  <2>1. 0 \in 0 .. MaxPolls /\ Len(out') <= Acks
    BY <1>2, <1>5, InvNumbers
  <2> QED
    BY <1>1, <1>8, <2>1, InvFacts, TypeStep
<1>11. AnswersAreTrue'
  <2>1. \A o : TrueOf(Nothing, o)
    BY DEF TrueOf
  <2> QED
    BY <1>1, <1>2, <2>1, AnswerFacts DEF AnswersAreTrue
<1>12. PhaseMeans'
  BY <1>1 DEF PhaseMeans
<1> QED
  BY <1>6, <1>7, <1>8, <1>9, <1>10, <1>11, <1>12 DEF Inv, PollerCore

(* The broker: one order moves on. *)
LEMMA BrokerFillsOrEnds ==
  ASSUME Inv, NEW n \in 1 .. Acks, Fill(n) \/ End(n)
  PROVE  Inv'
<1>0. /\ orders \in [1 .. Acks -> Answers]
      /\ orders[n].status \in Statuses /\ orders[n].filled_qty \in 0 .. Quantity
      /\ Quantity \in Nat \ {0}
  BY InvFacts, AnswerFacts
<1>1. PICK o : /\ orders' = [orders EXCEPT ![n] = o]
               /\ MovesOn(orders[n], o)
               /\ o.status \in {"new", "partially_filled"} => o.filled_qty < Quantity
  <2>1. CASE Fill(n)
    <3> DEFINE filled == orders[n].filled_qty + 1
               o == Payload(IF filled = Quantity THEN "filled" ELSE "partially_filled", filled)
    <3>1. orders[n].status \in {"new", "partially_filled"} /\ orders' = [orders EXCEPT ![n] = o]
      BY <2>1 DEF Fill
    <3>2. orders[n].filled_qty < Quantity /\ orders[n].status \notin Final
      BY <3>1 DEF Inv, PollerCore, WorkingHasRoom, Final
    <3>3. filled \in 0 .. Quantity /\ orders[n].filled_qty <= filled
      BY <1>0, <3>2
    <3>4. o.filled_qty = filled /\ o \in Answers
      BY <3>3 DEF Payload, Answers, Statuses, Final
    <3>5. o.status \in {"new", "partially_filled"} => filled < Quantity
      BY <1>0, <3>3 DEF Payload
    <3> HIDE DEF o, filled
    <3>6. MovesOn(orders[n], o)
      BY <1>0, <3>2, <3>3, <3>4 DEF MovesOn
    <3> QED
      BY <3>1, <3>4, <3>5, <3>6
  <2>2. CASE End(n)
    <3>1. PICK s \in Endings : orders' = [orders EXCEPT ![n].status = s]
      BY <2>2 DEF End
    <3> DEFINE o == [orders[n] EXCEPT !.status = s]
    <3>2. orders[n].status \notin Final
      BY <2>2 DEF End
    <3>3. s \in Statuses /\ s \notin {"new", "partially_filled"}
      BY PollerAssumption DEF Statuses, Final
    <3>4. o \in Answers /\ o.filled_qty = orders[n].filled_qty /\ o.status = s
      BY <1>0, <3>3 DEF Answers
    <3>5. orders' = [orders EXCEPT ![n] = o]
      BY <3>1
    <3> HIDE DEF o
    <3>6. MovesOn(orders[n], o)
      BY <1>0, <3>2, <3>4 DEF MovesOn
    <3> QED
      BY <3>3, <3>4, <3>5, <3>6
  <2> QED
    BY <2>1, <2>2
<1>2. UNCHANGED <<now, tokens, last, calls, queue, step, attempt, until,
                  phase, polls, payload, last_payload, out>>
  BY DEF Fill, End, adapterVars, bucket
<1>3. \A m \in 1 .. Acks : orders'[m] = IF m = n THEN o ELSE orders[m]
  BY <1>0, <1>1
<1>4. \A m \in 1 .. Acks : MovesOn(orders[m], orders'[m]) \/ orders'[m] = orders[m]
  BY <1>1, <1>3
<1>5. orders' \in [1 .. Acks -> Answers]
  BY <1>0, <1>1 DEF MovesOn
<1>6. \A m \in 1 .. Acks : \A p : TrueOf(p, orders[m]) => TrueOf(p, orders'[m])
  BY <1>4, TruthLasts
<1>7. ReportsStayTrue'
  <2>1. DOMAIN out \subseteq 1 .. Acks
    <3>1. \E S : out \in Seq(S)
      BY DEF Inv, PollerCore, ReportsStayTrue
    <3>2. DOMAIN out = 1 .. Len(out)
      BY <3>1
    <3> QED
      BY <3>2, InvNumbers
  <2> QED
    BY <1>2, <1>6, <2>1 DEF Inv, PollerCore, ReportsStayTrue
<1>8. WorkingHasRoom'
  BY <1>1, <1>3 DEF Inv, PollerCore, WorkingHasRoom
<1>9. AdapterCore'
  <2>1. AdapterTypeOK' /\ QueueHoldsWaiters' /\ SleeperGetsToken' /\ BucketInv'
    BY <1>2 DEF Inv, AdapterCore, AdapterTypeOK, QueueHoldsWaiters, SleeperGetsToken,
                BucketInv, WindowBudget
  <2> QED
    BY <2>1 DEF AdapterCore
<1>10. SleepsWhereItMay'
  BY <1>2 DEF Inv, SleepsWhereItMay
<1>11. PollerTypeOK'
  BY <1>2, <1>5, <1>9, InvFacts, TypeStep
<1>12. Current' = Current
  BY <1>2 DEF Current
<1>13. AnswersAreTrue'
  <2>1. Current <= Acks => Current \in 1 .. Acks
    BY InvNumbers
  <2> QED
    BY <1>2, <1>6, <1>12, <2>1 DEF Inv, PollerCore, AnswersAreTrue
<1>14. PhaseMeans'
  BY <1>2, <1>12 DEF Inv, PollerCore, PhaseMeans
<1> QED
  BY <1>7, <1>8, <1>9, <1>10, <1>11, <1>13, <1>14 DEF Inv, PollerCore

(* Steps that the poller does not see. *)
LEMMA UnseenStep ==
  ASSUME Inv, UNCHANGED pollerVars, AdapterCore', SleepsWhereItMay',
         step'[Poller] = "idle" <=> step[Poller] = "idle"
  PROVE  Inv'
<1>1. UNCHANGED <<orders, phase, polls, payload, last_payload, out>>
  BY DEF pollerVars
<1>2. ReportsStayTrue' /\ WorkingHasRoom' /\ Current' = Current
  BY <1>1, OrdersStay
<1>3. PollerTypeOK'
  BY <1>1, InvFacts, TypeStep
<1>4. AnswersAreTrue' /\ PhaseMeans'
  BY <1>1, <1>2 DEF Inv, PollerCore, AnswersAreTrue, PhaseMeans
<1> QED
  BY <1>2, <1>3, <1>4 DEF Inv, PollerCore

-----------------------------------------------------------------------------
LEMMA InitInv == PollerInit => Inv
<1> SUFFICES ASSUME PollerInit PROVE Inv
  OBVIOUS
<1>1. /\ AdapterInit
      /\ orders = [n \in 1 .. Acks |-> Payload("new", 0)]
      /\ phase \in {"poll", "no session"}
      /\ polls = 0 /\ payload = Nothing /\ last_payload = Nothing /\ out = <<>>
  BY DEF PollerInit
<1>2. /\ {Capacity, PerTicks, MaxRetries} \subseteq Nat \ {0}
      /\ {Acks, MaxPolls, Quantity} \subseteq Nat \ {0} /\ Poller \in Callers
  BY AdapterAssumption, PollerAssumption
<1>3. PerTicks \in Nat /\ Full \in Nat /\ PerTicks <= Full
  BY <1>2 DEF Full
<1>4. /\ now = 0 /\ tokens = PerTicks /\ last = 0 /\ queue = <<>> /\ calls = <<>>
      /\ \A c \in Callers : step[c] = "idle" /\ attempt[c] = 0 /\ until[c] = 0
      /\ step \in [Callers -> {"idle", "acquire", "send", "wait", "done", "failed"}]
      /\ attempt \in [Callers -> 0 .. MaxRetries]
      /\ until \in [Callers -> Nat]
  <2>1. 0 \in 0 .. MaxRetries
    BY <1>2
  <2> QED
    BY <1>1, <2>1 DEF AdapterInit
<1>5. AdapterTypeOK
  BY <1>3, <1>4 DEF AdapterTypeOK
<1>6. QueueHoldsWaiters /\ SleeperGetsToken /\ SleepsWhereItMay
  BY <1>4 DEF QueueHoldsWaiters, SleeperGetsToken, SleepsWhereItMay
<1>7. BucketInv
  <2>1. Len(calls) = 0 /\ 0 * PerTicks = 0 /\ 0 * Capacity = 0
    BY <1>2, <1>4
  <2> QED
    BY <1>2, <1>3, <1>4, <2>1 DEF BucketInv, WindowBudget
<1>8. /\ Payload("new", 0).status = "new" /\ Payload("new", 0).filled_qty = 0
      /\ Payload("new", 0) \in Answers
  BY <1>2 DEF Payload, Answers, Statuses
<1>9. orders \in [1 .. Acks -> Answers] /\ WorkingHasRoom
  <2>1. \A n \in 1 .. Acks : orders[n] = Payload("new", 0)
    BY <1>1
  <2>2. 0 < Quantity
    BY <1>2
  <2> QED
    BY <1>1, <1>8, <2>1, <2>2 DEF WorkingHasRoom
<1>10. PollerTypeOK
  <2>1. 0 <= Acks /\ 0 \in 0 .. MaxPolls
    BY <1>2
  <2>2. Len(out) = 0
    BY <1>1
  <2> QED
    BY <1>1, <1>2, <1>4, <1>5, <1>9, <2>1, <2>2 DEF PollerTypeOK, Answers
<1>11. ReportsStayTrue
  <2>1. \A S : out \in Seq(S)
    BY <1>1, NothingIn
  <2>2. DOMAIN out = {}
    BY <1>1, NothingIn
  <2> QED
    BY <2>1, <2>2 DEF ReportsStayTrue
<1>12. AnswersAreTrue /\ PhaseMeans
  BY <1>1, AnswerFacts DEF AnswersAreTrue, PhaseMeans, TrueOf
<1> QED
  BY <1>5, <1>6, <1>7, <1>9, <1>10, <1>11, <1>12 DEF Inv, AdapterCore, PollerCore

LEMMA NextInv == Inv /\ [PollerNext]_reconcileVars => Inv'
<1> SUFFICES ASSUME Inv, [PollerNext]_reconcileVars PROVE Inv'
  OBVIOUS
<1>1. CASE Poll
  BY <1>1, GetStep, AnswerStep, ReadPayloadStep, PollFailedStep, SleepStep, ReportStep
     DEF Poll
<1>2. ASSUME NEW n \in 1 .. Acks, Fill(n) \/ End(n)  PROVE Inv'
  BY <1>2, BrokerFillsOrEnds
<1>3. CASE Transfer(Poller) /\ UNCHANGED pollerVars
  <2>1. /\ AdapterCore' /\ SleepsWhereItMay'
        /\ step[Poller] # "idle" /\ step'[Poller] # "idle"
    BY <1>3, InvFacts, TransferStep DEF pollerVars
  <2> QED
    BY <1>3, <2>1, UnseenStep
<1>4. ASSUME NEW c \in Others, ~HasSession, UNCHANGED pollerVars,
             Request(c) \/ Transfer(c) \/ Succeeds(c) \/ Return(c)
      PROVE  Inv'
  <2>1. c \in Callers /\ c # Poller /\ phase # "asleep" /\ phase' = phase
    BY <1>4 DEF Others, HasSession, pollerVars
  <2>2. /\ AdapterCore' /\ SleepsWhereItMay'
        /\ \A d \in Callers \ {c} : step'[d] = step[d]
    BY <1>4, <2>1, RequestStep, TransferStep, ReturnStep
  <2> QED
    BY <1>4, <2>1, <2>2, InvFacts, UnseenStep
<1>5. CASE Tick /\ UNCHANGED pollerVars
  <2>1. AdapterCore'
    BY <1>5, TickKeeps DEF Inv
  <2>2. SleepsWhereItMay' /\ step' = step
    BY <1>5 DEF Inv, SleepsWhereItMay, Tick, pollerVars
  <2> QED
    BY <1>5, <2>1, <2>2, UnseenStep
<1>6. CASE UNCHANGED reconcileVars
  <2>1. /\ UNCHANGED <<now, tokens, last, calls, queue, step, attempt, until>>
        /\ UNCHANGED pollerVars
    BY <1>6 DEF reconcileVars, adapterVars, bucket
  <2>2. AdapterTypeOK' /\ QueueHoldsWaiters' /\ SleeperGetsToken' /\ BucketInv'
    BY <2>1 DEF Inv, AdapterCore, AdapterTypeOK, QueueHoldsWaiters, SleeperGetsToken,
                BucketInv, WindowBudget
  <2>3. SleepsWhereItMay'
    BY <2>1 DEF Inv, SleepsWhereItMay, pollerVars
  <2> QED
    BY <2>1, <2>2, <2>3, UnseenStep DEF AdapterCore
<1> QED
  BY <1>1, <1>2, <1>3, <1>4, <1>5, <1>6 DEF PollerNext

LEMMA InvHolds == PollerSpec => []Inv
<1> QED
  BY InitInv, NextInv, PTL DEF PollerSpec

LEMMA SleepersWakeToToken ==
  ASSUME Inv
  PROVE  SleepersFindToken
<1> SUFFICES ASSUME NEW c \in Callers, step[c] = "acquire", until[c] \in 1 .. now
             PROVE  Refilled >= PerTicks
  BY DEF SleepersFindToken
<1> DEFINE slept == until[c] - last
           since == now - last
<1>1. tokens + slept * Capacity >= PerTicks
  BY DEF Inv, AdapterCore, SleeperGetsToken
<1>2. /\ slept \in Int /\ since \in Int /\ slept <= since /\ Capacity \in Nat
      /\ tokens \in Nat /\ PerTicks \in Nat /\ Full \in Nat /\ PerTicks <= Full
  <2>1. until[c] \in Nat /\ now \in Nat /\ last \in Nat /\ tokens \in Nat /\ until[c] <= now
    BY DEF Inv, AdapterCore, AdapterTypeOK
  <2>2. Full \in Nat /\ PerTicks <= Full
    BY RefillBounds DEF Inv, AdapterCore
  <2> QED
    BY <2>1, <2>2, AdapterAssumption
<1>3. Refilled = IF tokens + since * Capacity < Full THEN tokens + since * Capacity ELSE Full
  BY DEF Refilled
<1> HIDE DEF slept, since
<1>4. slept * Capacity <= since * Capacity
  BY <1>2, ProductsGrow
<1>5. slept * Capacity \in Int /\ since * Capacity \in Int
  BY <1>2
<1>6. tokens + since * Capacity >= PerTicks
  BY <1>1, <1>2, <1>4, <1>5
<1> QED
  BY <1>2, <1>3, <1>5, <1>6

(* base.py:7,47-52,81-83: between any two calls, however many tasks retry  *)
(* and sleep, no more tokens were taken than a full bucket and the refill  *)
(* since; since the start no more than one token and the refill; and       *)
(* whoever slept for a token with the lock in hand finds one.              *)
THEOREM BudgetHolds == PollerSpec => []BudgetIsKept
<1>1. Inv => BudgetIsKept
  <2> SUFFICES ASSUME Inv PROVE BudgetIsKept
    OBVIOUS
  <2>1. WindowBudget
    BY DEF Inv, AdapterCore, BucketInv
  <2>2. BootBudget
    <3>1. /\ tokens + Len(calls) * PerTicks <= PerTicks + last * Capacity
          /\ tokens \in Nat /\ last \in Nat /\ now \in Nat /\ last <= now
          /\ Capacity \in Nat /\ PerTicks \in Nat /\ Len(calls) \in Nat
      BY AdapterAssumption DEF Inv, AdapterCore, AdapterTypeOK, BucketInv
    <3>2. last * Capacity <= now * Capacity
      BY <3>1, ProductsGrow
    <3>3. /\ last * Capacity \in Int /\ now * Capacity \in Int
          /\ Len(calls) * PerTicks \in Int
      BY <3>1
    <3> QED
      BY <3>1, <3>2, <3>3 DEF BootBudget
  <2> QED
    BY <2>1, <2>2, SleepersWakeToToken DEF BudgetIsKept
<1> QED
  BY <1>1, InvHolds, PTL

(* reconciliation.py:51,72-77: a report with a status that ends an order   *)
(* is what became of the order and stays so, an order is given up only     *)
(* after all its polls, and no report credits shares the order has not.    *)
THEOREM ReportsHold == PollerSpec => []ReportsAreTrue
<1>1. Inv => ReportsAreTrue
  <2> SUFFICES ASSUME Inv PROVE ReportsAreTrue
    OBVIOUS
  <2>1. /\ out \in Seq([last : Answers \cup {Nothing}, polls : 0 .. MaxPolls])
        /\ \A n \in DOMAIN out :
             /\ TrueOf(out[n].last, orders[n])
             /\ out[n].last.status \notin _TERMINAL_STATUSES => out[n].polls = MaxPolls
    BY DEF Inv, PollerCore, ReportsStayTrue
  <2>2. ASSUME NEW n \in DOMAIN out
        PROVE  /\ out[n].last.status \in Final => out[n].last = orders[n]
               /\ out[n].last.filled_qty <= orders[n].filled_qty
    <3>1. TrueOf(out[n].last, orders[n]) /\ out[n].last \in Answers \cup {Nothing}
      <4>1. TrueOf(out[n].last, orders[n])
        BY <2>1
      <4>2. out[n] \in [last : Answers \cup {Nothing}, polls : 0 .. MaxPolls]
        BY <2>1, ElementOf
      <4> QED
        BY <4>1, <4>2
    <3>2. CASE out[n].last \in Answers
      BY <3>1, <3>2, AnswerFacts DEF TrueOf
    <3>3. CASE out[n].last = Nothing
      <4>1. n \in 1 .. Acks
        BY <2>1, InvNumbers
      <4>2. orders[n].filled_qty \in 0 .. Quantity
        BY <4>1, InvFacts, AnswerFacts
      <4>3. Nothing.status \notin Final /\ Nothing.filled_qty = 0
        BY AnswerFacts
      <4> QED
        BY <3>3, <4>2, <4>3
    <3> QED
      BY <3>1, <3>2, <3>3
  <2> QED
    BY <2>1, <2>2
       DEF ReportsAreTrue, FinalReportIsFinal, GivenUpAfterAllPolls, Inv, PollerCore
<1> QED
  BY <1>1, InvHolds, PTL
=============================================================================
