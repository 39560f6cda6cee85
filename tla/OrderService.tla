---------------------------- MODULE OrderService ----------------------------
(***************************************************************************)
(* OrderService of quant/execution/orders.py (place, cancel,               *)
(* refresh_status) with the RiskManager check and the Redis kill switch it *)
(* reads, as called by concurrent requests of the REST API.                *)
(*                                                                         *)
(* Every request has a database session of its own and awaits the broker   *)
(* between reading a Trade row and committing it.  place() keeps its row   *)
(* uncommitted until the broker has answered: status[o] is what the other  *)
(* requests can see.  The broker is external: order[o] is what it has of   *)
(* the order, the raw status and how much of it is filled.                 *)
(***************************************************************************)
EXTENDS Naturals, FiniteSets

CONSTANTS Orders,       \* calls of POST /orders
          Requests,     \* DELETE /orders/{id} and refresh_status calls in flight
          Symbols,
          SymbolOf,     \* the symbol of an order
          Buys,         \* the orders with side BUY
          Held,         \* symbols with a Position row: no code writes one
          MaxPositions, \* settings.max_positions
          MaxAttempts,  \* HttpAdapter.max_retries
          BrokerStatuses, \* bound: the raw statuses the broker comes to use
          Faults        \* bound: of the four faults below, those that occur

OrderStatus == {"PENDING", "SUBMITTED", "PARTIAL", "FILLED", "CANCELLED",
                "REJECTED", "EXPIRED"}

(* Mutant: an accepted order counts as filled. *)
AcceptedIsFilled ==
  [new |-> "FILLED", pending_new |-> "SUBMITTED", accepted |-> "SUBMITTED",
   partially_filled |-> "PARTIAL", filled |-> "FILLED", done_for_day |-> "FILLED",
   canceled |-> "CANCELLED", expired |-> "EXPIRED", rejected |-> "REJECTED",
   replaced |-> "SUBMITTED", pending_cancel |-> "SUBMITTED", pending_replace |-> "SUBMITTED",
   stopped |-> "CANCELLED", suspended |-> "REJECTED", calculated |-> "SUBMITTED"]

ALPACA_STATUS_MAP ==
  [new |-> "SUBMITTED", pending_new |-> "SUBMITTED", accepted |-> "SUBMITTED",
   partially_filled |-> "PARTIAL", filled |-> "FILLED", done_for_day |-> "FILLED",
   canceled |-> "CANCELLED", expired |-> "EXPIRED", rejected |-> "REJECTED",
   replaced |-> "SUBMITTED", pending_cancel |-> "SUBMITTED", pending_replace |-> "SUBMITTED",
   stopped |-> "CANCELLED", suspended |-> "REJECTED", calculated |-> "SUBMITTED"]

RawStatus == DOMAIN ALPACA_STATUS_MAP

(* An order in one of these statuses may be executed yet. *)
Halts   == {"stopped", "suspended"}
Working == {"pending_new", "accepted", "new", "partially_filled", "pending_replace"} \cup Halts

(* A process dies; an answer is lost; a cancel is refused; the broker      *)
(* stops or suspends an order.                                             *)
AllFaults == {"crash", "lost", "cancel_refused", "halted"}

ASSUME OrderServiceAssumption ==
  /\ SymbolOf \in [Orders -> Symbols]
  /\ Buys \subseteq Orders
  /\ Held \subseteq Symbols
  /\ MaxPositions \in Nat
  /\ MaxAttempts \in Nat \ {0}
  /\ BrokerStatuses \subseteq RawStatus
  /\ Faults \subseteq AllFaults

VARIABLES pc,              \* where place() is, per order
          tries,           \* failed HTTP attempts of its POST
          ack,             \* the raw status the broker answered with
          status,          \* Trade.status as committed; "NONE": no row
          broker_order_id, \* whether the committed row has one
          filled_at,       \* whether the committed row has fill data
          requests,        \* cancels and refreshes in flight
          kill_switch,     \* the Redis key
          late,            \* history: orders begun while the switch is engaged
          order,           \* the broker's order: its raw status, how much is filled
          faults           \* what may fail in this behaviour

rows == <<status, broker_order_id, filled_at>>
switch == <<kill_switch, late>>
vars == <<pc, tries, ack, rows, requests, switch, order, faults>>

(* What the broker has of an order. *)
Order(raw, filled) == [raw |-> raw, filled |-> filled]
NoOrder == Order("none", "nothing")

(* An order takes a raw status. *)
Becomes(b, raw) ==
  Order(raw, CASE raw = "filled" -> "all" [] raw = "partially_filled" -> "part" [] OTHER -> b.filled)

Mapped(raw, default) ==
  IF raw \in DOMAIN ALPACA_STATUS_MAP THEN ALPACA_STATUS_MAP[raw] ELSE default

-----------------------------------------------------------------------------
Init ==
  /\ pc = [o \in Orders |-> "idle"]
  /\ tries = [o \in Orders |-> 0]
  /\ ack = [o \in Orders |-> "none"]
  /\ status = [o \in Orders |-> "NONE"]
  /\ broker_order_id = [o \in Orders |-> FALSE]
  /\ filled_at = [o \in Orders |-> FALSE]
  /\ requests = {}
  /\ kill_switch \in BOOLEAN
  /\ late = IF kill_switch THEN Orders ELSE {}
  /\ order = [o \in Orders |-> NoOrder]
  /\ faults \in {{}, Faults} \cup {{f} : f \in Faults}

Goto(o, label) == pc' = [pc EXCEPT ![o] = label]

(* A blocked or failed order is answered 422 with a REJECTED row. *)
CommitRejected(o) ==
  /\ status' = [status EXCEPT ![o] = "REJECTED"]
  /\ Goto(o, "answered")
  /\ UNCHANGED <<broker_order_id, filled_at>>

-----------------------------------------------------------------------------
(* place() *)

(* Mutant: the switch is consulted for BUYs only. *)
ReadKillSwitchForBuys(o) ==
  /\ pc[o] = "idle"
  /\ \/ kill_switch /\ o \in Buys /\ CommitRejected(o)
     \/ ~(kill_switch /\ o \in Buys) /\ Goto(o, "limits") /\ UNCHANGED rows
  /\ UNCHANGED <<tries, ack, requests, switch, order>>

(* RiskManager.check reads the switch first ... *)
ReadKillSwitch(o) ==
  /\ pc[o] = "idle"
  /\ \/ kill_switch /\ CommitRejected(o)
     \/ ~kill_switch /\ Goto(o, "limits") /\ UNCHANGED rows
  /\ UNCHANGED <<tries, ack, requests, switch, order>>

(* The open-name cap, against the Position rows. *)
CapAllows(o) ==
  \/ o \notin Buys
  \/ SymbolOf[o] \in Held
  \/ Cardinality(Held) < MaxPositions

(* ... then the limits.  Size, sector, loss and drawdown depend on equity  *)
(* and prices that are not modelled: they may pass or fail.                *)
CheckLimits(o) ==
  /\ pc[o] = "limits"
  /\ \/ CommitRejected(o)
     \/ CapAllows(o) /\ Goto(o, "post") /\ UNCHANGED rows
  /\ UNCHANGED <<tries, ack, requests, switch, order>>

(* A failed attempt is repeated with the same client_order_id while        *)
(* attempts are left.                                                      *)
Retry(o) ==
  /\ tries' = [tries EXCEPT ![o] = @ + 1]
  /\ Goto(o, IF tries[o] + 1 < MaxAttempts THEN "post" ELSE "failed")

(* The broker takes the order, and may have filled it when it answers. *)
PostAccepted(o) ==
  /\ pc[o] = "post"
  /\ order[o] = NoOrder
  /\ \E raw \in {"pending_new", "accepted", "new", "partially_filled", "filled"} \cap BrokerStatuses :
       /\ order' = [order EXCEPT ![o] = Becomes(NoOrder, raw)]
       /\ ack' = [ack EXCEPT ![o] = raw]
  /\ Goto(o, "acked")
  /\ UNCHANGED <<tries, rows, requests, switch>>

(* It takes the order and the answer is lost. *)
PostReplyLost(o) ==
  /\ "lost" \in faults
  /\ pc[o] = "post"
  /\ order[o] = NoOrder
  /\ order' = [order EXCEPT ![o] = Becomes(NoOrder, "new")]
  /\ Retry(o)
  /\ UNCHANGED <<ack, rows, requests, switch>>

(* The request does not reach it, or is answered 429 or 5xx. *)
PostDropped(o) ==
  /\ pc[o] = "post"
  /\ Retry(o)
  /\ UNCHANGED <<ack, rows, requests, switch, order>>

(* It refuses: bad order, no buying power, client_order_id already used. *)
PostRefused(o) ==
  /\ pc[o] = "post"
  /\ Goto(o, "failed")
  /\ UNCHANGED <<tries, ack, rows, requests, switch, order>>

CommitAck(o) ==
  /\ pc[o] = "acked"
  /\ status' = [status EXCEPT ![o] = Mapped(ack[o], "SUBMITTED")]
  /\ broker_order_id' = [broker_order_id EXCEPT ![o] = TRUE]
  /\ Goto(o, "answered")
  /\ UNCHANGED <<tries, ack, filled_at, requests, switch, order>>

CommitFailure(o) ==
  /\ pc[o] = "failed"
  /\ CommitRejected(o)
  /\ UNCHANGED <<tries, ack, requests, switch, order>>

(* The process dies, the client disconnects or the commit fails: the       *)
(* transaction that holds the row is rolled back.                          *)
PlaceCrashes(o) ==
  /\ "crash" \in faults
  /\ pc[o] \in {"limits", "post", "acked", "failed"}
  /\ Goto(o, "crashed")
  /\ UNCHANGED <<tries, ack, rows, requests, switch, order>>

Place(o) ==
  \/ ReadKillSwitch(o)
  \/ CheckLimits(o)
  \/ PostAccepted(o)
  \/ PostReplyLost(o)
  \/ PostDropped(o)
  \/ PostRefused(o)
  \/ CommitAck(o)
  \/ CommitFailure(o)
  \/ PlaceCrashes(o)

-----------------------------------------------------------------------------
(* cancel() and refresh_status() *)

(* A request loads the row; what it loaded is what it compares with later. *)
Load(q, kind, o) ==
  /\ \A r \in requests : r.id # q
  /\ requests' = requests \cup
       {[id |-> q, kind |-> kind, order |-> o, step |-> "loaded",
         loaded |-> status[o], raw |-> "unknown"]}
  /\ UNCHANGED <<pc, tries, ack, rows, switch, order>>

CancelLoad(q, o) ==
  /\ status[o] \notin {"NONE", "FILLED", "CANCELLED", "REJECTED"}
  /\ Load(q, "cancel", o)

RefreshLoad(q, o) ==
  /\ status[o] # "NONE"
  /\ broker_order_id[o]
  /\ Load(q, "refresh", o)

Answered(r, raw) ==
  requests' = (requests \ {r}) \cup {[r EXCEPT !.step = "answered", !.raw = raw]}

(* Mutant: an order that is partly filled is not cancelled at the broker. *)
CancelNewAtBroker(r) ==
  /\ r.kind = "cancel"
  /\ r.step = "loaded"
  /\ \/ /\ order[r.order].raw = "new"
        /\ order' = [order EXCEPT ![r.order] = Becomes(@, "canceled")]
     \/ /\ order[r.order].raw # "new" \/ "cancel_refused" \in faults
        /\ UNCHANGED order
  /\ Answered(r, "unknown")
  /\ UNCHANGED <<pc, tries, ack, rows, switch>>

(* DELETE at the broker.  An exception is logged and swallowed, so the     *)
(* request goes on whether or not the broker did anything.                 *)
CancelAtBroker(r) ==
  /\ r.kind = "cancel"
  /\ r.step = "loaded"
  /\ \/ /\ order[r.order].raw \in Working
        /\ \E raw \in {"canceled", "pending_cancel"} :
             order' = [order EXCEPT ![r.order] = Becomes(@, raw)]
     \/ /\ order[r.order].raw \notin Working \/ "cancel_refused" \in faults
        /\ UNCHANGED order
  /\ Answered(r, "unknown")
  /\ UNCHANGED <<pc, tries, ack, rows, switch>>

CancelCommit(r) ==
  /\ r.kind = "cancel"
  /\ r.step = "answered"
  /\ status' = [status EXCEPT ![r.order] = "CANCELLED"]
  /\ requests' = requests \ {r}
  /\ UNCHANGED <<pc, tries, ack, broker_order_id, filled_at, switch, order>>

(* GET at the broker; a payload without a status reads as "unknown". *)
RefreshGet(r) ==
  /\ r.kind = "refresh"
  /\ r.step = "loaded"
  /\ \E raw \in {order[r.order].raw, "unknown"} : Answered(r, raw)
  /\ UNCHANGED <<pc, tries, ack, rows, switch, order>>

(* The session writes the attributes that differ from what was loaded. *)
RefreshCommit(r) ==
  /\ r.kind = "refresh"
  /\ r.step = "answered"
  /\ LET mapped == Mapped(r.raw, r.loaded)
     IN  /\ status' = IF mapped = r.loaded THEN status
                      ELSE [status EXCEPT ![r.order] = mapped]
         /\ filled_at' = IF mapped = "FILLED"
                         THEN [filled_at EXCEPT ![r.order] = TRUE]
                         ELSE filled_at
  /\ requests' = requests \ {r}
  /\ UNCHANGED <<pc, tries, ack, broker_order_id, switch, order>>

(* A failed GET, or a request killed before its commit. *)
RequestEnds(r) ==
  /\ \/ r.kind = "refresh" /\ r.step = "loaded"
     \/ "crash" \in faults
  /\ requests' = requests \ {r}
  /\ UNCHANGED <<pc, tries, ack, rows, switch, order>>

Serve ==
  \/ \E q \in Requests, o \in Orders : CancelLoad(q, o) \/ RefreshLoad(q, o)
  \/ \E r \in requests :
       \/ CancelAtBroker(r)
       \/ CancelCommit(r)
       \/ RefreshGet(r)
       \/ RefreshCommit(r)
       \/ RequestEnds(r)

-----------------------------------------------------------------------------
(* POST /admin/kill-switch *)
EngageKillSwitch ==
  /\ ~kill_switch
  /\ kill_switch' = TRUE
  /\ late' = {o \in Orders : pc[o] = "idle"}
  /\ UNCHANGED <<pc, tries, ack, rows, requests, order>>

DisengageKillSwitch ==
  /\ kill_switch
  /\ kill_switch' = FALSE
  /\ late' = {}
  /\ UNCHANGED <<pc, tries, ack, rows, requests, order>>

(* The broker and the market (external): a working order may come to any   *)
(* status but that it is not taken back, and not refused, once shares are  *)
(* filled.                                                                 *)
Ahead(b) ==
  CASE b.raw \in Working -> BrokerStatuses \ ({b.raw, "pending_new", "accepted", "pending_cancel"}
                              \cup IF b.filled = "nothing" THEN {} ELSE {"new", "rejected"})
    [] b.raw = "pending_cancel" -> {"filled", "canceled"}
    [] OTHER -> {}

BrokerStep(o) ==
  /\ \E raw \in Ahead(order[o]) :
       /\ raw \in Halts => "halted" \in faults
       /\ order' = [order EXCEPT ![o] = Becomes(@, raw)]
  /\ UNCHANGED <<pc, tries, ack, rows, requests, switch>>

Next ==
  /\ \/ \E o \in Orders : Place(o) \/ BrokerStep(o)
     \/ Serve
     \/ EngageKillSwitch
     \/ DisengageKillSwitch
  /\ UNCHANGED faults

Spec == Init /\ [][Next]_vars

-----------------------------------------------------------------------------
(* The values the state may have. *)
TypeOK ==
  /\ pc \in [Orders -> {"idle", "limits", "post", "acked", "failed",
                        "answered", "crashed"}]
  /\ tries \in [Orders -> 0..MaxAttempts]
  /\ ack \in [Orders -> RawStatus \cup {"none"}]
  /\ status \in [Orders -> OrderStatus \cup {"NONE"}]
  /\ broker_order_id \in [Orders -> BOOLEAN]
  /\ filled_at \in [Orders -> BOOLEAN]
  /\ requests \subseteq [id : Requests, kind : {"cancel", "refresh"},
                         order : Orders, step : {"loaded", "answered"},
                         loaded : OrderStatus, raw : RawStatus \cup {"unknown"}]
  /\ kill_switch \in BOOLEAN
  /\ late \subseteq Orders
  /\ order \in [Orders -> [raw : RawStatus \cup {"none"}, filled : {"nothing", "part", "all"}]]
  /\ faults \subseteq Faults

(* What is true of the broker's order b of which a row truthfully says     *)
(* trade_status.  done_for_day, with whatever is filled by then, is read   *)
(* as FILLED; stopped and suspended as CANCELLED and REJECTED.  A PENDING  *)
(* row is flushed but not committed.                                       *)
Backs(b, trade_status) ==
  CASE trade_status \in {"SUBMITTED", "CANCELLED"} -> b # NoOrder
    [] trade_status = "PARTIAL"  -> b.filled # "nothing"
    [] trade_status = "FILLED"   -> b.filled = "all" \/ b.raw = "done_for_day"
    [] trade_status = "EXPIRED"  -> b.raw = "expired"
    [] trade_status = "PENDING"  -> FALSE
    [] OTHER                     -> TRUE

(* orders.py:5-10: a row is never ahead of the broker.  However requests   *)
(* interleave and fail, a row that says SUBMITTED or CANCELLED is of an    *)
(* order the broker took, PARTIAL of one with shares filled, EXPIRED of an *)
(* expired one; FILLED, or fill data, of one that is filled as a whole or  *)
(* was done for the day; and no row says PENDING.                          *)
RowNeverAhead ==
  \A o \in Orders : /\ Backs(order[o], status[o])
                    /\ filled_at[o] => Backs(order[o], "FILLED")

(* What is true of an order b that was seen with a raw status. *)
Later(raw, b) ==
  /\ b # NoOrder
  /\ raw = "partially_filled" => b.filled # "nothing"
  /\ raw = "filled" => b.filled = "all"
  /\ raw = "pending_cancel" => b.raw \in {"pending_cancel", "filled", "canceled"}
  /\ raw \notin Working \cup {"pending_cancel"} => b.raw = raw

(* The strengthening of RowNeverAhead: so is what requests hold in memory, *)
(* and a stopped or suspended order was seen only of a broker that does so.*)
InFlightNeverAhead ==
  /\ \A o \in Orders : ack[o] # "none" => /\ Later(ack[o], order[o])
                                          /\ ack[o] \notin Halts
  /\ \A r \in requests :
       /\ order[r.order] # NoOrder
       /\ Backs(order[r.order], r.loaded)
       /\ (r.raw # "unknown" => Later(r.raw, order[r.order]))
       /\ (r.raw \in Halts => "halted" \in faults)
  /\ \A o \in Orders : /\ (order[o].raw \in Halts => "halted" \in faults)
                       /\ (order[o].raw = "filled" <=> order[o].filled = "all")
                       /\ (order[o].raw = "partially_filled" => order[o].filled # "nothing")

(* A row, and so a request for it, exists only once place() is over; an    *)
(* order exists only once its POST was tried.                              *)
RowsFollowPlace ==
  /\ \A o \in Orders : status[o] # "NONE" => pc[o] = "answered"
  /\ \A r \in requests : pc[r.order] = "answered"
  /\ \A o \in Orders : pc[o] \in {"idle", "limits"} => order[o] = NoOrder
  /\ \A o \in Orders : pc[o] = "acked" => ack[o] # "none"

(* The orders begun while the switch is engaged wait or were rejected. *)
LateOrdersWait ==
  /\ late # {} => kill_switch
  /\ \A o \in late : pc[o] \in {"idle", "answered"} /\ order[o] = NoOrder

(* Where no answer is lost an unacknowledged order was not placed; where no *)
(* cancel is refused, the broker ends what it was asked to cancel; place()  *)
(* is cut off only by a crash.                                              *)
EachFaultHasItsPlace ==
  /\ "lost" \notin faults =>
       \A o \in Orders : pc[o] \in {"post", "failed"} => order[o] = NoOrder
  /\ "cancel_refused" \notin faults =>
       \A r \in requests :
         r.kind = "cancel" /\ r.step = "answered" => order[r.order].raw \notin Working
  /\ \A o \in Orders : pc[o] = "crashed" => "crash" \in faults

(* manager.py:101-103, admin.py:70-91: an order that was not begun when    *)
(* the switch was engaged does not reach the broker while it stays         *)
(* engaged, whatever its side and whatever else is in flight.              *)
KillSwitchStopsNewOrders == \A o \in late : order[o] = NoOrder

(* orders.py:12: an order the broker works on has a row that says so, or   *)
(* place() is about to write it.  Each other outcome has one cause: no row *)
(* only after a process died or while a lost answer is retried, REJECTED   *)
(* only after a lost answer or a suspension, CANCELLED only after a refused *)
(* cancel or a stop; the races of cancel with refresh and with fills, and  *)
(* every other failure, never part them.                                   *)
WorkingOrdersHaveWorkingRows ==
  \A o \in Orders :
    order[o].raw \in Working =>
      \/ pc[o] = "acked" \/ status[o] \in {"SUBMITTED", "PARTIAL"}
      \/ pc[o] = "crashed" /\ "crash" \in faults
      \/ pc[o] \in {"post", "failed"} /\ "lost" \in faults
      \/ status[o] = "REJECTED" /\ faults \cap {"lost", "halted"} # {}
      \/ status[o] = "CANCELLED" /\ faults \cap {"cancel_refused", "halted"} # {}

(* The inductive invariant: what place(), the requests in flight and the   *)
(* rows agree on in every state, with and without faults (orders.py:38-119).*)
ServiceInv ==
  /\ RowNeverAhead
  /\ InFlightNeverAhead
  /\ RowsFollowPlace
  /\ LateOrdersWait
  /\ EachFaultHasItsPlace
  /\ WorkingOrdersHaveWorkingRows
=============================================================================
