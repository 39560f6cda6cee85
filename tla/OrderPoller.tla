---------------------------- MODULE OrderPoller -----------------------------
(***************************************************************************)
(* reconcile of quant/execution/reconciliation.py: the orders a session    *)
(* has placed are polled one after the other, through the HttpAdapter of   *)
(* the session, while the broker goes on filling them.  The session is the *)
(* only task of its adapter; the adapter of the API's broker and those of  *)
(* the language models have several: a behaviour is about one or the other.*)
(*                                                                         *)
(* The broker is external.  An answer carries what the order was when the  *)
(* broker answered; it may have moved on when it is read.                  *)
(***************************************************************************)
EXTENDS HttpAdapter

CONSTANTS Poller,    \* the session, a task with an adapter of its own
          Acks,      \* bound: how many orders it placed
          MaxPolls,  \* max_polls
          Interval,  \* interval_seconds, in ticks
          Quantity,  \* bound: the shares of an order
          Endings    \* bound: how the broker may end an order

ASSUME PollerAssumption ==
  /\ Poller \in Callers
  /\ {Acks, MaxPolls, Quantity} \subseteq Nat \ {0}
  /\ Interval \in Nat
  /\ Endings \subseteq {"canceled", "expired", "rejected", "done_for_day"}

VARIABLES orders,         \* by ack: the status of the order and its filled quantity
          phase,         \* where the poller is
          polls,         \* GETs for the order it is at
          payload,       \* the answer on its way
          last_payload,
          out            \* the FillReports

pollerVars == <<orders, phase, polls, payload, last_payload, out>>
reconcileVars == <<adapterVars, pollerVars>>

Final    == {"filled", "canceled", "expired", "rejected"}
Statuses == {"new", "partially_filled", "done_for_day"} \cup Final
Payload(status, filled) == [status |-> status, filled_qty |-> filled]
Nothing  == Payload("unknown", 0)
NotADict == Payload("not a dict", 0)

_TERMINAL_STATUSES ==
  {"filled", "partially_filled", "canceled", "expired", "rejected", "done_for_day"}

PollerInit ==
  /\ AdapterInit
  /\ orders = [n \in 1 .. Acks |-> Payload("new", 0)]
  /\ phase \in {"poll", "no session"}
  /\ polls = 0
  /\ payload = Nothing
  /\ last_payload = Nothing
  /\ out = <<>>

HasSession == phase # "no session"

Current == Len(out) + 1

Get ==
  /\ phase = "poll"
  /\ Current <= Acks /\ polls < MaxPolls
  /\ Request(Poller)
  /\ polls' = polls + 1
  /\ phase' = "get"
  /\ UNCHANGED <<orders, payload, last_payload, out>>

Answer ==
  /\ Succeeds(Poller)
  /\ payload' \in {orders[Current], NotADict}
  /\ UNCHANGED <<orders, phase, polls, last_payload, out>>

(* Mutant: an answer fills the gaps of the one before. *)
ReadPayloadMerges ==
  /\ phase = "get"
  /\ step[Poller] = "done"
  /\ payload # NotADict
  /\ Return(Poller)
  /\ last_payload' = [payload EXCEPT !.filled_qty = IF last_payload = Nothing THEN @ ELSE last_payload.filled_qty]
  /\ phase' = IF payload.status \in _TERMINAL_STATUSES THEN "report" ELSE "sleep"
  /\ payload' = Nothing
  /\ UNCHANGED <<orders, polls, out>>

ReadPayload ==
  /\ phase = "get"
  /\ step[Poller] = "done"
  /\ payload # NotADict
  /\ Return(Poller)
  /\ last_payload' = payload
  /\ phase' = IF payload.status \in _TERMINAL_STATUSES THEN "report" ELSE "sleep"
  /\ payload' = Nothing
  /\ UNCHANGED <<orders, polls, out>>

(* The GET raised, after the adapter's own retries, or was no object: it   *)
(* counts as a poll.                                                       *)
PollFailed ==
  /\ phase = "get"
  /\ \/ step[Poller] = "failed"
     \/ step[Poller] = "done" /\ payload = NotADict
  /\ Return(Poller)
  /\ phase' = "sleep"
  /\ payload' = Nothing
  /\ UNCHANGED <<orders, polls, last_payload, out>>

FallAsleep ==
  /\ phase = "sleep"
  /\ phase' = "asleep"
  /\ Sleep(Poller, Interval)
  /\ UNCHANGED <<now, bucket, queue, step, attempt, orders, polls, payload, last_payload, out>>

WakeUp ==
  /\ phase = "asleep"
  /\ now >= until[Poller]
  /\ phase' = IF polls < MaxPolls THEN "poll" ELSE "report"
  /\ Awake(Poller)
  /\ UNCHANGED <<now, bucket, queue, step, attempt, orders, polls, payload, last_payload, out>>

Report ==
  /\ phase = "report"
  /\ out' = Append(out, [last |-> last_payload, polls |-> polls])
  /\ phase' = "poll"
  /\ polls' = 0
  /\ last_payload' = Nothing
  /\ UNCHANGED <<adapterVars, orders, payload>>

Poll ==
  Get \/ Answer \/ ReadPayload \/ PollFailed \/ FallAsleep \/ WakeUp \/ Report

(* The broker: shares are filled; a working order ends. *)
Fill(n) ==
  /\ orders[n].status \in {"new", "partially_filled"}
  /\ LET filled == orders[n].filled_qty + 1
     IN orders' = [orders EXCEPT ![n] =
                    Payload(IF filled = Quantity THEN "filled" ELSE "partially_filled", filled)]
  /\ UNCHANGED <<adapterVars, phase, polls, payload, last_payload, out>>

End(n) ==
  /\ orders[n].status \notin Final
  /\ \E status \in Endings :
       /\ status = "rejected" => orders[n].status = "new"
       /\ orders' = [orders EXCEPT ![n].status = status]
  /\ UNCHANGED <<adapterVars, phase, polls, payload, last_payload, out>>

(* The tasks that share an adapter: requests to the API, gathered prompts. *)
Others == Callers \ {Poller}

PollerNext ==
  \/ Poll
  \/ HasSession /\ \E n \in 1 .. Acks : Fill(n) \/ End(n)
  \/ HasSession /\ Transfer(Poller) /\ UNCHANGED pollerVars
  \/ /\ ~HasSession
     /\ \E c \in Others : Request(c) \/ Transfer(c) \/ Succeeds(c) \/ Return(c)
     /\ UNCHANGED pollerVars
  \/ Tick /\ UNCHANGED pollerVars

PollerSpec == PollerInit /\ [][PollerNext]_reconcileVars

-----------------------------------------------------------------------------
(* The values the state may have: the poller is at one order at a time.    *)
PollerTypeOK ==
  /\ AdapterTypeOK
  /\ orders \in [1 .. Acks -> [status : Statuses, filled_qty : 0 .. Quantity]]
  /\ phase \in {"no session", "poll", "get", "sleep", "asleep", "report"}
  /\ polls \in 0 .. MaxPolls
  /\ Len(out) <= Acks
  /\ step[Poller] = "idle" <=> phase # "get"

(* reconciliation.py:51 "Final state of one submitted order": however      *)
(* polls fail, answers are late and fills go on meanwhile, a report with a *)
(* status that ends an order at the broker is what became of the order,    *)
(* and it stays so.                                                        *)
FinalReportIsFinal ==
  \A n \in DOMAIN out : out[n].last.status \in Final => out[n].last = orders[n]

(* reconciliation.py:72-77: an order is given up as unfinished only after  *)
(* all its polls; no report credits it with shares it does not have.       *)
GivenUpAfterAllPolls ==
  \A n \in DOMAIN out :
    /\ out[n].last.status \notin _TERMINAL_STATUSES => out[n].polls = MaxPolls
    /\ out[n].last.filled_qty <= orders[n].filled_qty

(* What the poller reports of an order is true of it.                      *)
ReportsAreTrue == PollerTypeOK /\ FinalReportIsFinal /\ GivenUpAfterAllPolls
=============================================================================
