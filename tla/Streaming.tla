----------------------------- MODULE Streaming ------------------------------
(***************************************************************************)
(* The live feed: AlpacaStreamer consumes the provider's websocket and     *)
(* publishes every trade, quote and bar on a Redis channel; a /stream      *)
(* request that was answered subscribes to its channels and sends what     *)
(* arrives.                                                                *)
(*                                                                         *)
(* A message is <<type, symbol, n>>: n counts what the provider has sent.  *)
(* The provider's side of the connection, the network and Redis are        *)
(* modelled by what the worker and the requests see of them.               *)
(***************************************************************************)
EXTENDS Integers, Sequences, FiniteSets

CONSTANTS Viewers,       \* open /stream requests
          Feed,          \* the messages of a frame: type and symbol
          ReconnectMax,  \* reconnect_max
          MaxFrames, MaxOutages  \* bounds of the model

ASSUME StreamAssumption ==
  ReconnectMax \in Nat \ {0} /\ Feed \subseteq Seq(STRING \X STRING)

VARIABLES
  ws,         \* where run() is; "off" if the worker is not started
  delay,
  stop,       \* the event set by SIGTERM
  batch,      \* messages of the frame in hand that are not yet published
  sent,       \* messages the provider has sent
  published,  \* messages that were published, in order
  viewer,     \* by viewer: what it asked for and subscribed to, what Redis
              \* holds for it, what it got
  greets,     \* the server says "connected" before it answers; never changes
  fails,      \* attempts since the last subscription, at most reconnect_max:
              \* history
  outages

workerVars == <<ws, delay, stop, batch, sent, published, greets, fails, outages>>
streamVars == <<workerVars, viewer>>

Types == {"trade", "quote", "bar"}

NotOpen == [asked |-> {}, channels |-> {}, since |-> 0, buffer |-> <<>>, got |-> <<>>]

Minimum(a, b) == IF a < b THEN a ELSE b

Connected == ws \in {"authenticate", "subscribe", "consume", "publish"}

-----------------------------------------------------------------------------
(* run: connect, authenticate, subscribe, consume; after any end of that,  *)
(* leave if stopped and otherwise sleep, twice as long as the last time.   *)

StopOr(state) == IF stop THEN "ended" ELSE state

Failed == ws' = StopOr("sleep") /\ batch' = <<>> /\ fails' = Minimum(fails + 1, ReconnectMax)

Start ==
  /\ ws = "off" /\ ws' = "connect" /\ delay' = 1 /\ fails' = 0
  /\ UNCHANGED <<stop, batch, sent, published, viewer, greets, outages>>

Connect ==
  /\ ws = "connect" /\ ws' = "authenticate"
  /\ UNCHANGED <<delay, stop, batch, sent, published, viewer, greets, fails, outages>>

(* The first frame is taken for the answer: a greeting is an error, every  *)
(* time.                                                                   *)
_authenticate ==
  /\ ws = "authenticate"
  /\ IF greets THEN Failed ELSE ws' = "subscribe" /\ UNCHANGED <<batch, fails>>
  /\ UNCHANGED <<delay, stop, sent, published, viewer, greets, outages>>

_subscribe ==
  /\ ws = "subscribe" /\ ws' = "consume" /\ delay' = 1 /\ fails' = 0
  /\ UNCHANGED <<stop, batch, sent, published, viewer, greets, outages>>

(* A connection refused or broken, keys refused, a frame that is no JSON,  *)
(* or Redis away: the rest of the frame is dropped.                        *)
Disconnect ==
  /\ Connected \/ ws = "connect"
  /\ outages < MaxOutages /\ outages' = outages + 1 /\ Failed
  /\ UNCHANGED <<delay, stop, sent, published, viewer, greets>>

Longer == Minimum(delay * 2, ReconnectMax)

(* Mutant: an error ends the loop. *)
WakeOnce ==
  /\ ws = "sleep" /\ ws' = (IF fails > 1 THEN "ended" ELSE StopOr("connect")) /\ delay' = Longer
  /\ UNCHANGED <<stop, batch, sent, published, viewer, greets, fails, outages>>

Wake ==
  /\ ws = "sleep" /\ ws' = StopOr("connect") /\ delay' = Longer
  /\ UNCHANGED <<stop, batch, sent, published, viewer, greets, fails, outages>>

(* _consume: a frame arrives; the event is looked at before it is taken. *)
FrameArrives ==
  /\ ws = "consume" /\ Len(sent) < MaxFrames
  /\ \E frame \in Feed :
       LET numbered == [n \in DOMAIN frame |-> <<frame[n][1], frame[n][2], Len(sent) + n>>] IN
         /\ sent' = sent \o numbered
         /\ IF stop THEN ws' = "ended" /\ UNCHANGED batch
            ELSE ws' = "publish" /\ batch' = numbered
  /\ UNCHANGED <<delay, stop, published, viewer, greets, fails, outages>>

Channel(m) == <<m[1], m[2]>>

(* Mutant: one message of a frame is published. *)
FirstOfFrame ==
  /\ ws = "publish" /\ Len(batch) < 2 /\ ws' = "consume" /\ batch' = <<>>
  /\ UNCHANGED <<delay, stop, sent, published, viewer, greets, fails, outages>>

_publish ==
  /\ ws = "publish" /\ batch # <<>>
  /\ LET m == Head(batch) IN
       IF m[1] \in Types
       THEN /\ published' = Append(published, m)
            /\ viewer' = [v \in Viewers |->
                 IF Channel(m) \in viewer[v].channels
                 THEN [viewer[v] EXCEPT !.buffer = Append(@, m)] ELSE viewer[v]]
       ELSE UNCHANGED <<published, viewer>>
  /\ batch' = Tail(batch)
  /\ UNCHANGED <<ws, delay, stop, sent, greets, fails, outages>>

NextFrame ==
  /\ ws = "publish" /\ batch = <<>> /\ ws' = "consume"
  /\ UNCHANGED <<delay, stop, batch, sent, published, viewer, greets, fails, outages>>

Stop ==
  /\ ws \notin {"off", "ended"} /\ ~stop /\ stop' = TRUE
  /\ UNCHANGED <<ws, delay, batch, sent, published, viewer, greets, fails, outages>>

-----------------------------------------------------------------------------
(* /stream *)

Channels(types, symbols) == (types \cap Types) \X symbols

(* The answer goes out before Redis hears of the viewer: what is published *)
(* in between is not for it.                                               *)
Open(v, channels) ==
  /\ viewer[v] = NotOpen
  /\ viewer' = [viewer EXCEPT ![v].asked = channels]
  /\ UNCHANGED workerVars

Subscribe(v) ==
  /\ viewer[v].asked # {} /\ viewer[v].channels = {}
  /\ viewer' = [viewer EXCEPT ![v].channels = viewer[v].asked, ![v].since = Len(published)]
  /\ UNCHANGED workerVars

_event_stream(v) ==
  /\ viewer[v].buffer # <<>>
  /\ viewer' = [viewer EXCEPT ![v].got = Append(@, Head(viewer[v].buffer)), ![v].buffer = Tail(@)]
  /\ UNCHANGED workerVars

(* The client goes, or Redis does, before the viewer subscribed or after.  *)
Leave(v) ==
  /\ viewer[v].asked # {}
  /\ viewer' = [viewer EXCEPT ![v].asked = {}, ![v].channels = {}, ![v].buffer = <<>>]
  /\ UNCHANGED workerVars

Internal == Start \/ Connect \/ _authenticate \/ _subscribe \/ Wake \/ _publish \/ NextFrame

StreamingNext ==
  \/ Internal \/ FrameArrives \/ Disconnect \/ Stop
  \/ \E v \in Viewers : Subscribe(v) \/ _event_stream(v) \/ Leave(v)

-----------------------------------------------------------------------------
(* Properties *)

(* The wait before the n-th attempt in a row that comes to nothing is      *)
(* 2^(n-1) seconds, at most reconnect_max; a subscription starts it over.  *)
BackoffDoubles ==
  ws = "sleep" => delay = Minimum(2 ^ (fails - 1), ReconnectMax)

Increasing(messages) ==
  \A i, j \in DOMAIN messages : i < j => messages[i][3] < messages[j][3]

Members(messages) == {messages[i] : i \in DOMAIN messages}

(* What is published is in the provider's order and never twice, whatever  *)
(* breaks; and while nothing breaks it is every message of a known type.   *)
FeedIsInOrder ==
  /\ Increasing(published)
  /\ outages = 0 /\ ~stop /\ ws \notin {"off", "ended"} =>
       Members(published) = {m \in Members(sent) \ Members(batch) : m[1] \in Types}

Since(v) == {published[i] : i \in viewer[v].since + 1 .. Len(published)}

(* A viewer gets exactly what was published on the channels it asked for   *)
(* since it subscribed, in order, through reconnections of the worker.     *)
ViewersGetTheirChannels ==
  \A v \in Viewers : viewer[v].channels # {} =>
    LET feed == viewer[v].got \o viewer[v].buffer IN
      /\ Increasing(feed)
      /\ Members(feed) = {m \in Since(v) : Channel(m) \in viewer[v].asked}

(* After SIGTERM the worker ends, if messages keep coming: the event is    *)
(* seen when the next frame arrives or the connection breaks.              *)
StopEnds == (stop /\ Len(sent) < MaxFrames) ~> (ws = "ended")

(* After an outage the worker is subscribed again unless it is stopped, if *)
(* the server's first frame is the answer.                                 *)
StreamResumes == (ws = "sleep" /\ ~greets) ~> (ws = "consume" \/ stop)

(* The worker gets on: it comes back, after waits that double, if it is    *)
(* let in, and it ends when asked to in any case.                          *)
WorkerGetsOn == StopEnds /\ StreamResumes /\ []BackoffDoubles
=============================================================================
