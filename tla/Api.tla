-------------------------------- MODULE Api ---------------------------------
(***************************************************************************)
(* The API's sessions and its live feed: a /stream request is let in by    *)
(* Accounts, by its access token and the state of its user, is answered,   *)
(* and is then a viewer of Streaming until it leaves.                      *)
(***************************************************************************)
EXTENDS Accounts, Streaming

CONSTANTS Symbols,
          Starts  \* users, sessions and requests to start from: see Init

ASSUME ViewersAssumption == Viewers = Requests

(* A start: some sessions, each in one browser and not revoked, whose      *)
(* users have accounts, and requests that are not yet sent, or over.  The  *)
(* worker is not started yet, or not used.                                 *)
IsStart(s) ==
  /\ s.users \in [Emails -> {"absent", "active", "inactive"}]
  /\ s.tokens \in Seq([user : Emails, revoked : BOOLEAN, expired : BOOLEAN, parent : {0}])
  /\ \A n \in DOMAIN s.tokens : s.users[s.tokens[n].user] # "absent"
  /\ s.cookie \in [Browsers -> {0} \cup DOMAIN s.tokens]
  /\ \A b \in Browsers : s.cookie[b] # 0 =>
       /\ ~s.tokens[s.cookie[b]].revoked
       /\ \A c \in Browsers \ {b} : s.cookie[c] # s.cookie[b]
  /\ s.access \in [Browsers -> Emails \cup {NoUser}]
  /\ DOMAIN s.req = Requests
  /\ \A r \in Requests :
       \E kind \in Kinds, b \in Browsers, email \in Emails \cup {NoUser}, pc \in {"unsent", "done"} :
         /\ s.req[r] = [Planned(kind, b, email) EXCEPT !.pc = pc]
         /\ kind \in {"register", "login", "deactivate"} => email \in Emails
  /\ s.ws \in {"off", "ended"} /\ s.greets \in BOOLEAN

ASSUME StartsAssumption == \A s \in Starts : IsStart(s)

vars == <<accountVars, streamVars>>

Init ==
  \E s \in Starts :
    /\ users = s.users /\ tokens = s.tokens /\ cookie = s.cookie /\ access = s.access
    /\ req = s.req /\ expiries = s.expiries
    /\ ws = s.ws /\ delay = 1 /\ stop = FALSE /\ batch = <<>> /\ sent = <<>> /\ published = <<>>
    /\ viewer = [v \in Viewers |-> NotOpen] /\ greets = s.greets /\ fails = 0 /\ outages = 0

(* The user is looked at before the stream is opened, and not again. *)
stream_user(r) ==
  /\ At(r, "stream", "sent")
  /\ IF get_current_user(r) THEN Step(r, "open") ELSE Answer(r, 401)
  /\ UNCHANGED <<users, tokens, cookie, access, expiries, streamVars>>

stream(r) ==
  /\ At(r, "stream", "open")
  /\ \E types \in {{"trade"}, {"trade", "bar"}, {"news"}}, symbols \in SUBSET Symbols :
       IF Channels(types, symbols) = {}
       THEN Answer(r, 400) /\ UNCHANGED streamVars
       ELSE Answer(r, 200) /\ Open(r, Channels(types, symbols))
  /\ UNCHANGED <<users, tokens, cookie, access, expiries>>

Next ==
  \/ AccountsNext /\ UNCHANGED streamVars
  \/ StreamingNext /\ UNCHANGED accountVars
  \/ \E r \in Requests : stream_user(r) \/ stream(r)

(* The worker is scheduled; the provider's messages keep coming. *)
Fairness ==
  /\ WF_vars(Internal /\ UNCHANGED accountVars)
  /\ WF_vars(FrameArrives /\ UNCHANGED accountVars)

Spec == Init /\ [][Next]_vars /\ Fairness

(* A cookie is a token of the table, a token descends from an older one of *)
(* the same user, the delay is within its bounds, and messages wait only   *)
(* for a worker that is publishing and for viewers that are there.         *)
TypeOK ==
  /\ \A b \in Browsers : cookie[b] \in 0..Len(tokens) /\ access[b] \in Emails \cup {NoUser}
  /\ \A n \in DOMAIN tokens :
       tokens[n].parent \in 0..(n - 1) /\ (tokens[n].parent # 0 => tokens[tokens[n].parent].user = tokens[n].user)
  /\ delay \in 1..ReconnectMax
  /\ batch # <<>> => ws = "publish"
  /\ \A v \in Viewers : viewer[v].buffer # <<>> => viewer[v].channels # {}
  /\ \A v \in Viewers : viewer[v].channels \in {{}, viewer[v].asked}

(* From the provider to the viewer, across outages: the feed in order, and *)
(* each viewer's part of it whole.                                         *)
ViewersSeeTheFeed == TypeOK /\ FeedIsInOrder /\ ViewersGetTheirChannels
=============================================================================
