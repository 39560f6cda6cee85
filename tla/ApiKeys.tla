------------------------------- MODULE ApiKeys -------------------------------
(* require_api_key of the superseded server (backend/api/auth.py): the rolling *)
(* one-minute budget of a valid API key, kept as a list of times in memory.    *)
(* Nothing depends on the order of the list: it is the set of its entries, and *)
(* an entry is told from others of the same time by the request it is of.      *)
(* FastAPI runs this function in a pool of threads, so that two requests with  *)
(* one key may be anywhere in it at the same time.                             *)
EXTENDS Integers, FiniteSets

CONSTANTS
    Threads,            \* the requests that may be in the function at once
    RATE_LIMIT,         \* RATE_LIMITS[tier] of the key
    Window,             \* the 60 seconds of the window, in ticks
    Horizon,            \* bound on the ticks
    MaxAsks             \* bound on the requests

ASSUME ApiKeysAssumption ==
    /\ IsFiniteSet(Threads)
    /\ RATE_LIMIT \in Nat \ {0} /\ Window \in Nat \ {0} /\ Horizon \in Nat
    /\ MaxAsks \in Nat

VARIABLES
    clock,              \* time.time()
    log,                \* _request_log[x_api_key]
    asks,               \* thread -> where its request is and what it has read
    admitted,           \* history: the entries of the admitted requests
    met,                \* history: two requests were inside at the same time
    wrong,              \* history: the verdicts that were not the rule's
    asked               \* the requests so far

apiVars == <<clock, log, asks, admitted, met, wrong, asked>>

NoRequest == [step |-> "none", id |-> 0, now |-> 0, kept |-> {}, alone |-> TRUE]

Entry(t) == [id |-> asks[t].id, time |-> asks[t].now]
Recent(entries, now) == {e \in entries : e.time > now - Window}

Inside == {t \in Threads : asks[t].step # "none"}

ApiInit ==
    /\ clock = Window /\ log = {} /\ admitted = {}
    /\ met = FALSE /\ wrong = {} /\ asked = 0
    /\ asks = [t \in Threads |-> NoRequest]

\* A request with the key stamps its time; it is alone as long as no other is
\* inside.
Ask(t) ==
    /\ asks[t].step = "none" /\ asked < MaxAsks
    /\ asked' = asked + 1
    /\ met' = (met \/ Inside # {})
    /\ asks' = [u \in Threads |->
                  IF u = t THEN [step |-> "stamped", id |-> asked, now |-> clock, kept |-> {},
                                 alone |-> Inside = {}]
                  ELSE [asks[u] EXCEPT !.alone = (u \notin Inside)]]
    /\ UNCHANGED <<clock, log, admitted, wrong>>

\* The list without the times that have left the window ...
Clean(t) ==
    /\ asks[t].step = "stamped"
    /\ asks' = [asks EXCEPT ![t].step = "cleaned",
                            ![t].kept = Recent(log, asks[t].now)]
    /\ UNCHANGED <<clock, log, admitted, met, wrong, asked>>

\* Mutant: only the request's own view is cleaned.
StoreNothing(t) ==
    /\ asks[t].step = "cleaned"
    /\ asks' = [asks EXCEPT ![t].step = "stored", ![t].kept = {}]
    /\ UNCHANGED <<clock, log, admitted, met, wrong, asked>>

\* ... replaces the one in the log, which may have grown since.
Store(t) ==
    /\ asks[t].step = "cleaned"
    /\ log' = asks[t].kept
    /\ asks' = [asks EXCEPT ![t].step = "stored", ![t].kept = {}]
    /\ UNCHANGED <<clock, admitted, met, wrong, asked>>

AtLimit == Cardinality(log) >= RATE_LIMIT

\* The rule: as many requests as the tier allows in the minute before this one.
Spent(t) == Cardinality(Recent(admitted, asks[t].now)) >= RATE_LIMIT

\* The verdict: 429, or on to the append.
Check(t) ==
    /\ asks[t].step = "stored"
    /\ asks' = IF AtLimit THEN [asks EXCEPT ![t] = NoRequest]
               ELSE [asks EXCEPT ![t].step = "passed"]
    /\ wrong' = IF AtLimit = Spent(t) THEN wrong
                ELSE wrong \cup {[refused |-> AtLimit, alone |-> asks[t].alone,
                                  met |-> met]}
    /\ UNCHANGED <<clock, log, admitted, met, asked>>

Admit(t) ==
    /\ asks[t].step = "passed"
    /\ log' = log \cup {Entry(t)}
    /\ admitted' = admitted \cup {Entry(t)}
    /\ asks' = [asks EXCEPT ![t] = NoRequest]
    /\ UNCHANGED <<clock, met, wrong, asked>>

Tick ==
    /\ clock < Horizon
    /\ clock' = clock + 1
    /\ UNCHANGED <<log, asks, admitted, met, wrong, asked>>

\* Nobody asks.
Unasked ==
    /\ clock = Horizon /\ log = {} /\ admitted = {}
    /\ met = FALSE /\ wrong = {} /\ asked = MaxAsks
    /\ asks = [t \in Threads |-> NoRequest]

ApiNext ==
    \/ \E t \in Threads : Ask(t) \/ Clean(t) \/ Store(t) \/ Check(t) \/ Admit(t)
    \/ Tick

ApiSpec == ApiInit /\ [][ApiNext]_apiVars

-------------------------------------------------------------------------------
\* As long as requests come one after the other, the verdict is the rule's.
BudgetIsExactInTurn == \A w \in wrong : w.met

\* However earlier requests overlapped, a request that meets no other is refused
\* only when its key has really been admitted as often as its tier allows in the
\* minute before: what an overlap leaves in the log is too little, never too much.
AloneNeverRefusedEarly == \A w \in wrong : ~(w.refused /\ w.alone)

\* The budget is the tier's whenever requests do not overlap, and an overlap
\* never turns a later request away.
BudgetIsFair == BudgetIsExactInTurn /\ AloneNeverRefusedEarly
===============================================================================
