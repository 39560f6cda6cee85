-------------------------- MODULE MarketDataProofs --------------------------
(***************************************************************************)
(* Proofs about MarketData: for any jobs on one database, any lists, any   *)
(* number of errors, kills and days.                                       *)
(*                                                                         *)
(* What a job is at is told by its row and by what its task is and works   *)
(* through; the parts of the invariant speak of one job and take these as  *)
(* parameters: r is job[j], t its task, L its items, p what its open       *)
(* transaction has pending, a whether that is aborted.                     *)
(***************************************************************************)
EXTENDS MarketData, FiniteSetTheorems, TLAPS

Quiet == {"next", "retry", "ended", "failed", "killed"}
Busy  == {"item", "metadata", "observations", "write", "commit"}

JobRow ==
  [flow : BOOLEAN, enrich : BOOLEAN, todo : Seq(Universes \cup TaskNames), list : Seq(Symbols),
   pc : Quiet \cup Busy, i : Nat \ {0}, left : 0 .. 3, want : SUBSET Keys, twice : BOOLEAN,
   counted : SUBSET Keys, erred : BOOLEAN, sp : SUBSET Symbols, ndx : SUBSET Symbols]

BarKeys      == {Bar(s) : s \in Symbols}
ActionKeys   == {CorporateAction(s) : s \in Symbols}
MacroKeys    == {MacroSeries(m) : m \in Elements(Series)}
                  \cup {MacroObservation(m) : m \in Elements(Series)}
NewsKeys     == {NewsArticle(src, x) : src \in Elements(Providers), x \in Articles}
UniverseKeys == {Ticker(s) : s \in Symbols}
                  \cup {Member(u, s, day) : u \in Universes, s \in Symbols, day \in 1 .. MaxDay}

KeysOf(t) ==
  CASE t = "ohlcv" -> BarKeys [] t = "actions" -> ActionKeys [] t = "macro" -> MacroKeys
    [] t = "news"  -> NewsKeys [] OTHER -> UniverseKeys

(* The items after which a task commits, by their number. *)
Due(t, n) ==
  CASE t = "universe" -> n >= 3
    [] t = "news"     -> FALSE
    [] OTHER          -> n % BatchOf(t) = 0

(* Where a job is, and which errors it has swallowed: only the loop over   *)
(* bars and the news go on after one, and the news with nothing pending.   *)
Shape(r, t, L, p, a) ==
  /\ r \in JobRow /\ p \subseteq Keys /\ a \in BOOLEAN
  /\ Distinct(r.list)
  /\ r.todo # <<>> => r.todo[Len(r.todo)] \in TaskNames
  /\ r.pc \in Busy \cup {"next", "retry"} => r.todo # <<>>
  /\ r.pc \in Busy \cup {"retry"} => t \in TaskNames
  /\ r.pc = "retry" => r.left >= 1
  /\ r.pc \in Quiet => p = {} /\ ~a
  /\ r.pc \in Busy \ {"item"} => r.i <= Len(L)
  /\ r.pc \in {"metadata", "observations"} => t = "macro"
  /\ r.pc = "commit" => Due(t, r.i)
  /\ a => r.erred /\ p = {}
  /\ r.pc \in Busy /\ r.erred => t = "ohlcv" \/ (t = "news" /\ a)
  /\ r.pc = "item" /\ t = "universe" /\ r.i = 1 => p = {}
  /\ r.pc \in Busy => p \subseteq KeysOf(t)
  /\ r.pc \in Busy => r.counted \subseteq KeysOf(t)

(* What a statement writes. *)
Statement(r, t, L) ==
  /\ r.pc = "metadata" => r.want = {MacroSeries(L[r.i])}
  /\ r.pc = "write" =>
       /\ r.want \subseteq KeysOf(t)
       /\ t = "ohlcv"   => r.want = {Bar(L[r.i])}
       /\ t = "actions" => r.want = {CorporateAction(L[r.i])}
       /\ t = "macro"   => r.want = {MacroObservation(L[r.i])}
       /\ t = "news"    => r.want \subseteq {NewsArticle(L[r.i], x) : x \in Articles}

Batches(r, t, L, C) ==
  \A m \in 1 .. Len(L) :
    m < r.i /\ m % BatchOf(t) = 0 /\ RowsOf(t, L[m]) \cap r.counted # {}
      => \A q \in 1 .. m : RowsOf(t, L[q]) \cap r.counted \subseteq C

(* What is counted is committed or will be with the transaction, and is of *)
(* the items before the one the loop is at.                                *)
Durable(r, t, L, p, C) ==
  /\ r.pc \in Busy /\ ~r.erred => r.counted \subseteq C \cup p
  /\ r.pc \in Busy \ {"commit"} /\ (t = "macro" \/ (t = "universe" /\ r.i > 3)) => r.counted \subseteq C
  /\ r.pc \in {"next", "ended"} /\ ~r.erred => r.counted \subseteq C
  /\ ~r.erred /\ r.todo # <<>> => Batches(r, t, L, C)
  /\ r.pc \in Busy =>
       \A q \in 1 .. Len(L) : q > r.i \/ (q = r.i /\ r.pc # "commit") => RowsOf(t, L[q]) \cap r.counted = {}

Tickers(r)    == {Ticker(s) : s \in r.sp \cup r.ndx}
MembersSP(r, day)  == {Member("SP500", s, day) : s \in r.sp}
MembersNDX(r, day) == {Member("NDX100", s, day) : s \in r.ndx}

(* A refresh under way: what its statements have written so far is pending *)
(* or committed, and it commits only when all of it is there.              *)
Refreshing(r, t, p, C, A, day) ==
  r.pc \in Busy /\ t = "universe" /\ ~(r.pc = "item" /\ r.i = 1) =>
    /\ \E f \in A : f.day = day /\ f.SP500 = r.sp /\ f.NDX100 = r.ndx
    /\ LongEnough(r.sp, r.ndx)
    /\ r.pc = "commit" => r.i >= 3
    /\ p \subseteq Tickers(r) \cup MembersSP(r, day) \cup MembersNDX(r, day)
    /\ r.i >= 2 => Tickers(r) \subseteq C \cup p
    /\ r.i >= 3 => MembersSP(r, day) \subseteq C \cup p
    /\ r.i >= 4 \/ r.pc = "commit" => MembersNDX(r, day) \subseteq C \cup p
    /\ r.pc = "write" =>
         /\ r.i = 1 => r.want = Tickers(r)
         /\ r.i = 2 => r.want = MembersSP(r, day)
         /\ r.i = 3 => r.want = MembersNDX(r, day)
         /\ r.i >= 4 => r.want \subseteq Tickers(r)

(* In the order of all symbols. *)
Ascends(q) ==
  \A m, n \in DOMAIN q : m < n =>
    \E x, y \in DOMAIN Order : x < y /\ q[m] = Order[x] /\ q[n] = Order[y]

Past(r, q) == q < r.i \/ (q = r.i /\ r.pc = "commit")

(* Whose row a pending key is in the three tasks whose statements are of   *)
(* one row here: of an item before, or of this one once that is written.   *)
Holds(r, t, L, p) ==
  r.pc \in Busy =>
    /\ t = "ohlcv"   => \A k \in p : \E q \in 1 .. Len(L) : k = Bar(L[q]) /\ Past(r, q)
    /\ t = "actions" => \A k \in p : \E q \in 1 .. Len(L) : k = CorporateAction(L[q]) /\ Past(r, q)
    /\ t = "macro"   => \A k \in p : \E q \in 1 .. Len(L) :
         \/ k = MacroSeries(L[q]) /\ (q < r.i \/ (q = r.i /\ r.pc \in {"observations", "write", "commit"}))
         \/ k = MacroObservation(L[q]) /\ q = r.i /\ r.pc = "commit"

(* A symbol that is served has been counted when the loop is past it. *)
ServedBy(answers) ==
  \E n \in 1 .. 3 : answers[n] = "bars" /\ \A m \in 1 .. (n - 1) : answers[m] # "broken"

Serves(r, t, Q) ==
  r.pc \in Busy /\ t = "ohlcv" /\ ~r.erred =>
    \A q \in 1 .. Len(r.list) : Past(r, q) /\ ServedBy(Q[r.list[q]]) => Bar(r.list[q]) \in r.counted

-----------------------------------------------------------------------------
DatabaseOK ==
  /\ committed \subseteq Keys /\ accepted \subseteq Fetches /\ today \in 1 .. MaxDay
  /\ lists \subseteq [SP500 : SUBSET Symbols, NDX100 : SUBSET Symbols]
  /\ quotes \in [Symbols -> [1 .. 3 -> {"bars", "empty", "down", "broken"}]]
  /\ \A j, k \in Jobs : j # k => pending[j] \cap pending[k] = {}
  /\ DOMAIN job = Jobs /\ DOMAIN pending = Jobs /\ DOMAIN aborted = Jobs

JobsOK     == \A j \in Jobs : Shape(job[j], Task(j), Items(j), pending[j], aborted[j])
                              /\ Statement(job[j], Task(j), Items(j))
DurableInv == \A j \in Jobs : Durable(job[j], Task(j), Items(j), pending[j], committed)
RefreshInv == Whole(committed, accepted)
              /\ \A j \in Jobs : Refreshing(job[j], Task(j), pending[j], committed, accepted, today)
HoldInv    == \A j \in Jobs : Holds(job[j], Task(j), Items(j), pending[j])
                              /\ (job[j].flow => Ascends(job[j].list))
ServeInv   == \A j \in Jobs : Serves(job[j], Task(j), quotes)

-----------------------------------------------------------------------------
(* The moves of one job: from r, with p pending and aborted or not, to r2, *)
(* p2 and a2, while the committed rows become C2.                          *)
Kept(r, r2) ==
  /\ r2 \in JobRow
  /\ r2.flow = r.flow /\ r2.enrich = r.enrich /\ r2.todo = r.todo /\ r2.list = r.list

Begins(r, t, r2) ==
  /\ r.pc \in {"next", "retry"} /\ t \in TaskNames /\ Kept(r, r2)
  /\ r2.pc = "item" /\ r2.i = 1 /\ r2.counted = {} /\ ~r2.erred

Advances(r, r2) ==
  /\ Kept(r, r2) /\ r2.pc = "item" /\ r2.i = r.i + 1 /\ r2.sp = r.sp /\ r2.ndx = r.ndx

Passes(r, t, L, Q, r2) ==
  /\ r.pc \in {"item", "observations"} /\ r.i <= Len(L) /\ t # "universe"
  /\ t = "ohlcv" => ~ServedBy(Q[L[r.i]])
  /\ Advances(r, r2) /\ r2.counted = r.counted /\ r2.erred = r.erred

Asks(r, t, L, Q, r2) ==
  /\ r.pc \in {"item", "observations"} /\ r.i <= Len(L) /\ t # "universe"
  /\ Kept(r, r2) /\ r2.i = r.i /\ r2.counted = r.counted /\ r2.erred = r.erred
  /\ r2.pc \in {"metadata", "observations", "write", "commit"}
  /\ Statement(r2, t, L)
  /\ r2.pc \in {"metadata", "observations"} => t = "macro" /\ r.pc = "item"
  /\ r2.pc = "commit" => Due(t, r.i) /\ (t = "ohlcv" => ~ServedBy(Q[L[r.i]]))

AsksForUniverse(r, t, L, A2, day, r2) ==
  /\ r.pc = "item" /\ r.i <= Len(L) /\ t = "universe"
  /\ Kept(r, r2) /\ r2.i = r.i /\ r2.counted = r.counted /\ r2.erred = r.erred
  /\ r2.pc = "write" /\ r2.want \subseteq KeysOf(t)
  /\ r.i = 1 =>
       /\ \E f \in A2 : f.day = day /\ f.SP500 = r2.sp /\ f.NDX100 = r2.ndx
       /\ LongEnough(r2.sp, r2.ndx)
       /\ r2.want = Tickers(r2)
  /\ r.i # 1 => r2.sp = r.sp /\ r2.ndx = r.ndx
  /\ r.i = 2 => r2.want = MembersSP(r, day)
  /\ r.i = 3 => r2.want = MembersNDX(r, day)
  /\ r.i >= 4 => r2.want \subseteq Tickers(r)

Writes(r, t, p, a, C, r2, p2) ==
  /\ r.pc \in {"write", "metadata"} /\ ~a
  /\ p \subseteq p2 /\ p2 \subseteq p \cup r.want /\ r.want \subseteq C \cup p2
  /\ r2.erred = r.erred
  /\ \/ /\ r.pc = "metadata" /\ r2.pc = "observations" /\ Kept(r, r2)
        /\ r2.i = r.i /\ r2.counted = r.counted
     \/ /\ r.pc = "write" /\ r2.counted = r.counted \cup r.want
        /\ \/ /\ Due(t, r.i) /\ Kept(r, r2) /\ r2.pc = "commit"
              /\ r2.i = r.i /\ r2.sp = r.sp /\ r2.ndx = r.ndx
           \/ ~Due(t, r.i) /\ Advances(r, r2)

Takes(r, t, p, a, r2, p2) ==
  /\ r.pc = "write" /\ t \in {"universe", "news"} /\ ~a /\ r2 = r
  /\ p \subseteq p2 /\ p2 \subseteq p \cup r.want

Stumbles(r, t, r2, p2, a2) ==
  /\ r.pc \in {"write", "metadata"} /\ t \in {"ohlcv", "news"}
  /\ p2 = {} /\ a2 = TRUE
  /\ Advances(r, r2) /\ r2.counted = r.counted /\ r2.erred

Escapes(r, r2, p2, a2) ==
  /\ r.pc \in Busy /\ Kept(r, r2)
  /\ p2 = {} /\ a2 = FALSE
  /\ r2.pc \in {"retry", "failed"} /\ (r2.pc = "retry" => r2.left >= 1)
  /\ r2.i = r.i /\ r2.counted = r.counted /\ r2.erred = r.erred

Commits(r, p, a, C, r2, p2, a2, C2) ==
  /\ r.pc = "commit" /\ p2 = {} /\ a2 = FALSE
  /\ C2 = C \cup (IF a THEN {} ELSE p)
  /\ Advances(r, r2) /\ r2.counted = r.counted /\ r2.erred = r.erred

LosesCommit(r, t, L, r2, p2, a2) ==
  /\ r.pc = "commit" /\ t = "ohlcv" /\ p2 = {} /\ a2 = FALSE
  /\ Advances(r, r2) /\ r2.counted = r.counted \ {Bar(L[r.i])} /\ r2.erred

Ends(r, t, L, p, a, C, r2, p2, a2, C2) ==
  /\ r.pc = "item" /\ r.i > Len(L) /\ p2 = {} /\ a2 = FALSE
  /\ C2 = (IF CommitsAtEnd(t) /\ ~a THEN C \cup p ELSE C)
  /\ r2 \in JobRow /\ r2.flow = r.flow /\ r2.list = r.list /\ r2.todo = Tail(r.todo)
  /\ r2.pc = (IF Len(r.todo) = 1 THEN "ended" ELSE "next")
  /\ r2.counted = r.counted /\ r2.erred = r.erred

Dies(r, r2, p2, a2) ==
  /\ Kept(r, r2) /\ p2 = {} /\ a2 = FALSE
  /\ r2.pc = "killed" /\ r.pc # "ended"
  /\ r2.i = r.i /\ r2.counted = r.counted /\ r2.erred = r.erred

Reads(r, t, r2) ==
  /\ r.pc = "next" /\ r2.pc = "next" /\ t \in Universes
  /\ r2 \in JobRow /\ r2.flow = r.flow /\ r2.todo = Tail(r.todo)
  /\ Distinct(r2.list) /\ Ascends(r2.list)
  /\ r2.counted = r.counted /\ r2.erred = r.erred

Moves(r, t, L, p, a, C, A2, day, Q, r2, p2, a2, C2) ==
  \/ /\ p2 = p /\ a2 = a /\ C2 = C
     /\ \/ Begins(r, t, r2) \/ Passes(r, t, L, Q, r2) \/ Asks(r, t, L, Q, r2)
        \/ AsksForUniverse(r, t, L, A2, day, r2) \/ Reads(r, t, r2)
  \/ /\ a2 = a /\ C2 = C /\ (Writes(r, t, p, a, C, r2, p2) \/ Takes(r, t, p, a, r2, p2))
  \/ /\ C2 = C /\ (Stumbles(r, t, r2, p2, a2) \/ Dies(r, r2, p2, a2))
  \/ /\ C2 \in {C, C \cup (IF a THEN {} ELSE p)} /\ (C2 # C => r.pc = "commit" \/ t # "universe")
     /\ (Escapes(r, r2, p2, a2) \/ LosesCommit(r, t, L, r2, p2, a2))
  \/ Commits(r, p, a, C, r2, p2, a2, C2)
  \/ Ends(r, t, L, p, a, C, r2, p2, a2, C2)

Stepped(j) ==
  /\ DOMAIN job' = Jobs /\ DOMAIN pending' = Jobs /\ DOMAIN aborted' = Jobs
  /\ \A k \in Jobs \ {j} : /\ job'[k] = job[k] /\ pending'[k] = pending[k] /\ aborted'[k] = aborted[k]
                           /\ pending'[j] \cap pending[k] = {}
  /\ today' = today /\ quotes' = quotes /\ lists' = lists
  /\ accepted \subseteq accepted' /\ accepted' \subseteq Fetches
  /\ Moves(job[j], Task(j), Items(j), pending[j], aborted[j], committed, accepted', today, quotes,
           job'[j], pending'[j], aborted'[j], committed')

-----------------------------------------------------------------------------
(* What a task works through. *)
LEMMA SequencesGiven ==
  /\ Order \in Seq(STRING) /\ Distinct(Order)
  /\ Series \in Seq(STRING) /\ Distinct(Series)
  /\ Providers \in Seq(STRING) /\ Distinct(Providers)
BY MarketAssumption, Zenon

LEMMA SymbolsAreNames == Symbols \subseteq STRING
BY SequencesGiven DEF Symbols

LEMMA ItemsOfUniverse ==
  ASSUME NEW j \in Jobs, job[j] \in JobRow, Task(j) = "universe"
  PROVE  /\ DOMAIN Items(j) = 1 .. Len(Items(j)) /\ Len(Items(j)) \in {3, 4}
         /\ Items(j)[1] = "tickers" /\ Items(j)[2] = "SP500" /\ Items(j)[3] = "NDX100"
         /\ Len(Items(j)) = 4 => Items(j)[4] = "enrich"
<1>1. CASE job[j].enrich
  <2>1. Items(j) = <<"tickers", "SP500", "NDX100", "enrich">>
    BY <1>1 DEF Items
  <2> QED
    BY <2>1
<1>2. CASE ~job[j].enrich
  <2>1. Items(j) = <<"tickers", "SP500", "NDX100">>
    BY <1>2 DEF Items
  <2> QED
    BY <2>1
<1> QED
  BY <1>1, <1>2

LEMMA ItemsOfTask ==
  ASSUME NEW j \in Jobs, job[j] \in JobRow, Task(j) \in TaskNames
  PROVE  /\ Len(Items(j)) \in Nat /\ DOMAIN Items(j) = 1 .. Len(Items(j))
         /\ Task(j) \in {"ohlcv", "actions"} => Items(j) = job[j].list
         /\ Task(j) = "macro" => Items(j) = Series
         /\ Task(j) = "news" => Items(j) = Providers
<1>1. job[j].list \in Seq(Symbols)
  BY DEF JobRow
<1>2. CASE Task(j) = "universe"
  BY <1>2, ItemsOfUniverse
<1>3. CASE Task(j) = "macro"
  BY <1>3, SequencesGiven DEF Items
<1>4. CASE Task(j) = "news"
  BY <1>4, SequencesGiven DEF Items
<1>5. CASE Task(j) \in {"ohlcv", "actions"}
  BY <1>5, <1>1 DEF Items
<1> QED
  BY <1>2, <1>3, <1>4, <1>5 DEF TaskNames

LEMMA BoundaryIsDue ==
  ASSUME NEW j \in Jobs, job[j] \in JobRow, Task(j) \in TaskNames, job[j].i <= Len(Items(j))
  PROVE  Boundary(j) <=> Due(Task(j), job[j].i)
<1>1. job[j].i \in Nat \ {0}
  BY DEF JobRow
<1>2. CASE Task(j) = "universe"
  <2> DEFINE n == Len(Items(j))
  <2>2. n \in {3, 4} /\ job[j].i <= n
    BY <1>2, ItemsOfUniverse
  <2> HIDE DEF n
  <2>1. job[j].i \in {1, 2, 3, 4} /\ n \in {3, 4} /\ (job[j].i = 4 => n = 4)
    BY <1>1, <2>2
  <2> QED
    BY <1>2, <2>1, ItemsOfUniverse DEF Boundary, Due, Item, n
<1>3. CASE Task(j) = "macro"
  BY <1>1, <1>3 DEF Boundary, Due, BatchOf
<1>4. CASE Task(j) = "news"
  BY <1>4 DEF Boundary, Due
<1>5. CASE Task(j) = "ohlcv"
  BY <1>5 DEF Boundary, Due, BatchOf
<1>6. CASE Task(j) = "actions"
  BY <1>6 DEF Boundary, Due, BatchOf
<1> QED
  BY <1>2, <1>3, <1>4, <1>5, <1>6 DEF TaskNames

LEMMA KeysOfTask ==
  /\ KeysOf("ohlcv") = BarKeys /\ KeysOf("actions") = ActionKeys /\ KeysOf("macro") = MacroKeys
  /\ KeysOf("news") = NewsKeys /\ KeysOf("universe") = UniverseKeys
BY DEF KeysOf

(* Each kind of row is of one kind of task. *)
LEMMA KeyKinds ==
  ASSUME NEW t \in TaskNames, NEW k \in KeysOf(t)
  PROVE  /\ t = "ohlcv" => k[1] = "bar"
         /\ t = "actions" => k[1] = "action"
         /\ t = "macro" => k[1] \in {"series", "observation"}
         /\ t = "news" => k[1] = "article"
         /\ t = "universe" => k[1] \in {"ticker", "member"}
<1>1. CASE t = "ohlcv"
  <2>1. PICK s \in Symbols : k = <<"bar", s, "", 0>>
    BY <1>1, KeysOfTask DEF BarKeys, Bar
  <2> QED
    BY <1>1, <2>1
<1>2. CASE t = "actions"
  <2>1. PICK s \in Symbols : k = <<"action", s, "", 0>>
    BY <1>2, KeysOfTask DEF ActionKeys, CorporateAction
  <2> QED
    BY <1>2, <2>1
<1>3. CASE t = "macro"
  <2>1. CASE k \in {MacroSeries(m) : m \in Elements(Series)}
    <3>1. PICK m \in Elements(Series) : k = <<"series", m, "", 0>>
      BY <2>1 DEF MacroSeries
    <3> QED
      BY <1>3, <3>1
  <2>2. CASE k \in {MacroObservation(m) : m \in Elements(Series)}
    <3>1. PICK m \in Elements(Series) : k = <<"observation", m, "", 0>>
      BY <2>2 DEF MacroObservation
    <3> QED
      BY <1>3, <3>1
  <2> QED
    BY <1>3, <2>1, <2>2, KeysOfTask DEF MacroKeys
<1>4. CASE t = "news"
  <2>1. PICK src \in Elements(Providers), x \in Articles : k = <<"article", x, src, 0>>
    BY <1>4, KeysOfTask DEF NewsKeys, NewsArticle
  <2> QED
    BY <1>4, <2>1
<1>5. CASE t = "universe"
  <2>1. CASE k \in {Ticker(s) : s \in Symbols}
    <3>1. PICK s \in Symbols : k = <<"ticker", s, "", 0>>
      BY <2>1 DEF Ticker
    <3> QED
      BY <1>5, <3>1
  <2>2. CASE k \in {Member(u, s, day) : u \in Universes, s \in Symbols, day \in 1 .. MaxDay}
    <3>1. PICK u \in Universes, s \in Symbols, day \in 1 .. MaxDay : k = <<"member", s, u, day>>
      BY <2>2 DEF Member
    <3> QED
      BY <1>5, <3>1
  <2> QED
    BY <1>5, <2>1, <2>2, KeysOfTask DEF UniverseKeys
<1> QED
  BY <1>1, <1>2, <1>3, <1>4, <1>5 DEF TaskNames

LEMMA KeysApart ==
  ASSUME NEW t \in TaskNames, NEW s \in TaskNames, NEW k, k \in KeysOf(t), k \in KeysOf(s)
  PROVE  t = s
BY KeyKinds DEF TaskNames

LEMMA KeysAreOfTasks ==
  ASSUME NEW t \in TaskNames
  PROVE  KeysOf(t) \subseteq Keys
BY DEF KeysOf, TaskNames, Keys, BarKeys, ActionKeys, MacroKeys, NewsKeys, UniverseKeys

(* An item of a task is one of what its keys are about.                    *)
LEMMA ItemsAreKnown ==
  ASSUME NEW j \in Jobs, job[j] \in JobRow, Task(j) \in TaskNames, NEW n \in 1 .. Len(Items(j))
  PROVE  /\ Task(j) \in {"ohlcv", "actions"} => Items(j)[n] \in Symbols
         /\ Task(j) = "macro" => Items(j)[n] \in Elements(Series)
         /\ Task(j) = "news" => Items(j)[n] \in Elements(Providers)
<1>1. CASE Task(j) \in {"ohlcv", "actions"}
  BY <1>1, ItemsOfTask DEF JobRow
<1>2. CASE Task(j) \notin {"ohlcv", "actions"}
  BY <1>2, ItemsOfTask, SequencesGiven DEF Elements
<1> QED
  BY <1>1, <1>2

(* In a finite set of numbers, a rank for each of them and one of them for *)
(* each rank, in the same order.                                           *)
Rank(T, n) == Cardinality({m \in T : m <= n})

LEMMA RankType ==
  ASSUME NEW T \in SUBSET Int, IsFiniteSet(T), NEW n \in T
  PROVE  Rank(T, n) \in 1 .. Cardinality(T)
<1> DEFINE S == {m \in T : m <= n}
<1>1. S \subseteq T /\ n \in S
  OBVIOUS
<1>2. IsFiniteSet(S) /\ Cardinality(S) <= Cardinality(T)
  BY <1>1, FS_Subset, Zenon
<1>3. Cardinality(S) \in Nat /\ Cardinality(T) \in Nat
  BY <1>2, FS_CardinalityType, Zenon
<1>4. Cardinality(S) # 0
  BY <1>1, <1>2, FS_EmptySet, Zenon
<1> HIDE DEF S
<1>5. Cardinality(S) \in 1 .. Cardinality(T)
  BY <1>2, <1>3, <1>4
<1> QED
  BY <1>5, Zenon DEF Rank, S

LEMMA RankGrows ==
  ASSUME NEW T \in SUBSET Int, IsFiniteSet(T), NEW n \in T, NEW o \in T, n < o
  PROVE  Rank(T, n) < Rank(T, o)
<1> DEFINE S == {m \in T : m <= n}
           U == {m \in T : m <= o}
<1>1. S \subseteq U /\ o \in U /\ o \notin S /\ U \subseteq T
  <2>1. n \in Int /\ o \in Int
    OBVIOUS
  <2>2. \A m \in T : m <= n => m <= o
    BY <2>1
  <2>3. ~(o <= n) /\ o <= o
    BY <2>1
  <2> QED
    BY <2>2, <2>3, Zenon
<1>2. IsFiniteSet(U)
  BY <1>1, FS_Subset, Zenon
<1>3. IsFiniteSet(S) /\ Cardinality(S) <= Cardinality(U) /\ (Cardinality(U) = Cardinality(S) => U = S)
  BY <1>1, <1>2, FS_Subset, Zenon
<1>4. Cardinality(S) \in Nat /\ Cardinality(U) \in Nat /\ S # U
  BY <1>1, <1>2, <1>3, FS_CardinalityType, Zenon
<1> HIDE DEF S, U
<1>5. Cardinality(S) < Cardinality(U)
  BY <1>3, <1>4
<1> QED
  BY <1>5, Zenon DEF Rank, S, U

LEMMA RankReached ==
  ASSUME NEW T \in SUBSET Int, IsFiniteSet(T), NEW k \in 1 .. Cardinality(T)
  PROVE  \E n \in T : Rank(T, n) = k
<1> DEFINE N == 1 .. Cardinality(T)
           f == [n \in T |-> Rank(T, n)]
<1>1. Cardinality(T) \in Nat
  BY FS_CardinalityType, Zenon
<1>2. IsFiniteSet(N) /\ Cardinality(N) = Cardinality(T)
  <2> DEFINE c == Cardinality(T)
  <2>1. c \in Int /\ 1 \in Int /\ c >= 0
    BY <1>1
  <2>2. IsFiniteSet(1 .. c) /\ Cardinality(1 .. c) = IF 1 > c THEN 0 ELSE c - 1 + 1
    BY <2>1, FS_Interval, Zenon
  <2> HIDE DEF c
  <2>3. Cardinality(1 .. c) = c
    BY <2>1, <2>2
  <2> QED
    BY <2>2, <2>3 DEF c
<1>3. \A n \in T : Rank(T, n) \in N
  BY RankType
<1>4. \A n, o \in T : Rank(T, n) = Rank(T, o) => n = o
  <2>1. SUFFICES ASSUME NEW n \in T, NEW o \in T, Rank(T, n) = Rank(T, o), n # o
                 PROVE  FALSE
    OBVIOUS
  <2>2. Rank(T, n) \in Int
    BY <1>3
  <2>3. n < o \/ o < n
    BY <2>1
  <2> QED
    BY <2>1, <2>2, <2>3, RankGrows
<1>5. f \in Injection(T, N)
  <2>1. f \in [T -> N]
    BY <1>3
  <2>2. \A a, b \in T : f[a] = f[b] => a = b
    BY <1>4
  <2> QED
    BY <2>1, <2>2, Zenon DEF Injection, IsInjective
<1> HIDE DEF f, N
<1>6. f \in Surjection(T, N)
  <2>1. Cardinality(T) = Cardinality(N) <=> f \in Surjection(T, N)
    BY <1>2, <1>5, FS_Injection, Zenon
  <2> QED
    BY <1>2, <2>1
<1>7. \A m \in N : \E n \in T : f[n] = m
  BY <1>6, Zenon DEF Surjection
<1> QED
  BY <1>7 DEF f, N

(* What `sorted` returns: the symbols of the set, once each, in order. *)
LEMMA SortedSymbols ==
  ASSUME NEW S
  PROVE  Sorted(S) \in Seq(Symbols) /\ Distinct(Sorted(S)) /\ Ascends(Sorted(S))
<1> DEFINE at == {n \in DOMAIN Order : Order[n] \in S}
           c  == Cardinality(at)
           place(k) == CHOOSE n \in at : Rank(at, n) = k
<1>1. DOMAIN Order = 1 .. Len(Order) /\ Len(Order) \in Nat
  BY SequencesGiven
<1>2. at \in SUBSET Int /\ at \subseteq 1 .. Len(Order)
  BY <1>1
<1>3. IsFiniteSet(at)
  <2>1. IsFiniteSet(1 .. Len(Order))
    <3>1. 1 \in Int /\ Len(Order) \in Int
      BY <1>1
    <3> QED
      BY <3>1, FS_Interval, Zenon
  <2> QED
    BY <1>2, <2>1, FS_Subset, Zenon
<1>4. c \in Nat
  BY <1>3, FS_CardinalityType, Zenon
<1>5. \A k \in 1 .. c : place(k) \in at /\ Rank(at, place(k)) = k
  BY <1>2, <1>3, RankReached
<1>6. Sorted(S) = [k \in 1 .. c |-> Order[place(k)]]
  BY Zenon DEF Sorted, Rank
<1> HIDE DEF at, c, place
<1>7. \A k \in 1 .. c : place(k) \in DOMAIN Order
  BY <1>5 DEF at
<1>8. Len(Sorted(S)) = c /\ DOMAIN Sorted(S) = 1 .. c /\ Sorted(S) \in Seq(Symbols)
  BY <1>4, <1>6, <1>7 DEF Symbols
<1>9. \A m, n \in 1 .. c : m < n => place(m) < place(n)
  <2>4. \A k \in 1 .. c : place(k) \in Int
    BY <1>2, <1>5
  <2>1. SUFFICES ASSUME NEW m \in 1 .. c, NEW n \in 1 .. c, m < n, place(n) < place(m) \/ place(n) = place(m)
                 PROVE  FALSE
    BY <2>4
  <2>2. CASE place(n) = place(m)
    BY <1>4, <1>5, <2>1, <2>2
  <2>3. CASE place(n) < place(m)
    <3>1. Rank(at, place(n)) < Rank(at, place(m))
      BY <1>2, <1>3, <1>5, <2>3, RankGrows
    <3> QED
      BY <1>4, <1>5, <2>1, <3>1
  <2> QED
    BY <2>1, <2>2, <2>3
<1>10. Ascends(Sorted(S))
  <2>1. SUFFICES ASSUME NEW m \in 1 .. c, NEW n \in 1 .. c, m < n
                 PROVE  \E x, y \in DOMAIN Order : x < y /\ Sorted(S)[m] = Order[x] /\ Sorted(S)[n] = Order[y]
    BY <1>8 DEF Ascends
  <2>2. Sorted(S)[m] = Order[place(m)] /\ Sorted(S)[n] = Order[place(n)]
    BY <1>6
  <2> QED
    BY <1>7, <1>9, <2>1, <2>2
<1>11. Distinct(Sorted(S))
  <2>1. SUFFICES ASSUME NEW m \in 1 .. c, NEW n \in 1 .. c, Sorted(S)[m] = Sorted(S)[n], m # n
                 PROVE  FALSE
    BY <1>8 DEF Distinct
  <2>2. Order[place(m)] = Order[place(n)]
    BY <1>6, <2>1
  <2>3. place(m) = place(n)
    BY <1>7, <2>2, SequencesGiven DEF Distinct
  <2>4. (m < n \/ n < m) /\ place(m) \in Int
    BY <1>1, <1>4, <1>7, <2>1
  <2> QED
    BY <1>9, <2>3, <2>4
<1> QED
  BY <1>8, <1>10, <1>11

-----------------------------------------------------------------------------
(* Rows of a job after a move. *)
LEMMA RowAt ==
  ASSUME NEW r \in JobRow, NEW pc \in Quiet \cup Busy
  PROVE  LET r2 == [r EXCEPT !.pc = pc]
         IN /\ Kept(r, r2) /\ r2.pc = pc /\ r2.i = r.i /\ r2.counted = r.counted /\ r2.erred = r.erred
            /\ r2.sp = r.sp /\ r2.ndx = r.ndx /\ r2.want = r.want /\ r2.left = r.left
BY DEF JobRow, Kept

LEMMA RowOnward ==
  ASSUME NEW r \in JobRow
  PROVE  /\ Advances(r, Onward(r)) /\ Onward(r).counted = r.counted /\ Onward(r).erred = r.erred
<1> DEFINE n == r.i + 1
<1>1. n \in Nat \ {0} /\ r.i \in Nat \ {0}
  BY DEF JobRow
<1>2. Onward(r) = [r EXCEPT !.pc = "item", !.i = n]
  BY DEF Onward, JobRow
<1> HIDE DEF n
<1>3. Kept(r, Onward(r))
  BY <1>1, <1>2 DEF JobRow, Kept, Busy
<1>4. /\ Onward(r).pc = "item" /\ Onward(r).i = n /\ Onward(r).counted = r.counted
      /\ Onward(r).erred = r.erred /\ Onward(r).sp = r.sp /\ Onward(r).ndx = r.ndx
  BY <1>2 DEF JobRow
<1> QED
  BY <1>3, <1>4 DEF Advances, n

LEMMA RowBegun ==
  ASSUME NEW r \in JobRow, NEW left \in 0 .. 3
  PROVE  LET r2 == [r EXCEPT !.pc = "item", !.i = 1, !.left = left, !.want = {}, !.twice = FALSE,
                            !.counted = {}, !.erred = FALSE, !.sp = {}, !.ndx = {}]
         IN Kept(r, r2) /\ r2.pc = "item" /\ r2.i = 1 /\ r2.counted = {} /\ ~r2.erred
<1> DEFINE none == {}
           one == 1
           r2 == [r EXCEPT !.pc = "item", !.i = one, !.left = left, !.want = none, !.twice = FALSE,
                            !.counted = none, !.erred = FALSE, !.sp = none, !.ndx = none]
<1>1. none \in SUBSET Keys /\ none \in SUBSET Symbols /\ one \in Nat \ {0} /\ "item" \in Quiet \cup Busy
  BY DEF Busy
<1>2. r2.pc = "item" /\ r2.i = one /\ r2.counted = none /\ ~r2.erred
  BY DEF JobRow
<1>3. Kept(r, r2)
  <2> HIDE DEF none, one
  <2>1. r2 \in JobRow
    BY <1>1 DEF JobRow
  <2>2. r2.flow = r.flow /\ r2.enrich = r.enrich /\ r2.todo = r.todo /\ r2.list = r.list
    BY DEF JobRow
  <2> QED
    BY <2>1, <2>2, Zenon DEF Kept
<1> QED
  BY <1>2, <1>3

(* A provider that has bars is found, unless one before it is broken. *)
LEMMA ServedIsFound ==
  ASSUME NEW answers \in [1 .. 3 -> {"bars", "empty", "down", "broken"}], ServedBy(answers)
  PROVE  _fetch_bars(answers) = "bars"
<1> DEFINE decides == {n \in DOMAIN answers : answers[n] \in {"bars", "broken"}}
           first   == CHOOSE n \in decides : \A k \in decides : n <= k
<1>1. PICK n \in 1 .. 3 : answers[n] = "bars" /\ \A m \in 1 .. (n - 1) : answers[m] # "broken"
  BY DEF ServedBy
<1>2. DOMAIN answers = 1 .. 3
  OBVIOUS
<1>3. n \in decides /\ decides \subseteq 1 .. 3
  BY <1>1, <1>2
<1>4. \E d \in decides : \A k \in decides : d <= k
  <2>1. CASE 1 \in decides
    BY <1>3, <2>1
  <2>2. CASE 1 \notin decides /\ 2 \in decides
    <3>1. \A k \in decides : k \in 1 .. 3 /\ k # 1
      BY <1>3, <2>2
    <3> HIDE DEF decides
    <3>2. \A k \in decides : 2 <= k
      BY <3>1
    <3> QED
      BY <2>2, <3>2
  <2>3. CASE 1 \notin decides /\ 2 \notin decides
    <3>1. \A k \in decides : k \in 1 .. 3 /\ k # 1 /\ k # 2
      BY <1>3, <2>3
    <3> HIDE DEF decides
    <3>2. \A k \in decides : 3 <= k
      BY <3>1
    <3>3. n \in 1 .. 3 /\ n # 1 /\ n # 2
      BY <1>3, <3>1
    <3>4. n = 3
      BY <3>3
    <3> QED
      BY <1>3, <3>2, <3>4
  <2> QED
    BY <2>1, <2>2, <2>3
<1>5. first \in decides /\ first <= n
  <2> HIDE DEF decides
  <2> QED
    BY <1>3, <1>4
<1>6. answers[first] \in {"bars", "broken"} /\ first \in 1 .. 3
  BY <1>3, <1>5
<1> HIDE DEF first
<1>7. answers[first] = "bars"
  <2>1. CASE first = n
    BY <1>1, <2>1
  <2>2. CASE first # n
    <3>1. first \in 1 .. (n - 1)
      BY <1>5, <1>6, <2>2
    <3> QED
      BY <1>1, <1>6, <3>1
  <2> QED
    BY <2>1, <2>2
<1>8. decides # {}
  BY <1>3
<1> HIDE DEF decides
<1>9. _fetch_bars(answers) =
        IF decides # {}
        THEN IF answers[first] = "bars" THEN "bars" ELSE "raise"
        ELSE IF "down" \in Elements(answers) THEN "raise" ELSE "none"
  BY Zenon DEF _fetch_bars, first, decides
<1> QED
  BY <1>7, <1>8, <1>9

LEMMA NamedByRow ==
  ASSUME NEW j \in Jobs, NEW row, DOMAIN job = Jobs, Becomes(j, row)
  PROVE  DOMAIN job' = Jobs /\ job'[j] = row /\ \A k \in Jobs \ {j} : job'[k] = job[k]
BY DEF Becomes

-----------------------------------------------------------------------------
(* Every action of a job is one of the moves. *)
JobOK(j) ==
  /\ DatabaseOK
  /\ Shape(job[j], Task(j), Items(j), pending[j], aborted[j])
  /\ Statement(job[j], Task(j), Items(j))

LEMMA RowMoves ==
  ASSUME NEW j \in Jobs, NEW row, DatabaseOK, Becomes(j, row), UNCHANGED <<db, given, today>>,
         accepted \subseteq accepted', accepted' \subseteq Fetches,
         \/ Begins(job[j], Task(j), row) \/ Passes(job[j], Task(j), Items(j), quotes, row)
         \/ Asks(job[j], Task(j), Items(j), quotes, row)
         \/ AsksForUniverse(job[j], Task(j), Items(j), accepted', today, row)
         \/ Reads(job[j], Task(j), row)
  PROVE  Stepped(j)
<1>1. DOMAIN job' = Jobs /\ job'[j] = row /\ \A k \in Jobs \ {j} : job'[k] = job[k]
  BY NamedByRow DEF DatabaseOK
<1>2. /\ committed' = committed /\ pending' = pending /\ aborted' = aborted
      /\ today' = today /\ quotes' = quotes /\ lists' = lists
  BY DEF db, given
<1>3. Moves(job[j], Task(j), Items(j), pending[j], aborted[j], committed, accepted', today, quotes,
            job'[j], pending'[j], aborted'[j], committed')
  BY <1>1, <1>2, Zenon DEF Moves
<1> QED
  BY <1>1, <1>2, <1>3 DEF Stepped, DatabaseOK

LEMMA StartTaskMoves ==
  ASSUME NEW j \in Jobs, JobOK(j), StartTask(j)
  PROVE  Stepped(j)
<1>1. job[j] \in JobRow /\ job[j].pc = "next" /\ job[j].todo # <<>>
  BY DEF JobOK, Shape, StartTask, At
<1>2. Task(j) \in TaskNames
  BY <1>1 DEF StartTask, Task, JobRow
<1>3. Retries(j, Task(j)) \in 0 .. 3
  BY DEF Retries
<1> DEFINE row == [job[j] EXCEPT !.pc = "item", !.i = 1, !.left = Retries(j, Task(j)), !.want = {},
                                 !.twice = FALSE, !.counted = {}, !.erred = FALSE, !.sp = {}, !.ndx = {}]
<1>4. Becomes(j, row) /\ UNCHANGED <<db, given, today, accepted>>
  BY SMTT(40) DEF StartTask, Begin
<1>5. Begins(job[j], Task(j), row)
  BY <1>1, <1>2, <1>3, RowBegun, ZenonT(60) DEF Begins
<1> HIDE DEF row
<1> QED
  BY <1>4, <1>5, RowMoves DEF JobOK, DatabaseOK

LEMMA RetryTaskMoves ==
  ASSUME NEW j \in Jobs, JobOK(j), RetryTask(j)
  PROVE  Stepped(j)
<1>1. job[j] \in JobRow /\ job[j].pc = "retry" /\ Task(j) \in TaskNames /\ job[j].left >= 1
  BY DEF JobOK, Shape, RetryTask, At
<1> DEFINE less == job[j].left - 1
<1>3. less \in 0 .. 3
  BY <1>1 DEF JobRow
<1> DEFINE row == [job[j] EXCEPT !.pc = "item", !.i = 1, !.left = less, !.want = {},
                                 !.twice = FALSE, !.counted = {}, !.erred = FALSE, !.sp = {}, !.ndx = {}]
<1>4. Becomes(j, row) /\ UNCHANGED <<db, given, today, accepted>>
  BY DEF RetryTask, Begin
<1> HIDE DEF less
<1>5. Begins(job[j], Task(j), row)
  BY <1>1, <1>3, RowBegun DEF Begins
<1> HIDE DEF row
<1> QED
  BY <1>4, <1>5, RowMoves DEF JobOK, DatabaseOK

LEMMA ReadUniverseMoves ==
  ASSUME NEW j \in Jobs, JobOK(j), ReadUniverse(j)
  PROVE  Stepped(j)
<1> DEFINE q == Sorted(Elements(job[j].list) \cup active_universe_symbols(Task(j)))
           row == [job[j] EXCEPT !.list = q, !.todo = Tail(@)]
<1>1. job[j] \in JobRow /\ job[j].pc = "next" /\ job[j].todo # <<>> /\ Task(j) \in Universes
  BY DEF JobOK, Shape, ReadUniverse, At
<1>2. q \in Seq(Symbols) /\ Distinct(q) /\ Ascends(q)
  BY SortedSymbols, Zenon
<1>3. Becomes(j, row) /\ UNCHANGED <<db, given, today, accepted>>
  BY DEF ReadUniverse
<1> HIDE DEF q
<1>4. Tail(job[j].todo) \in Seq(Universes \cup TaskNames)
  BY <1>1 DEF JobRow
<1>5. row \in JobRow /\ row.flow = job[j].flow /\ row.todo = Tail(job[j].todo) /\ row.list = q
      /\ row.counted = job[j].counted /\ row.erred = job[j].erred /\ row.pc = "next"
  BY <1>1, <1>2, <1>4 DEF JobRow
<1> HIDE DEF row
<1>6. Reads(job[j], Task(j), row)
  BY <1>1, <1>2, <1>5 DEF Reads
<1> QED
  BY <1>3, <1>6, RowMoves DEF JobOK, DatabaseOK

(* What a job that asks a provider does next. *)
LEMMA GoOnMoves ==
  ASSUME NEW j \in Jobs, JobOK(j), GoOn(j), UNCHANGED <<db, given, accepted, today>>,
         job[j].pc \in {"item", "observations"}, job[j].i <= Len(Items(j)), Task(j) # "universe",
         Task(j) = "ohlcv" => ~ServedBy(quotes[Items(j)[job[j].i]])
  PROVE  Stepped(j)
<1>1. job[j] \in JobRow
  BY DEF JobOK, Shape
<1>2. Passes(job[j], Task(j), Items(j), quotes, Onward(job[j]))
  BY <1>1, RowOnward DEF Passes
<1> QED
  BY <1>2, RowMoves DEF JobOK, DatabaseOK, GoOn

LEMMA GotoMoves ==
  ASSUME NEW j \in Jobs, JobOK(j), NEW pc \in {"observations", "commit"}, Goto(j, pc),
         UNCHANGED <<db, given, accepted, today>>,
         job[j].pc \in {"item", "observations"}, job[j].i <= Len(Items(j)), Task(j) # "universe",
         pc = "observations" => Task(j) = "macro" /\ job[j].pc = "item",
         pc = "commit" => Due(Task(j), job[j].i) /\ (Task(j) = "ohlcv" => ~ServedBy(quotes[Items(j)[job[j].i]]))
  PROVE  Stepped(j)
<1> DEFINE row == [job[j] EXCEPT !.pc = pc]
<1>1. job[j] \in JobRow /\ pc \in Quiet \cup Busy
  BY DEF JobOK, Shape, Busy
<1>2. Kept(job[j], row) /\ row.pc = pc /\ row.i = job[j].i /\ row.counted = job[j].counted /\ row.erred = job[j].erred
  BY <1>1, RowAt
<1>3. Becomes(j, row)
  BY DEF Goto
<1> HIDE DEF row
<1>4. Statement(row, Task(j), Items(j))
  BY <1>2 DEF Statement
<1>5. Asks(job[j], Task(j), Items(j), quotes, row)
  BY <1>2, <1>4 DEF Asks
<1> QED
  BY <1>3, <1>5, RowMoves DEF JobOK, DatabaseOK

LEMMA WriteMoves ==
  ASSUME NEW j \in Jobs, JobOK(j), NEW row, NEW pc \in {"write", "metadata"}, NEW keys \in SUBSET Keys,
         Becomes(j, row), Kept(job[j], row), row.pc = pc, row.want = keys, row.i = job[j].i,
         row.counted = job[j].counted, row.erred = job[j].erred,
         UNCHANGED <<db, given, accepted, today>>,
         job[j].pc \in {"item", "observations"}, job[j].i <= Len(Items(j)), Task(j) # "universe",
         pc = "metadata" => Task(j) = "macro" /\ job[j].pc = "item",
         Statement(row, Task(j), Items(j))
  PROVE  Stepped(j)
<1>1. Asks(job[j], Task(j), Items(j), quotes, row)
  BY DEF Asks
<1> QED
  BY <1>1, RowMoves DEF JobOK, DatabaseOK

(* A session that is closed, or rolls back. *)
LEMMA EscapeIsMove ==
  ASSUME NEW j \in Jobs, JobOK(j), Escape(j), job[j].pc \in Busy
  PROVE  /\ Escapes(job[j], job'[j], {}, FALSE) /\ DOMAIN job' = Jobs
         /\ \A k \in Jobs \ {j} : job'[k] = job[k]
<1> DEFINE pc  == IF job[j].left > 0 THEN "retry" ELSE "failed"
           row == [job[j] EXCEPT !.pc = pc]
<1>1. job[j] \in JobRow /\ DOMAIN job = Jobs
  BY DEF JobOK, Shape, DatabaseOK
<1>2. pc \in {"retry", "failed"} /\ (pc = "retry" => job[j].left >= 1)
  BY <1>1 DEF JobRow
<1>3. Becomes(j, row)
  BY Zenon DEF Escape, Goto
<1> HIDE DEF pc
<1>4. /\ Kept(job[j], row) /\ row.pc = pc /\ row.i = job[j].i /\ row.counted = job[j].counted
      /\ row.erred = job[j].erred /\ row.left = job[j].left
  BY <1>1, <1>2, RowAt DEF Quiet
<1>5. DOMAIN job' = Jobs /\ job'[j] = row /\ \A k \in Jobs \ {j} : job'[k] = job[k]
  BY <1>1, <1>3, NamedByRow
<1> HIDE DEF row
<1>6. Escapes(job[j], row, {}, FALSE)
  BY <1>2, <1>4 DEF Escapes
<1> QED
  BY <1>5, <1>6

(* The transaction of a job is over, and its row becomes another.          *)
LEMMA ClosingMoves ==
  ASSUME NEW j \in Jobs, JobOK(j), NEW a2 \in BOOLEAN,
         pending' = [pending EXCEPT ![j] = {}], aborted' = [aborted EXCEPT ![j] = a2],
         DOMAIN job' = Jobs, \A k \in Jobs \ {j} : job'[k] = job[k],
         UNCHANGED <<given, accepted, today>>,
         Moves(job[j], Task(j), Items(j), pending[j], aborted[j], committed, accepted, today, quotes,
               job'[j], {}, a2, committed')
  PROVE  Stepped(j)
<1>1. /\ DOMAIN pending' = Jobs /\ DOMAIN aborted' = Jobs /\ pending'[j] = {} /\ aborted'[j] = a2
      /\ \A k \in Jobs \ {j} : pending'[k] = pending[k] /\ aborted'[k] = aborted[k]
  BY DEF JobOK, DatabaseOK
<1>2. Moves(job[j], Task(j), Items(j), pending[j], aborted[j], committed, accepted', today, quotes,
            job'[j], pending'[j], aborted'[j], committed')
  BY <1>1, Zenon
<1> QED
  BY <1>1, <1>2 DEF Stepped, JobOK, DatabaseOK, given

(* An answer with a row that cannot be read. *)
LEMMA UnparsedMoves ==
  ASSUME NEW j \in Jobs, JobOK(j), Unparsed(j), job[j].pc \in Busy, UNCHANGED <<given, accepted, today>>
  PROVE  Stepped(j)
<1>1. Escape(j) /\ Close(j) /\ committed' = committed
  BY DEF Unparsed
<1>2. /\ Escapes(job[j], job'[j], {}, FALSE) /\ DOMAIN job' = Jobs
      /\ \A k \in Jobs \ {j} : job'[k] = job[k]
  BY <1>1, EscapeIsMove
<1>3. Moves(job[j], Task(j), Items(j), pending[j], aborted[j], committed, accepted, today, quotes,
            job'[j], {}, FALSE, committed')
  BY <1>1, <1>2, Zenon DEF Moves
<1>4. pending' = [pending EXCEPT ![j] = {}] /\ aborted' = [aborted EXCEPT ![j] = FALSE]
  BY <1>1 DEF Close
<1> QED
  BY <1>2, <1>3, <1>4, ClosingMoves

LEMMA FetchBarsMoves ==
  ASSUME NEW j \in Jobs, JobOK(j), FetchBars(j)
  PROVE  Stepped(j)
<1> DEFINE s == Item(j)
<1>1. /\ job[j] \in JobRow /\ job[j].pc = "item" /\ Task(j) = "ohlcv" /\ Task(j) \in TaskNames
      /\ job[j].i <= Len(Items(j)) /\ UNCHANGED <<db, given, accepted, today>>
  BY DEF JobOK, Shape, FetchBars, In, At, More, TaskNames
<1>2. job[j].i \in 1 .. Len(Items(j))
  BY <1>1, ItemsOfTask DEF JobRow
<1>3. s \in Symbols /\ s = Items(j)[job[j].i]
  BY <1>1, <1>2, ItemsAreKnown DEF Item
<1>4. quotes[s] \in [1 .. 3 -> {"bars", "empty", "down", "broken"}]
  BY <1>3 DEF JobOK, DatabaseOK
<1>5. ServedBy(quotes[s]) => _fetch_bars(quotes[s]) = "bars"
  BY <1>4, ServedIsFound
<1>6. CASE Write(j, {Bar(s)})
  <2> DEFINE keys == {Bar(s)}
             row  == [job[j] EXCEPT !.pc = "write", !.want = keys]
  <2>1. keys \subseteq KeysOf("ohlcv") /\ keys \in SUBSET Keys
    BY <1>1, <1>3, KeysOfTask, KeysAreOfTasks DEF BarKeys
  <2>3. Becomes(j, row)
    BY <1>6 DEF Write
  <2> HIDE DEF keys
  <2>2. /\ Kept(job[j], row) /\ row.pc = "write" /\ row.want = keys /\ row.i = job[j].i
        /\ row.counted = job[j].counted /\ row.erred = job[j].erred
    BY <1>1, <2>1 DEF JobRow, Kept, Busy
  <2> HIDE DEF row, s
  <2>4. Statement(row, Task(j), Items(j))
    BY <1>1, <1>3, <2>1, <2>2 DEF Statement, keys
  <2> QED
    BY <1>1, <2>1, <2>2, <2>3, <2>4, WriteMoves
<1>7. CASE ~ServedBy(quotes[s]) /\ GoOn(j)
  BY <1>1, <1>3, <1>7, GoOnMoves
<1>8. CASE ~ServedBy(quotes[s]) /\ Boundary(j) /\ Goto(j, "commit")
  <2>1. Due(Task(j), job[j].i)
    BY <1>1, <1>8, BoundaryIsDue
  <2> QED
    BY <1>1, <1>3, <1>8, <2>1, GotoMoves
<1> DEFINE found == _fetch_bars(quotes[s])
<1>9. (CASE found = "bars" -> Write(j, {Bar(s)}) [] found = "raise" -> GoOn(j)
         [] OTHER -> IF Boundary(j) THEN Goto(j, "commit") ELSE GoOn(j))
  BY DEF FetchBars
<1>10. ServedBy(quotes[s]) => found = "bars"
  BY <1>5
<1> HIDE DEF s, found
<1>11. \/ Write(j, {Bar(s)}) \/ (found # "bars" /\ GoOn(j))
       \/ (found # "bars" /\ Boundary(j) /\ Goto(j, "commit"))
  BY <1>9
<1> QED
  BY <1>6, <1>7, <1>8, <1>10, <1>11

LEMMA FetchActionsMoves ==
  ASSUME NEW j \in Jobs, JobOK(j), FetchActions(j)
  PROVE  Stepped(j)
<1> DEFINE s == Item(j)
<1>1. /\ job[j] \in JobRow /\ job[j].pc = "item" /\ Task(j) = "actions" /\ Task(j) \in TaskNames
      /\ job[j].i <= Len(Items(j)) /\ UNCHANGED <<given, accepted, today>> /\ job[j].pc \in Busy
  BY DEF JobOK, Shape, FetchActions, In, At, More, TaskNames, Busy
<1>2. job[j].i \in 1 .. Len(Items(j))
  BY <1>1, ItemsOfTask DEF JobRow
<1>3. s \in Symbols /\ s = Items(j)[job[j].i]
  BY <1>1, <1>2, ItemsAreKnown DEF Item
<1>4. CASE Write(j, {CorporateAction(s)}) /\ UNCHANGED db
  <2> DEFINE keys == {CorporateAction(s)}
             row  == [job[j] EXCEPT !.pc = "write", !.want = keys]
  <2>1. keys \subseteq KeysOf("actions") /\ keys \in SUBSET Keys
    BY <1>1, <1>3, KeysOfTask, KeysAreOfTasks DEF ActionKeys
  <2>3. Becomes(j, row)
    BY <1>4 DEF Write
  <2> HIDE DEF keys
  <2>2. /\ Kept(job[j], row) /\ row.pc = "write" /\ row.want = keys /\ row.i = job[j].i
        /\ row.counted = job[j].counted /\ row.erred = job[j].erred
    BY <1>1, <2>1 DEF JobRow, Kept, Busy
  <2> HIDE DEF row, s
  <2>4. Statement(row, Task(j), Items(j))
    BY <1>1, <1>3, <2>1, <2>2 DEF Statement, keys
  <2> QED
    BY <1>1, <1>4, <2>1, <2>2, <2>3, <2>4, WriteMoves
<1>5. CASE GoOn(j) /\ UNCHANGED db
  BY <1>1, <1>5, GoOnMoves
<1>6. CASE Unparsed(j)
  BY <1>1, <1>6, UnparsedMoves
<1> QED
  BY <1>4, <1>5, <1>6 DEF FetchActions

LEMMA FetchSeriesInfoMoves ==
  ASSUME NEW j \in Jobs, JobOK(j), FetchSeriesInfo(j)
  PROVE  Stepped(j)
<1> DEFINE m == Item(j)
<1>1. /\ job[j] \in JobRow /\ job[j].pc = "item" /\ Task(j) = "macro" /\ Task(j) \in TaskNames
      /\ job[j].i <= Len(Items(j)) /\ UNCHANGED <<db, given, accepted, today>>
  BY DEF JobOK, Shape, FetchSeriesInfo, In, At, More, TaskNames
<1>2. job[j].i \in 1 .. Len(Items(j))
  BY <1>1, ItemsOfTask DEF JobRow
<1>3. m \in Elements(Series) /\ m = Items(j)[job[j].i]
  BY <1>1, <1>2, ItemsAreKnown DEF Item
<1> DEFINE keys == {MacroSeries(m)}
           row  == [job[j] EXCEPT !.pc = "metadata", !.want = keys]
<1>4. CASE Becomes(j, row)
  <2>1. keys \in SUBSET Keys
    BY <1>1, <1>3, KeysOfTask, KeysAreOfTasks DEF MacroKeys
  <2> HIDE DEF keys
  <2>2. /\ Kept(job[j], row) /\ row.pc = "metadata" /\ row.want = keys /\ row.i = job[j].i
        /\ row.counted = job[j].counted /\ row.erred = job[j].erred
    BY <1>1, <2>1 DEF JobRow, Kept, Busy
  <2> HIDE DEF row, m
  <2>4. Statement(row, Task(j), Items(j))
    BY <1>1, <1>3, <2>2 DEF Statement, keys
  <2> QED
    BY <1>1, <1>4, <2>1, <2>2, <2>4, WriteMoves
<1>5. CASE GoOn(j)
  BY <1>1, <1>5, GoOnMoves
<1>6. CASE Goto(j, "observations")
  BY <1>1, <1>6, GotoMoves
<1> QED
  BY <1>4, <1>5, <1>6 DEF FetchSeriesInfo

LEMMA FetchObservationsMoves ==
  ASSUME NEW j \in Jobs, JobOK(j), FetchObservations(j)
  PROVE  Stepped(j)
<1> DEFINE m == Item(j)
<1>1. /\ job[j] \in JobRow /\ job[j].pc = "observations" /\ Task(j) = "macro" /\ Task(j) \in TaskNames
      /\ job[j].i <= Len(Items(j)) /\ UNCHANGED <<given, accepted, today>> /\ job[j].pc \in Busy
  BY DEF JobOK, Shape, FetchObservations, In, At, TaskNames, Busy
<1>2. job[j].i \in 1 .. Len(Items(j)) /\ job[j].i \in Nat
  BY <1>1, ItemsOfTask DEF JobRow
<1>3. m \in Elements(Series) /\ m = Items(j)[job[j].i]
  BY <1>1, <1>2, ItemsAreKnown DEF Item
<1>4. CASE Write(j, {MacroObservation(m)}) /\ UNCHANGED db
  <2> DEFINE keys == {MacroObservation(m)}
             row  == [job[j] EXCEPT !.pc = "write", !.want = keys]
  <2>1. keys \subseteq KeysOf("macro") /\ keys \in SUBSET Keys
    BY <1>1, <1>3, KeysOfTask, KeysAreOfTasks DEF MacroKeys
  <2>3. Becomes(j, row)
    BY <1>4 DEF Write
  <2> HIDE DEF keys
  <2>2. /\ Kept(job[j], row) /\ row.pc = "write" /\ row.want = keys /\ row.i = job[j].i
        /\ row.counted = job[j].counted /\ row.erred = job[j].erred
    BY <1>1, <2>1 DEF JobRow, Kept, Busy
  <2> HIDE DEF row, m
  <2>4. Statement(row, Task(j), Items(j))
    BY <1>1, <1>3, <2>1, <2>2 DEF Statement, keys
  <2> QED
    BY <1>1, <1>4, <2>1, <2>2, <2>3, <2>4, WriteMoves
<1>5. CASE GoOn(j) /\ UNCHANGED db
  BY <1>1, <1>5, GoOnMoves
<1>7. CASE Unparsed(j)
  BY <1>1, <1>7, UnparsedMoves
<1>6. CASE Goto(j, "commit") /\ UNCHANGED db
  <2>1. Due(Task(j), job[j].i)
    BY <1>1, <1>2 DEF Due, BatchOf
  <2> QED
    BY <1>1, <1>6, <2>1, GotoMoves
<1> QED
  BY <1>4, <1>5, <1>6, <1>7 DEF FetchObservations

LEMMA FetchNewsMoves ==
  ASSUME NEW j \in Jobs, JobOK(j), FetchNews(j)
  PROVE  Stepped(j)
<1> DEFINE src == Item(j)
<1>1. /\ job[j] \in JobRow /\ job[j].pc = "item" /\ Task(j) = "news" /\ Task(j) \in TaskNames
      /\ job[j].i <= Len(Items(j)) /\ UNCHANGED <<given, accepted, today>> /\ job[j].pc \in Busy
  BY DEF JobOK, Shape, FetchNews, In, At, More, TaskNames, Busy
<1>2. job[j].i \in 1 .. Len(Items(j))
  BY <1>1, ItemsOfTask DEF JobRow
<1>3. src \in Elements(Providers) /\ src = Items(j)[job[j].i]
  BY <1>1, <1>2, ItemsAreKnown DEF Item
<1>4. CASE GoOn(j) /\ UNCHANGED db
  BY <1>1, <1>4, GoOnMoves
<1>6. CASE Unparsed(j)
  BY <1>1, <1>6, UnparsedMoves
<1>5. ASSUME NEW found \in SUBSET Articles, NEW twice \in BOOLEAN, UNCHANGED db,
             Becomes(j, [job[j] EXCEPT !.pc = "write", !.twice = twice, !.want = {NewsArticle(src, x) : x \in found}])
      PROVE  Stepped(j)
  <2> DEFINE keys == {NewsArticle(src, x) : x \in found}
             row  == [job[j] EXCEPT !.pc = "write", !.twice = twice, !.want = keys]
  <2>1. keys \subseteq NewsKeys /\ keys \subseteq {NewsArticle(src, x) : x \in Articles}
    BY <1>3 DEF NewsKeys
  <2>5. keys \subseteq KeysOf("news") /\ keys \in SUBSET Keys
    BY <1>1, <2>1, KeysOfTask, KeysAreOfTasks
  <2>3. Becomes(j, row)
    BY <1>5
  <2> HIDE DEF keys
  <2>2. /\ Kept(job[j], row) /\ row.pc = "write" /\ row.want = keys /\ row.i = job[j].i
        /\ row.counted = job[j].counted /\ row.erred = job[j].erred
    BY <1>1, <2>5 DEF JobRow, Kept, Busy
  <2> HIDE DEF row, src
  <2>4. Statement(row, Task(j), Items(j))
    BY <1>1, <1>3, <2>1, <2>5, <2>2 DEF Statement
  <2> QED
    BY <1>1, <1>5, <2>2, <2>3, <2>4, <2>5, WriteMoves
<1> QED
  BY <1>4, <1>5, <1>6 DEF FetchNews, WriteNews

LEMMA FetchUniverseMoves ==
  ASSUME NEW j \in Jobs, JobOK(j), FetchUniverse(j)
  PROVE  Stepped(j)
<1>1. /\ job[j] \in JobRow /\ job[j].pc = "item" /\ Task(j) = "universe" /\ Task(j) \in TaskNames
      /\ job[j].i = 1 /\ UNCHANGED <<db, given, today>> /\ DatabaseOK /\ job[j].pc \in Busy
  BY DEF JobOK, Shape, FetchUniverse, In, At, TaskNames, Busy
<1>2. 1 <= Len(Items(j))
  <2> DEFINE n == Len(Items(j))
  <2>1. n \in {3, 4}
    BY <1>1, ItemsOfUniverse
  <2> HIDE DEF n
  <2>2. 1 <= n
    BY <2>1
  <2> QED
    BY <2>2 DEF n
<1>3. pending[j] = {} /\ aborted[j] = FALSE
  BY <1>1 DEF JobOK, Shape, Busy
<1>4. PICK f \in lists :
         IF LongEnough(f.SP500, f.NDX100)
         THEN /\ Becomes(j, [job[j] EXCEPT !.pc = "write", !.sp = f.SP500, !.ndx = f.NDX100,
                               !.want = {Ticker(s) : s \in f.SP500 \cup f.NDX100}])
              /\ accepted' = accepted \cup {[day |-> today, SP500 |-> f.SP500, NDX100 |-> f.NDX100]}
         ELSE Escape(j) /\ UNCHANGED accepted
  BY DEF FetchUniverse
<1> DEFINE sp  == f.SP500
           ndx == f.NDX100
           fetch == [day |-> today, SP500 |-> sp, NDX100 |-> ndx]
           keys  == {Ticker(s) : s \in sp \cup ndx}
           row   == [job[j] EXCEPT !.pc = "write", !.sp = sp, !.ndx = ndx, !.want = keys]
<1>5. sp \in SUBSET Symbols /\ ndx \in SUBSET Symbols /\ today \in 1 .. MaxDay
  BY <1>1, <1>4 DEF DatabaseOK
<1>6. CASE LongEnough(sp, ndx)
  <2>1. Becomes(j, row) /\ accepted' = accepted \cup {fetch}
    BY <1>4, <1>6
  <2>2. keys \subseteq KeysOf("universe") /\ keys \in SUBSET Keys
    BY <1>1, <1>5, KeysOfTask, KeysAreOfTasks DEF UniverseKeys
  <2>3. fetch \in Fetches /\ fetch.day = today /\ fetch.SP500 = sp /\ fetch.NDX100 = ndx
    BY <1>5 DEF Fetches
  <2> HIDE DEF sp, ndx, fetch, keys
  <2>4. /\ Kept(job[j], row) /\ row.pc = "write" /\ row.want = keys /\ row.i = job[j].i
        /\ row.counted = job[j].counted /\ row.erred = job[j].erred /\ row.sp = sp /\ row.ndx = ndx
    BY <1>1, <1>5, <2>2 DEF JobRow, Kept, Busy
  <2> HIDE DEF row
  <2>5. row.want = Tickers(row)
    BY <2>4 DEF Tickers, keys
  <2>6. \E g \in accepted' : g.day = today /\ g.SP500 = row.sp /\ g.NDX100 = row.ndx
    BY <2>1, <2>3, <2>4
  <2>7. AsksForUniverse(job[j], Task(j), Items(j), accepted', today, row)
    BY <1>1, <1>2, <1>6, <2>2, <2>4, <2>5, <2>6 DEF AsksForUniverse
  <2>8. accepted \subseteq accepted' /\ accepted' \subseteq Fetches
    BY <1>1, <2>1, <2>3 DEF DatabaseOK
  <2> QED
    BY <1>1, <2>1, <2>7, <2>8, RowMoves
<1>7. CASE ~LongEnough(sp, ndx)
  <2>1. Escape(j) /\ accepted' = accepted
    BY <1>4, <1>7
  <2>2. /\ Escapes(job[j], job'[j], {}, FALSE) /\ DOMAIN job' = Jobs
        /\ \A k \in Jobs \ {j} : job'[k] = job[k]
    BY <1>1, <2>1, EscapeIsMove
  <2>3. pending' = pending /\ aborted' = aborted /\ committed' = committed
        /\ today' = today /\ quotes' = quotes /\ lists' = lists
    BY <1>1 DEF db, given
  <2>4. Moves(job[j], Task(j), Items(j), pending[j], aborted[j], committed, accepted', today, quotes,
              job'[j], pending'[j], aborted'[j], committed')
    BY <1>3, <2>2, <2>3 DEF Moves
  <2> QED
    BY <1>1, <1>3, <2>1, <2>2, <2>3, <2>4 DEF Stepped, DatabaseOK
<1> QED
  BY <1>6, <1>7

LEMMA NextUniverseStatementMoves ==
  ASSUME NEW j \in Jobs, JobOK(j), NextUniverseStatement(j)
  PROVE  Stepped(j)
<1> DEFINE r == job[j]
<1>1. /\ r \in JobRow /\ r.pc = "item" /\ Task(j) = "universe" /\ Task(j) \in TaskNames
      /\ r.i > 1 /\ r.i <= Len(Items(j)) /\ UNCHANGED <<db, given, accepted, today>> /\ DatabaseOK
  BY DEF JobOK, Shape, NextUniverseStatement, In, At, TaskNames, Busy, More
<1>2. r.sp \in SUBSET Symbols /\ r.ndx \in SUBSET Symbols /\ today \in 1 .. MaxDay
  BY <1>1 DEF JobRow, DatabaseOK
<1>3. \/ r.i = 2 /\ Item(j) = "SP500"
      \/ r.i = 3 /\ Item(j) = "NDX100"
      \/ r.i = 4 /\ Item(j) = "enrich"
  <2> DEFINE n == Len(Items(j))
             i == job[j].i
  <2>1. n \in {3, 4} /\ i \in Nat /\ i > 1 /\ i <= n
    BY <1>1, ItemsOfUniverse DEF JobRow
  <2> HIDE DEF n, i
  <2>2. i = 2 \/ i = 3 \/ (i = 4 /\ n = 4)
    BY <2>1
  <2> QED
    BY <1>1, <2>2, ItemsOfUniverse DEF Item, n, i
<1>4. ASSUME NEW keys \in SUBSET UniverseKeys, Write(j, keys),
             /\ r.i = 2 => keys = MembersSP(r, today)
             /\ r.i = 3 => keys = MembersNDX(r, today)
             /\ r.i >= 4 => keys \subseteq Tickers(r)
      PROVE  Stepped(j)
  <2> DEFINE row == [job[j] EXCEPT !.pc = "write", !.want = keys]
  <2>1. Becomes(j, row)
    BY <1>4 DEF Write
  <2>2. keys \subseteq KeysOf("universe") /\ keys \in SUBSET Keys
    BY <1>1, <1>4, KeysOfTask, KeysAreOfTasks
  <2>3. /\ Kept(r, row) /\ row.pc = "write" /\ row.want = keys /\ row.i = r.i
        /\ row.counted = r.counted /\ row.erred = r.erred /\ row.sp = r.sp /\ row.ndx = r.ndx
    BY <1>1, <2>2 DEF JobRow, Kept, Busy
  <2> HIDE DEF row
  <2>4. AsksForUniverse(r, Task(j), Items(j), accepted', today, row)
    BY <1>1, <1>4, <2>2, <2>3 DEF AsksForUniverse
  <2> QED
    BY <1>1, <2>1, <2>4, RowMoves DEF DatabaseOK
<1>5. CASE r.i = 2
  <2>1. Write(j, MembersSP(r, today))
    BY <1>3, <1>5 DEF NextUniverseStatement, MembersSP
  <2>2. MembersSP(r, today) \subseteq UniverseKeys
    BY <1>2 DEF MembersSP, UniverseKeys, Universes
  <2> QED
    BY <1>4, <1>5, <2>1, <2>2
<1>6. CASE r.i = 3
  <2>1. Write(j, MembersNDX(r, today))
    BY <1>3, <1>6 DEF NextUniverseStatement, MembersNDX
  <2>2. MembersNDX(r, today) \subseteq UniverseKeys
    BY <1>2 DEF MembersNDX, UniverseKeys, Universes
  <2> QED
    BY <1>4, <1>6, <2>1, <2>2
<1>7. CASE r.i = 4
  <2>1. PICK known \in SUBSET (r.sp \cup r.ndx) : Write(j, {Ticker(s) : s \in known})
    BY <1>3, <1>7 DEF NextUniverseStatement
  <2>2. {Ticker(s) : s \in known} \subseteq UniverseKeys /\ {Ticker(s) : s \in known} \subseteq Tickers(r)
    BY <1>2, <2>1 DEF UniverseKeys, Tickers
  <2> QED
    BY <1>4, <1>7, <2>1, <2>2
<1> QED
  BY <1>3, <1>5, <1>6, <1>7

LEMMA ExecuteMoves ==
  ASSUME NEW j \in Jobs, JobOK(j), Execute(j)
  PROVE  Stepped(j)
<1> DEFINE r  == job[j]
           p  == pending[j]
           p2 == p \cup Locked(j)
<1>1. /\ r \in JobRow /\ r.pc \in {"write", "metadata"} /\ aborted[j] = FALSE /\ WaitsFor(j) = {}
      /\ UNCHANGED <<committed, aborted, given, accepted, today>> /\ DatabaseOK /\ p \subseteq Keys
      /\ r.pc \in Busy /\ r.i <= Len(Items(j)) /\ Task(j) \in TaskNames
      /\ pending' = [pending EXCEPT ![j] = @ \cup Locked(j)]
  BY DEF JobOK, Shape, Execute, Executing, Busy
<1>2. Locked(j) \subseteq r.want /\ r.want \subseteq committed \cup Locked(j)
  BY DEF Locked
<1>3. \A k \in Jobs \ {j} : pending[k] \cap Locked(j) = {}
  BY <1>1 DEF WaitsFor, Executing
<1>4. /\ DOMAIN pending' = Jobs /\ pending'[j] = p2 /\ \A k \in Jobs \ {j} : pending'[k] = pending[k]
  BY <1>1 DEF DatabaseOK
<1>5. \A k \in Jobs \ {j} : pending'[j] \cap pending[k] = {}
  BY <1>1, <1>3, <1>4 DEF DatabaseOK
<1>6. r.want \in SUBSET Keys /\ r.counted \in SUBSET Keys /\ DOMAIN job = Jobs
  BY <1>1 DEF JobRow, DatabaseOK
<1>7. /\ DOMAIN job' = Jobs /\ (\A k \in Jobs \ {j} : job'[k] = job[k])
      /\ Writes(r, Task(j), p, aborted[j], committed, job'[j], p2)
  <2>1. p \subseteq p2 /\ p2 \subseteq p \cup r.want /\ r.want \subseteq committed \cup p2
    BY <1>2
  <2> HIDE DEF p2
  <2>2. CASE r.pc = "metadata"
    <3> DEFINE row == [job[j] EXCEPT !.pc = "observations"]
    <3>1. Becomes(j, row)
      BY <2>2 DEF Execute, At, Goto
    <3>2. Kept(r, row) /\ row.pc = "observations" /\ row.i = r.i /\ row.counted = r.counted /\ row.erred = r.erred
      BY <1>1, RowAt DEF Busy
    <3>3. DOMAIN job' = Jobs /\ job'[j] = row /\ \A k \in Jobs \ {j} : job'[k] = job[k]
      BY <1>6, <3>1, NamedByRow
    <3> HIDE DEF row
    <3>4. Writes(r, Task(j), p, aborted[j], committed, row, p2)
      BY <1>1, <2>1, <2>2, <3>2 DEF Writes
    <3> QED
      BY <3>3, <3>4
  <2>3. CASE r.pc = "write"
    <3> DEFINE counted == r.counted \cup r.want
               row     == [job[j] EXCEPT !.counted = counted]
               row2    == IF Boundary(j) THEN [row EXCEPT !.pc = "commit"] ELSE Onward(row)
    <3>1. Becomes(j, row2)
      <4>1. ~At(j, "metadata")
        BY <2>3 DEF At
      <4>2. LET w == [job[j] EXCEPT !.counted = @ \cup job[j].want]
            IN  Becomes(j, IF Boundary(j) THEN [w EXCEPT !.pc = "commit"] ELSE Onward(w))
        BY <4>1, Zenon DEF Execute
      <4>3. [job[j] EXCEPT !.counted = @ \cup job[j].want] = row
        BY <1>1 DEF JobRow
      <4> QED
        BY <4>2, <4>3, Zenon
    <3>2. counted \in SUBSET Keys
      BY <1>6
    <3> HIDE DEF counted
    <3>3. Kept(r, row) /\ row \in JobRow
      BY <1>1, <3>2 DEF JobRow, Kept
    <3>4. row.i = r.i /\ row.counted = counted /\ row.erred = r.erred /\ row.sp = r.sp /\ row.ndx = r.ndx
      BY <1>1 DEF JobRow
    <3> HIDE DEF row
    <3>5. DOMAIN job' = Jobs /\ job'[j] = row2 /\ \A k \in Jobs \ {j} : job'[k] = job[k]
      BY <1>6, <3>1, NamedByRow
    <3>6. Boundary(j) <=> Due(Task(j), r.i)
      BY <1>1, BoundaryIsDue
    <3>7. CASE Boundary(j)
      <4>1. row2 = [row EXCEPT !.pc = "commit"]
        BY <3>7
      <4> HIDE DEF row2
      <4>2. Kept(row, row2) /\ row2.pc = "commit" /\ row2.i = row.i /\ row2.counted = row.counted
            /\ row2.erred = row.erred /\ row2.sp = row.sp /\ row2.ndx = row.ndx
        BY <3>3, <4>1, RowAt DEF Busy
      <4>3. Kept(r, row2)
        BY <3>3, <4>2 DEF Kept
      <4>4. Writes(r, Task(j), p, aborted[j], committed, row2, p2)
        BY <1>1, <2>1, <2>3, <3>4, <3>6, <3>7, <4>2, <4>3 DEF Writes, counted
      <4> QED
        BY <3>5, <4>4
    <3>8. CASE ~Boundary(j)
      <4>1. row2 = Onward(row)
        BY <3>8
      <4> HIDE DEF row2
      <4>2. Advances(row, row2) /\ row2.counted = row.counted /\ row2.erred = row.erred
        BY <3>3, <4>1, RowOnward
      <4>3. Advances(r, row2)
        BY <3>3, <3>4, <4>2 DEF Kept, Advances
      <4>4. Writes(r, Task(j), p, aborted[j], committed, row2, p2)
        BY <1>1, <2>1, <2>3, <3>4, <3>6, <3>8, <4>2, <4>3 DEF Writes, counted
      <4> QED
        BY <3>5, <4>4
    <3> QED
      BY <3>7, <3>8
  <2> QED
    BY <1>1, <2>2, <2>3
<1>8. Moves(r, Task(j), Items(j), p, aborted[j], committed, accepted', today, quotes,
            job'[j], pending'[j], aborted'[j], committed')
  <2> HIDE DEF p2
  <2> QED
    BY <1>1, <1>4, <1>7, Zenon DEF Moves
<1> QED
  BY <1>1, <1>4, <1>5, <1>7, <1>8 DEF Stepped, DatabaseOK, given

(* One row of a statement of several. *)
LEMMA TakeRowMoves ==
  ASSUME NEW j \in Jobs, JobOK(j), TakeRow(j)
  PROVE  Stepped(j)
<1> DEFINE r == job[j]
           p == pending[j]
<1>1. /\ r \in JobRow /\ r.pc \in {"write", "metadata"} /\ aborted[j] = FALSE
      /\ UNCHANGED <<committed, aborted, job, given, accepted, today>> /\ DatabaseOK
      /\ r.pc \in Busy /\ r.i <= Len(Items(j)) /\ Task(j) \in TaskNames /\ Statement(r, Task(j), Items(j))
      /\ r.pc = "metadata" => Task(j) = "macro"
  BY DEF JobOK, Shape, TakeRow, Executing, Busy
<1>2. PICK row \in NextRows(j) :
        /\ Locked(j) \ p # {row}
        /\ \A k \in Jobs \ {j} : row \notin pending[k]
        /\ pending' = [pending EXCEPT ![j] = @ \cup {row}]
  BY DEF TakeRow
<1>3. row \in Locked(j) \ p
  BY <1>2 DEF NextRows
<1>4. Locked(j) \subseteq r.want
  BY DEF Locked
<1>5. r.pc = "write" /\ Task(j) \in {"universe", "news"}
  <2>1. PICK other \in Locked(j) : other # row
    BY <1>2, <1>3
  <2>2. \A x : r.want # {x}
    BY <1>3, <1>4, <2>1
  <2> QED
    BY <1>1, <2>2 DEF Statement, TaskNames
<1>6. DOMAIN pending' = Jobs /\ pending'[j] = p \cup {row} /\ \A k \in Jobs \ {j} : pending'[k] = pending[k]
  BY <1>1, <1>2 DEF DatabaseOK
<1>7. \A k \in Jobs \ {j} : pending'[j] \cap pending[k] = {}
  BY <1>1, <1>2, <1>6 DEF DatabaseOK
<1>8. Takes(r, Task(j), p, aborted[j], job'[j], pending'[j])
  BY <1>1, <1>3, <1>4, <1>5, <1>6 DEF Takes
<1>9. Moves(r, Task(j), Items(j), p, aborted[j], committed, accepted', today, quotes,
            job'[j], pending'[j], aborted'[j], committed')
  BY <1>1, <1>8, Zenon DEF Moves
<1> QED
  BY <1>1, <1>6, <1>7, <1>9 DEF Stepped, DatabaseOK, given

LEMMA ExecuteFailsMoves ==
  ASSUME NEW j \in Jobs, JobOK(j), ExecuteFails(j)
  PROVE  Stepped(j)
<1> DEFINE r == job[j]
<1>1. /\ r \in JobRow /\ r.pc \in {"write", "metadata"} /\ r.pc \in Busy /\ DOMAIN job = Jobs
      /\ UNCHANGED <<committed, given, accepted, today>>
      /\ pending' = [pending EXCEPT ![j] = {}] /\ aborted' = [aborted EXCEPT ![j] = Swallows(j)]
  BY DEF JobOK, Shape, ExecuteFails, Executing, Busy, DatabaseOK
<1>2. CASE Swallows(j)
  <2> DEFINE row  == [job[j] EXCEPT !.erred = TRUE, !.twice = FALSE]
             row2 == Onward(row)
  <2>1. Becomes(j, row2)
    BY <1>2 DEF ExecuteFails
  <2>2. Kept(r, row) /\ row.i = r.i /\ row.counted = r.counted /\ row.erred /\ row.sp = r.sp /\ row.ndx = r.ndx
    BY <1>1 DEF JobRow, Kept
  <2> HIDE DEF row
  <2>3. Advances(row, row2) /\ row2.counted = row.counted /\ row2.erred = row.erred
    BY <2>2, RowOnward DEF Kept
  <2>4. DOMAIN job' = Jobs /\ job'[j] = row2 /\ \A k \in Jobs \ {j} : job'[k] = job[k]
    BY <1>1, <2>1, NamedByRow
  <2> HIDE DEF row2
  <2>5. Advances(r, row2)
    BY <2>2, <2>3 DEF Kept, Advances
  <2>6. Task(j) \in {"ohlcv", "news"}
    BY <1>2 DEF Swallows
  <2>7. Stumbles(r, Task(j), row2, {}, TRUE)
    BY <1>1, <2>2, <2>3, <2>5, <2>6 DEF Stumbles
  <2>8. Moves(r, Task(j), Items(j), pending[j], aborted[j], committed, accepted, today, quotes,
              job'[j], {}, TRUE, committed')
    BY <1>1, <2>4, <2>7 DEF Moves
  <2>9. aborted' = [aborted EXCEPT ![j] = TRUE]
    BY <1>1, <1>2 DEF Swallows
  <2> QED
    BY <1>1, <2>4, <2>8, <2>9, ClosingMoves
<1>3. CASE ~Swallows(j)
  <2>1. Escape(j)
    BY <1>3 DEF ExecuteFails
  <2>2. /\ Escapes(r, job'[j], {}, FALSE) /\ DOMAIN job' = Jobs
        /\ \A k \in Jobs \ {j} : job'[k] = job[k]
    BY <1>1, <2>1, EscapeIsMove
  <2>3. Moves(r, Task(j), Items(j), pending[j], aborted[j], committed, accepted, today, quotes,
              job'[j], {}, FALSE, committed')
    BY <1>1, <2>2 DEF Moves
  <2>4. aborted' = [aborted EXCEPT ![j] = FALSE]
    BY <1>1, <1>3 DEF Swallows
  <2> QED
    BY <1>1, <2>2, <2>3, <2>4, ClosingMoves
<1> QED
  BY <1>2, <1>3

LEMMA CommitMoves ==
  ASSUME NEW j \in Jobs, JobOK(j), Commit(j)
  PROVE  Stepped(j)
<1> DEFINE r == job[j]
           row == Onward(r)
<1>1. /\ r \in JobRow /\ r.pc = "commit" /\ DOMAIN job = Jobs /\ aborted[j] \in BOOLEAN
      /\ UNCHANGED <<given, accepted, today>> /\ Becomes(j, row)
      /\ pending' = [pending EXCEPT ![j] = {}] /\ aborted' = [aborted EXCEPT ![j] = FALSE]
      /\ committed' = committed \cup (IF aborted[j] THEN {} ELSE pending[j])
  BY DEF JobOK, Shape, Commit, Close, At, GoOn, Written, DatabaseOK
<1>2. Advances(r, row) /\ row.counted = r.counted /\ row.erred = r.erred
  BY <1>1, RowOnward
<1>3. DOMAIN job' = Jobs /\ job'[j] = row /\ \A k \in Jobs \ {j} : job'[k] = job[k]
  BY <1>1, NamedByRow
<1> HIDE DEF row
<1>4. Commits(r, pending[j], aborted[j], committed, row, {}, FALSE, committed')
  BY <1>1, <1>2 DEF Commits
<1>5. Moves(r, Task(j), Items(j), pending[j], aborted[j], committed, accepted, today, quotes,
            job'[j], {}, FALSE, committed')
  BY <1>3, <1>4 DEF Moves
<1> QED
  BY <1>1, <1>3, <1>5, ClosingMoves

LEMMA EndTaskMoves ==
  ASSUME NEW j \in Jobs, JobOK(j), EndTask(j)
  PROVE  Stepped(j)
<1> DEFINE r == job[j]
           pc == IF Len(r.todo) = 1 THEN "ended" ELSE "next"
           left == Tail(r.todo)
           row == [job[j] EXCEPT !.pc = pc, !.todo = left]
<1>1. /\ r \in JobRow /\ r.pc = "item" /\ r.todo # <<>> /\ DOMAIN job = Jobs /\ Task(j) \in TaskNames
      /\ ~(r.i <= Len(Items(j)))
      /\ UNCHANGED <<given, accepted, today>> /\ aborted[j] \in BOOLEAN
      /\ pending' = [pending EXCEPT ![j] = {}] /\ aborted' = [aborted EXCEPT ![j] = FALSE]
      /\ committed' = (IF CommitsAtEnd(Task(j)) THEN committed \cup Written(j) ELSE committed)
  BY DEF JobOK, Shape, EndTask, Close, At, More, DatabaseOK, Busy
<1>2. committed' = (IF CommitsAtEnd(Task(j)) /\ ~aborted[j] THEN committed \cup pending[j] ELSE committed)
  BY <1>1 DEF Written
<1>3. Becomes(j, row)
  BY <1>1 DEF EndTask, Returned, JobRow
<1>4. left \in Seq(Universes \cup TaskNames) /\ pc \in {"ended", "next"}
  BY <1>1 DEF JobRow
<1>5. r.i > Len(Items(j))
  <2> DEFINE n == Len(Items(j))
             i == job[j].i
  <2>1. n \in Nat /\ i \in Nat /\ ~(i <= n)
    BY <1>1, ItemsOfTask DEF JobRow
  <2> HIDE DEF n, i
  <2>2. i > n
    BY <2>1
  <2> QED
    BY <2>2 DEF n, i
<1>6. DOMAIN job' = Jobs /\ job'[j] = row /\ \A k \in Jobs \ {j} : job'[k] = job[k]
  BY <1>1, <1>3, NamedByRow
<1> HIDE DEF pc, left
<1>7. row \in JobRow /\ row.flow = r.flow /\ row.list = r.list /\ row.todo = left /\ row.pc = pc
      /\ row.counted = r.counted /\ row.erred = r.erred
  BY <1>1, <1>4 DEF JobRow, Quiet
<1> HIDE DEF row
<1>8. Ends(r, Task(j), Items(j), pending[j], aborted[j], committed, row, {}, FALSE, committed')
  BY <1>1, <1>2, <1>5, <1>7 DEF Ends, pc, left
<1>9. Moves(r, Task(j), Items(j), pending[j], aborted[j], committed, accepted, today, quotes,
            job'[j], {}, FALSE, committed')
  BY <1>6, <1>8, Zenon DEF Moves
<1> QED
  BY <1>1, <1>6, <1>9, ClosingMoves

LEMMA CommitFailsMoves ==
  ASSUME NEW j \in Jobs, JobOK(j), CommitFails(j)
  PROVE  Stepped(j)
<1> DEFINE r == job[j]
           C2 == committed'
<1>1. /\ r \in JobRow /\ r.pc \in {"commit", "item"} /\ r.pc \in Busy /\ DOMAIN job = Jobs
      /\ UNCHANGED <<given, accepted, today>>
      /\ pending' = [pending EXCEPT ![j] = {}] /\ aborted' = [aborted EXCEPT ![j] = FALSE]
      /\ C2 \in {committed, committed \cup (IF aborted[j] THEN {} ELSE pending[j])}
      /\ r.pc = "commit" \/ CommitsAtEnd(Task(j))
  BY DEF JobOK, Shape, CommitFails, Close, At, DatabaseOK, Busy, Written
<1>2. r.pc = "commit" \/ Task(j) # "universe"
  BY <1>1 DEF CommitsAtEnd
<1>3. CASE r.pc = "commit" /\ Task(j) = "ohlcv"
  <2> DEFINE counted == r.counted \ {Bar(Item(j))}
             row  == [job[j] EXCEPT !.erred = TRUE, !.counted = counted]
             row2 == Onward(row)
  <2>1. Becomes(j, row2)
    <3>1. Becomes(j, Onward([job[j] EXCEPT !.erred = TRUE, !.counted = @ \ {Bar(Item(j))}]))
      BY <1>3, Zenon DEF CommitFails, At
    <3>2. [job[j] EXCEPT !.erred = TRUE, !.counted = @ \ {Bar(Item(j))}] = row
      BY <1>1 DEF JobRow
    <3> QED
      BY <3>1, <3>2, Zenon
  <2>2. counted \in SUBSET Keys
    BY <1>1 DEF JobRow
  <2>8. counted = r.counted \ {Bar(Items(j)[r.i])}
    BY DEF Item
  <2> HIDE DEF counted
  <2>3. Kept(r, row) /\ row.i = r.i /\ row.counted = counted /\ row.erred /\ row.sp = r.sp /\ row.ndx = r.ndx
    BY <1>1, <2>2 DEF JobRow, Kept
  <2> HIDE DEF row
  <2>4. Advances(row, row2) /\ row2.counted = row.counted /\ row2.erred = row.erred
    BY <2>3, RowOnward DEF Kept
  <2>5. DOMAIN job' = Jobs /\ job'[j] = row2 /\ \A k \in Jobs \ {j} : job'[k] = job[k]
    BY <1>1, <2>1, NamedByRow
  <2> HIDE DEF row2
  <2>6. Advances(r, row2)
    BY <2>3, <2>4 DEF Kept, Advances
  <2>7. LosesCommit(r, Task(j), Items(j), row2, {}, FALSE)
    BY <1>3, <2>3, <2>4, <2>6, <2>8 DEF LosesCommit
  <2>9. Moves(r, Task(j), Items(j), pending[j], aborted[j], committed, accepted, today, quotes,
              job'[j], {}, FALSE, committed')
    BY <1>1, <1>2, <2>5, <2>7, Zenon DEF Moves
  <2> QED
    BY <1>1, <2>5, <2>9, ClosingMoves
<1>4. CASE ~(r.pc = "commit" /\ Task(j) = "ohlcv")
  <2>1. Escape(j)
    BY <1>4 DEF CommitFails, At
  <2>2. /\ Escapes(r, job'[j], {}, FALSE) /\ DOMAIN job' = Jobs
        /\ \A k \in Jobs \ {j} : job'[k] = job[k]
    BY <1>1, <2>1, EscapeIsMove
  <2>3. Moves(r, Task(j), Items(j), pending[j], aborted[j], committed, accepted, today, quotes,
              job'[j], {}, FALSE, committed')
    BY <1>1, <1>2, <2>2, Zenon DEF Moves
  <2> QED
    BY <1>1, <2>2, <2>3, ClosingMoves
<1> QED
  BY <1>3, <1>4

LEMMA KillMoves ==
  ASSUME NEW j \in Jobs, JobOK(j), Kill(j)
  PROVE  Stepped(j)
<1> DEFINE r == job[j]
           row == [job[j] EXCEPT !.pc = "killed"]
<1>1. /\ r \in JobRow /\ r.pc # "ended" /\ DOMAIN job = Jobs
      /\ UNCHANGED <<committed, given, accepted, today>> /\ Becomes(j, row)
      /\ pending' = [pending EXCEPT ![j] = {}] /\ aborted' = [aborted EXCEPT ![j] = FALSE]
  BY DEF JobOK, Shape, Kill, Close, Goto, DatabaseOK
<1>2. Kept(r, row) /\ row.pc = "killed" /\ row.i = r.i /\ row.counted = r.counted /\ row.erred = r.erred
  BY <1>1, RowAt DEF Quiet
<1>3. DOMAIN job' = Jobs /\ job'[j] = row /\ \A k \in Jobs \ {j} : job'[k] = job[k]
  BY <1>1, NamedByRow
<1> HIDE DEF row
<1>4. Dies(r, row, {}, FALSE)
  BY <1>1, <1>2 DEF Dies
<1>5. Moves(r, Task(j), Items(j), pending[j], aborted[j], committed, accepted, today, quotes,
            job'[j], {}, FALSE, committed')
  BY <1>1, <1>3, <1>4 DEF Moves
<1> QED
  BY <1>1, <1>3, <1>5, ClosingMoves

LEMMA StepMoves ==
  ASSUME NEW j \in Jobs, JobOK(j), Step(j) \/ Kill(j)
  PROVE  Stepped(j)
BY StartTaskMoves, RetryTaskMoves, ReadUniverseMoves, FetchBarsMoves, FetchActionsMoves,
   FetchSeriesInfoMoves, FetchObservationsMoves, FetchNewsMoves, FetchUniverseMoves,
   NextUniverseStatementMoves, TakeRowMoves, ExecuteMoves, ExecuteFailsMoves, CommitMoves, EndTaskMoves,
   CommitFailsMoves, KillMoves, Zenon DEF Step, Fetch

-----------------------------------------------------------------------------
(* The parts of the invariant that speak of one job hold after a move. *)
Listed(t, L) ==
  t \in TaskNames =>
    /\ Len(L) \in Nat /\ DOMAIN L = 1 .. Len(L)
    /\ t # "universe" => Distinct(L)
    /\ t \in {"ohlcv", "actions"} => \A n \in 1 .. Len(L) : L[n] \in Symbols
    /\ t = "macro" => \A n \in 1 .. Len(L) : L[n] \in Elements(Series)
    /\ t = "news" => \A n \in 1 .. Len(L) : L[n] \in Elements(Providers)
    /\ t = "universe" => Len(L) \in {3, 4}

RowOK(r, t, L, p, a) ==
  /\ Shape(r, t, L, p, a) /\ Statement(r, t, L) /\ Listed(t, L)
  /\ r.todo # <<>> => t = Head(r.todo)

LEMMA WantedAreKeys ==
  ASSUME NEW r, NEW t, NEW L, NEW p, NEW a, RowOK(r, t, L, p, a), r.pc \in {"write", "metadata"}
  PROVE  t \in TaskNames /\ r.want \subseteq KeysOf(t) /\ r.want \subseteq Keys
<1>1. /\ t \in TaskNames /\ r \in JobRow /\ r.i \in 1 .. Len(L)
      /\ r.pc = "metadata" => t = "macro"
  BY DEF RowOK, Shape, Busy, Listed, JobRow
<1>2. CASE r.pc = "write"
  BY <1>1, <1>2, KeysAreOfTasks DEF RowOK, Statement
<1>3. CASE r.pc = "metadata"
  <2>1. t = "macro" /\ r.want = {MacroSeries(L[r.i])} /\ L[r.i] \in Elements(Series)
    BY <1>1, <1>3 DEF RowOK, Statement, Listed
  <2>2. r.want \subseteq KeysOf(t)
    BY <2>1, KeysOfTask DEF MacroKeys
  <2> QED
    BY <1>1, <2>2, KeysAreOfTasks
<1> QED
  BY <1>2, <1>3

LEMMA LastTask ==
  ASSUME NEW q \in Seq(Universes \cup TaskNames), q # <<>>, q[Len(q)] \in TaskNames
  PROVE  /\ Len(q) # 1 => Tail(q) # <<>>
         /\ Tail(q) # <<>> => Tail(q)[Len(Tail(q))] \in TaskNames
         /\ Head(q) \in Universes => Tail(q) # <<>>
<1>1. Len(q) \in Nat /\ Len(q) >= 1 /\ Len(Tail(q)) = Len(q) - 1
  BY DEF Universes
<1>2. Len(q) # 1 => Tail(q) # <<>>
  <2>1. Len(q) # 1 => Len(Tail(q)) # 0
    BY <1>1
  <2>2. Len(<<>>) = 0
    OBVIOUS
  <2> QED
    BY <2>1, <2>2, Zenon
<1>3. ASSUME Tail(q) # <<>>
      PROVE  Tail(q)[Len(Tail(q))] \in TaskNames
  <2>1. Tail(q) \in Seq(Universes \cup TaskNames)
    OBVIOUS
  <2>2. Len(Tail(q)) >= 1
    BY <1>3, <2>1
  <2>3. Tail(q)[Len(Tail(q))] = q[Len(q)]
    BY <1>1, <2>2
  <2> QED
    BY <2>3
<1>4. ASSUME Head(q) \in Universes
      PROVE  Tail(q) # <<>>
  <2>1. CASE Len(q) = 1
    <3>1. Head(q) = q[1]
      BY <1>1
    <3> QED
      BY <1>4, <2>1, <3>1 DEF Universes, TaskNames
  <2> QED
    BY <1>2, <2>1
<1> QED
  BY <1>2, <1>3, <1>4

LEMMA ShapeKept ==
  ASSUME NEW r, NEW t, NEW L, NEW p, NEW a, RowOK(r, t, L, p, a),
         NEW C, NEW A2, NEW day, NEW Q, NEW r2, NEW p2, NEW a2, NEW C2, NEW t2, NEW L2,
         Moves(r, t, L, p, a, C, A2, day, Q, r2, p2, a2, C2),
         Kept(r, r2) => t2 = t /\ L2 = L
  PROVE  Shape(r2, t2, L2, p2, a2) /\ Statement(r2, t2, L2)
<1> USE DEF Busy, Quiet
<1>1. /\ r \in JobRow /\ p \subseteq Keys /\ a \in BOOLEAN /\ Distinct(r.list) /\ r.i \in Nat \ {0}
      /\ Shape(r, t, L, p, a)
  BY DEF RowOK, Shape, JobRow
<1>2. r.pc \in Busy => t \in TaskNames /\ r.todo # <<>> /\ Len(L) \in Nat
  BY <1>1 DEF Shape, RowOK, Listed
<1>3. CASE Begins(r, t, r2) /\ p2 = p /\ a2 = a
  <2>1. Kept(r, r2) /\ t2 = t /\ t \in TaskNames /\ r2.pc = "item" /\ r2.i = 1 /\ r2.counted = {} /\ ~r2.erred
        /\ p2 = {} /\ a2 = FALSE /\ r.todo # <<>>
    BY <1>1, <1>3 DEF Begins, Shape
  <2>2. r2.counted \subseteq KeysOf(t2) /\ p2 \subseteq KeysOf(t2) /\ p2 \subseteq Keys
    BY <2>1
  <2>3. Distinct(r2.list) /\ r2.todo # <<>> /\ r2.todo[Len(r2.todo)] \in TaskNames /\ r2 \in JobRow
    BY <1>1, <2>1 DEF Shape, Kept
  <2> QED
    BY <2>1, <2>2, <2>3 DEF Shape, Statement
<1>4. CASE Passes(r, t, L, Q, r2) /\ p2 = p /\ a2 = a
  <2>1. /\ Kept(r, r2) /\ t2 = t /\ L2 = L /\ r2.pc = "item" /\ r2.i = r.i + 1 /\ r2.counted = r.counted
        /\ r2.erred = r.erred /\ r.pc \in Busy /\ t # "universe"
    BY <1>4 DEF Passes, Advances
  <2> QED
    BY <1>1, <1>2, <1>4, <2>1 DEF Shape, Statement, Kept
<1>5. CASE Asks(r, t, L, Q, r2) /\ p2 = p /\ a2 = a
  <2>1. /\ Kept(r, r2) /\ t2 = t /\ L2 = L /\ r2.i = r.i /\ r2.counted = r.counted
        /\ r2.erred = r.erred /\ r.pc \in Busy /\ t # "universe" /\ r.i <= Len(L) /\ Statement(r2, t, L)
        /\ r2.pc \in {"metadata", "observations", "write", "commit"}
        /\ r2.pc \in {"metadata", "observations"} => t = "macro"
        /\ r2.pc = "commit" => Due(t, r.i)
    BY <1>5 DEF Asks
  <2> QED
    BY <1>1, <1>2, <1>5, <2>1 DEF Shape, Kept
<1>6. CASE AsksForUniverse(r, t, L, A2, day, r2) /\ p2 = p /\ a2 = a
  <2>1. /\ Kept(r, r2) /\ t2 = t /\ L2 = L /\ r2.i = r.i /\ r2.counted = r.counted
        /\ r2.erred = r.erred /\ r.pc \in Busy /\ t = "universe" /\ r.i <= Len(L) /\ r2.pc = "write"
        /\ r2.want \subseteq KeysOf(t)
    BY <1>6 DEF AsksForUniverse
  <2>2. Statement(r2, t2, L2)
    BY <2>1 DEF Statement
  <2> QED
    BY <1>1, <1>2, <1>6, <2>1, <2>2 DEF Shape, Kept
<1>7. CASE Reads(r, t, r2) /\ p2 = p /\ a2 = a
  <2>1. /\ r2 \in JobRow /\ r2.pc = "next" /\ Distinct(r2.list) /\ r2.todo = Tail(r.todo)
        /\ r.pc = "next" /\ t \in Universes
    BY <1>7 DEF Reads
  <2>2. p2 = {} /\ ~a2 /\ r.todo # <<>> /\ r.todo[Len(r.todo)] \in TaskNames /\ t = Head(r.todo)
    BY <1>1, <1>7, <2>1 DEF Shape, RowOK
  <2>3. r.todo \in Seq(Universes \cup TaskNames)
    BY <1>1 DEF JobRow
  <2>4. r2.todo # <<>> /\ r2.todo[Len(r2.todo)] \in TaskNames
    BY <2>1, <2>2, <2>3, LastTask
  <2> QED
    BY <1>1, <1>7, <2>1, <2>2, <2>4 DEF Shape, Statement
<1>8. CASE Writes(r, t, p, a, C, r2, p2) /\ a2 = a
  <2>1. /\ Kept(r, r2) /\ t2 = t /\ L2 = L /\ r2.erred = r.erred /\ r.pc \in Busy \ {"item"} /\ ~a
        /\ p2 \subseteq p \cup r.want
    BY <1>8 DEF Writes, Advances
  <2>2. t \in TaskNames /\ r.want \subseteq KeysOf(t) /\ r.want \subseteq Keys
    BY <1>8, WantedAreKeys DEF Writes
  <2>3. p2 \subseteq Keys /\ p2 \subseteq KeysOf(t) /\ r.i <= Len(L)
    BY <1>1, <2>1, <2>2 DEF Shape
  <2>4. CASE r.pc = "metadata" /\ r2.pc = "observations" /\ r2.i = r.i /\ r2.counted = r.counted
    BY <1>1, <1>2, <1>8, <2>1, <2>2, <2>3, <2>4 DEF Shape, Statement, Kept
  <2>5. CASE r2.counted = r.counted \cup r.want /\ Due(t, r.i) /\ r2.pc = "commit" /\ r2.i = r.i
    <3>1. t = "universe" => ~(r2.i = 1)
      BY <2>5 DEF Due
    <3> QED
      BY <1>1, <1>2, <1>8, <2>1, <2>2, <2>3, <2>5, <3>1 DEF Shape, Statement, Kept
  <2>6. CASE r2.counted = r.counted \cup r.want /\ Advances(r, r2)
    <3>1. r2.pc = "item" /\ r2.i = r.i + 1
      BY <2>6 DEF Advances
    <3> QED
      BY <1>1, <1>2, <1>8, <2>1, <2>2, <2>3, <2>6, <3>1 DEF Shape, Statement, Kept
  <2> QED
    BY <1>8, <2>4, <2>5, <2>6 DEF Writes
<1>9. CASE Stumbles(r, t, r2, p2, a2)
  <2>1. /\ Kept(r, r2) /\ t2 = t /\ L2 = L /\ r2.erred /\ r.pc \in Busy /\ p2 = {} /\ a2 = TRUE
        /\ t \in {"ohlcv", "news"} /\ r2.pc = "item" /\ r2.i = r.i + 1 /\ r2.counted = r.counted
    BY <1>9 DEF Stumbles, Advances
  <2> QED
    BY <1>1, <1>2, <2>1 DEF Shape, Statement, Kept
<1>10. CASE Dies(r, r2, p2, a2)
  BY <1>1, <1>10 DEF Dies, Shape, Statement, Kept
<1>11. CASE Escapes(r, r2, p2, a2)
  <2>1. /\ Kept(r, r2) /\ t2 = t /\ L2 = L /\ r.pc \in Busy /\ p2 = {} /\ a2 = FALSE
        /\ r2.pc \in {"retry", "failed"} /\ (r2.pc = "retry" => r2.left >= 1)
    BY <1>11 DEF Escapes
  <2> QED
    BY <1>1, <1>2, <2>1 DEF Shape, Statement, Kept
<1>12. CASE LosesCommit(r, t, L, r2, p2, a2)
  <2>1. /\ Kept(r, r2) /\ t2 = t /\ L2 = L /\ r.pc \in Busy /\ p2 = {} /\ a2 = FALSE /\ t = "ohlcv"
        /\ r2.pc = "item" /\ r2.counted \subseteq r.counted
    BY <1>12 DEF LosesCommit, Advances
  <2> QED
    BY <1>1, <1>2, <2>1 DEF Shape, Statement, Kept
<1>13. CASE Commits(r, p, a, C, r2, p2, a2, C2)
  <2>1. /\ Kept(r, r2) /\ t2 = t /\ L2 = L /\ r.pc = "commit" /\ p2 = {} /\ a2 = FALSE
        /\ r2.pc = "item" /\ r2.counted = r.counted /\ r2.erred = r.erred
    BY <1>13 DEF Commits, Advances
  <2>2. t # "news"
    BY <1>1, <2>1 DEF Shape, Due
  <2> QED
    BY <1>1, <1>2, <2>1, <2>2 DEF Shape, Statement, Kept
<1>14. CASE Ends(r, t, L, p, a, C, r2, p2, a2, C2)
  <2>1. /\ r2 \in JobRow /\ r2.pc \in {"ended", "next"} /\ r2.list = r.list /\ r2.todo = Tail(r.todo)
        /\ p2 = {} /\ a2 = FALSE /\ r.pc = "item" /\ (r2.pc = "next" => Len(r.todo) # 1)
    BY <1>14 DEF Ends
  <2>2. r.todo # <<>> /\ r.todo[Len(r.todo)] \in TaskNames /\ r.todo \in Seq(Universes \cup TaskNames)
    BY <1>1, <1>2, <2>1 DEF Shape, JobRow
  <2>3. /\ r2.pc = "next" => r2.todo # <<>>
        /\ r2.todo # <<>> => r2.todo[Len(r2.todo)] \in TaskNames
    BY <2>1, <2>2, LastTask
  <2> QED
    BY <1>1, <2>1, <2>3 DEF Shape, Statement
<1>15. CASE Takes(r, t, p, a, r2, p2) /\ a2 = a
  <2>1. r2 = r /\ r.pc = "write" /\ ~a /\ p2 \subseteq p \cup r.want
    BY <1>15 DEF Takes
  <2>2. t2 = t /\ L2 = L
    BY <1>1, <2>1 DEF Kept
  <2>3. r.want \subseteq KeysOf(t) /\ r.want \subseteq Keys /\ p \subseteq KeysOf(t)
    BY <1>1, <2>1, WantedAreKeys DEF Shape
  <2>4. p2 \subseteq Keys /\ p2 \subseteq KeysOf(t)
    BY <1>1, <2>1, <2>3
  <2>5. Statement(r, t, L)
    BY DEF RowOK
  <2> QED
    BY <1>1, <1>15, <2>1, <2>2, <2>4, <2>5 DEF Shape
<1> QED
  BY <1>3, <1>4, <1>5, <1>6, <1>7, <1>8, <1>9, <1>10, <1>11, <1>12, <1>13, <1>14, <1>15, Zenon DEF Moves

(* The rows of two items are different rows. *)
LEMMA RowsOfTask ==
  ASSUME NEW x
  PROVE  /\ RowsOf("ohlcv", x) = {Bar(x)} /\ RowsOf("actions", x) = {CorporateAction(x)}
         /\ RowsOf("macro", x) = {MacroSeries(x), MacroObservation(x)}
         /\ RowsOf("news", x) = {} /\ RowsOf("universe", x) = {}
BY DEF RowsOf

LEMMA RowsDiffer ==
  ASSUME NEW x, NEW y, x # y
  PROVE  /\ Bar(x) # Bar(y) /\ CorporateAction(x) # CorporateAction(y)
         /\ MacroSeries(x) # MacroSeries(y) /\ MacroObservation(x) # MacroObservation(y)
         /\ MacroSeries(x) # MacroObservation(y) /\ MacroObservation(x) # MacroSeries(y)
BY DEF Bar, CorporateAction, MacroSeries, MacroObservation

LEMMA OtherRows ==
  ASSUME NEW r, NEW t, NEW L, NEW p, NEW a, RowOK(r, t, L, p, a), r.pc = "write",
         NEW q \in 1 .. Len(L), q # r.i
  PROVE  RowsOf(t, L[q]) \cap r.want = {}
<1>1. t \in TaskNames /\ r.i \in 1 .. Len(L) /\ Statement(r, t, L) /\ Listed(t, L)
  BY DEF RowOK, Shape, Busy, Listed, JobRow
<1>2. t # "universe" => L[q] # L[r.i]
  BY <1>1 DEF Listed, Distinct
<1>3. CASE t = "ohlcv"
  BY <1>1, <1>2, <1>3, RowsOfTask, RowsDiffer DEF Statement
<1>4. CASE t = "actions"
  BY <1>1, <1>2, <1>4, RowsOfTask, RowsDiffer DEF Statement
<1>5. CASE t = "macro"
  <2>1. r.want = {MacroObservation(L[r.i])}
    BY <1>1, <1>5 DEF Statement
  <2>2. MacroSeries(L[q]) # MacroObservation(L[r.i]) /\ MacroObservation(L[q]) # MacroObservation(L[r.i])
    BY <1>2, <1>5, RowsDiffer
  <2> QED
    BY <1>5, <2>1, <2>2, RowsOfTask
<1>6. CASE t \in {"news", "universe"}
  BY <1>6, RowsOfTask
<1> QED
  BY <1>1, <1>3, <1>4, <1>5, <1>6 DEF TaskNames

LEMMA AllCommitted ==
  ASSUME NEW r, NEW t, NEW L, NEW C, r.counted \subseteq C
  PROVE  Batches(r, t, L, C)
BY DEF Batches

LEMMA BatchesGrow ==
  ASSUME NEW r, NEW r2, NEW t, NEW L, NEW C, NEW C2, Batches(r, t, L, C), C \subseteq C2,
         r2.i = r.i, r2.counted = r.counted
  PROVE  Batches(r2, t, L, C2)
BY DEF Batches

LEMMA DurableKept ==
  ASSUME NEW r, NEW t, NEW L, NEW p, NEW a, RowOK(r, t, L, p, a),
         NEW C, NEW A2, NEW day, NEW Q, NEW r2, NEW p2, NEW a2, NEW C2, NEW t2, NEW L2,
         Durable(r, t, L, p, C),
         Moves(r, t, L, p, a, C, A2, day, Q, r2, p2, a2, C2),
         Kept(r, r2) => t2 = t /\ L2 = L
  PROVE  Durable(r2, t2, L2, p2, C2)
<1> USE DEF Busy, Quiet
<1>1. /\ r \in JobRow /\ p \subseteq Keys /\ a \in BOOLEAN /\ r.i \in Nat \ {0} /\ r.erred \in BOOLEAN
      /\ Shape(r, t, L, p, a) /\ Statement(r, t, L)
  BY DEF RowOK, Shape, JobRow
<1>2. r.pc \in Busy => t \in TaskNames /\ r.todo # <<>> /\ Len(L) \in Nat
  BY <1>1 DEF Shape, RowOK, Listed
<1>3. CASE Begins(r, t, r2)
  <2>1. r2.counted = {} /\ r2.pc = "item"
    BY <1>3 DEF Begins
  <2> QED
    BY <2>1, AllCommitted DEF Durable
<1>4. CASE Passes(r, t, L, Q, r2) /\ p2 = p /\ C2 = C
  <2>1. /\ Kept(r, r2) /\ t2 = t /\ L2 = L /\ r2.pc = "item" /\ r2.i = r.i + 1 /\ r2.counted = r.counted
        /\ r2.erred = r.erred /\ r.pc \in Busy \ {"commit"} /\ t # "universe" /\ r.i <= Len(L) /\ r2.todo = r.todo
    BY <1>4 DEF Passes, Advances, Kept
  <2>2. RowsOf(t, L[r.i]) \cap r.counted = {}
    BY <1>1, <1>2, <2>1 DEF Durable
  <2>3. ~r.erred => Batches(r2, t, L, C)
    <3>1. SUFFICES ASSUME ~r.erred, NEW m \in 1 .. Len(L), m < r.i + 1, m % BatchOf(t) = 0,
                          RowsOf(t, L[m]) \cap r.counted # {}
                   PROVE  \A q \in 1 .. m : RowsOf(t, L[q]) \cap r.counted \subseteq C
      BY <2>1 DEF Batches
    <3>2. m # r.i
      BY <2>2, <3>1
    <3>3. m < r.i
      BY <1>1, <3>1, <3>2
    <3> QED
      BY <1>2, <2>1, <3>1, <3>3 DEF Durable, Batches
  <2>4. ASSUME NEW q \in 1 .. Len(L), q > r2.i \/ q = r2.i
        PROVE  q > r.i
    BY <1>1, <2>1, <2>4
  <2> QED
    BY <1>1, <1>2, <1>4, <2>1, <2>3, <2>4 DEF Durable
<1>5. CASE Asks(r, t, L, Q, r2) /\ p2 = p /\ C2 = C
  <2>1. /\ Kept(r, r2) /\ t2 = t /\ L2 = L /\ r2.i = r.i /\ r2.counted = r.counted
        /\ r2.erred = r.erred /\ r.pc \in Busy \ {"commit"} /\ t # "universe" /\ r2.pc \in Busy /\ r2.todo = r.todo
    BY <1>5 DEF Asks, Kept
  <2>2. ~r.erred => Batches(r2, t, L, C)
    BY <1>2, <2>1, BatchesGrow DEF Durable
  <2> QED
    BY <1>1, <1>2, <1>5, <2>1, <2>2 DEF Durable
<1>6. CASE AsksForUniverse(r, t, L, A2, day, r2) /\ p2 = p /\ C2 = C
  <2>1. /\ Kept(r, r2) /\ t2 = t /\ L2 = L /\ r2.i = r.i /\ r2.counted = r.counted /\ r2.todo = r.todo
        /\ r2.erred = r.erred /\ r.pc = "item" /\ t = "universe" /\ r2.pc = "write"
    BY <1>6 DEF AsksForUniverse, Kept
  <2>2. ~r.erred => Batches(r2, t, L, C)
    BY <1>2, <2>1, BatchesGrow DEF Durable
  <2> QED
    BY <1>1, <1>2, <1>6, <2>1, <2>2 DEF Durable
<1>7. CASE Reads(r, t, r2) /\ C2 = C
  <2>1. /\ r2.pc = "next" /\ r.pc = "next" /\ r2.counted = r.counted /\ r2.erred = r.erred
    BY <1>7 DEF Reads
  <2> QED
    BY <1>7, <2>1, AllCommitted DEF Durable
<1>8. CASE Writes(r, t, p, a, C, r2, p2) /\ C2 = C
  <2>1. /\ Kept(r, r2) /\ t2 = t /\ L2 = L /\ r2.erred = r.erred /\ r.pc \in {"write", "metadata"} /\ ~a
        /\ p \subseteq p2 /\ r.want \subseteq C \cup p2 /\ r2.todo = r.todo /\ r.i <= Len(L) /\ t \in TaskNames
        /\ r.pc = "metadata" => t = "macro"
    BY <1>1, <1>2, <1>8 DEF Writes, Advances, Kept, Shape
  <2>4. CASE r.pc = "metadata" /\ r2.pc = "observations" /\ r2.i = r.i /\ r2.counted = r.counted
    <3>1. ~r.erred => Batches(r2, t, L, C)
      BY <1>2, <2>1, <2>4, BatchesGrow DEF Durable
    <3> QED
      BY <1>1, <1>2, <1>8, <2>1, <2>4, <3>1 DEF Durable
  <2>5. ASSUME r.pc = "write", r2.counted = r.counted \cup r.want
        PROVE  /\ ~r.erred => r2.counted \subseteq C \cup p2
               /\ \A q \in 1 .. Len(L) : q # r.i => RowsOf(t, L[q]) \cap r2.counted = RowsOf(t, L[q]) \cap r.counted
    <3>1. \A q \in 1 .. Len(L) : q # r.i => RowsOf(t, L[q]) \cap r.want = {}
      BY <2>5, OtherRows
    <3>2. ~r.erred => r.counted \subseteq C \cup p
      BY <2>5 DEF Durable
    <3> QED
      BY <2>1, <2>5, <3>1, <3>2
  <2>6. CASE r.pc = "write" /\ r2.counted = r.counted \cup r.want /\ Due(t, r.i) /\ r2.pc = "commit" /\ r2.i = r.i
    <3>1. ~r.erred => Batches(r2, t, L, C)
      <4>1. SUFFICES ASSUME ~r.erred, NEW m \in 1 .. Len(L), m < r.i, m % BatchOf(t) = 0,
                            RowsOf(t, L[m]) \cap r2.counted # {}, NEW q \in 1 .. m
                     PROVE  RowsOf(t, L[q]) \cap r2.counted \subseteq C
        BY <2>6 DEF Batches
      <4>2. m # r.i /\ q # r.i /\ q \in 1 .. Len(L)
        BY <1>1, <1>2, <2>1, <4>1
      <4>3. RowsOf(t, L[m]) \cap r.counted # {} /\ RowsOf(t, L[q]) \cap r2.counted = RowsOf(t, L[q]) \cap r.counted
        BY <2>5, <2>6, <4>1, <4>2
      <4>4. Batches(r, t, L, C)
        BY <1>2, <2>6, <4>1 DEF Durable
      <4> QED
        BY <4>1, <4>3, <4>4 DEF Batches
    <3>2. ASSUME NEW q \in 1 .. Len(L), q > r.i
          PROVE  RowsOf(t, L[q]) \cap r2.counted = {}
      <4>1. q # r.i
        BY <1>1, <3>2
      <4> QED
        BY <2>5, <2>6, <3>2, <4>1 DEF Durable
    <3> QED
      BY <1>8, <2>1, <2>5, <2>6, <3>1, <3>2 DEF Durable
  <2>7. CASE r.pc = "write" /\ r2.counted = r.counted \cup r.want /\ ~Due(t, r.i) /\ Advances(r, r2)
    <3>1. r2.pc = "item" /\ r2.i = r.i + 1
      BY <2>7 DEF Advances
    <3>2. t # "macro" /\ (t = "universe" => ~(r2.i > 3))
      <4>1. t # "macro"
        BY <1>1, <2>7 DEF Due, BatchOf
      <4>2. t = "universe" => ~(r.i >= 3)
        BY <2>7 DEF Due
      <4> QED
        BY <1>1, <3>1, <4>1, <4>2
    <3>3. ~r.erred => Batches(r2, t, L, C)
      <4>1. SUFFICES ASSUME ~r.erred, NEW m \in 1 .. Len(L), m < r.i + 1, m % BatchOf(t) = 0,
                            RowsOf(t, L[m]) \cap r2.counted # {}, NEW q \in 1 .. m
                     PROVE  RowsOf(t, L[q]) \cap r2.counted \subseteq C
        BY <3>1 DEF Batches
      <4>2. t \notin {"news", "universe"}
        BY <4>1, RowsOfTask
      <4>3. m # r.i
        BY <2>1, <2>7, <4>1, <4>2 DEF Due, TaskNames
      <4>4. m < r.i /\ q # r.i /\ q \in 1 .. Len(L)
        BY <1>1, <1>2, <2>1, <4>1, <4>3
      <4>5. RowsOf(t, L[m]) \cap r.counted # {} /\ RowsOf(t, L[q]) \cap r2.counted = RowsOf(t, L[q]) \cap r.counted
        BY <2>5, <2>7, <4>1, <4>3, <4>4
      <4>6. Batches(r, t, L, C)
        BY <1>2, <2>7, <4>1 DEF Durable
      <4> QED
        BY <4>1, <4>4, <4>5, <4>6 DEF Batches
    <3>4. ASSUME NEW q \in 1 .. Len(L), q > r2.i \/ q = r2.i
          PROVE  RowsOf(t, L[q]) \cap r2.counted = {}
      <4>1. q # r.i /\ q > r.i
        BY <1>1, <3>1, <3>4
      <4> QED
        BY <2>5, <2>7, <3>4, <4>1 DEF Durable
    <3> QED
      BY <1>8, <2>1, <2>5, <2>7, <3>1, <3>2, <3>3, <3>4 DEF Durable
  <2> QED
    BY <1>8, <2>4, <2>6, <2>7 DEF Writes
<1>9. CASE Stumbles(r, t, r2, p2, a2) /\ C2 = C
  <2>1. /\ Kept(r, r2) /\ t2 = t /\ L2 = L /\ r2.erred /\ r.pc \in Busy
        /\ t \in {"ohlcv", "news"} /\ r2.pc = "item" /\ r2.i = r.i + 1 /\ r2.counted = r.counted
    BY <1>9 DEF Stumbles, Advances
  <2>4. ASSUME NEW q \in 1 .. Len(L), q > r2.i \/ q = r2.i
        PROVE  q > r.i
    BY <1>1, <2>1, <2>4
  <2> QED
    BY <2>1, <2>4 DEF Durable
<1>10. CASE Dies(r, r2, p2, a2) /\ C2 = C
  <2>1. /\ Kept(r, r2) /\ t2 = t /\ L2 = L /\ r2.pc = "killed" /\ r2.i = r.i /\ r2.counted = r.counted
        /\ r2.erred = r.erred /\ r2.todo = r.todo
    BY <1>10 DEF Dies, Kept
  <2> QED
    BY <1>10, <2>1, BatchesGrow DEF Durable
<1>11. CASE Escapes(r, r2, p2, a2) /\ C \subseteq C2
  <2>1. /\ Kept(r, r2) /\ t2 = t /\ L2 = L /\ r2.pc \in {"retry", "failed"} /\ r2.i = r.i /\ r2.counted = r.counted
        /\ r2.erred = r.erred /\ r2.todo = r.todo
    BY <1>11 DEF Escapes, Kept
  <2> QED
    BY <1>11, <2>1, BatchesGrow DEF Durable
<1>12. CASE LosesCommit(r, t, L, r2, p2, a2)
  <2>1. /\ Kept(r, r2) /\ t2 = t /\ L2 = L /\ r.pc = "commit" /\ t = "ohlcv" /\ r2.erred
        /\ r2.pc = "item" /\ r2.counted \subseteq r.counted /\ r2.i = r.i + 1
    BY <1>12 DEF LosesCommit, Advances
  <2>4. ASSUME NEW q \in 1 .. Len(L), q > r2.i \/ q = r2.i
        PROVE  q > r.i
    BY <1>1, <2>1, <2>4
  <2> QED
    BY <2>1, <2>4 DEF Durable
<1>13. CASE Commits(r, p, a, C, r2, p2, a2, C2)
  <2>1. /\ Kept(r, r2) /\ t2 = t /\ L2 = L /\ r.pc = "commit" /\ C2 = C \cup (IF a THEN {} ELSE p)
        /\ r2.pc = "item" /\ r2.counted = r.counted /\ r2.erred = r.erred /\ r2.i = r.i + 1
    BY <1>13 DEF Commits, Advances
  <2>2. ~r.erred => r2.counted \subseteq C2
    BY <1>1, <2>1 DEF Shape, Durable
  <2>3. t \in {"macro", "universe"} => ~r.erred
    BY <1>1, <2>1 DEF Shape
  <2>4. ASSUME NEW q \in 1 .. Len(L), q > r2.i \/ q = r2.i
        PROVE  q > r.i
    BY <1>1, <2>1, <2>4
  <2> QED
    BY <2>1, <2>2, <2>3, <2>4, AllCommitted DEF Durable
<1>14. CASE Ends(r, t, L, p, a, C, r2, p2, a2, C2)
  <2>1. /\ r2.pc \in {"ended", "next"} /\ r.pc = "item" /\ r2.counted = r.counted /\ r2.erred = r.erred
        /\ C2 = (IF CommitsAtEnd(t) /\ ~a THEN C \cup p ELSE C) /\ r.i > Len(L)
    BY <1>14 DEF Ends
  <2>2. ~r.erred => ~a
    BY <1>1 DEF Shape
  <2>3. ~r.erred => r.counted \subseteq C2
    <3>1. CASE CommitsAtEnd(t)
      BY <2>1, <2>2, <3>1 DEF Durable
    <3>2. CASE t = "macro"
      BY <2>1, <3>2 DEF Durable
    <3>3. CASE t = "universe"
      <4>1. Len(L) \in {3, 4}
        BY <3>3 DEF RowOK, Listed, TaskNames
      <4>2. r.i > 3
        <5> DEFINE n == Len(L)
                   i == r.i
        <5>1. n \in {3, 4} /\ i > n /\ i \in Nat
          BY <1>1, <2>1, <4>1
        <5> HIDE DEF n, i
        <5>2. i > 3
          BY <5>1
        <5> QED
          BY <5>2 DEF i
      <4> QED
        BY <2>1, <3>3, <4>2 DEF Durable
    <3> QED
      BY <1>2, <2>1, <3>1, <3>2, <3>3 DEF CommitsAtEnd, TaskNames
  <2> QED
    BY <2>1, <2>3, AllCommitted DEF Durable
<1>15. CASE Takes(r, t, p, a, r2, p2) /\ C2 = C
  <2>1. r2 = r /\ p \subseteq p2
    BY <1>15 DEF Takes
  <2>2. t2 = t /\ L2 = L
    BY <1>1, <2>1 DEF Kept
  <2> QED
    BY <1>15, <2>1, <2>2 DEF Durable
<1> QED
  BY <1>3, <1>4, <1>5, <1>6, <1>7, <1>8, <1>9, <1>10, <1>11, <1>12, <1>13, <1>14, <1>15 DEF Moves

(* A symbol that is served is not passed over.                             *)
LEMMA ServesKept ==
  ASSUME NEW r, NEW t, NEW L, NEW p, NEW a, RowOK(r, t, L, p, a), t = "ohlcv" => L = r.list,
         NEW C, NEW A2, NEW day, NEW Q, NEW r2, NEW p2, NEW a2, NEW C2, NEW t2, NEW L2,
         Serves(r, t, Q),
         Moves(r, t, L, p, a, C, A2, day, Q, r2, p2, a2, C2),
         Kept(r, r2) => t2 = t /\ L2 = L
  PROVE  Serves(r2, t2, Q)
<1> USE DEF Busy, Quiet
<1>1. SUFFICES ASSUME r2.pc \in Busy, t2 = "ohlcv", ~r2.erred
               PROVE  \A q \in 1 .. Len(r2.list) : Past(r2, q) /\ ServedBy(Q[r2.list[q]]) => Bar(r2.list[q]) \in r2.counted
  BY DEF Serves
<1>2. /\ Kept(r, r2) /\ r2.list = r.list /\ t = "ohlcv" /\ L = r.list /\ r.i \in Nat \ {0} /\ r \in JobRow
      /\ Len(r.list) \in Nat
  <2>2. r \in JobRow
    BY DEF RowOK, Shape
  <2>1. Kept(r, r2)
    BY <1>1, <2>2 DEF Moves, Begins, Passes, Asks, AsksForUniverse, Writes, Takes, Stumbles, Escapes, Commits, LosesCommit,
                Ends, Dies, Reads, Advances, Kept
  <2> QED
    BY <1>1, <2>1, <2>2 DEF Kept, JobRow
<1>3. r.pc \in Busy /\ ~r.erred => \A q \in 1 .. Len(r.list) :
        Past(r, q) /\ ServedBy(Q[r.list[q]]) => Bar(r.list[q]) \in r.counted
  BY <1>2 DEF Serves
<1>4. CASE Begins(r, t, r2)
  <2>1. r2.i = 1 /\ r2.pc = "item"
    BY <1>4 DEF Begins
  <2>2. \A q \in 1 .. Len(r.list) : ~Past(r2, q)
    BY <1>2, <2>1 DEF Past
  <2> QED
    BY <1>2, <2>2
<1>5. CASE Passes(r, t, L, Q, r2)
  <2>1. r2.i = r.i + 1 /\ r2.pc = "item" /\ r.pc \in Busy /\ ~r.erred /\ r2.counted = r.counted /\ ~ServedBy(Q[r.list[r.i]])
    BY <1>1, <1>2, <1>5 DEF Passes, Advances
  <2>2. \A q \in 1 .. Len(r.list) : Past(r2, q) => q = r.i \/ Past(r, q)
    BY <1>2, <2>1 DEF Past
  <2> QED
    BY <1>2, <1>3, <2>1, <2>2
<1>6. CASE Asks(r, t, L, Q, r2)
  <2>1. r2.i = r.i /\ r.pc \in Busy /\ ~r.erred /\ r2.counted = r.counted
        /\ (r2.pc = "commit" => ~ServedBy(Q[r.list[r.i]]))
    BY <1>1, <1>2, <1>6 DEF Asks
  <2>2. \A q \in 1 .. Len(r.list) : Past(r2, q) => (q = r.i /\ r2.pc = "commit") \/ Past(r, q)
    BY <1>2, <2>1 DEF Past
  <2> QED
    BY <1>2, <1>3, <2>1, <2>2
<1>7. CASE Writes(r, t, p, a, C, r2, p2)
  <2>1. /\ r.pc \in Busy /\ ~r.erred /\ r.pc = "write" /\ r2.counted = r.counted \cup r.want
        /\ \/ r2.pc = "commit" /\ r2.i = r.i
           \/ r2.pc = "item" /\ r2.i = r.i + 1
    <3>1. r.pc # "metadata"
      BY <1>2 DEF RowOK, Shape
    <3> QED
      BY <1>1, <1>7, <3>1 DEF Writes, Advances
  <2>2. Bar(r.list[r.i]) \in r.want
    BY <1>2, <2>1 DEF RowOK, Statement
  <2>3. \A q \in 1 .. Len(r.list) : Past(r2, q) => q = r.i \/ Past(r, q)
    BY <1>2, <2>1 DEF Past
  <2> QED
    BY <1>2, <1>3, <2>1, <2>2, <2>3
<1>8. CASE Commits(r, p, a, C, r2, p2, a2, C2)
  <2>1. r.pc = "commit" /\ ~r.erred /\ r2.counted = r.counted /\ r2.pc = "item" /\ r2.i = r.i + 1
    BY <1>1, <1>8 DEF Commits, Advances
  <2>2. \A q \in 1 .. Len(r.list) : Past(r2, q) => Past(r, q)
    BY <1>2, <2>1 DEF Past
  <2> QED
    BY <1>2, <1>3, <2>1, <2>2
<1> QED
  BY <1>1, <1>2, <1>4, <1>5, <1>6, <1>7, <1>8
     DEF Moves, AsksForUniverse, Takes, Stumbles, Escapes, LosesCommit, Ends, Dies, Reads

(* Whose rows are pending.                                                 *)
LEMMA HoldsKept ==
  ASSUME NEW r, NEW t, NEW L, NEW p, NEW a, RowOK(r, t, L, p, a), Holds(r, t, L, p),
         NEW C, NEW A2, NEW day, NEW Q, NEW r2, NEW p2, NEW a2, NEW C2, NEW t2, NEW L2,
         Moves(r, t, L, p, a, C, A2, day, Q, r2, p2, a2, C2),
         Kept(r, r2) => t2 = t /\ L2 = L
  PROVE  Holds(r2, t2, L2, p2)
<1> USE DEF Busy, Quiet
<1>1. SUFFICES ASSUME r2.pc \in Busy, p2 # {}
               PROVE  Holds(r2, t2, L2, p2)
  BY DEF Holds
<1>2. /\ r \in JobRow /\ r.i \in Nat \ {0} /\ Shape(r, t, L, p, a) /\ Statement(r, t, L)
      /\ r.pc \in Busy => t \in TaskNames /\ Len(L) \in Nat
  BY DEF RowOK, Shape, JobRow, Listed
<1>3. CASE p2 = p /\ Passes(r, t, L, Q, r2)
  <2>1. Kept(r, r2) /\ t2 = t /\ L2 = L /\ r2.i = r.i + 1 /\ r2.pc = "item" /\ r.pc \in Busy \ {"commit"} /\ t # "universe"
    BY <1>3 DEF Passes, Advances
  <2>2. \A q \in 1 .. Len(L) : Past(r, q) => Past(r2, q)
    BY <1>2, <2>1 DEF Past
  <2>3. \A q \in 1 .. Len(L) : q <= r.i => q < r2.i
    BY <1>2, <2>1
  <2>4. \A q \in 1 .. Len(L) : q < r.i => q < r2.i
    BY <1>2, <2>1
  <2> QED
    BY <1>2, <1>3, <2>1, <2>2, <2>3, <2>4 DEF Holds
<1>4. CASE p2 = p /\ Asks(r, t, L, Q, r2)
  <2>1. /\ Kept(r, r2) /\ t2 = t /\ L2 = L /\ r2.i = r.i /\ r.pc \in {"item", "observations"} /\ t # "universe"
        /\ r2.pc \in {"metadata", "observations"} => t = "macro" /\ r.pc = "item"
        /\ r2.pc \in {"metadata", "observations", "write", "commit"}
    BY <1>4 DEF Asks
  <2>2. \A q \in 1 .. Len(L) : Past(r, q) => Past(r2, q)
    BY <1>2, <2>1 DEF Past
  <2>3. t = "macro" => r.pc = "item" \/ r2.pc \in {"write", "commit"}
    BY <2>1
  <2> QED
    BY <1>2, <1>4, <2>1, <2>2, <2>3 DEF Holds
<1>5. CASE p2 = p /\ AsksForUniverse(r, t, L, A2, day, r2)
  <2>1. Kept(r, r2) /\ t2 = t /\ L2 = L /\ r2.i = r.i /\ r.pc = "item" /\ r2.pc = "write" /\ t = "universe"
    BY <1>5 DEF AsksForUniverse
  <2> QED
    BY <1>2, <1>5, <2>1 DEF Holds
<1>6. CASE Writes(r, t, p, a, C, r2, p2)
  <2>1. /\ Kept(r, r2) /\ t2 = t /\ L2 = L /\ r.pc \in {"write", "metadata"} /\ r.pc \in Busy
        /\ p2 \subseteq p \cup r.want /\ t \in TaskNames /\ r.i \in 1 .. Len(L)
    BY <1>2, <1>6 DEF Writes, Advances, Shape
  <2>2. \/ r.pc = "metadata" /\ r2.pc = "observations" /\ r2.i = r.i
        \/ r.pc = "write" /\ r2.pc = "commit" /\ r2.i = r.i /\ Due(t, r.i)
        \/ r.pc = "write" /\ r2.pc = "item" /\ r2.i = r.i + 1 /\ ~Due(t, r.i)
    BY <1>6 DEF Writes, Advances
  <2>3. \A q \in 1 .. Len(L) : Past(r, q) => Past(r2, q)
    BY <1>2, <2>1, <2>2 DEF Past
  <2>4. r.pc = "write" => Past(r2, r.i)
    BY <1>2, <2>2 DEF Past
  <2>5. CASE t = "ohlcv"
    <3>1. r.pc = "write" /\ r.want = {Bar(L[r.i])}
      BY <1>2, <2>1, <2>5 DEF Shape, Statement
    <3> QED
      BY <2>1, <2>3, <2>4, <2>5, <3>1 DEF Holds
  <2>6. CASE t = "actions"
    <3>1. r.pc = "write" /\ r.want = {CorporateAction(L[r.i])}
      BY <1>2, <2>1, <2>6 DEF Shape, Statement
    <3> QED
      BY <2>1, <2>3, <2>4, <2>6, <3>1 DEF Holds
  <2>7. CASE t = "macro"
    <3>1. CASE r.pc = "metadata"
      <4>1. r.want = {MacroSeries(L[r.i])} /\ r2.pc = "observations" /\ r2.i = r.i
        BY <1>2, <2>2, <3>1 DEF Statement
      <4> QED
        BY <2>1, <2>7, <3>1, <4>1 DEF Holds
    <3>2. CASE r.pc = "write"
      <4>1. r.want = {MacroObservation(L[r.i])}
        BY <1>2, <2>7, <3>2 DEF Statement
      <4>2. r2.pc = "commit" /\ r2.i = r.i
        BY <1>2, <2>2, <2>7, <3>2 DEF Due, BatchOf
      <4> QED
        BY <2>1, <2>7, <3>2, <4>1, <4>2 DEF Holds
    <3> QED
      BY <2>1, <3>1, <3>2
  <2> QED
    BY <2>1, <2>5, <2>6, <2>7 DEF Holds
<1>7. CASE Begins(r, t, r2) /\ p2 = p
  BY <1>1, <1>2, <1>7 DEF Begins, Shape
<1>8. CASE Takes(r, t, p, a, r2, p2)
  <2>1. r2 = r /\ t \notin {"ohlcv", "actions", "macro"}
    BY <1>8 DEF Takes
  <2>2. t2 = t
    BY <1>2, <2>1 DEF Kept
  <2> QED
    BY <2>1, <2>2 DEF Holds
<1> QED
  BY <1>1, <1>3, <1>4, <1>5, <1>6, <1>7, <1>8
     DEF Moves, Commits, Stumbles, Escapes, LosesCommit, Ends, Dies, Reads

(* What a move adds to the database was pending. *)
LEMMA MovesGrow ==
  ASSUME NEW r, NEW t, NEW L, NEW p, NEW a, RowOK(r, t, L, p, a),
         NEW C, NEW A2, NEW day, NEW Q, NEW r2, NEW p2, NEW a2, NEW C2,
         Moves(r, t, L, p, a, C, A2, day, Q, r2, p2, a2, C2)
  PROVE  /\ C \subseteq C2 /\ C2 \subseteq C \cup p
         /\ C2 # C => /\ r.pc \in Busy /\ ~a /\ C2 = C \cup p
                      /\ r.pc = "commit" \/ t # "universe"
<1>1. a \in BOOLEAN
  BY DEF RowOK, Shape
<1>2. C2 = C \/ (~a /\ C2 = C \cup p)
  BY <1>1 DEF Moves, Commits, Ends
<1>3. C2 # C => r.pc \in Busy /\ (r.pc = "commit" \/ t # "universe")
  BY DEF Moves, Commits, Ends, Escapes, LosesCommit, CommitsAtEnd, Busy
<1> QED
  BY <1>2, <1>3

LEMMA DurableOther ==
  ASSUME NEW r, NEW t, NEW L, NEW p, NEW C, NEW C2, Durable(r, t, L, p, C), C \subseteq C2
  PROVE  Durable(r, t, L, p, C2)
<1>1. Batches(r, t, L, C) => Batches(r, t, L, C2)
  BY BatchesGrow
<1> QED
  BY <1>1 DEF Durable

LEMMA RefreshingOther ==
  ASSUME NEW r, NEW t, NEW p, NEW C, NEW A, NEW day, NEW C2, NEW A2,
         Refreshing(r, t, p, C, A, day), C \subseteq C2, A \subseteq A2
  PROVE  Refreshing(r, t, p, C2, A2, day)
BY DEF Refreshing

LEMMA RefreshingKept ==
  ASSUME NEW r, NEW t, NEW L, NEW p, NEW a, RowOK(r, t, L, p, a),
         NEW C, NEW A, NEW A2, A \subseteq A2, NEW day, Refreshing(r, t, p, C, A, day),
         NEW Q, NEW r2, NEW p2, NEW a2, NEW C2, NEW t2, NEW L2,
         Moves(r, t, L, p, a, C, A2, day, Q, r2, p2, a2, C2),
         Kept(r, r2) => t2 = t /\ L2 = L
  PROVE  Refreshing(r2, t2, p2, C2, A2, day)
<1> USE DEF Busy, Quiet
<1>1. SUFFICES ASSUME r2.pc \in Busy, t2 = "universe", ~(r2.pc = "item" /\ r2.i = 1)
               PROVE  Refreshing(r2, t2, p2, C2, A2, day)
  BY DEF Refreshing
<1>2. /\ r.i \in Nat \ {0} /\ Shape(r, t, L, p, a)
  BY DEF RowOK, Shape, JobRow
<1>3. CASE AsksForUniverse(r, t, L, A2, day, r2) /\ p2 = p /\ C2 = C
  <2>1. /\ t = "universe" /\ r.pc = "item" /\ r2.pc = "write" /\ r2.i = r.i
    BY <1>3 DEF AsksForUniverse
  <2>2. CASE r.i = 1
    <3>1. p = {}
      BY <1>2, <2>1, <2>2 DEF Shape
    <3>2. /\ \E f \in A2 : f.day = day /\ f.SP500 = r2.sp /\ f.NDX100 = r2.ndx
          /\ LongEnough(r2.sp, r2.ndx) /\ r2.want = Tickers(r2)
      BY <1>3, <2>2 DEF AsksForUniverse
    <3> QED
      BY <1>3, <2>1, <2>2, <3>1, <3>2 DEF Refreshing
  <2>3. CASE r.i # 1
    <3>1. r2.sp = r.sp /\ r2.ndx = r.ndx
      BY <1>3, <2>3 DEF AsksForUniverse
    <3>2. Tickers(r2) = Tickers(r) /\ MembersSP(r2, day) = MembersSP(r, day) /\ MembersNDX(r2, day) = MembersNDX(r, day)
      BY <3>1 DEF Tickers, MembersSP, MembersNDX
    <3>3. /\ r.i = 2 => r2.want = MembersSP(r, day)
          /\ r.i = 3 => r2.want = MembersNDX(r, day)
          /\ r.i >= 4 => r2.want \subseteq Tickers(r)
      BY <1>3 DEF AsksForUniverse
    <3> QED
      BY <1>3, <2>1, <2>3, <3>1, <3>2, <3>3 DEF Refreshing
  <2> QED
    BY <2>2, <2>3
<1>4. CASE Writes(r, t, p, a, C, r2, p2) /\ C2 = C
  <2>1. /\ t = "universe" /\ r.pc = "write" /\ p \subseteq p2 /\ p2 \subseteq p \cup r.want /\ r.want \subseteq C \cup p2
        /\ r2.sp = r.sp /\ r2.ndx = r.ndx
        /\ \/ r2.pc = "commit" /\ r2.i = r.i /\ r.i >= 3
           \/ r2.pc = "item" /\ r2.i = r.i + 1 /\ ~(r.i >= 3)
    <3>1. Kept(r, r2) /\ t = "universe"
      BY <1>1, <1>4 DEF Writes, Advances
    <3>2. r.pc = "write"
      BY <1>2, <1>4, <3>1 DEF Writes, Shape
    <3> QED
      BY <1>4, <3>1, <3>2 DEF Writes, Advances, Due
  <2>2. Tickers(r2) = Tickers(r) /\ MembersSP(r2, day) = MembersSP(r, day) /\ MembersNDX(r2, day) = MembersNDX(r, day)
    BY <2>1 DEF Tickers, MembersSP, MembersNDX
  <2>3. /\ \E f \in A2 : f.day = day /\ f.SP500 = r2.sp /\ f.NDX100 = r2.ndx
        /\ LongEnough(r2.sp, r2.ndx)
    BY <2>1 DEF Refreshing
  <2>4. /\ p \subseteq Tickers(r) \cup MembersSP(r, day) \cup MembersNDX(r, day)
        /\ r.i >= 2 => Tickers(r) \subseteq C \cup p
        /\ r.i >= 3 => MembersSP(r, day) \subseteq C \cup p
        /\ r.i >= 4 => MembersNDX(r, day) \subseteq C \cup p
        /\ r.i = 1 => r.want = Tickers(r)
        /\ r.i = 2 => r.want = MembersSP(r, day)
        /\ r.i = 3 => r.want = MembersNDX(r, day)
        /\ r.i >= 4 => r.want \subseteq Tickers(r)
    BY <2>1 DEF Refreshing
  <2>5. r.i = 1 \/ r.i = 2 \/ r.i = 3 \/ r.i >= 4
    BY <1>2
  <2>6. p2 \subseteq Tickers(r) \cup MembersSP(r, day) \cup MembersNDX(r, day)
    BY <2>1, <2>4, <2>5
  <2>7. CASE r2.pc = "commit" /\ r2.i = r.i /\ r.i >= 3
    <3>1. Tickers(r) \subseteq C \cup p2 /\ MembersSP(r, day) \subseteq C \cup p2 /\ MembersNDX(r, day) \subseteq C \cup p2
      BY <1>2, <2>1, <2>4, <2>5, <2>7
    <3> QED
      BY <1>4, <2>2, <2>3, <2>6, <2>7, <3>1 DEF Refreshing
  <2>8. CASE r2.pc = "item" /\ r2.i = r.i + 1 /\ ~(r.i >= 3)
    <3>1. (r.i = 1 /\ r2.i = 2) \/ (r.i = 2 /\ r2.i = 3)
      BY <1>2, <2>8
    <3>2. Tickers(r) \subseteq C \cup p2 /\ (r2.i = 3 => MembersSP(r, day) \subseteq C \cup p2)
      BY <2>1, <2>4, <3>1
    <3> QED
      BY <1>4, <2>2, <2>3, <2>6, <2>8, <3>1, <3>2 DEF Refreshing
  <2> QED
    BY <2>1, <2>7, <2>8
<1>5. CASE Commits(r, p, a, C, r2, p2, a2, C2)
  <2>1. /\ t = "universe" /\ r.pc = "commit" /\ p2 = {} /\ C2 = C \cup (IF a THEN {} ELSE p)
        /\ r2.sp = r.sp /\ r2.ndx = r.ndx /\ r2.pc = "item" /\ r2.i = r.i + 1
    BY <1>1, <1>5 DEF Commits, Advances
  <2>2. ~a
    BY <1>2, <2>1 DEF Shape
  <2>3. Tickers(r2) = Tickers(r) /\ MembersSP(r2, day) = MembersSP(r, day) /\ MembersNDX(r2, day) = MembersNDX(r, day)
    BY <2>1 DEF Tickers, MembersSP, MembersNDX
  <2>4. /\ \E f \in A2 : f.day = day /\ f.SP500 = r2.sp /\ f.NDX100 = r2.ndx
        /\ LongEnough(r2.sp, r2.ndx) /\ r.i >= 3
        /\ MembersNDX(r, day) \subseteq C \cup p
    BY <2>1 DEF Refreshing
  <2>5. Tickers(r) \subseteq C \cup p /\ MembersSP(r, day) \subseteq C \cup p
    <3>1. r.i >= 2
      BY <1>2, <2>4
    <3> QED
      BY <2>1, <2>4, <3>1 DEF Refreshing
  <2>6. C2 = C \cup p
    BY <2>1, <2>2
  <2> QED
    BY <2>1, <2>3, <2>4, <2>5, <2>6 DEF Refreshing
<1>6. CASE Takes(r, t, p, a, r2, p2) /\ C2 = C
  <2>1. r2 = r /\ r.pc = "write" /\ p \subseteq p2 /\ p2 \subseteq p \cup r.want
    BY <1>6 DEF Takes
  <2>2. t2 = t /\ t = "universe"
    BY <1>1, <1>2, <2>1 DEF Kept, Shape
  <2>3. Refreshing(r, t, p, C, A, day)
    OBVIOUS
  <2>4. r.want \subseteq Tickers(r) \cup MembersSP(r, day) \cup MembersNDX(r, day)
    <3>1. r.i = 1 \/ r.i = 2 \/ r.i = 3 \/ r.i >= 4
      BY <1>2
    <3> QED
      BY <2>1, <2>2, <2>3, <3>1 DEF Refreshing
  <2>5. p2 \subseteq Tickers(r) \cup MembersSP(r, day) \cup MembersNDX(r, day)
    BY <2>1, <2>2, <2>3, <2>4 DEF Refreshing
  <2> QED
    BY <1>6, <2>1, <2>2, <2>3, <2>5 DEF Refreshing
<1> QED
  BY <1>1, <1>3, <1>4, <1>5, <1>6
     DEF Moves, Begins, Passes, Asks, Stumbles, Escapes, LosesCommit, Ends, Dies, Reads, Advances

LEMMA WholeKept ==
  ASSUME NEW r, NEW t, NEW L, NEW p, NEW a, RowOK(r, t, L, p, a),
         NEW C, NEW A, NEW A2, A \subseteq A2, A2 \subseteq Fetches, NEW day,
         Refreshing(r, t, p, C, A, day), Whole(C, A),
         NEW Q, NEW r2, NEW p2, NEW a2, NEW C2, Moves(r, t, L, p, a, C, A2, day, Q, r2, p2, a2, C2)
  PROVE  Whole(C2, A2)
<1>1. C \subseteq C2 /\ (C2 # C => r.pc \in Busy /\ ~a /\ C2 = C \cup p /\ (r.pc = "commit" \/ t # "universe"))
  BY MovesGrow
<1>2. Shape(r, t, L, p, a)
  BY DEF RowOK
<1>3. ASSUME NEW row \in C, row[1] = "member"
      PROVE  \E f \in A2 :
               /\ f.day = row[4] /\ row[2] \in f[row[3]]
               /\ LongEnough(f.SP500, f.NDX100)
               /\ {Ticker(s) : s \in f.SP500 \cup f.NDX100} \subseteq C2
               /\ \A u \in Universes : {Member(u, s, f.day) : s \in f[u]} \subseteq C2
  <2>1. PICK f \in A :
          /\ f.day = row[4] /\ row[2] \in f[row[3]]
          /\ LongEnough(f.SP500, f.NDX100)
          /\ {Ticker(s) : s \in f.SP500 \cup f.NDX100} \subseteq C
          /\ \A u \in Universes : {Member(u, s, f.day) : s \in f[u]} \subseteq C
    BY <1>3, Zenon DEF Whole
  <2>2. f \in A2
    OBVIOUS
  <2> QED
    BY <1>1, <2>1, <2>2, Zenon
<1>4. CASE C2 = C
  BY <1>3, <1>4, Zenon DEF Whole
<1>5. CASE C2 # C /\ t # "universe"
  <2>1. t \in TaskNames /\ p \subseteq KeysOf(t) /\ C2 = C \cup p
    BY <1>1, <1>2, <1>5 DEF Shape
  <2>2. \A k \in p : k[1] # "member"
    BY <1>5, <2>1, KeyKinds DEF TaskNames
  <2> QED
    BY <1>3, <2>1, <2>2, Zenon DEF Whole
<1>6. CASE C2 # C /\ t = "universe" /\ r.pc = "commit"
  <2>1. C2 = C \cup p
    BY <1>1, <1>6
  <2>2. PICK f \in A : f.day = day /\ f.SP500 = r.sp /\ f.NDX100 = r.ndx
    BY <1>6 DEF Refreshing, Busy
  <2>3. /\ LongEnough(r.sp, r.ndx) /\ r.i >= 3
        /\ p \subseteq Tickers(r) \cup MembersSP(r, day) \cup MembersNDX(r, day)
        /\ MembersNDX(r, day) \subseteq C2
    BY <1>6, <2>1 DEF Refreshing, Busy
  <2>4. Tickers(r) \subseteq C2 /\ MembersSP(r, day) \subseteq C2
    <3>1. r.i \in Nat
      BY <1>2 DEF Shape, JobRow
    <3>2. r.i >= 2
      BY <2>3, <3>1
    <3> QED
      BY <1>6, <2>1, <2>3, <3>2 DEF Refreshing, Busy
  <2>5. {Ticker(s) : s \in f.SP500 \cup f.NDX100} \subseteq C2
    BY <2>2, <2>4 DEF Tickers
  <2>6. \A u \in Universes : {Member(u, s, f.day) : s \in f[u]} \subseteq C2
    <3>1. {Member("SP500", s, f.day) : s \in f["SP500"]} \subseteq C2
      BY <2>2, <2>4 DEF MembersSP
    <3>2. {Member("NDX100", s, f.day) : s \in f["NDX100"]} \subseteq C2
      BY <2>2, <2>3 DEF MembersNDX
    <3> QED
      BY <3>1, <3>2 DEF Universes
  <2>7. ASSUME NEW row \in p, row[1] = "member"
        PROVE  f.day = row[4] /\ row[2] \in f[row[3]]
    <3>1. CASE row \in Tickers(r)
      <4>1. PICK s \in r.sp \cup r.ndx : row = <<"ticker", s, "", 0>>
        BY <3>1 DEF Tickers, Ticker
      <4> QED
        BY <2>7, <4>1
    <3>2. CASE row \in MembersSP(r, day)
      <4>1. PICK s \in r.sp : row = <<"member", s, "SP500", day>>
        BY <3>2 DEF MembersSP, Member
      <4>2. row[2] = s /\ row[3] = "SP500" /\ row[4] = day
        BY <4>1
      <4>3. f["SP500"] = r.sp
        BY <2>2
      <4> QED
        BY <2>2, <4>1, <4>2, <4>3
    <3>3. CASE row \in MembersNDX(r, day)
      <4>1. PICK s \in r.ndx : row = <<"member", s, "NDX100", day>>
        BY <3>3 DEF MembersNDX, Member
      <4>2. row[2] = s /\ row[3] = "NDX100" /\ row[4] = day
        BY <4>1
      <4>3. f["NDX100"] = r.ndx
        BY <2>2
      <4> QED
        BY <2>2, <4>1, <4>2, <4>3
    <3> QED
      BY <2>3, <3>1, <3>2, <3>3
  <2>8. LongEnough(f.SP500, f.NDX100) /\ f \in A2
    BY <2>2, <2>3
  <2>9. ASSUME NEW row \in C2, row[1] = "member"
        PROVE  \E g \in A2 :
                 /\ g.day = row[4] /\ row[2] \in g[row[3]]
                 /\ LongEnough(g.SP500, g.NDX100)
                 /\ {Ticker(s) : s \in g.SP500 \cup g.NDX100} \subseteq C2
                 /\ \A u \in Universes : {Member(u, s, g.day) : s \in g[u]} \subseteq C2
    <3>1. CASE row \in C
      BY <1>3, <2>9, <3>1, Zenon
    <3>2. CASE row \in p
      BY <2>5, <2>6, <2>7, <2>8, <2>9, <3>2, Zenon
    <3> QED
      BY <2>1, <3>1, <3>2
  <2> QED
    BY <2>9, Zenon DEF Whole
<1> QED
  BY <1>1, <1>4, <1>5, <1>6

-----------------------------------------------------------------------------
(* The inductive invariant, and that every step keeps it. *)
IInv == DatabaseOK /\ JobsOK /\ DurableInv /\ RefreshInv /\ HoldInv /\ ServeInv

LEMMA RowsAreOK ==
  ASSUME NEW j \in Jobs, JobsOK
  PROVE  /\ RowOK(job[j], Task(j), Items(j), pending[j], aborted[j])
         /\ Task(j) = "ohlcv" => Items(j) = job[j].list
<1>1. Shape(job[j], Task(j), Items(j), pending[j], aborted[j]) /\ Statement(job[j], Task(j), Items(j))
  BY DEF JobsOK
<1>2. job[j] \in JobRow /\ Distinct(job[j].list)
  BY <1>1 DEF Shape
<1>3. ASSUME Task(j) \in TaskNames
      PROVE  Listed(Task(j), Items(j))
  <2>1. /\ Len(Items(j)) \in Nat /\ DOMAIN Items(j) = 1 .. Len(Items(j))
        /\ Task(j) \in {"ohlcv", "actions"} => Items(j) = job[j].list
        /\ Task(j) = "macro" => Items(j) = Series
        /\ Task(j) = "news" => Items(j) = Providers
    BY <1>2, <1>3, ItemsOfTask
  <2>2. Task(j) # "universe" => Distinct(Items(j))
    BY <1>2, <1>3, <2>1, SequencesGiven DEF TaskNames
  <2>3. Task(j) = "universe" => Len(Items(j)) \in {3, 4}
    BY <1>2, ItemsOfUniverse
  <2>4. \A n \in 1 .. Len(Items(j)) :
          /\ Task(j) \in {"ohlcv", "actions"} => Items(j)[n] \in Symbols
          /\ Task(j) = "macro" => Items(j)[n] \in Elements(Series)
          /\ Task(j) = "news" => Items(j)[n] \in Elements(Providers)
    BY <1>2, <1>3, ItemsAreKnown
  <2> QED
    BY <2>1, <2>2, <2>3, <2>4 DEF Listed
<1>4. Listed(Task(j), Items(j))
  BY <1>3 DEF Listed
<1>5. Task(j) = "ohlcv" => Items(j) = job[j].list
  BY <1>2, ItemsOfTask DEF TaskNames
<1> QED
  BY <1>1, <1>4, <1>5 DEF RowOK, Task

LEMMA SameTask ==
  ASSUME NEW j \in Jobs, job'[j].todo = job[j].todo, job'[j].enrich = job[j].enrich, job'[j].list = job[j].list
  PROVE  Task(j)' = Task(j) /\ Items(j)' = Items(j)
<1>1. Task(j)' = Task(j)
  BY DEF Task
<1> QED
  BY <1>1 DEF Items

LEMMA InitInv ==
  ASSUME Init
  PROVE  IInv
<1>1. PICK s \in Scenarios :
        /\ committed = s.rows /\ quotes = s.quotes /\ lists = s.lists /\ accepted = s.fetches
        /\ job = [j \in Jobs |->
                    [flow |-> s.jobs[j].flow, enrich |-> s.jobs[j].enrich, todo |-> s.jobs[j].todo,
                     list |-> s.jobs[j].list, pc |-> IF s.jobs[j].todo = <<>> THEN "ended" ELSE "next",
                     i |-> 1, left |-> 0, want |-> {}, twice |-> FALSE, counted |-> {}, erred |-> FALSE,
                     sp |-> {}, ndx |-> {}]]
        /\ pending = [j \in Jobs |-> {}] /\ aborted = [j \in Jobs |-> FALSE]
        /\ today = 1
  BY DEF Init
<1>2. IsScenario(s)
  BY ScenariosAssumption
<1> DEFINE sj == s.jobs
<1>3. /\ sj \in [Jobs -> [flow : BOOLEAN, enrich : BOOLEAN, list : Seq(Symbols),
                          todo : Seq(Universes \cup TaskNames)]]
      /\ \A j \in Jobs : /\ Distinct(sj[j].list)
                         /\ sj[j].flow => sj[j].list = <<>>
                         /\ sj[j].todo # <<>> => sj[j].todo[Len(sj[j].todo)] \in TaskNames
  BY <1>2 DEF IsScenario
<1>4. today \in 1 .. MaxDay
  BY <1>1, MarketAssumption
<1>5. DatabaseOK
  <2>1. DOMAIN job = Jobs /\ DOMAIN pending = Jobs /\ DOMAIN aborted = Jobs
    BY <1>1
  <2>2. \A j \in Jobs : pending[j] = {}
    BY <1>1
  <2> QED
    BY <1>1, <1>2, <1>4, <2>1, <2>2 DEF DatabaseOK, IsScenario
<1> HIDE DEF sj
<1>6. ASSUME NEW j \in Jobs
      PROVE  /\ job[j] \in JobRow /\ job[j].pc = (IF sj[j].todo = <<>> THEN "ended" ELSE "next")
             /\ job[j].list = sj[j].list /\ job[j].todo = sj[j].todo /\ job[j].flow = sj[j].flow
             /\ job[j].counted = {} /\ job[j].erred = FALSE /\ pending[j] = {} /\ aborted[j] = FALSE
  <2> DEFINE none == {}
             one  == 1
             pc   == IF sj[j].todo = <<>> THEN "ended" ELSE "next"
             row  == [flow |-> sj[j].flow, enrich |-> sj[j].enrich, todo |-> sj[j].todo,
                      list |-> sj[j].list, pc |-> pc, i |-> one, left |-> 0, want |-> none,
                      twice |-> FALSE, counted |-> none, erred |-> FALSE, sp |-> none, ndx |-> none]
  <2>1. job[j] = row /\ pending[j] = none /\ aborted[j] = FALSE
    BY <1>1 DEF sj
  <2>2. none \in SUBSET Keys /\ none \in SUBSET Symbols /\ one \in Nat \ {0} /\ pc \in Quiet
    BY DEF Quiet
  <2>3. 0 \in 0 .. 3
    OBVIOUS
  <2>4. /\ sj[j].flow \in BOOLEAN /\ sj[j].enrich \in BOOLEAN /\ sj[j].todo \in Seq(Universes \cup TaskNames)
        /\ sj[j].list \in Seq(Symbols)
    BY <1>3
  <2> HIDE DEF none, one, pc
  <2>5. row \in JobRow
    BY <2>2, <2>3, <2>4 DEF JobRow
  <2> QED
    BY <2>1, <2>5 DEF none, pc
<1>7. \A j \in Jobs : job[j].pc \in Quiet /\ job[j].pc \notin Busy /\ job[j].pc # "retry"
  BY <1>6 DEF Quiet, Busy
<1>8. JobsOK
  BY <1>3, <1>6, <1>7, ZenonT(60) DEF JobsOK, Shape, Statement, Busy, Quiet
<1>9. DurableInv
  <2> SUFFICES ASSUME NEW j \in Jobs
               PROVE  Durable(job[j], Task(j), Items(j), pending[j], committed)
    BY DEF DurableInv
  <2>1. job[j].counted \subseteq committed
    BY <1>6
  <2> QED
    BY <1>7, <2>1, AllCommitted DEF Durable, Busy
<1>10. RefreshInv
  BY <1>1, <1>2, <1>7 DEF RefreshInv, Refreshing, IsScenario
<1>11. HoldInv
  <2> SUFFICES ASSUME NEW j \in Jobs, job[j].flow
               PROVE  Ascends(job[j].list)
    BY <1>7 DEF HoldInv, Holds
  <2>1. job[j].list = <<>>
    BY <1>3, <1>6
  <2>2. DOMAIN job[j].list = {}
    BY <2>1
  <2> QED
    BY <2>2 DEF Ascends
<1>12. ServeInv
  BY <1>7 DEF ServeInv, Serves
<1> QED
  BY <1>5, <1>8, <1>9, <1>10, <1>11, <1>12 DEF IInv

LEMMA MovesAscend ==
  ASSUME NEW r, NEW t, NEW L, NEW p, NEW a,
         NEW C, NEW A2, NEW day, NEW Q, NEW r2, NEW p2, NEW a2, NEW C2,
         Moves(r, t, L, p, a, C, A2, day, Q, r2, p2, a2, C2),
         r.flow => Ascends(r.list), r2.flow
  PROVE  Ascends(r2.list)
BY DEF Moves, Begins, Passes, Asks, AsksForUniverse, Writes, Takes, Stumbles, Escapes, Commits, LosesCommit,
       Ends, Dies, Reads, Advances, Kept

LEMMA SteppedInv ==
  ASSUME IInv, NEW j \in Jobs, Stepped(j)
  PROVE  IInv'
<1> DEFINE r == job[j]
           t == Task(j)
           L == Items(j)
           p == pending[j]
           a == aborted[j]
<1>1. /\ RowOK(r, t, L, p, a) /\ Durable(r, t, L, p, committed) /\ Serves(r, t, quotes) /\ Holds(r, t, L, p)
      /\ Refreshing(r, t, p, committed, accepted, today) /\ Whole(committed, accepted)
      /\ (t = "ohlcv" => L = r.list) /\ (r.flow => Ascends(r.list)) /\ DatabaseOK
  BY RowsAreOK DEF IInv, DurableInv, ServeInv, HoldInv, RefreshInv
<1>2. PICK r2, t2, L2, p2, a2, C2, A2 :
        /\ r2 = job'[j] /\ t2 = Task(j)' /\ L2 = Items(j)' /\ p2 = pending'[j] /\ a2 = aborted'[j]
        /\ C2 = committed' /\ A2 = accepted'
  OBVIOUS
<1>3. /\ Moves(r, t, L, p, a, committed, A2, today, quotes, r2, p2, a2, C2)
      /\ accepted \subseteq A2 /\ A2 \subseteq Fetches /\ today' = today /\ quotes' = quotes /\ lists' = lists
      /\ DOMAIN job' = Jobs /\ DOMAIN pending' = Jobs /\ DOMAIN aborted' = Jobs
      /\ \A k \in Jobs \ {j} : /\ job'[k] = job[k] /\ pending'[k] = pending[k] /\ aborted'[k] = aborted[k]
                               /\ pending'[j] \cap pending[k] = {}
  BY <1>2, Zenon DEF Stepped
<1>4. Kept(r, r2) => t2 = t /\ L2 = L
  BY <1>2, SameTask DEF Kept
<1>5. ASSUME NEW k \in Jobs \ {j}
      PROVE  job'[k] = job[k] /\ pending'[k] = pending[k] /\ aborted'[k] = aborted[k] /\ Task(k)' = Task(k) /\ Items(k)' = Items(k)
  BY <1>3, <1>5, SameTask
<1>6. committed \subseteq C2 /\ C2 \subseteq committed \cup p
  <2> HIDE DEF r, t, L, p, a
  <2> QED
    BY <1>1, <1>3, MovesGrow
<1>7. Shape(r2, t2, L2, p2, a2) /\ Statement(r2, t2, L2)
  <2> HIDE DEF r, t, L, p, a
  <2> QED
    BY <1>1, <1>3, <1>4, ShapeKept
<1>8. Durable(r2, t2, L2, p2, C2)
  <2> HIDE DEF r, t, L, p, a
  <2> QED
    BY <1>1, <1>3, <1>4, DurableKept
<1>9. Refreshing(r2, t2, p2, C2, A2, today) /\ Whole(C2, A2)
  <2> HIDE DEF r, t, L, p, a
  <2>1. Refreshing(r2, t2, p2, C2, A2, today)
    BY <1>1, <1>3, <1>4, RefreshingKept
  <2>2. Whole(C2, A2)
    BY <1>1, <1>3, WholeKept
  <2> QED
    BY <2>1, <2>2
<1>10. Holds(r2, t2, L2, p2) /\ (r2.flow => Ascends(r2.list))
  <2> HIDE DEF r, t, L, p, a
  <2>1. today \in 1 .. MaxDay
    BY <1>1 DEF DatabaseOK
  <2>2. Refreshing(r, t, p, committed, A2, today)
    BY <1>1, <1>3, RefreshingOther
  <2>3. Holds(r2, t2, L2, p2)
    BY <1>1, <1>3, <1>4, <2>1, <2>2, HoldsKept
  <2>4. r2.flow => Ascends(r2.list)
    BY <1>1, <1>3, MovesAscend
  <2> QED
    BY <2>3, <2>4
<1>11. Serves(r2, t2, quotes)
  <2> HIDE DEF r, t, L, p, a
  <2> QED
    BY <1>1, <1>3, <1>4, ServesKept, ZenonT(60)
<1>12. DatabaseOK'
  <2>1. p \subseteq Keys
    BY <1>1 DEF RowOK, Shape
  <2>2. committed' \subseteq Keys
    BY <1>1, <1>2, <1>6, <2>1 DEF DatabaseOK
  <2>3. \A k, l \in Jobs : k # l => pending'[k] \cap pending'[l] = {}
    BY <1>1, <1>3 DEF DatabaseOK
  <2> QED
    BY <1>1, <1>2, <1>3, <2>2, <2>3 DEF DatabaseOK
<1>13. JobsOK'
  <2> SUFFICES ASSUME NEW k \in Jobs
               PROVE  Shape(job[k], Task(k), Items(k), pending[k], aborted[k])'
                      /\ Statement(job[k], Task(k), Items(k))'
    BY DEF JobsOK
  <2>1. CASE k = j
    BY <1>2, <1>7, <2>1 DEF Shape, Statement
  <2>2. CASE k # j
    <3>1. Shape(job[k], Task(k), Items(k), pending[k], aborted[k]) /\ Statement(job[k], Task(k), Items(k))
      BY DEF IInv, JobsOK
    <3> QED
      BY <1>5, <2>2, <3>1 DEF Shape, Statement
  <2> QED
    BY <2>1, <2>2
<1>14. DurableInv'
  <2> SUFFICES ASSUME NEW k \in Jobs
               PROVE  Durable(job'[k], Task(k)', Items(k)', pending'[k], committed')
    BY DEF DurableInv, Durable, Batches
  <2>1. CASE k = j
    BY <1>2, <1>8, <2>1
  <2>2. CASE k # j
    <3>1. Durable(job[k], Task(k), Items(k), pending[k], committed)
      BY DEF IInv, DurableInv
    <3> QED
      BY <1>2, <1>5, <1>6, <2>2, <3>1, DurableOther
  <2> QED
    BY <2>1, <2>2
<1>15. RefreshInv'
  <2>1. Whole(committed, accepted)'
    BY <1>2, <1>9 DEF Whole
  <2>2. ASSUME NEW k \in Jobs
        PROVE  Refreshing(job[k], Task(k), pending[k], committed, accepted, today)'
    <3>1. CASE k = j
      BY <1>2, <1>3, <1>9, <3>1 DEF Refreshing, Tickers, MembersSP, MembersNDX
    <3>2. CASE k # j
      <4>1. Refreshing(job[k], Task(k), pending[k], committed, accepted, today)
        BY DEF IInv, RefreshInv
      <4>2. Refreshing(job[k], Task(k), pending[k], C2, A2, today)
        BY <1>3, <1>6, <4>1, RefreshingOther
      <4> QED
        BY <1>2, <1>3, <1>5, <3>2, <4>2 DEF Refreshing, Tickers, MembersSP, MembersNDX
    <3> QED
      BY <3>1, <3>2
  <2> QED
    BY <2>1, <2>2 DEF RefreshInv
<1>16. HoldInv'
  <2> SUFFICES ASSUME NEW k \in Jobs
               PROVE  Holds(job[k], Task(k), Items(k), pending[k])' /\ (job'[k].flow => Ascends(job'[k].list))
    BY DEF HoldInv
  <2>1. CASE k = j
    BY <1>2, <1>10, <2>1 DEF Holds, Past
  <2>2. CASE k # j
    <3>1. Holds(job[k], Task(k), Items(k), pending[k]) /\ (job[k].flow => Ascends(job[k].list))
      BY DEF IInv, HoldInv
    <3> QED
      BY <1>5, <2>2, <3>1 DEF Holds, Past
  <2> QED
    BY <2>1, <2>2
<1>17. ServeInv'
  <2> SUFFICES ASSUME NEW k \in Jobs
               PROVE  Serves(job[k], Task(k), quotes)'
    BY DEF ServeInv
  <2>1. CASE k = j
    BY <1>2, <1>3, <1>11, <2>1 DEF Serves, Past
  <2>2. CASE k # j
    <3>1. Serves(job[k], Task(k), quotes)
      BY DEF IInv, ServeInv
    <3> QED
      BY <1>3, <1>5, <2>2, <3>1 DEF Serves, Past
  <2> QED
    BY <2>1, <2>2
<1> QED
  BY <1>12, <1>13, <1>14, <1>15, <1>16, <1>17 DEF IInv

LEMMA QuietInv ==
  ASSUME IInv, UNCHANGED <<db, job, given, accepted>>,
         today' = today \/ (today' \in 1 .. MaxDay /\ \A j \in Jobs : job[j].pc \in Quiet)
  PROVE  IInv'
<1>1. /\ committed' = committed /\ pending' = pending /\ aborted' = aborted /\ job' = job
      /\ quotes' = quotes /\ lists' = lists /\ accepted' = accepted /\ today' \in 1 .. MaxDay
  BY DEF db, given, IInv, DatabaseOK
<1>2. \A j \in Jobs : Task(j)' = Task(j) /\ Items(j)' = Items(j)
  BY <1>1, SameTask
<1>3. DatabaseOK'
  BY <1>1 DEF IInv, DatabaseOK
<1>4. JobsOK'
  BY <1>1, <1>2 DEF IInv, JobsOK, Shape, Statement
<1>5. DurableInv'
  BY <1>1, <1>2 DEF IInv, DurableInv, Durable, Batches
<1>6. RefreshInv'
  <2>1. Whole(committed, accepted)'
    BY <1>1 DEF IInv, RefreshInv, Whole
  <2>2. ASSUME NEW j \in Jobs
        PROVE  Refreshing(job[j], Task(j), pending[j], committed, accepted, today)'
    <3>1. CASE today' = today
      BY <1>1, <1>2, <3>1 DEF IInv, RefreshInv, Refreshing, Tickers, MembersSP, MembersNDX
    <3>2. CASE job[j].pc \in Quiet
      BY <1>1, <3>2 DEF Refreshing, Quiet, Busy
    <3> QED
      BY <3>1, <3>2
  <2> QED
    BY <2>1, <2>2 DEF RefreshInv
<1>7. HoldInv'
  BY <1>1, <1>2 DEF IInv, HoldInv, Holds, Past
<1>8. ServeInv'
  BY <1>1, <1>2 DEF IInv, ServeInv, Serves, Past
<1> QED
  BY <1>3, <1>4, <1>5, <1>6, <1>7, <1>8 DEF IInv

LEMMA NextInv ==
  ASSUME IInv, [Next]_vars
  PROVE  IInv'
<1>1. ASSUME NEW j \in Jobs, Step(j) \/ Kill(j)
      PROVE  IInv'
  <2>1. JobOK(j)
    BY DEF IInv, JobsOK, JobOK
  <2> QED
    BY <1>1, <2>1, StepMoves, SteppedInv
<1>2. CASE NewDay
  <2>1. today' \in 1 .. MaxDay
    <3>1. today \in 1 .. MaxDay /\ MaxDay \in Nat
      BY MarketAssumption DEF IInv, DatabaseOK
    <3> QED
      BY <1>2, <3>1 DEF NewDay
  <2> QED
    BY <1>2, <2>1, QuietInv DEF NewDay, Quiet
<1>3. CASE UNCHANGED vars
  BY <1>3, QuietInv DEF vars
<1> QED
  BY <1>1, <1>2, <1>3 DEF Next

(* The parts of the invariant hold in every state.                         *)
THEOREM MarketInvariant == Spec => []IInv
BY InitInv, NextInv, PTL DEF Spec

-----------------------------------------------------------------------------
(* What a task returned as written is in the database, and so is what its  *)
(* full batches held, whatever else was skipped, failed or killed.         *)
THEOREM ReportsAreDurable == Spec => []CountedRowsAreDurable
<1>1. ASSUME IInv
      PROVE  CountedRowsAreDurable
  <2>1. ASSUME NEW j \in Jobs
        PROVE  /\ Shape(job[j], Task(j), Items(j), pending[j], aborted[j])
               /\ Durable(job[j], Task(j), Items(j), pending[j], committed)
    BY <1>1 DEF IInv, JobsOK, DurableInv
  <2>2. TypeOK
    <3>1. ASSUME NEW j \in Jobs
          PROVE  /\ job[j].pc \in Quiet \cup Busy /\ job[j].left \in 0 .. 3
                 /\ job[j].pc \in Quiet => pending[j] = {} /\ ~aborted[j]
                 /\ job[j].counted \cap pending[j] \subseteq Written(j)
      BY <2>1 DEF Shape, JobRow, Written
    <3> QED
      BY <1>1, <3>1 DEF TypeOK, IInv, DatabaseOK, Quiet, Busy
  <2>3. ReportedIsDurable
    BY <2>1 DEF ReportedIsDurable, Done, Durable
  <2>4. FinishedBatchesSurvive
    BY <2>1 DEF FinishedBatchesSurvive, Durable, Batches
  <2> QED
    BY <2>2, <2>3, <2>4 DEF CountedRowsAreDurable
<1> QED
  BY <1>1, MarketInvariant, PTL

(* Every membership row is of a refresh that was long enough and is in the *)
(* database with all its tickers and both its lists.                       *)
THEOREM RefreshesAreWhole == Spec => []RefreshIsWhole
<1>1. IInv => RefreshIsWhole
  BY DEF IInv, RefreshInv, RefreshIsWhole
<1> QED
  BY <1>1, MarketInvariant, PTL

(* Of two positions in the order of all symbols, one is the first.         *)
LEMMA NoCircle ==
  ASSUME NEW q, NEW w, Ascends(q), Ascends(w),
         NEW m \in DOMAIN q, NEW n \in DOMAIN q, NEW k \in DOMAIN w, NEW l \in DOMAIN w,
         m < n, k < l, q[n] = w[k], w[l] = q[m]
  PROVE  FALSE
<1>1. PICK x \in DOMAIN Order, y \in DOMAIN Order : x < y /\ q[m] = Order[x] /\ q[n] = Order[y]
  BY DEF Ascends
<1>2. PICK u \in DOMAIN Order, v \in DOMAIN Order : u < v /\ w[k] = Order[u] /\ w[l] = Order[v]
  BY DEF Ascends
<1>3. y = u /\ v = x
  BY <1>1, <1>2, SequencesGiven DEF Distinct
<1>4. x \in Int /\ y \in Int
  BY SequencesGiven
<1> QED
  BY <1>1, <1>2, <1>3, <1>4

LEMMA Waiting ==
  ASSUME IInv, NEW j \in Jobs, NEW k \in Jobs, k \in WaitsFor(j)
  PROVE  /\ Executing(j) /\ ~aborted[j]
         /\ RowOK(job[j], Task(j), Items(j), pending[j], aborted[j])
         /\ Task(j) \in TaskNames /\ job[j].i \in 1 .. Len(Items(j))
         /\ job[j].want \subseteq KeysOf(Task(j))
         /\ \E x \in pending[k] : x \in job[j].want
<1>1. RowOK(job[j], Task(j), Items(j), pending[j], aborted[j])
  BY RowsAreOK DEF IInv
<1>2. Executing(j) /\ ~aborted[j] /\ pending[k] \cap Locked(j) # {}
  BY DEF WaitsFor
<1>3. Task(j) \in TaskNames /\ job[j].want \subseteq KeysOf(Task(j))
  BY <1>1, <1>2, WantedAreKeys DEF Executing
<1>4. job[j].i \in 1 .. Len(Items(j))
  BY <1>1, <1>2, <1>3 DEF RowOK, Shape, Listed, Executing, Busy, JobRow
<1>5. \E x \in pending[k] : x \in job[j].want
  BY <1>2 DEF Locked
<1> QED
  BY <1>1, <1>2, <1>3, <1>4, <1>5

(* Two that wait for each other are at the same task; in the three tasks   *)
(* that go row by row, the one waits for a row the other has left behind.  *)
LEMMA WantsLater ==
  ASSUME IInv, NEW j \in Jobs, NEW k \in Jobs, k \in WaitsFor(j), j \in WaitsFor(k)
  PROVE  /\ Task(j) = Task(k)
         /\ Task(j) \notin {"universe", "news"} =>
              \E q \in 1 .. Len(Items(k)) : q < job[k].i /\ Items(k)[q] = Items(j)[job[j].i]
<1> DEFINE t == Task(j)
           r == job[j]
           o == job[k]
           L == Items(j)
           M == Items(k)
<1>1. /\ r.pc \in {"write", "metadata"} /\ t \in TaskNames /\ r.i \in 1 .. Len(L) /\ r.want \subseteq KeysOf(t)
      /\ Statement(r, t, L) /\ Shape(r, t, L, pending[j], aborted[j])
  BY Waiting DEF Executing, RowOK
<1>2. /\ o.pc \in {"write", "metadata"} /\ o.pc \in Busy /\ Task(k) \in TaskNames /\ o.i \in 1 .. Len(M)
      /\ o.want \subseteq KeysOf(Task(k)) /\ Shape(o, Task(k), M, pending[k], aborted[k])
      /\ Statement(o, Task(k), M)
  BY Waiting DEF Executing, RowOK, Busy
<1>3. PICK x \in pending[k] : x \in r.want
  BY Waiting
<1>4. PICK y \in pending[j] : y \in o.want
  BY Waiting
<1>5. Task(k) = t
  <2>1. x \in KeysOf(t) /\ x \in KeysOf(Task(k))
    BY <1>1, <1>2, <1>3 DEF Shape
  <2> QED
    BY <1>1, <1>2, <2>1, KeysApart
<1>6. Holds(o, t, M, pending[k]) /\ Holds(r, t, L, pending[j])
  BY <1>5 DEF IInv, HoldInv
<1>7. CASE t = "ohlcv"
  <2>1. x = Bar(L[r.i]) /\ o.pc = "write"
    BY <1>1, <1>2, <1>3, <1>5, <1>7 DEF Shape, Statement
  <2>2. PICK q \in 1 .. Len(M) : x = Bar(M[q]) /\ Past(o, q)
    BY <1>2, <1>6, <1>7 DEF Holds
  <2>3. M[q] = L[r.i] /\ q < o.i
    BY <2>1, <2>2, RowsDiffer DEF Past
  <2> QED
    BY <1>5, <1>7, <2>3
<1>8. CASE t = "actions"
  <2>1. x = CorporateAction(L[r.i]) /\ o.pc = "write"
    BY <1>1, <1>2, <1>3, <1>5, <1>8 DEF Shape, Statement
  <2>2. PICK q \in 1 .. Len(M) : x = CorporateAction(M[q]) /\ Past(o, q)
    BY <1>2, <1>6, <1>8 DEF Holds
  <2>3. M[q] = L[r.i] /\ q < o.i
    BY <2>1, <2>2, RowsDiffer DEF Past
  <2> QED
    BY <1>5, <1>8, <2>3
<1>9. CASE t = "macro"
  <2>1. PICK q \in 1 .. Len(M) : x = MacroSeries(M[q]) /\ (q < o.i \/ (q = o.i /\ o.pc = "write"))
    BY <1>2, <1>6, <1>9 DEF Holds
  <2>2. PICK u \in 1 .. Len(L) : y = MacroSeries(L[u])
    BY <1>1, <1>6, <1>9 DEF Holds, Busy
  <2>3. x = MacroSeries(L[r.i])
    <3>1. CASE r.pc = "write"
      <4>1. x = MacroObservation(L[r.i])
        BY <1>1, <1>3, <1>9, <3>1 DEF Statement
      <4>2. x[1] = "series"
        BY <2>1 DEF MacroSeries
      <4>3. x[1] = "observation"
        BY <4>1 DEF MacroObservation
      <4> QED
        BY <4>2, <4>3
    <3>2. CASE r.pc = "metadata"
      BY <1>1, <1>3, <3>2 DEF Statement
    <3> QED
      BY <1>1, <3>1, <3>2
  <2>4. o.pc # "write"
    <3>1. SUFFICES ASSUME o.pc = "write"
                   PROVE  FALSE
      OBVIOUS
    <3>2. y = MacroObservation(M[o.i])
      BY <1>2, <1>4, <1>5, <1>9, <3>1 DEF Statement
    <3>3. y[1] = "series"
      BY <2>2 DEF MacroSeries
    <3>4. y[1] = "observation"
      BY <3>2 DEF MacroObservation
    <3> QED
      BY <3>3, <3>4
  <2>5. M[q] = L[r.i] /\ q < o.i
    BY <2>1, <2>3, <2>4, RowsDiffer
  <2> QED
    BY <1>5, <1>9, <2>5
<1> QED
  BY <1>1, <1>5, <1>7, <1>8, <1>9 DEF TaskNames

(* Two flows that are both waiting for the other are both refreshing the   *)
(* universe or both at the news: the lists the other tasks work through    *)
(* ascend, and none of these waits for a row it left behind.               *)
THEOREM FlowsDoNotDeadlock == Spec => []FlowsNeverDeadlock
<1>1. ASSUME IInv
      PROVE  FlowsNeverDeadlock
  <2>0. SUFFICES ASSUME NEW j \in Jobs, NEW k \in Jobs, job[j].flow, job[k].flow,
                        j \in WaitsFor(k), k \in WaitsFor(j)
                 PROVE  Task(j) = Task(k) /\ Task(j) \in {"universe", "news"}
    BY DEF FlowsNeverDeadlock
  <2>9. Task(j) = Task(k)
    BY <1>1, <2>0, WantsLater
  <2>1. SUFFICES ASSUME Task(j) \notin {"universe", "news"}, job[j].flow, job[k].flow,
                        j \in WaitsFor(k), k \in WaitsFor(j)
                 PROVE  FALSE
    BY <2>0, <2>9
  <2>2. /\ job[j].i \in 1 .. Len(Items(j)) /\ job[k].i \in 1 .. Len(Items(k))
        /\ Task(j) \in TaskNames /\ Task(k) \in TaskNames
        /\ job[j] \in JobRow /\ job[k] \in JobRow
    BY <1>1, <2>1, Waiting DEF RowOK, Shape
  <2>3. Task(j) = Task(k) /\ Task(j) \notin {"universe", "news"}
    BY <2>1, <2>9
  <2>4. PICK q \in 1 .. Len(Items(k)) : q < job[k].i /\ Items(k)[q] = Items(j)[job[j].i]
    BY <1>1, <2>1, <2>3, WantsLater
  <2>5. PICK u \in 1 .. Len(Items(j)) : u < job[j].i /\ Items(j)[u] = Items(k)[job[k].i]
    BY <1>1, <2>1, <2>3, WantsLater
  <2>6. DOMAIN Items(j) = 1 .. Len(Items(j)) /\ DOMAIN Items(k) = 1 .. Len(Items(k))
    BY <2>2, ItemsOfTask
  <2>7. CASE Task(j) \in {"ohlcv", "actions"}
    <3>1. Items(j) = job[j].list /\ Items(k) = job[k].list
      BY <2>2, <2>3, <2>7, ItemsOfTask
    <3>2. Ascends(Items(j)) /\ Ascends(Items(k))
      BY <1>1, <2>1, <3>1 DEF IInv, HoldInv
    <3> QED
      BY <2>2, <2>4, <2>5, <2>6, <3>2, NoCircle
  <2>8. CASE Task(j) = "macro"
    <3>1. Items(j) = Items(k) /\ Distinct(Items(j))
      BY <2>2, <2>3, <2>8, ItemsOfTask, SequencesGiven
    <3>2. q = job[j].i /\ u = job[k].i
      BY <2>2, <2>4, <2>5, <2>6, <3>1 DEF Distinct
    <3>3. q \in Int /\ u \in Int /\ q < u /\ u < q
      BY <2>4, <2>5, <3>2
    <3> QED
      BY <3>3
  <2> QED
    BY <2>2, <2>3, <2>7, <2>8 DEF TaskNames
<1> QED
  BY <1>1, MarketInvariant, PTL

(* The steps of a job are all that changes its row.                        *)
LEMMA StepOf ==
  ASSUME IInv, [Next]_vars, NEW j \in Jobs, job'[j] # job[j]
  PROVE  Stepped(j)
<1>1. PICK k \in Jobs : Step(k) \/ Kill(k)
  BY DEF Next, NewDay, vars
<1>2. JobOK(k)
  BY DEF IInv, JobsOK, JobOK
<1>3. Stepped(k)
  BY <1>1, <1>2, StepMoves
<1>4. k = j
  BY <1>3 DEF Stepped
<1> QED
  BY <1>3, <1>4

(* When a backfill returns without an error it caught, no symbol that some *)
(* provider serves has been passed over; and the news of a run come all or *)
(* none, whichever provider's statement failed.                            *)
THEOREM TasksAreThoroughAlways == Spec => TasksAreThorough
<1>1. ASSUME IInv, [Next]_vars, NEW j \in Jobs, job[j].pc = "item", Task(j) = "ohlcv", ~job[j].erred, Done(j)',
             NEW s \in Elements(job[j].list),
             \E n \in 1..3 : quotes[s][n] = "bars" /\ \A m \in 1..(n - 1) : quotes[s][m] # "broken"
      PROVE  Bar(s) \in committed'
  <2> DEFINE r == job[j]
  <2>1. job'[j].pc \in {"next", "ended"} /\ Stepped(j)
    BY <1>1, StepOf DEF Done
  <2>2. Ends(r, "ohlcv", Items(j), pending[j], aborted[j], committed, job'[j], pending'[j], aborted'[j], committed')
    BY <1>1, <2>1 DEF Stepped, Moves, Begins, Passes, Asks, AsksForUniverse, Writes, Takes, Stumbles, Escapes, Commits,
                      LosesCommit, Dies, Reads, Advances
  <2>3. /\ RowOK(r, Task(j), Items(j), pending[j], aborted[j]) /\ Items(j) = r.list
        /\ Durable(r, Task(j), Items(j), pending[j], committed) /\ Serves(r, Task(j), quotes)
    BY <1>1, RowsAreOK DEF IInv, DurableInv, ServeInv
  <2>4. ~aborted[j] /\ r.list \in Seq(Symbols) /\ r.i \in Nat
    BY <1>1, <2>3 DEF RowOK, Shape, JobRow
  <2>5. r.counted \subseteq committed' /\ r.i > Len(r.list)
    BY <1>1, <2>2, <2>3, <2>4 DEF Ends, Durable, Busy, CommitsAtEnd
  <2>6. PICK q \in 1 .. Len(r.list) : s = r.list[q]
    BY <2>4 DEF Elements
  <2>7. Past(r, q)
    BY <2>4, <2>5 DEF Past
  <2>8. ServedBy(quotes[s])
    BY <1>1 DEF ServedBy
  <2>9. Bar(s) \in r.counted
    BY <1>1, <2>3, <2>6, <2>7, <2>8 DEF Serves, Busy
  <2> QED
    BY <2>5, <2>9
<1>2. ASSUME IInv, [Next]_vars, committed' # committed, NEW j \in Jobs, job[j].pc = "item", Task(j) = "news",
             job'[j] # job[j]
      PROVE  job[j].counted \subseteq committed'
  <2> DEFINE r == job[j]
  <2>1. Stepped(j)
    BY <1>2, StepOf
  <2>2. /\ RowOK(r, Task(j), Items(j), pending[j], aborted[j])
        /\ Durable(r, Task(j), Items(j), pending[j], committed)
    BY <1>2, RowsAreOK DEF IInv, DurableInv
  <2>3. Moves(r, Task(j), Items(j), pending[j], aborted[j], committed, accepted', today, quotes,
              job'[j], pending'[j], aborted'[j], committed')
    BY <2>1 DEF Stepped
  <2>4. ~aborted[j] /\ committed' = committed \cup pending[j]
    BY <1>2, <2>2, <2>3, MovesGrow
  <2>5. ~r.erred
    BY <1>2, <2>2, <2>4 DEF RowOK, Shape, Busy
  <2> QED
    BY <1>2, <2>2, <2>4, <2>5 DEF Durable, Busy
<1>3. ASSUME IInv, [Next]_vars
      PROVE  [\A j \in Jobs : job[j].pc = "item" /\ Task(j) = "ohlcv" /\ ~job[j].erred /\ Done(j)' =>
                \A s \in Elements(job[j].list) :
                  (\E n \in 1..3 : quotes[s][n] = "bars" /\ \A m \in 1..(n - 1) : quotes[s][m] # "broken")
                    => Bar(s) \in committed']_vars
  BY <1>1, <1>3
<1>4. ASSUME IInv, [Next]_vars
      PROVE  [committed' # committed => \A j \in Jobs :
                job[j].pc = "item" /\ Task(j) = "news" /\ job'[j] # job[j] => job[j].counted \subseteq committed']_vars
  BY <1>2, <1>4
<1>5. Spec => ServedSymbolsAreStored
  BY <1>3, MarketInvariant, PTL DEF Spec, ServedSymbolsAreStored
<1>6. Spec => NewsAllOrNothing
  BY <1>4, MarketInvariant, PTL DEF Spec, NewsAllOrNothing
<1> QED
  BY <1>5, <1>6 DEF TasksAreThorough
=============================================================================
