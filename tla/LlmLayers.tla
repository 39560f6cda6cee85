----------------------------- MODULE LlmLayers ------------------------------
(***************************************************************************)
(* The language-model layers of a day: sentiment.py, catalysts.py,         *)
(* macro_regime.py, sanity_check.py (with the candidate filter of          *)
(* `paper now`) and briefing.py, on the adapters openrouter.py and groq.py.*)
(* The workflow calls one command after the other; a command asks models   *)
(* about each of its articles or candidates in concurrent coroutines that  *)
(* share a semaphore, gathers what came of them and writes a file.         *)
(*                                                                         *)
(* An answer of a model is a word of the layer's vocabulary, or one of:    *)
(* "raise" (no completion), "prose" (no JSON in it), "list" (JSON that is  *)
(* not the object asked for), "odd" (an object with a word of its own),    *)
(* "nested" (an object with a value of another shape than the one asked    *)
(* for: a list for the type, no number for the score or the confidence).   *)
(***************************************************************************)
EXTENDS Integers, Sequences, FiniteSets

CONSTANTS Articles, Symbols,
          Whole,           \* the task of a command that asks one question
          MaxConcurrent,   \* max_concurrent of the semaphores
          PoolSize,        \* sanity_pool_size
          TopK,            \* top_k
          Scenarios        \* commands, news, scores, keys, older regime: see LayersInit

ASSUME LlmAssumption ==
  /\ IsFiniteSet(Articles) /\ IsFiniteSet(Symbols)
  /\ MaxConcurrent \in Nat \ {0}
  /\ PoolSize \in Nat \ {0} /\ TopK \in Nat \ {0}
  /\ Whole \notin Articles \cup Symbols

Artifacts == {"fetch-sentiment", "fetch-catalysts", "classify-regime", "briefing"}
Commands  == Artifacts \cup {"paper now"}

(* What a day begins with: any commands in any order, articles and         *)
(* candidates of those there are; the regime's file may be anything.       *)
ASSUME ScenariosAssumption ==
  \A s \in Scenarios :
    /\ s.todo \in Seq(Commands)
    /\ DOMAIN s.news \subseteq Articles
    /\ DOMAIN s.score \subseteq Symbols /\ s.score \in [DOMAIN s.score -> Int]

VARIABLES
  todo,       \* the commands still to run
  news,       \* by article: its symbol and date, which may be unreadable
  score,      \* by candidate: the score of the signal
  key,        \* the provider whose key is configured, or none
  today,
  stage,      \* start, gather, write or end: where the command is
  task,       \* by article or candidate: its coroutine
  free,       \* permits of the semaphore
  answers,    \* the command's answers: task, position in the chain, answer
  abandoned,  \* commands that ended early, and at which answer
  files,      \* by layer: its artifact
  mult,       \* the regime's multiplier, in percent
  targets,    \* the names the session goes for
  filtered    \* they went through the filter

given == <<news, score, key, today>>
layersVars  == <<todo, given, stage, task, free, answers, abandoned, files, mult, targets, filtered>>

command == Head(todo)
Running == todo # <<>>

Vocabulary(c) ==
  CASE c = "fetch-sentiment" -> {"bearish", "bullish"}
    [] c = "fetch-catalysts" -> {"fda_approval", "lawsuit"}
    [] c = "classify-regime" -> {"risk_on", "risk_off"}
    [] c = "paper now"       -> {"APPROVE", "FLAG", "REJECT"}
    [] c = "briefing"        -> {"narrative"}

(* What a layer makes of a word that is not in its vocabulary. *)
Default(c) ==
  CASE c = "fetch-sentiment" -> "neutral"
    [] c = "fetch-catalysts" -> "none"
    [] c = "classify-regime" -> "neutral"
    [] c = "paper now"       -> "APPROVE"
    [] c = "briefing"        -> "narrative"

Answers(c) == Vocabulary(c) \cup {"raise", "prose", "list", "odd", "nested"}
Understood(c, a) == IF a \in {"odd", "nested"} THEN Default(c) ELSE a

(* What a layer gets nothing from.  The scores and the confidence go       *)
(* through float(), the type of a catalyst is looked up in a set.          *)
Unusable(c) ==
  {"raise", "prose", "list"} \cup
  (IF c \in {"fetch-sentiment", "fetch-catalysts", "classify-regime"} THEN {"nested"} ELSE {})

FallbackChain == <<"smart", "fast", "pro", "k2.6">>

(* The models a coroutine asks, in order. *)
Chain(c) ==
  CASE c = "fetch-sentiment" -> IF key = "groq" THEN <<"groq">> ELSE <<"fast">>
    [] c = "fetch-catalysts" -> <<"fast">> \o FallbackChain
    [] OTHER                 -> FallbackChain

-----------------------------------------------------------------------------
NoTasks == [t \in {} |-> <<>>]
Absent  == [state |-> "absent", rows |-> {}]

LayersInit ==
  \E s \in Scenarios :
    /\ todo = s.todo /\ news = s.news /\ score = s.score
    /\ key = s.key /\ today = s.today
    /\ files = [c \in Artifacts |-> IF c = "classify-regime" THEN s.regime ELSE Absent]
    /\ stage = "start" /\ task = NoTasks /\ free = MaxConcurrent /\ answers = {} /\ abandoned = {}
    /\ mult = 100 /\ targets = {} /\ filtered = FALSE

(* An article without a date has no sentiment; its catalyst is of today.   *)
Dated(a) == news[a].day # "unreadable"
DayOf(a) == IF Dated(a) THEN news[a].day ELSE today

TopOf(from, by, k) ==
  {top \in SUBSET from :
     /\ Cardinality(top) = (IF Cardinality(from) < k THEN Cardinality(from) ELSE k)
     /\ \A a \in top, b \in from \ top : by[a] >= by[b]}

(* A provider's request that fails costs its articles only. *)
Fetched ==
  CASE command \in {"fetch-sentiment", "fetch-catalysts"} -> SUBSET DOMAIN news
    [] command = "classify-regime" -> {{}, {Whole}}
    [] command = "paper now"       -> TopOf(DOMAIN score, score, PoolSize)
    [] command = "briefing"        -> {{Whole}}

Questions(fetched) ==
  IF command = "fetch-sentiment" THEN {a \in fetched : Dated(a)} ELSE fetched

(* The news adapters are opened outside any try.  Groq stands in for the   *)
(* sentiment only; without news no model is asked.                         *)
AdapterOpens(fetched, newsOpens) ==
  /\ command \in {"fetch-sentiment", "fetch-catalysts"} => newsOpens
  /\ \/ fetched = {}
     \/ key = "openrouter"
     \/ command = "fetch-sentiment" /\ key = "groq"

regime_conviction_multiplier(rows) ==
  CASE rows = {"risk_on"} -> 100 [] rows = {"risk_off"} -> 50 [] OTHER -> 85

RegimeMultiplier ==
  IF files["classify-regime"].state = "whole"
  THEN regime_conviction_multiplier(files["classify-regime"].rows) ELSE 100

(* The briefing reads the regime outside any try. *)
InputsReadable == command = "briefing" => files["classify-regime"].state # "torn"

NextCommand ==
  /\ todo' = Tail(todo)
  /\ stage' = "start" /\ task' = NoTasks /\ free' = MaxConcurrent /\ answers' = {}

(* The command ends with its file as it was; a session whose filter raises *)
(* goes on with the scores of the signal.                                  *)
Abandon(cause) ==
  /\ NextCommand
  /\ abandoned' = abandoned \cup {<<command, cause>>}
  /\ IF command = "paper now"
     THEN targets' \in TopOf(DOMAIN score, score, TopK) /\ filtered' = FALSE
     ELSE UNCHANGED <<targets, filtered>>
  /\ UNCHANGED <<given, files>>

Start ==
  /\ Running /\ stage = "start"
  /\ \E fetched \in Fetched, newsOpens \in BOOLEAN :
       IF InputsReadable /\ AdapterOpens(fetched, newsOpens)
       THEN /\ task' = [t \in Questions(fetched) |->
                 [phase |-> IF command = "paper now" THEN "news" ELSE "queued",
                  at |-> 1, model |-> "none", value |-> "none"]]
            /\ stage' = "gather"
            /\ mult' = IF command = "paper now" THEN RegimeMultiplier ELSE mult
            /\ UNCHANGED <<todo, given, free, answers, abandoned, files, targets, filtered>>
       ELSE Abandon("no adapter") /\ UNCHANGED mult

-----------------------------------------------------------------------------
(* The coroutines. *)
In(t, phase) == Running /\ stage = "gather" /\ t \in DOMAIN task /\ task[t].phase = phase
Move(t, phase) == task' = [task EXCEPT ![t].phase = phase]
Rest == UNCHANGED <<todo, given, stage, abandoned, files, mult, targets, filtered>>

(* The headlines of a candidate are fetched before the semaphore. *)
FetchHeadlines(t) ==
  /\ In(t, "news")
  /\ Move(t, "queued")
  /\ Rest /\ UNCHANGED <<free, answers>>

Acquire(t) ==
  /\ In(t, "queued") /\ free > 0
  /\ Move(t, "asking")
  /\ free' = free - 1
  /\ Rest /\ UNCHANGED answers

(* A completion that cannot be read ends the chain, but for the first call *)
(* of the catalysts.                                                       *)
NextModel(t, a) ==
  /\ task[t].at < Len(Chain(command))
  /\ \/ a = "raise"
     \/ a = "prose" /\ command = "fetch-catalysts" /\ task[t].at = 1

(* What is raised out of the coroutine, and so out of the gather. *)
Escapes(t, a) ==
  \/ command \in {"classify-regime", "briefing"} /\ a \in {"raise", "prose"}
  \/ command # "fetch-sentiment" /\ a = "list"
  \/ command \in {"fetch-catalysts", "classify-regime"} /\ a = "nested"

(* Mutant: a coroutine that gives up keeps its permit. *)
KeepsPermit(t, a) == free

(* The pause after a sentiment call is inside the semaphore. *)
Released(t, a) == IF command = "fetch-sentiment" /\ a \notin Unusable(command)
                  THEN free ELSE free + 1

(* Mutant: the model named with an answer is the first of the chain. *)
NamesFirst(t) == Chain(command)[1]

ModelUsed(t) == Chain(command)[task[t].at]

Answered(t, a) ==
  IF a \in Unusable(command)
  THEN IF command = "paper now"
       THEN [task[t] EXCEPT !.phase = "answered", !.value = "APPROVE", !.model = "fallback"]
       ELSE [task[t] EXCEPT !.phase = "dropped"]
  ELSE [task[t] EXCEPT !.phase = IF command = "fetch-sentiment" THEN "pausing" ELSE "answered",
                       !.value = Understood(command, a), !.model = ModelUsed(t)]

Ask(t) ==
  /\ In(t, "asking")
  /\ \E a \in Answers(command) :
       IF NextModel(t, a)
       THEN /\ task' = [task EXCEPT ![t].at = @ + 1]
            /\ answers' = answers \cup {<<t, task[t].at, a>>}
            /\ Rest /\ UNCHANGED free
       ELSE IF Escapes(t, a)
       THEN Abandon(a) /\ UNCHANGED mult
       ELSE /\ task' = [task EXCEPT ![t] = Answered(t, a)]
            /\ answers' = answers \cup {<<t, task[t].at, a>>}
            /\ free' = Released(t, a)
            /\ Rest

Pause(t) ==
  /\ In(t, "pausing")
  /\ Move(t, "answered")
  /\ free' = free + 1
  /\ Rest /\ UNCHANGED answers

-----------------------------------------------------------------------------
(* The gathered results. *)
Done == {t \in DOMAIN task : task[t].phase = "answered"}
Gathered == Running /\ stage = "gather" /\ \A t \in DOMAIN task : task[t].phase \in {"answered", "dropped"}

AggregatePerSymbolDay ==
  {[symbol |-> news[a].symbol, day |-> DayOf(a),
    count |-> Cardinality({b \in Done : news[b].symbol = news[a].symbol /\ DayOf(b) = DayOf(a)})] :
     a \in Done}

Tags == {[symbol |-> news[a].symbol, day |-> DayOf(a), type |-> task[a].value, model |-> task[a].model] :
           a \in Done}

Rows ==
  CASE command = "fetch-sentiment" -> AggregatePerSymbolDay
    [] command = "fetch-catalysts" -> Tags
    [] command = "classify-regime" -> IF Done = {} THEN {"neutral"} ELSE {task[Whole].value}
    [] command = "briefing"        -> files["classify-regime"].rows

(* Mutant: the names below the pool come back, not reviewed. *)
KeepUnpooled == {s \in DOMAIN score : s \notin DOMAIN task \/ task[s].value # "REJECT"}

filter_by_sanity == {s \in DOMAIN task : task[s].value # "REJECT"}

Flagged(s) == s \in DOMAIN task /\ task[s].value = "FLAG"

(* By half for a flag, in percent of half points. *)
Adjusted ==
  [s \in filter_by_sanity |-> score[s] * mult * (IF Flagged(s) THEN 1 ELSE 2)]

(* No name left: the session raises. *)
ChooseTargets ==
  /\ Gathered /\ command = "paper now"
  /\ targets' \in TopOf(filter_by_sanity, Adjusted, TopK)
  /\ filtered' = TRUE
  /\ stage' = "end"
  /\ UNCHANGED <<todo, given, task, free, answers, abandoned, files, mult>>

OpenFile ==
  /\ Gathered /\ command # "paper now"
  /\ stage' = "write"
  /\ files' = [files EXCEPT ![command].state = "torn"]
  /\ UNCHANGED <<todo, given, task, free, answers, abandoned, mult, targets, filtered>>

CloseFile ==
  /\ Running /\ stage = "write"
  /\ files' = [files EXCEPT ![command] = [state |-> "whole", rows |-> Rows]]
  /\ stage' = "end"
  /\ UNCHANGED <<todo, given, task, free, answers, abandoned, mult, targets, filtered>>

EndCommand ==
  /\ Running /\ stage = "end"
  /\ NextCommand
  /\ UNCHANGED <<given, abandoned, files, mult, targets, filtered>>

Killed ==
  /\ Running /\ stage = "write"
  /\ NextCommand
  /\ UNCHANGED <<given, abandoned, files, mult, targets, filtered>>

Coroutine(t) == FetchHeadlines(t) \/ Acquire(t) \/ Ask(t) \/ Pause(t)
Loop == Start \/ ChooseTargets \/ OpenFile \/ CloseFile \/ EndCommand

Tasks == Articles \cup Symbols \cup {Whole}
LayersNext == Loop \/ Killed \/ \E t \in Tasks : Coroutine(t)

(* The event loop runs every coroutine that is ready; a request ends, if   *)
(* need be by the client's timeout.                                        *)
Fairness == WF_layersVars(Loop) /\ \A t \in Tasks : WF_layersVars(Coroutine(t))

LayersSpec == LayersInit /\ [][LayersNext]_layersVars /\ Fairness

-----------------------------------------------------------------------------
(* Everyone who asks holds a permit, and every permit is either held or    *)
(* free: never more calls under way than the semaphore allows.             *)
LayersTypeOK ==
  /\ stage \in {"start", "gather", "write", "end"}
  /\ \A t \in DOMAIN task :
       /\ task[t].phase \in {"news", "queued", "asking", "pausing", "answered", "dropped"}
       /\ task[t].at \in 1 .. Len(Chain(command))
  /\ mult \in {50, 85, 100}
  /\ targets \subseteq Symbols /\ Cardinality(targets) <= TopK
  /\ free + Cardinality({t \in DOMAIN task : task[t].phase \in {"asking", "pausing"}}) = MaxConcurrent

Good(c) == Answers(c) \ Unusable(c)

(* sentiment.py:208-226: when its file is written, the counts of its rows  *)
(* add up to the articles a model scored, a row for each symbol and day    *)
(* that has one: an article that failed costs no other its score.          *)
SentimentCountsAnswers ==
  Running /\ command = "fetch-sentiment" /\ stage = "end" =>
    LET scored == {a \in DOMAIN news : \E v \in Good(command) : <<a, 1, v>> \in answers}
        rows == files["fetch-sentiment"].rows
    IN /\ \A r \in rows : r.count = Cardinality({a \in scored : news[a].symbol = r.symbol /\ news[a].day = r.day})
       /\ \A a \in scored : \E r \in rows : r.symbol = news[a].symbol /\ r.day = news[a].day

(* catalysts.py:144-150, 180-187: a row has what the model it names said   *)
(* of an article of its symbol, whatever other articles were answered in   *)
(* the meantime.                                                           *)
TagsAreOfTheirModel ==
  Running /\ command = "fetch-catalysts" /\ stage = "end" =>
    \A r \in files["fetch-catalysts"].rows :
      \E a \in DOMAIN news, n \in DOMAIN Chain(command), v \in Good(command) :
        /\ news[a].symbol = r.symbol /\ Understood(command, v) = r.type
        /\ Chain(command)[n] = r.model /\ <<a, n, v>> \in answers

(* openrouter.py:97 "Try each model", catalysts.py:96-97, sanity_check.py: *)
(* 121: an article is given up, and a candidate approved unseen, only when *)
(* the last model of the chain failed, or one answered what the layer gets  *)
(* nothing from.                                                            *)
GivenUpAfterChain ==
  \A t \in DOMAIN task :
    task[t].phase = "dropped" \/ task[t].model = "fallback" =>
      \/ <<t, Len(Chain(command)), "raise">> \in answers
      \/ \E n \in DOMAIN Chain(command) :
           /\ \E a \in {"prose", "list", "nested"} : <<t, n, a>> \in answers
           /\ \A m \in DOMAIN Chain(command) : m > n => \A a \in Answers(command) : <<t, m, a>> \notin answers
           /\ command = "fetch-catalysts" => n > 1

(* sanity_check.py:1-10 "REJECT = do not trade": when the filter ran to    *)
(* its end, the session goes only for names that were reviewed in it and   *)
(* that no model rejected.                                                 *)
RejectedIsNotTargeted ==
  Running /\ command = "paper now" /\ stage = "end" /\ filtered =>
    \A s \in targets : /\ s \in DOMAIN task
                       /\ \A n \in DOMAIN FallbackChain : <<s, n, "REJECT">> \notin answers

(* sanity_check.py:32 "FLAG = caution": while scores are not negative, a   *)
(* flagged name is not gone for in place of an approved one whose score is *)
(* at least as high.                                                       *)
FlaggedNotPromoted ==
  Running /\ command = "paper now" /\ stage = "end" /\ filtered =>
    \A s \in targets, r \in DOMAIN task \ targets :
      task[s].value = "FLAG" /\ task[r].value = "APPROVE" /\ score[r] > 0 => score[s] > score[r]

(* catalysts.py:139-141, sanity_check.py:120-128: a model that is down or  *)
(* cannot be read never fails a command that asks about several things.    *)
(* For want of an adapter it is abandoned, and by a parsed answer of the   *)
(* wrong shape: a list, for the catalysts also a type that is no word.     *)
(* The sentiment has no such answer.                                       *)
LayersFailSoft ==
  \A end \in abandoned :
    /\ end[1] = "fetch-sentiment" => end[2] = "no adapter"
    /\ end[1] = "fetch-catalysts" => end[2] \in {"no adapter", "list", "nested"}
    /\ end[1] = "paper now" => end[2] \in {"no adapter", "list"}

(* macro_regime.py:132-134, daily-paper.yml:152: the regime scales every   *)
(* score alike, so that it never changes which names the session goes for. *)
RegimeKeepsTargets ==
  Running /\ command = "paper now" /\ stage = "end" /\ filtered =>
    targets \in TopOf(filter_by_sanity,
      [s \in filter_by_sanity |-> score[s] * (IF Flagged(s) THEN 1 ELSE 2)], TopK)

(* Every command of the day comes to its end. *)
CommandsEnd == <>(todo = <<>>)

(* What the commands store is what was answered, to which article, by      *)
(* which model, however the answers interleave.                            *)
AnswersStayInPlace ==
  LayersTypeOK /\ SentimentCountsAnswers /\ TagsAreOfTheirModel /\ GivenUpAfterChain

(* The review decides who is gone for; the regime does not.                *)
ReviewIsKept == RejectedIsNotTargeted /\ FlaggedNotPromoted /\ RegimeKeepsTargets

(* Whatever fails, the commands of the day come to their end, and are cut  *)
(* short only for want of an adapter or by an answer of the wrong shape.   *)
CommandsEndSoftly == []LayersFailSoft /\ CommandsEnd
=============================================================================
