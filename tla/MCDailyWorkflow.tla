-------------------------- MODULE MCDailyWorkflow ---------------------------
(* Constants for TLC: a behaviour is one of overlapping jobs, or one of the *)
(* layer commands of a day, of which there are three families.  They share  *)
(* no state.                                                                *)
EXTENDS DailyPipeline, LlmLayers, TLC

CONSTANTS a1, a2, a3, X, Y, Z

Article(s, d) == [symbol |-> s, day |-> d]

(* Two articles of a day and one of another, of another symbol or undated. *)
NewsItems == {a1 :> Article(X, "d1") @@ a2 :> Article(X, "d1") @@ a3 :> other :
                other \in {Article(X, "d2"), Article(Y, "d1"), Article(X, "unreadable")}}
NoNews == [a \in {} |-> <<>>]
NoScores == [s \in {} |-> 0]

Whole_(rows) == [state |-> "whole", rows |-> rows]
Day(commands, n, s, k, r) ==
  [todo |-> commands, news |-> n, score |-> s, key |-> k, regime |-> r, today |-> "d2"]

NewsDays ==
  {Day(<<"fetch-sentiment">>, n, NoScores, k, Absent) :
     n \in NewsItems, k \in {"openrouter", "groq", "none"}}
  \cup {Day(<<"fetch-catalysts">>, n, NoScores, k, Absent) :
     n \in {x \in NewsItems : x[a3].day # "d2"}, k \in {"openrouter", "none"}}

Regimes == {Absent, [state |-> "torn", rows |-> {}], Whole_({"risk_off"}), Whole_({"sideways"})}
Scores == {X :> 3 @@ Y :> 2 @@ Z :> 1, X :> 3 @@ Y :> 3 @@ Z :> 2,
           X :> 1 @@ Y :> 0 - 2 @@ Z :> 0 - 3, X :> 3 @@ Y :> 1 @@ Z :> 1}

SessionDays ==
  {Day(<<"classify-regime", "paper now", "briefing">>, NoNews, s, k, r) :
     s \in Scores, k \in {"openrouter", "none"}, r \in Regimes}

MCScenarios == NewsDays \cup SessionDays

VARIABLE part

NoCommands ==
  /\ todo = <<>> /\ news = NoNews /\ score = NoScores /\ key = "none" /\ today = "d1"
  /\ files = [c \in Artifacts |-> Absent]
  /\ stage = "start" /\ task = NoTasks /\ free = MaxConcurrent /\ answers = {} /\ abandoned = {}
  /\ mult = 100 /\ targets = {} /\ filtered = FALSE

MCInit ==
  /\ Init
  /\ \/ part = "jobs" /\ NoCommands
     \/ part = "commands" /\ LayersInit

MCNext ==
  /\ \/ part = "jobs" /\ Next /\ UNCHANGED layersVars
     \/ part = "commands" /\ LayersNext /\ UNCHANGED vars
  /\ UNCHANGED part

MCSpec == MCInit /\ [][MCNext]_<<part, vars, layersVars>> /\ Fairness
=============================================================================
