------------------------ MODULE DailyPipelineProofs ------------------------
(***************************************************************************)
(* Proofs about DailyPipeline: for any number of jobs, overlapping or not, *)
(* and any secrets.                                                        *)
(* Then about LlmLayers: what the job's layer commands do.                 *)
(***************************************************************************)
EXTENDS DailyPipeline, LlmLayers, FiniteSetTheorems, SequenceTheorems, TLAPS

Workspace == [Files -> SUBSET (Runs \cup Past)]

LEMMA InitTyped == Init => TypeOK
<1> SUFFICES ASSUME Init  PROVE TypeOK
  OBVIOUS
<1>1. main = [f \in Files |-> IF f \in Tracked THEN Past ELSE {}]
  BY DEF Init
<1>2. main \in Workspace /\ \A f \in Files : OneJob(main[f])
  BY <1>1 DEF OneJob, Workspace
<1>3. OneJob({})
  BY DEF OneJob
<1> QED
  BY <1>2, <1>3 DEF Init, TypeOK, Workspace

(* One job moves to another step and leaves the main branch alone. *)
LEMMA WorkspaceTyped ==
  ASSUME TypeOK, NEW r \in Runs, NEW w \in Workspace,
         NEW step \in Steps \cup Results,
         \A f \in Files \ Appended : OneJob(w[f]),
         ws' = [ws EXCEPT ![r] = w], Goto(r, step),
         UNCHANGED <<base, head, main>>, traded' \subseteq Runs
  PROVE  TypeOK'
  BY DEF TypeOK, Goto, Workspace, OneJob

(* What the snapshot writes into the job's workspace. *)
LEMMA SnapshotWrites ==
  ASSUME TypeOK, NEW r \in Runs, SnapshotTaken(r)
  PROVE  \E w \in Workspace :
           /\ ws' = [ws EXCEPT ![r] = w]
           /\ w["paper-status"] = {r}
           /\ w["paper-history"] = ws[r]["paper-history"] \cup {r}
           /\ \A f \in Files \ {"paper-status", "paper-history"} : w[f] = ws[r][f]
<1> DEFINE w == [ws[r] EXCEPT !["paper-status"] = {r},
                              !["paper-history"] = @ \cup {r}]
<1>1. ws[r] \in Workspace
  BY DEF TypeOK, Workspace
<1>2. w \in Workspace
  BY <1>1 DEF Workspace, Files
<1>3. ws' = [ws EXCEPT ![r] = w]
  BY <1>1 DEF SnapshotTaken, TypeOK, Workspace, Files
<1>4. /\ w["paper-status"] = {r}
      /\ w["paper-history"] = ws[r]["paper-history"] \cup {r}
      /\ \A f \in Files \ {"paper-status", "paper-history"} : w[f] = ws[r][f]
  BY <1>1 DEF Workspace, Files
<1> QED
  BY <1>2, <1>3, <1>4

(* One file of a workspace is written. *)
LEMMA FileWritten ==
  ASSUME TypeOK, NEW r \in Runs, NEW f \in Files, NEW file \in SUBSET (Runs \cup Past),
         Write(r, f, file)
  PROVE  \E w \in Workspace :
           /\ ws' = [ws EXCEPT ![r] = w]
           /\ w[f] = file
           /\ \A g \in Files \ {f} : w[g] = ws[r][g]
<1> DEFINE w == [ws[r] EXCEPT ![f] = file]
<1>1. ws[r] \in Workspace
  BY DEF TypeOK, Workspace
<1>2. w \in Workspace /\ w[f] = file /\ \A g \in Files \ {f} : w[g] = ws[r][g]
  BY <1>1 DEF Workspace
<1>3. ws' = [ws EXCEPT ![r] = w]
  BY <1>1 DEF TypeOK, Write
<1> QED
  BY <1>2, <1>3

(* What the job's own steps may do to its workspace: nothing is removed    *)
(* from an appended file, no file disappears, an overwritten file is this  *)
(* job's, and as long as the job goes on its status has a history row.     *)
Extends(w, r) ==
  /\ w \in Workspace
  /\ \A f \in Appended : ws[r][f] \subseteq w[f]
  /\ \A f \in Files : ws[r][f] # {} => w[f] # {}
  /\ \A f \in Files \ Appended : w[f] = ws[r][f] \/ w[f] = {r}

LEMMA JobWrites ==
  ASSUME TypeOK, NEW r \in Runs, Layer(r) \/ Snapshot(r) \/ Orders(r)
  PROVE  \E w \in Workspace, step \in Steps \cup Results :
           /\ ws' = [ws EXCEPT ![r] = w] /\ Goto(r, step)
           /\ Extends(w, r)
           /\ pc[r] \in Steps /\ step # "success"
           /\ step \in Steps /\ ws[r]["paper-status"] \subseteq ws[r]["paper-history"] =>
                w["paper-status"] \subseteq w["paper-history"]
           /\ step \in AfterSnapshot /\ pc[r] \notin AfterSnapshot =>
                r \in w["paper-history"]
<1>1. ws[r] \in Workspace /\ ws' = ws => ws' = [ws EXCEPT ![r] = ws[r]]
  BY DEF TypeOK
<1>2. ws[r] \in Workspace /\ Extends(ws[r], r)
  BY DEF TypeOK, Workspace, Extends
<1>0. /\ Appended \subseteq Files /\ "paper-status" \in Files \ Appended
      /\ "paper-history" \in Appended /\ "orders-log" \in Appended
      /\ "orders-log" # "paper-history" /\ "orders-log" # "paper-status"
      /\ {r} \in SUBSET (Runs \cup Past)
  BY DEF Files, Appended
<1>3. CASE Layer(r)
  <2>1. StepAfter[pc[r]] \in Steps /\ pc[r] \in Files \ (Appended \cup {"paper-status"})
    BY <1>3 DEF Layer, Layers, StepAfter, Steps, Files, Appended
  <2>2. ASSUME Write(r, pc[r], {r})
        PROVE  \E w \in Workspace :
                 /\ ws' = [ws EXCEPT ![r] = w] /\ Extends(w, r)
                 /\ w["paper-status"] = ws[r]["paper-status"]
                 /\ w["paper-history"] = ws[r]["paper-history"]
    <3>1. PICK w \in Workspace :
            /\ ws' = [ws EXCEPT ![r] = w] /\ w[pc[r]] = {r}
            /\ \A g \in Files \ {pc[r]} : w[g] = ws[r][g]
      BY <1>0, <2>1, <2>2, FileWritten
    <3>2. Extends(w, r)
      BY <1>0, <2>1, <3>1 DEF Extends
    <3> QED
      BY <1>0, <2>1, <3>1, <3>2
  <2>3. /\ pc[r] \in Steps /\ StepAfter[pc[r]] # "success" /\ Goto(r, StepAfter[pc[r]])
        /\ StepAfter[pc[r]] \in AfterSnapshot => pc[r] \in AfterSnapshot
    BY <1>3, <2>1 DEF Layer, Steps, Layers, StepAfter, AfterSnapshot
  <2>4. CASE ws' = ws
    BY <1>1, <1>2, <2>1, <2>3, <2>4
  <2>5. CASE Write(r, pc[r], {r})
    BY <2>1, <2>2, <2>3, <2>5
  <2> QED
    BY <1>3, <2>4, <2>5 DEF Layer
<1>4. CASE Snapshot(r)
  <2>1. CASE SnapshotTaken(r)
    <3>1. PICK w \in Workspace :
             /\ ws' = [ws EXCEPT ![r] = w]
             /\ w["paper-status"] = {r}
             /\ w["paper-history"] = ws[r]["paper-history"] \cup {r}
             /\ \A f \in Files \ {"paper-status", "paper-history"} : w[f] = ws[r][f]
      BY <2>1, SnapshotWrites
    <3>2. Extends(w, r)
      BY <1>0, <3>1 DEF Extends
    <3> QED
      BY <1>4, <2>1, <3>1, <3>2 DEF Snapshot, SnapshotTaken, Steps
  <2>2. ASSUME Write(r, "paper-status", {r}), Goto(r, "failure")
        PROVE  \E w \in Workspace : ws' = [ws EXCEPT ![r] = w] /\ Extends(w, r)
    <3>1. PICK w \in Workspace :
            /\ ws' = [ws EXCEPT ![r] = w] /\ w["paper-status"] = {r}
            /\ \A g \in Files \ {"paper-status"} : w[g] = ws[r][g]
      BY <1>0, <2>2, FileWritten
    <3> QED
      BY <1>0, <3>1 DEF Extends
  <2>3. /\ "failure" \in Results /\ "failure" \notin Steps /\ "snapshot" \in Steps
        /\ "failure" \notin AfterSnapshot
    BY DEF Results, Steps, Layers, AfterSnapshot
  <2> QED
    BY <1>1, <1>2, <1>4, <2>1, <2>2, <2>3 DEF Snapshot
<1>5. CASE Orders(r)
  <2>1. ASSUME Write(r, "orders-log", ws[r]["orders-log"] \cup {r})
        PROVE  \E w \in Workspace :
                 /\ ws' = [ws EXCEPT ![r] = w] /\ Extends(w, r)
                 /\ w["paper-status"] = ws[r]["paper-status"]
                 /\ w["paper-history"] = ws[r]["paper-history"]
    <3>2. PICK w \in Workspace :
            /\ ws' = [ws EXCEPT ![r] = w]
            /\ w["orders-log"] = ws[r]["orders-log"] \cup {r}
            /\ \A g \in Files \ {"orders-log"} : w[g] = ws[r][g]
      <4>1. ws[r]["orders-log"] \cup {r} \in SUBSET (Runs \cup Past) /\ "orders-log" \in Files
        BY <1>0, <1>2 DEF Workspace
      <4> QED
        BY <2>1, <4>1, FileWritten
    <3> QED
      BY <1>0, <3>2 DEF Extends
  <2>2. "briefing" \in Steps /\ "orders" \in Steps /\ "orders" \in AfterSnapshot
    BY DEF Steps, Layers, AfterSnapshot
  <2> QED
    BY <1>1, <1>2, <1>5, <2>1, <2>2 DEF Orders
<1> QED
  BY <1>3, <1>4, <1>5

LEMMA StepTyped == TypeOK /\ [Next]_vars => TypeOK'
<1> SUFFICES ASSUME TypeOK, [Next]_vars  PROVE TypeOK'
  OBVIOUS
<1>1. ASSUME NEW r \in Runs, Layer(r) \/ Snapshot(r) \/ Orders(r)  PROVE TypeOK'
  <2>1. PICK w \in Workspace, step \in Steps \cup Results :
          ws' = [ws EXCEPT ![r] = w] /\ Goto(r, step) /\ Extends(w, r)
    BY <1>1, JobWrites
  <2>2. \A f \in Files \ Appended : OneJob(w[f])
    <3>1. OneJob({r}) /\ \A f \in Files \ Appended : OneJob(ws[r][f])
      <4>1. OneJob({r})
        BY DEF OneJob
      <4> QED
        BY <4>1 DEF TypeOK
    <3> QED
      BY <2>1, <3>1 DEF Extends
  <2>3. UNCHANGED <<base, head, main>> /\ traded' \subseteq Runs
    BY <1>1 DEF Layer, Snapshot, Orders, TypeOK
  <2> QED
    BY <2>1, <2>2, <2>3, WorkspaceTyped
<1>2. ASSUME NEW r \in Runs, Checkout(r)  PROVE TypeOK'
  <2>1. /\ ws' = [ws EXCEPT ![r] = main] /\ main \in Workspace
        /\ \A f \in Files \ Appended : OneJob(main[f])
    BY <1>2 DEF Checkout, TypeOK, Workspace
  <2>2. /\ \A q \in Runs : ws'[q] = IF q = r THEN main ELSE ws[q]
        /\ ws' \in [Runs -> Workspace]
    BY <1>2, <2>1 DEF TypeOK, Workspace
  <2>3. \A f \in Files \ Appended : \A q \in Runs : OneJob(ws'[q][f])
    BY <2>1, <2>2 DEF TypeOK
  <2>4. /\ pc' \in [Runs -> {"idle"} \cup Steps \cup Results]
        /\ base' \in [Runs -> Nat]
        /\ UNCHANGED <<head, main, traded>>
    BY <1>2 DEF Checkout, Goto, TypeOK, Steps, Layers
  <2>5. \A f \in Files \ Appended : OneJob(main'[f])
    BY <2>1, <2>4
  <2> QED
    BY <2>2, <2>3, <2>4, <2>5 DEF TypeOK, Workspace
<1>3. ASSUME NEW r \in Runs, Commit(r)  PROVE TypeOK'
  <2>1. pc' \in [Runs -> {"idle"} \cup Steps \cup Results] /\ UNCHANGED <<base, ws, traded>>
    BY <1>3 DEF Commit, Push, Goto, TypeOK, Results
  <2>2. (main' = main /\ head' = head) \/ (main' = Committed(r) /\ head' = head + 1)
    BY <1>3 DEF Commit, Push
  <2>3. /\ main' \in Workspace /\ head' \in Nat
        /\ \A f \in Files \ Appended : OneJob(main'[f])
    <3>1. /\ Committed(r) \in Workspace
          /\ \A f \in Files : Committed(r)[f] \in {ws[r][f], main[f]}
      BY DEF Committed, TypeOK, Workspace
    <3> QED
      BY <2>2, <3>1 DEF TypeOK, Workspace
  <2> QED
    BY <2>1, <2>3 DEF TypeOK, Workspace
<1>4. ASSUME NEW r \in Runs, Cancel(r)  PROVE TypeOK'
  BY <1>4 DEF Cancel, Goto, TypeOK, Results
<1>5. CASE UNCHANGED vars
  BY <1>5 DEF vars, TypeOK
<1> QED
  BY <1>1, <1>2, <1>3, <1>4, <1>5 DEF Next

(* Every reachable state of the pipeline is well typed; an overwritten     *)
(* artifact never mixes two jobs.                                          *)
THEOREM TypeCorrect == Spec => []TypeOK
  BY InitTyped, StepTyped, PTL DEF Spec

-----------------------------------------------------------------------------
(* The invariant. *)

LEMMA InitSafe == Init => PipelineInv
  BY DEF Init, PipelineInv, CurrentJobsHaveMain, StatusIsInHistory, GreenMeansRecorded,
         Steps, Layers, Files, Tracked

(* A push keeps every row and every file that is on the main branch. *)
LEMMA PushExtends ==
  ASSUME TypeOK, PipelineInv, NEW r \in Runs, pc[r] = "commit", Push(r)
  PROVE  /\ \A f \in Appended : main[f] \subseteq main'[f]
         /\ \A f \in Files : main[f] # {} => main'[f] # {}
         /\ main'["paper-status"] \subseteq main'["paper-history"]
         /\ \A f \in Files : main'[f] \subseteq ws[r][f] \/ main'[f] = main[f]
         /\ r \in main'["paper-history"]
<1>1. main' = Committed(r) /\ base[r] = head
  BY DEF Push
<1>2. /\ \A f \in Files \cap Tracked : main'[f] = ws[r][f]
      /\ \A f \in Files \ Tracked : main'[f] = main[f]
  BY <1>1 DEF Committed
<1>3. /\ \A f \in Appended : main[f] \subseteq ws[r][f]
      /\ \A f \in Files : main[f] # {} => ws[r][f] # {}
      /\ ws[r]["paper-status"] \subseteq ws[r]["paper-history"]
      /\ r \in ws[r]["paper-history"]
  BY <1>1 DEF PipelineInv, CurrentJobsHaveMain, Steps, AfterSnapshot
<1>4. /\ {"paper-status", "paper-history"} \subseteq Files \cap Tracked
      /\ Appended \subseteq Files
  BY DEF Files, Tracked, Appended
<1> QED
  BY <1>2, <1>3, <1>4

LEMMA StepSafe == TypeOK /\ PipelineInv /\ [Next]_vars => PipelineInv'
<1> SUFFICES ASSUME TypeOK, PipelineInv, [Next]_vars  PROVE PipelineInv'
  OBVIOUS
<1>1. ASSUME NEW r \in Runs, Layer(r) \/ Snapshot(r) \/ Orders(r)  PROVE PipelineInv'
  <2>1. PICK w \in Workspace, step \in Steps \cup Results :
           /\ ws' = [ws EXCEPT ![r] = w] /\ Goto(r, step)
           /\ Extends(w, r)
           /\ pc[r] \in Steps /\ step # "success"
           /\ step \in Steps /\ ws[r]["paper-status"] \subseteq ws[r]["paper-history"] =>
                w["paper-status"] \subseteq w["paper-history"]
           /\ step \in AfterSnapshot /\ pc[r] \notin AfterSnapshot =>
                r \in w["paper-history"]
    BY <1>1, JobWrites
  <2>2. UNCHANGED <<base, head, main>>
    BY <1>1 DEF Layer, Snapshot, Orders
  <2>5. /\ ws'[r] = w /\ pc'[r] = step
        /\ \A q \in Runs \ {r} : ws'[q] = ws[q] /\ pc'[q] = pc[q]
    BY <2>1 DEF Goto, TypeOK
  <2>6. step \in AfterSnapshot => r \in w["paper-history"]
    BY <2>1 DEF PipelineInv, CurrentJobsHaveMain, Extends, Appended
  <2>3. CurrentJobsHaveMain'
    BY <2>1, <2>2, <2>5, <2>6 DEF PipelineInv, CurrentJobsHaveMain, Extends
  <2>4. GreenMeansRecorded'
    BY <2>1, <2>2 DEF PipelineInv, GreenMeansRecorded, Staged, Goto, TypeOK
  <2> QED
    BY <2>2, <2>3, <2>4 DEF PipelineInv, StatusIsInHistory
<1>2. ASSUME NEW r \in Runs, Checkout(r)  PROVE PipelineInv'
  <2>1. CurrentJobsHaveMain'
    BY <1>2 DEF PipelineInv, CurrentJobsHaveMain, StatusIsInHistory, Checkout, Goto, TypeOK,
       AfterSnapshot
  <2>2. GreenMeansRecorded'
    BY <1>2 DEF PipelineInv, GreenMeansRecorded, Staged, Checkout, Goto, TypeOK
  <2> QED
    BY <1>2, <2>1, <2>2 DEF PipelineInv, StatusIsInHistory, Checkout
<1>3. ASSUME NEW r \in Runs, Commit(r)  PROVE PipelineInv'
  <2>1. ws' = ws /\ base' = base /\ pc[r] = "commit" /\ "commit" \in Steps
    BY <1>3 DEF Commit, Steps
  <2>2. CASE Staged(r) /\ Push(r)
    <3>1. /\ \A f \in Appended : main[f] \subseteq main'[f]
          /\ main'["paper-status"] \subseteq main'["paper-history"]
          /\ r \in main'["paper-history"]
      BY <2>1, <2>2, PushExtends
    <3>2. head' = head + 1 /\ base \in [Runs -> Nat] /\ head \in Nat
      BY <2>2 DEF Push, TypeOK
    <3>3. pc' = [pc EXCEPT ![r] = "success"] /\ "success" \notin Steps
      BY <2>2 DEF Push, Goto, Steps, Layers
    <3>4. CurrentJobsHaveMain'
      BY <2>1, <3>2, <3>3 DEF PipelineInv, CurrentJobsHaveMain, TypeOK
    <3>5. GreenMeansRecorded'
      BY <2>1, <3>1, <3>2, <3>3 DEF PipelineInv, GreenMeansRecorded, Staged, TypeOK, Appended
    <3> QED
      BY <3>1, <3>4, <3>5 DEF PipelineInv, StatusIsInHistory
  <2>3. CASE /\ UNCHANGED <<head, main>>
             /\ \/ ~Staged(r) /\ Goto(r, "success")
                \/ Goto(r, "failure")
    <3>1. CurrentJobsHaveMain'
      BY <2>1, <2>3 DEF PipelineInv, CurrentJobsHaveMain, Goto, TypeOK, Steps, Layers
    <3>2. GreenMeansRecorded'
      BY <2>1, <2>3 DEF PipelineInv, GreenMeansRecorded, Staged, Goto, TypeOK
    <3> QED
      BY <2>3, <3>1, <3>2 DEF PipelineInv, StatusIsInHistory
  <2> QED
    BY <1>3, <2>2, <2>3 DEF Commit
<1>4. ASSUME NEW r \in Runs, Cancel(r)  PROVE PipelineInv'
  BY <1>4 DEF Cancel, Goto, TypeOK, PipelineInv, CurrentJobsHaveMain, StatusIsInHistory,
     GreenMeansRecorded, Staged, Steps, Layers
<1>5. CASE UNCHANGED vars
  BY <1>5 DEF vars, PipelineInv, CurrentJobsHaveMain, StatusIsInHistory,
     GreenMeansRecorded, Staged
<1> QED
  BY <1>1, <1>2, <1>3, <1>4, <1>5 DEF Next

(* daily-paper.yml:261-278: a job whose base is still the head of main has *)
(* everything main has, so what it pushes loses nothing; the pushed status *)
(* has its history row; the orders of a green job stay recorded.           *)
THEOREM PipelineInvHolds == Spec => []PipelineInv
  BY InitTyped, StepTyped, InitSafe, StepSafe, PTL DEF Spec

(* daily-paper.yml:144-148: the status on the main branch always has its   *)
(* row in the history beside it, for any number of overlapping jobs,       *)
(* however their layers and the snapshot fail.                             *)
THEOREM StatusHasItsRow == Spec => []StatusIsInHistory
<1>1. PipelineInv => StatusIsInHistory
  BY DEF PipelineInv
<1> QED
  BY <1>1, PipelineInvHolds, PTL

(* daily-paper.yml:12 "commit artifacts": the snapshot of a green job that *)
(* had files to stage is in the history on the main branch, and stays      *)
(* there however many jobs push after it or are cancelled.                 *)
THEOREM GreenJobsAreRecorded == Spec => []GreenMeansRecorded
<1>1. PipelineInv => GreenMeansRecorded
  BY DEF PipelineInv
<1> QED
  BY <1>1, PipelineInvHolds, PTL

(* orders_log.py:19 "Append-only": however many jobs overlap, no push      *)
(* takes a row out of the history or the order log on the main branch.     *)
THEOREM AuditTrailOnlyGrows == Spec => AuditTrailGrows
<1>1. TypeOK /\ PipelineInv /\ [Next]_vars =>
        [/\ \A f \in Appended : main[f] \subseteq main'[f]
         /\ \A f \in Files : main[f] # {} => main'[f] # {}]_vars
  <2> SUFFICES ASSUME TypeOK, PipelineInv, Next
               PROVE  /\ \A f \in Appended : main[f] \subseteq main'[f]
                      /\ \A f \in Files : main[f] # {} => main'[f] # {}
    OBVIOUS
  <2>1. CASE main' = main
    BY <2>1
  <2>2. ASSUME NEW r \in Runs, pc[r] = "commit", Push(r)
        PROVE  /\ \A f \in Appended : main[f] \subseteq main'[f]
               /\ \A f \in Files : main[f] # {} => main'[f] # {}
    BY <2>2, PushExtends
  <2> QED
    BY <2>1, <2>2 DEF Next, Checkout, Layer, Snapshot, Orders, Commit, Cancel
<1> QED
  BY <1>1, InitTyped, StepTyped, InitSafe, StepSafe, PTL DEF Spec, AuditTrailGrows
-----------------------------------------------------------------------------
(***************************************************************************)
(* LlmLayers: the commands that write the layers, for any articles,        *)
(* candidates, permits and commands in any order.                          *)
(***************************************************************************)
Models == {"groq", "smart", "fast", "pro", "k2.6"}
Words  == {"none", "neutral", "bearish", "bullish", "fda_approval", "lawsuit",
           "risk_on", "risk_off", "APPROVE", "FLAG", "REJECT", "narrative"}
TaskRows == [phase : {"news", "queued", "asking", "pausing", "answered", "dropped"}, at : Nat,
             model : Models \cup {"none", "fallback"}, value : Words]

(* Why a coroutine gave up: the last model of its chain failed, or one     *)
(* answered what nobody can read, of the catalysts not the first.          *)
Exhausted(t) ==
  \/ <<t, Len(Chain(command)), "raise">> \in answers
  \/ /\ \E a \in {"prose", "list", "nested"} : <<t, task[t].at, a>> \in answers
     /\ command = "fetch-catalysts" => task[t].at > 1

(* What a coroutine that has an answer got, and from whom. *)
HasAnswer(t) ==
  \/ \E v \in Good(command) : /\ <<t, task[t].at, v>> \in answers
                              /\ task[t].value = Understood(command, v)
                              /\ task[t].model = Chain(command)[task[t].at]
  \/ /\ command = "paper now" /\ task[t].model = "fallback"
     /\ task[t].value = "APPROVE" /\ Exhausted(t)

TaskOK(t) ==
  /\ task[t] \in TaskRows
  /\ task[t].at \in 1 .. Len(Chain(command))
  /\ task[t].phase = "pausing" => command = "fetch-sentiment"
  /\ task[t].phase \in {"news", "queued", "asking"} => task[t].model = "none"
  /\ task[t].phase \in {"pausing", "answered"} => HasAnswer(t)
  /\ task[t].phase = "dropped" => Exhausted(t)

TasksOK == \A t \in DOMAIN task : TaskOK(t)

(* Of which task and model an answer is; an answer that could be used ended *)
(* the coroutine, which has it.                                             *)
AnswersOK ==
  \A e \in answers :
    /\ e[1] \in DOMAIN task /\ e[2] \in 1 .. task[e[1]].at
    /\ e[3] \in Good(command) =>
         /\ task[e[1]].phase \in {"pausing", "answered"}
         /\ task[e[1]].value = Understood(command, e[3])

(* What the commands are about, and where one may stand. *)
DayOK ==
  /\ todo \in Seq(Commands)
  /\ DOMAIN news \subseteq Articles /\ DOMAIN score \subseteq Symbols
  /\ score \in [DOMAIN score -> Int]
  /\ files = [c \in Artifacts |-> files[c]]
  /\ stage \in {"start", "gather", "write", "end"}
  /\ mult \in {50, 85, 100}
  /\ targets \subseteq Symbols /\ Cardinality(targets) <= TopK

StageOK ==
  /\ stage = "start" => task = NoTasks /\ answers = {}
  /\ stage # "start" => Running
  /\ stage = "write" => command # "paper now"
  /\ stage \in {"write", "end"} => \A t \in DOMAIN task : task[t].phase \in {"answered", "dropped"}

(* Whom a command may ask about. *)
AskedOK ==
  /\ DOMAIN task \subseteq Tasks
  /\ Running =>
       /\ command \in {"fetch-sentiment", "fetch-catalysts"} => DOMAIN task \subseteq DOMAIN news
       /\ command = "fetch-sentiment" => \A t \in DOMAIN task : Dated(t)
       /\ command = "paper now" => DOMAIN task \subseteq DOMAIN score

Holders == {t \in DOMAIN task : task[t].phase \in {"asking", "pausing"}}
PermitsOK == free \in Nat /\ free + Cardinality(Holders) = MaxConcurrent

(* What a command at its end has made of its tasks. *)
ResultOK ==
  stage = "end" =>
    /\ command = "fetch-sentiment" => files[command].rows = AggregatePerSymbolDay
    /\ command = "fetch-catalysts" => files[command].rows = Tags
    /\ command = "paper now" => targets \in TopOf(filter_by_sanity, Adjusted, TopK)

LayersInv == DayOK /\ StageOK /\ AskedOK /\ TasksOK /\ AnswersOK /\ PermitsOK /\ ResultOK

(* Who may be asked: chains are not empty, and nobody in them is called as *)
(* a coroutine is marked that has no answer.                               *)
LEMMA ChainsAreKnown ==
  ASSUME NEW c \in Commands
  PROVE  /\ Chain(c) \in Seq(Models) /\ Len(Chain(c)) \in Nat \ {0}
         /\ c = "fetch-sentiment" => Len(Chain(c)) = 1
         /\ c = "fetch-catalysts" => Len(Chain(c)) = 5
         /\ \A n \in 1 .. Len(Chain(c)) : Chain(c)[n] \in Models
<1>1. FallbackChain \in Seq(Models) /\ Len(FallbackChain) = 4
  BY DEF FallbackChain, Models
<1>2. /\ <<"fast">> \in Seq(Models) /\ Len(<<"fast">>) = 1
      /\ <<"groq">> \in Seq(Models) /\ Len(<<"groq">>) = 1
  BY DEF Models
<1>3. <<"fast">> \o FallbackChain \in Seq(Models) /\ Len(<<"fast">> \o FallbackChain) = 5
  <2>1. PICK first, rest : first = <<"fast">> /\ rest = FallbackChain
    OBVIOUS
  <2>2. first \in Seq(Models) /\ Len(first) = 1 /\ rest \in Seq(Models) /\ Len(rest) = 4
    BY <2>1, <1>1, <1>2
  <2>3. first \o rest \in Seq(Models) /\ Len(first \o rest) = Len(first) + Len(rest)
    BY <2>2, ConcatProperties
  <2> QED
    BY <2>1, <2>2, <2>3
<1>4. /\ Chain(c) \in Seq(Models) /\ Len(Chain(c)) \in Nat \ {0}
      /\ c = "fetch-sentiment" => Len(Chain(c)) = 1
      /\ c = "fetch-catalysts" => Len(Chain(c)) = 5
  <2>1. CASE c = "fetch-sentiment"
    BY <2>1, <1>2 DEF Chain
  <2>2. CASE c = "fetch-catalysts"
    <3>1. Chain(c) = <<"fast">> \o FallbackChain
      BY <2>2 DEF Chain
    <3> QED
      BY <3>1, <1>3, <2>2
  <2>3. CASE c \notin {"fetch-sentiment", "fetch-catalysts"}
    <3>1. Chain(c) = FallbackChain
      BY <2>3 DEF Chain
    <3> QED
      BY <3>1, <1>1, <2>3
  <2> QED
    BY <2>1, <2>2, <2>3
<1> QED
  BY <1>4

(* What a layer makes of an answer is a word of its own.                   *)
LEMMA WordsAreKnown ==
  ASSUME NEW c \in Commands, NEW v \in Good(c)
  PROVE  Understood(c, v) \in Words
<1>1. v \in Vocabulary(c) \cup {"odd", "nested"}
  BY DEF Good, Answers, Unusable
<1>2. Vocabulary(c) \subseteq Words
  BY DEF Commands, Artifacts, Vocabulary, Words
<1>3. Default(c) \in Words
  BY DEF Commands, Artifacts, Default, Words
<1> QED
  BY <1>1, <1>2, <1>3 DEF Understood

LEMMA CommandKnown ==
  ASSUME DayOK, Running
  PROVE  command \in Commands /\ Tail(todo) \in Seq(Commands)
  BY DEF DayOK, Running, command

LEMMA SetsFinite ==
  ASSUME DayOK, AskedOK
  PROVE  /\ IsFiniteSet(DOMAIN task) /\ IsFiniteSet(DOMAIN score)
         /\ IsFiniteSet(Tasks)
<1>1. IsFiniteSet({Whole})
  BY FS_Singleton
<1>2. IsFiniteSet(Articles \cup Symbols)
  BY FS_Union, LlmAssumption
<1>3. IsFiniteSet(Tasks)
  BY <1>1, <1>2, FS_Union DEF Tasks
<1> QED
  BY <1>3, FS_Subset, LlmAssumption DEF DayOK, AskedOK

(* The chosen are of those there are, and no more than asked for.          *)
LEMMA TopIsSmall ==
  ASSUME NEW from, IsFiniteSet(from), NEW by, NEW k \in Nat, NEW top \in TopOf(from, by, k)
  PROVE  top \subseteq from /\ Cardinality(top) <= k
<1>1. Cardinality(from) \in Nat
  BY FS_CardinalityType
<1>2. Cardinality(top) = IF Cardinality(from) < k THEN Cardinality(from) ELSE k
  BY DEF TopOf
<1> QED
  BY <1>1, <1>2 DEF TopOf

(* Between commands nothing is under way.                                  *)
LEMMA NextCommandKeeps ==
  ASSUME LayersInv, Running, NextCommand,
         UNCHANGED <<given, mult>>, files' = [c \in Artifacts |-> files'[c]],
         targets' \subseteq Symbols, Cardinality(targets') <= TopK
  PROVE  LayersInv'
<1>1. task' = NoTasks /\ answers' = {} /\ stage' = "start" /\ free' = MaxConcurrent /\ todo' = Tail(todo)
  BY DEF NextCommand
<1>2. DOMAIN task' = {}
  BY <1>1 DEF NoTasks
<1>3. DayOK'
  BY <1>1, CommandKnown DEF LayersInv, DayOK, given
<1>4. StageOK'
  BY <1>1 DEF StageOK, NoTasks
<1>5. AskedOK'
  BY <1>2 DEF AskedOK
<1>6. TasksOK' /\ AnswersOK'
  BY <1>1, <1>2 DEF TasksOK, AnswersOK
<1>7. Holders' = {}
  BY <1>2 DEF Holders
<1>8. PermitsOK'
  BY <1>1, <1>7, FS_EmptySet, LlmAssumption DEF PermitsOK
<1>9. ResultOK'
  BY <1>1 DEF ResultOK
<1> QED
  BY <1>3, <1>4, <1>5, <1>6, <1>8, <1>9 DEF LayersInv

LEMMA AbandonKeeps ==
  ASSUME LayersInv, Running, NEW cause, Abandon(cause), UNCHANGED mult
  PROVE  LayersInv'
<1>1. targets' \subseteq Symbols /\ Cardinality(targets') <= TopK
  <2>1. CASE command = "paper now"
    <3>1. targets' \in TopOf(DOMAIN score, score, TopK)
      BY <2>1 DEF Abandon
    <3>2. IsFiniteSet(DOMAIN score) /\ DOMAIN score \subseteq Symbols /\ TopK \in Nat
      BY SetsFinite, LlmAssumption DEF LayersInv, DayOK
    <3> QED
      BY <3>1, <3>2, TopIsSmall
  <2>2. CASE command # "paper now"
    BY <2>2 DEF Abandon, LayersInv, DayOK
  <2> QED
    BY <2>1, <2>2
<1>2. UNCHANGED <<given, files>> /\ NextCommand
  BY DEF Abandon
<1>3. files' = [c \in Artifacts |-> files'[c]]
  BY <1>2 DEF LayersInv, DayOK
<1>4. UNCHANGED <<given, mult>>
  BY <1>2
<1> HIDE DEF given, NextCommand
<1> QED
  BY <1>1, <1>2, <1>3, <1>4, NextCommandKeeps

LEMMA EndKeeps ==
  ASSUME LayersInv, EndCommand \/ Killed
  PROVE  LayersInv'
<1>1. Running /\ NextCommand /\ UNCHANGED <<given, files, mult, targets>>
  BY DEF EndCommand, Killed
<1>2. files' = [c \in Artifacts |-> files'[c]] /\ targets' \subseteq Symbols /\ Cardinality(targets') <= TopK
  BY <1>1 DEF LayersInv, DayOK
<1>3. UNCHANGED <<given, mult>>
  BY <1>1
<1> HIDE DEF given
<1> QED
  BY <1>1, <1>2, <1>3, NextCommandKeeps

LEMMA StartKeeps ==
  ASSUME LayersInv, Start
  PROVE  LayersInv'
<1>1. PICK fetched \in Fetched, newsOpens \in BOOLEAN :
        IF InputsReadable /\ AdapterOpens(fetched, newsOpens)
        THEN /\ task' = [t \in Questions(fetched) |->
                  [phase |-> IF command = "paper now" THEN "news" ELSE "queued",
                   at |-> 1, model |-> "none", value |-> "none"]]
             /\ stage' = "gather"
             /\ mult' = IF command = "paper now" THEN RegimeMultiplier ELSE mult
             /\ UNCHANGED <<todo, given, free, answers, abandoned, files, targets, filtered>>
        ELSE Abandon("no adapter") /\ UNCHANGED mult
  BY DEF Start
<1>2. Running /\ stage = "start"
  BY DEF Start
<1>3. CASE ~(InputsReadable /\ AdapterOpens(fetched, newsOpens))
  BY <1>1, <1>2, <1>3, AbandonKeeps
<1>4. CASE InputsReadable /\ AdapterOpens(fetched, newsOpens)
  <2>1. /\ task' = [t \in Questions(fetched) |->
                     [phase |-> IF command = "paper now" THEN "news" ELSE "queued",
                      at |-> 1, model |-> "none", value |-> "none"]]
        /\ stage' = "gather"
        /\ mult' = IF command = "paper now" THEN RegimeMultiplier ELSE mult
        /\ UNCHANGED <<todo, news, score, key, today, free, answers, files, targets>>
    BY <1>1, <1>4 DEF given
  <2>2. command \in Commands /\ command' = command /\ Running'
    BY <1>2, <2>1, CommandKnown DEF LayersInv, command, Running
  <2>3. /\ Questions(fetched) \subseteq Tasks
        /\ command \in {"fetch-sentiment", "fetch-catalysts"} => Questions(fetched) \subseteq DOMAIN news
        /\ command = "fetch-sentiment" => \A t \in Questions(fetched) : Dated(t)
        /\ command = "paper now" => Questions(fetched) \subseteq DOMAIN score
    <3>0. DOMAIN news \subseteq Tasks /\ DOMAIN score \subseteq Tasks /\ Whole \in Tasks
      BY DEF LayersInv, DayOK, Tasks
    <3>1. CASE command \in {"fetch-sentiment", "fetch-catalysts"}
      BY <3>0, <3>1 DEF Fetched, Questions
    <3>2. CASE command \in {"classify-regime", "briefing"}
      BY <3>0, <3>2 DEF Fetched, Questions
    <3>3. CASE command = "paper now"
      <4>1. fetched \in TopOf(DOMAIN score, score, PoolSize)
        BY <3>3 DEF Fetched
      <4>2. fetched \subseteq DOMAIN score
        BY <4>1 DEF TopOf
      <4> QED
        BY <4>2, <3>0, <3>3 DEF Questions
    <3> QED
      BY <2>2, <3>1, <3>2, <3>3 DEF Commands, Artifacts
  <2>4. DOMAIN task' = Questions(fetched)
    BY <2>1
  <2>5. DayOK'
    <3>1. mult' \in {50, 85, 100}
      BY <2>1 DEF RegimeMultiplier, regime_conviction_multiplier, LayersInv, DayOK
    <3> QED
      BY <2>1, <3>1 DEF LayersInv, DayOK
  <2>6. StageOK'
    BY <2>1, <2>2 DEF StageOK
  <2>7. AskedOK'
    BY <2>1, <2>2, <2>3, <2>4 DEF AskedOK, Dated
  <2>8. TasksOK'
    <3> SUFFICES ASSUME NEW t \in Questions(fetched)  PROVE TaskOK(t)'
      BY <2>4 DEF TasksOK
    <3>1. task'[t] = [phase |-> IF command = "paper now" THEN "news" ELSE "queued",
                      at |-> 1, model |-> "none", value |-> "none"]
      BY <2>1
    <3>2. Chain(command)' = Chain(command)
      BY <2>1, <2>2 DEF Chain
    <3>3. 1 \in 1 .. Len(Chain(command))
      BY <2>2, ChainsAreKnown
    <3>4. /\ task'[t].phase \in {"news", "queued"} /\ task'[t].at = 1
          /\ task'[t].model = "none" /\ task'[t].value = "none"
      <4>1. CASE command = "paper now"
        <5>1. task'[t] = [phase |-> "news", at |-> 1, model |-> "none", value |-> "none"]
          BY <3>1, <4>1
        <5> QED
          BY <5>1
      <4>2. CASE command # "paper now"
        <5>1. task'[t] = [phase |-> "queued", at |-> 1, model |-> "none", value |-> "none"]
          BY <3>1, <4>2
        <5> QED
          BY <5>1
      <4> QED
        BY <4>1, <4>2
    <3>5. task'[t] \in TaskRows
      <4>1. CASE command = "paper now"
        <5>1. task'[t] = [phase |-> "news", at |-> 1, model |-> "none", value |-> "none"]
          BY <3>1, <4>1
        <5> QED
          BY <5>1 DEF TaskRows, Words
      <4>2. CASE command # "paper now"
        <5>1. task'[t] = [phase |-> "queued", at |-> 1, model |-> "none", value |-> "none"]
          BY <3>1, <4>2
        <5> QED
          BY <5>1 DEF TaskRows, Words
      <4> QED
        BY <4>1, <4>2
    <3> QED
      BY <3>2, <3>3, <3>4, <3>5 DEF TaskOK
  <2>9. AnswersOK'
    BY <1>2, <2>1 DEF AnswersOK, LayersInv, StageOK
  <2>10. PermitsOK'
    <3>1. Holders = {} /\ Holders' = {}
      <4>1. DOMAIN task = {}
        BY <1>2 DEF LayersInv, StageOK, NoTasks
      <4>2. \A t \in DOMAIN task' : task'[t].phase \notin {"asking", "pausing"}
        BY <2>1
      <4> QED
        BY <4>1, <4>2 DEF Holders
    <3> QED
      BY <3>1, <2>1 DEF LayersInv, PermitsOK
  <2>11. ResultOK'
    BY <2>1 DEF ResultOK
  <2> QED
    BY <2>5, <2>6, <2>7, <2>8, <2>9, <2>10, <2>11 DEF LayersInv
<1> QED
  BY <1>3, <1>4

-----------------------------------------------------------------------------
(* One coroutine moves while its command gathers; answers are only added.  *)
CoroutineMoves(t, row) ==
  /\ Running /\ stage = "gather" /\ t \in DOMAIN task
  /\ task' = [task EXCEPT ![t] = row]
  /\ row \in TaskRows
  /\ row.at \in task[t].at .. Len(Chain(command))
  /\ row.phase = "pausing" => command = "fetch-sentiment"
  /\ row.phase \in {"news", "queued", "asking"} => row.model = "none"
  /\ UNCHANGED <<todo, news, score, key, today, stage, files, mult, targets>>
  /\ answers \subseteq answers'

LEMMA CommandStays ==
  ASSUME UNCHANGED todo
  PROVE  /\ command' = command /\ (Running <=> Running')
         /\ Commands' = Commands /\ FallbackChain' = FallbackChain
  BY DEF command, Running

(* What does not depend on the row that moved. *)
LEMMA MovesKeepTheRest ==
  ASSUME LayersInv, NEW t, NEW row, CoroutineMoves(t, row)
  PROVE  /\ DayOK' /\ StageOK' /\ AskedOK' /\ ResultOK'
         /\ DOMAIN task' = DOMAIN task /\ task'[t] = row
         /\ \A u \in DOMAIN task : u # t => task'[u] = task[u]
         /\ command' = command /\ Chain(command)' = Chain(command) /\ command \in Commands
<1>1. /\ DOMAIN task' = DOMAIN task /\ task'[t] = row
      /\ \A u \in DOMAIN task : u # t => task'[u] = task[u]
  BY DEF CoroutineMoves
<1>2. UNCHANGED <<todo, news, score, key, today, stage, files, mult, targets>> /\ stage = "gather" /\ Running
  BY DEF CoroutineMoves
<1>3. command' = command /\ Running' /\ command \in Commands
  BY <1>2, CommandKnown DEF LayersInv, command, Running
<1>4. Chain(command)' = Chain(command)
  BY <1>2, <1>3 DEF Chain
<1>5. DayOK'
  BY <1>2 DEF LayersInv, DayOK
<1>6. StageOK'
  BY <1>2, <1>3 DEF StageOK
<1>7. AskedOK'
  BY <1>1, <1>2, <1>3 DEF LayersInv, AskedOK, Dated
<1>8. ResultOK'
  BY <1>2 DEF ResultOK
<1> QED
  BY <1>1, <1>3, <1>4, <1>5, <1>6, <1>7, <1>8

(* An answer that is there stays, so that what rests on it stays.          *)
LEMMA OtherTasksStay ==
  ASSUME LayersInv, NEW t, NEW row, CoroutineMoves(t, row),
         NEW u \in DOMAIN task, u # t
  PROVE  TaskOK(u)'
<1>1. /\ task'[u] = task[u] /\ command' = command /\ Chain(command)' = Chain(command)
      /\ answers \subseteq answers' /\ TaskOK(u)
  BY MovesKeepTheRest DEF CoroutineMoves, LayersInv, TasksOK
<1>2. Good(command)' = Good(command) /\ \A v : Understood(command, v)' = Understood(command, v)
  BY <1>1 DEF Good, Answers, Vocabulary, Understood, Default
<1>3. Exhausted(u) => Exhausted(u)'
  BY <1>1 DEF Exhausted
<1>4. HasAnswer(u) => HasAnswer(u)'
  BY <1>1, <1>2, <1>3 DEF HasAnswer
<1> QED
  BY <1>1, <1>3, <1>4 DEF TaskOK

LEMMA GoodStays ==
  ASSUME command' = command
  PROVE  Good(command)' = Good(command) /\ \A v : Understood(command, v)' = Understood(command, v)
  BY DEF Good, Answers, Vocabulary, Understood, Default

(* A step that asks nobody: the row keeps what it has. *)
LEMMA SilentMoveKeeps ==
  ASSUME LayersInv, NEW t, NEW row, CoroutineMoves(t, row), UNCHANGED answers,
         row.at = task[t].at, row.model = task[t].model, row.value = task[t].value,
         task[t].phase # "answered", row.phase # "dropped",
         task[t].phase = "pausing" <=> row.phase = "answered", row.phase # "pausing",
         PermitsOK'
  PROVE  LayersInv'
<1>1. /\ DayOK' /\ StageOK' /\ AskedOK' /\ ResultOK'
      /\ DOMAIN task' = DOMAIN task /\ task'[t] = row /\ t \in DOMAIN task
      /\ \A u \in DOMAIN task : u # t => task'[u] = task[u]
      /\ command' = command /\ Chain(command)' = Chain(command)
  BY MovesKeepTheRest DEF CoroutineMoves
<1>2. Good(command)' = Good(command) /\ \A v : Understood(command, v)' = Understood(command, v)
  BY <1>1, GoodStays
<1>3. TaskOK(t)'
  <2>1. HasAnswer(t) => HasAnswer(t)'
    <3>1. Exhausted(t) => Exhausted(t)'
      BY <1>1 DEF Exhausted
    <3> QED
      BY <1>1, <1>2, <3>1 DEF HasAnswer
  <2>2. TaskOK(t)
    BY <1>1 DEF LayersInv, TasksOK
  <2>3. row.phase = "answered" => HasAnswer(t)
    BY <2>2 DEF TaskOK
  <2>4. row.at \in 1 .. Len(Chain(command))
    BY <2>2 DEF TaskOK
  <2> QED
    BY <1>1, <2>1, <2>3, <2>4 DEF TaskOK, CoroutineMoves
<1>4. TasksOK'
  BY <1>1, <1>3, OtherTasksStay DEF TasksOK
<1>5. AnswersOK'
  <2> SUFFICES ASSUME NEW e \in answers
               PROVE  /\ e[1] \in DOMAIN task /\ e[2] \in 1 .. task'[e[1]].at
                      /\ e[3] \in Good(command) =>
                           /\ task'[e[1]].phase \in {"pausing", "answered"}
                           /\ task'[e[1]].value = Understood(command, e[3])
    BY <1>1, <1>2 DEF AnswersOK
  <2>1. /\ e[1] \in DOMAIN task /\ e[2] \in 1 .. task[e[1]].at
        /\ e[3] \in Good(command) =>
             /\ task[e[1]].phase \in {"pausing", "answered"}
             /\ task[e[1]].value = Understood(command, e[3])
    BY DEF LayersInv, AnswersOK
  <2>2. CASE e[1] = t
    BY <2>1, <2>2, <1>1
  <2>3. CASE e[1] # t
    BY <2>1, <2>3, <1>1
  <2> QED
    BY <2>2, <2>3
<1> QED
  BY <1>1, <1>4, <1>5 DEF LayersInv

(* Permits: who takes one holds it, who gives one back held it.            *)
LEMMA PermitsMove ==
  ASSUME LayersInv, NEW t, NEW row, CoroutineMoves(t, row)
  PROVE  /\ (task[t].phase \in {"asking", "pausing"} <=> row.phase \in {"asking", "pausing"})
              /\ free' = free => PermitsOK'
         /\ task[t].phase \notin {"asking", "pausing"} /\ row.phase \in {"asking", "pausing"}
              /\ free > 0 /\ free' = free - 1 => PermitsOK'
         /\ task[t].phase \in {"asking", "pausing"} /\ row.phase \notin {"asking", "pausing"}
              /\ free' = free + 1 => PermitsOK'
<1>1. /\ DOMAIN task' = DOMAIN task /\ task'[t] = row /\ t \in DOMAIN task
      /\ \A u \in DOMAIN task : u # t => task'[u] = task[u]
  BY MovesKeepTheRest DEF CoroutineMoves
<1>2. IsFiniteSet(Holders)
  BY SetsFinite, FS_Subset DEF Holders, LayersInv
<1>3. Cardinality(Holders) \in Nat /\ free \in Nat /\ free + Cardinality(Holders) = MaxConcurrent
  BY <1>2, FS_CardinalityType DEF LayersInv, PermitsOK
<1>4. CASE task[t].phase \in {"asking", "pausing"} <=> row.phase \in {"asking", "pausing"}
  <2>1. Holders' = Holders
    BY <1>1, <1>4 DEF Holders
  <2> QED
    BY <2>1, <1>3, <1>4 DEF PermitsOK
<1>5. CASE task[t].phase \notin {"asking", "pausing"} /\ row.phase \in {"asking", "pausing"}
  <2>1. Holders' = Holders \cup {t} /\ t \notin Holders
    BY <1>1, <1>5 DEF Holders
  <2>2. Cardinality(Holders \cup {t}) = Cardinality(Holders) + 1
    BY <2>1, <1>2, FS_AddElement
  <2> QED
    BY <2>1, <2>2, <1>3, <1>5 DEF PermitsOK
<1>6. CASE task[t].phase \in {"asking", "pausing"} /\ row.phase \notin {"asking", "pausing"}
  <2>1. Holders' = Holders \ {t} /\ t \in Holders
    BY <1>1, <1>6 DEF Holders
  <2>2. Cardinality(Holders \ {t}) = Cardinality(Holders) - 1
    BY <2>1, <1>2, FS_RemoveElement
  <2>3. Cardinality(Holders \ {t}) \in Nat
    BY <1>2, FS_RemoveElement, FS_CardinalityType
  <2> QED
    BY <2>1, <2>2, <2>3, <1>3, <1>6 DEF PermitsOK
<1> QED
  BY <1>4, <1>5, <1>6

LEMMA FetchHeadlinesKeeps ==
  ASSUME LayersInv, NEW t, FetchHeadlines(t)
  PROVE  LayersInv'
<1> DEFINE row == [task[t] EXCEPT !.phase = "queued"]
<1>1. In(t, "news") /\ task' = [task EXCEPT ![t].phase = "queued"] /\ Rest /\ UNCHANGED <<free, answers>>
  BY DEF FetchHeadlines, Move
<1>2. /\ TaskOK(t) /\ t \in DOMAIN task /\ task[t].phase = "news"
      /\ task[t].at \in 1 .. Len(Chain(command)) /\ Len(Chain(command)) \in Nat
  BY <1>1, CommandKnown, ChainsAreKnown DEF In, LayersInv, TasksOK, TaskOK
<1>3. /\ row \in TaskRows /\ row.phase = "queued" /\ row.at = task[t].at
      /\ row.model = task[t].model /\ row.value = task[t].value
      /\ task' = [task EXCEPT ![t] = row]
  BY <1>1, <1>2 DEF TaskOK, TaskRows
<1> HIDE DEF row
<1>4. CoroutineMoves(t, row)
  <2>1. /\ Running /\ stage = "gather"
        /\ UNCHANGED <<todo, news, score, key, today, stage, files, mult, targets>>
    BY <1>1 DEF In, Rest, given
  <2>2. row.at \in task[t].at .. Len(Chain(command))
    BY <1>2, <1>3
  <2>3. row.phase \in {"news", "queued", "asking"} => row.model = "none"
    BY <1>2, <1>3 DEF TaskOK
  <2> QED
    BY <1>1, <1>2, <1>3, <2>1, <2>2, <2>3 DEF CoroutineMoves
<1>5. PermitsOK'
  BY <1>1, <1>2, <1>3, <1>4, PermitsMove
<1> QED
  BY <1>1, <1>2, <1>3, <1>4, <1>5, SilentMoveKeeps

LEMMA AcquireKeeps ==
  ASSUME LayersInv, NEW t, Acquire(t)
  PROVE  LayersInv'
<1> DEFINE row == [task[t] EXCEPT !.phase = "asking"]
<1>1. /\ In(t, "queued") /\ task' = [task EXCEPT ![t].phase = "asking"] /\ Rest /\ UNCHANGED answers
      /\ free > 0 /\ free' = free - 1
  BY DEF Acquire, Move
<1>2. /\ TaskOK(t) /\ t \in DOMAIN task /\ task[t].phase = "queued"
      /\ task[t].at \in 1 .. Len(Chain(command)) /\ Len(Chain(command)) \in Nat
  BY <1>1, CommandKnown, ChainsAreKnown DEF In, LayersInv, TasksOK, TaskOK
<1>3. /\ row \in TaskRows /\ row.phase = "asking" /\ row.at = task[t].at
      /\ row.model = task[t].model /\ row.value = task[t].value
      /\ task' = [task EXCEPT ![t] = row]
  BY <1>1, <1>2 DEF TaskOK, TaskRows
<1> HIDE DEF row
<1>4. CoroutineMoves(t, row)
  <2>1. /\ Running /\ stage = "gather"
        /\ UNCHANGED <<todo, news, score, key, today, stage, files, mult, targets>>
    BY <1>1 DEF In, Rest, given
  <2>2. row.at \in task[t].at .. Len(Chain(command))
    BY <1>2, <1>3
  <2>3. row.phase \in {"news", "queued", "asking"} => row.model = "none"
    BY <1>2, <1>3 DEF TaskOK
  <2> QED
    BY <1>1, <1>2, <1>3, <2>1, <2>2, <2>3 DEF CoroutineMoves
<1>5. PermitsOK'
  BY <1>1, <1>2, <1>3, <1>4, PermitsMove
<1> QED
  BY <1>1, <1>2, <1>3, <1>4, <1>5, SilentMoveKeeps

LEMMA PauseKeeps ==
  ASSUME LayersInv, NEW t, Pause(t)
  PROVE  LayersInv'
<1> DEFINE row == [task[t] EXCEPT !.phase = "answered"]
<1>1. /\ In(t, "pausing") /\ task' = [task EXCEPT ![t].phase = "answered"] /\ Rest /\ UNCHANGED answers
      /\ free' = free + 1
  BY DEF Pause, Move
<1>2. /\ TaskOK(t) /\ t \in DOMAIN task /\ task[t].phase = "pausing"
      /\ task[t].at \in 1 .. Len(Chain(command)) /\ Len(Chain(command)) \in Nat
  BY <1>1, CommandKnown, ChainsAreKnown DEF In, LayersInv, TasksOK, TaskOK
<1>3. /\ row \in TaskRows /\ row.phase = "answered" /\ row.at = task[t].at
      /\ row.model = task[t].model /\ row.value = task[t].value
      /\ task' = [task EXCEPT ![t] = row]
  BY <1>1, <1>2 DEF TaskOK, TaskRows
<1> HIDE DEF row
<1>4. CoroutineMoves(t, row)
  <2>1. /\ Running /\ stage = "gather"
        /\ UNCHANGED <<todo, news, score, key, today, stage, files, mult, targets>>
    BY <1>1 DEF In, Rest, given
  <2>2. row.at \in task[t].at .. Len(Chain(command))
    BY <1>2, <1>3
  <2>3. row.phase \in {"news", "queued", "asking"} => row.model = "none"
    BY <1>2, <1>3 DEF TaskOK
  <2> QED
    BY <1>1, <1>2, <1>3, <2>1, <2>2, <2>3 DEF CoroutineMoves
<1>5. PermitsOK'
  BY <1>1, <1>2, <1>3, <1>4, PermitsMove
<1> QED
  BY <1>1, <1>2, <1>3, <1>4, <1>5, SilentMoveKeeps

(* The next model of the chain is asked. *)
LEMMA NextModelKeeps ==
  ASSUME LayersInv, NEW t, In(t, "asking"), NEW a \in Answers(command), NextModel(t, a),
         task' = [task EXCEPT ![t].at = @ + 1],
         answers' = answers \cup {<<t, task[t].at, a>>}, Rest, UNCHANGED free
  PROVE  LayersInv'
<1> DEFINE row == [task[t] EXCEPT !.at = @ + 1]
<1>1. TaskOK(t) /\ t \in DOMAIN task /\ task[t].phase = "asking" /\ command \in Commands
  BY CommandKnown DEF In, LayersInv, TasksOK
<1>2. Len(Chain(command)) \in Nat /\ task[t].at \in 1 .. Len(Chain(command)) /\ task[t].at < Len(Chain(command))
  BY <1>1, ChainsAreKnown DEF TaskOK, NextModel
<1>3. /\ row \in TaskRows /\ row.phase = "asking" /\ row.at = task[t].at + 1
      /\ row.model = task[t].model /\ row.value = task[t].value
      /\ task' = [task EXCEPT ![t] = row]
  BY <1>1, <1>2 DEF TaskOK, TaskRows
<1> HIDE DEF row
<1>4. CoroutineMoves(t, row)
  <2>1. /\ Running /\ stage = "gather"
        /\ UNCHANGED <<todo, news, score, key, today, stage, files, mult, targets>>
        /\ answers \subseteq answers'
    BY DEF In, Rest, given
  <2>2. row.at \in task[t].at .. Len(Chain(command))
    BY <1>2, <1>3
  <2>3. row.model = "none"
    BY <1>1, <1>3 DEF TaskOK
  <2> QED
    BY <1>1, <1>3, <2>1, <2>2, <2>3 DEF CoroutineMoves
<1>5. PermitsOK'
  BY <1>1, <1>3, <1>4, PermitsMove
<1>6. /\ DayOK' /\ StageOK' /\ AskedOK' /\ ResultOK'
      /\ DOMAIN task' = DOMAIN task /\ task'[t] = row
      /\ \A u \in DOMAIN task : u # t => task'[u] = task[u]
      /\ command' = command /\ Chain(command)' = Chain(command)
  BY <1>4, MovesKeepTheRest
<1>7. TaskOK(t)'
  BY <1>1, <1>2, <1>3, <1>6 DEF TaskOK
<1>8. TasksOK'
  BY <1>4, <1>6, <1>7, OtherTasksStay DEF TasksOK
<1>9. AnswersOK'
  <2> SUFFICES ASSUME NEW e \in answers'
               PROVE  /\ e[1] \in DOMAIN task /\ e[2] \in 1 .. task'[e[1]].at
                      /\ e[3] \in Good(command) =>
                           /\ task'[e[1]].phase \in {"pausing", "answered"}
                           /\ task'[e[1]].value = Understood(command, e[3])
    BY <1>6, GoodStays DEF AnswersOK
  <2>1. CASE e \in answers
    <3>1. /\ e[1] \in DOMAIN task /\ e[2] \in 1 .. task[e[1]].at
          /\ e[3] \in Good(command) =>
               /\ task[e[1]].phase \in {"pausing", "answered"}
               /\ task[e[1]].value = Understood(command, e[3])
      BY <2>1 DEF LayersInv, AnswersOK
    <3> QED
      BY <3>1, <1>1, <1>2, <1>3, <1>6
  <2>2. CASE e = <<t, task[t].at, a>>
    <3>1. a \notin Good(command)
      BY DEF NextModel, Good, Unusable
    <3> QED
      <4>1. e[1] = t /\ e[2] = task[t].at /\ e[3] = a
        BY <2>2
      <4> QED
        BY <4>1, <3>1, <1>1, <1>2, <1>3, <1>6
  <2> QED
    BY <2>1, <2>2
<1> QED
  BY <1>5, <1>6, <1>8, <1>9 DEF LayersInv

(* The coroutine is over, with an answer or without. *)
LEMMA AnsweredKeeps ==
  ASSUME LayersInv, NEW t, In(t, "asking"), NEW a \in Answers(command),
         ~NextModel(t, a), ~Escapes(t, a),
         task' = [task EXCEPT ![t] = Answered(t, a)],
         answers' = answers \cup {<<t, task[t].at, a>>}, free' = Released(t, a), Rest
  PROVE  LayersInv'
<1> DEFINE row == Answered(t, a)
           bad == a \in Unusable(command)
<1>1. TaskOK(t) /\ t \in DOMAIN task /\ task[t].phase = "asking" /\ command \in Commands
  BY CommandKnown DEF In, LayersInv, TasksOK
<1>2. Len(Chain(command)) \in Nat /\ task[t].at \in 1 .. Len(Chain(command))
  BY <1>1, ChainsAreKnown DEF TaskOK
<1>3. ~bad => a \in Good(command)
  BY DEF Good
<1>4. /\ row \in TaskRows /\ row.at = task[t].at
      /\ bad /\ command = "paper now" => row.phase = "answered" /\ row.model = "fallback" /\ row.value = "APPROVE"
      /\ bad /\ command # "paper now" => row.phase = "dropped"
      /\ ~bad /\ command = "fetch-sentiment" => row.phase = "pausing"
      /\ ~bad /\ command # "fetch-sentiment" => row.phase = "answered"
      /\ ~bad => row.model = ModelUsed(t) /\ row.value = Understood(command, a)
  <2>1. task[t] \in TaskRows
    BY <1>1 DEF TaskOK
  <2> HIDE DEF bad
  <2>2. CASE bad /\ command = "paper now"
    <3>1. row = [task[t] EXCEPT !.phase = "answered", !.value = "APPROVE", !.model = "fallback"]
      BY <2>2 DEF Answered, bad
    <3> HIDE DEF row
    <3>2. row = [phase |-> "answered", at |-> task[t].at, model |-> "fallback", value |-> "APPROVE"]
      BY <3>1, <2>1 DEF TaskRows
    <3>3. row \in TaskRows
      BY <3>2, <2>1 DEF TaskRows, Words
    <3> QED
      BY <3>2, <3>3, <2>2
  <2>3. CASE bad /\ command # "paper now"
    <3>1. row = [task[t] EXCEPT !.phase = "dropped"]
      BY <2>3 DEF Answered, bad
    <3> HIDE DEF row
    <3> QED
      BY <3>1, <2>1, <2>3 DEF TaskRows
  <2>4. CASE ~bad
    <3>1. PICK p, w, m : /\ p = IF command = "fetch-sentiment" THEN "pausing" ELSE "answered"
                         /\ w = Understood(command, a) /\ m = ModelUsed(t)
      OBVIOUS
    <3>2. row = [task[t] EXCEPT !.phase = p, !.value = w, !.model = m]
      BY <2>4, <3>1 DEF Answered, bad
    <3> HIDE DEF row
    <3>3. w \in Words /\ m \in Models /\ p \in {"pausing", "answered"}
      BY <1>1, <1>2, <1>3, <2>4, <3>1, ChainsAreKnown, WordsAreKnown DEF ModelUsed
    <3>4. row = [phase |-> p, at |-> task[t].at, model |-> m, value |-> w]
      BY <3>2, <3>3, <2>1 DEF TaskRows
    <3>5. row \in TaskRows
      BY <3>3, <3>4, <2>1 DEF TaskRows
    <3>6. row.phase = p /\ row.at = task[t].at /\ row.model = m /\ row.value = w
      BY <3>4
    <3> QED
      BY <3>1, <3>5, <3>6, <2>4
  <2> QED
    BY <2>2, <2>3, <2>4
<1>5. task' = [task EXCEPT ![t] = row]
  OBVIOUS
<1>7. bad => a \notin Good(command)
  BY DEF Good
<1>8. bad => \/ a = "raise" /\ task[t].at = Len(Chain(command))
             \/ /\ a \in {"prose", "list", "nested"}
                /\ command = "fetch-catalysts" => task[t].at > 1
  <2>1. CASE a = "raise"
    BY <2>1, <1>2 DEF NextModel
  <2>2. CASE a = "prose"
    <3>1. ASSUME command = "fetch-catalysts", task[t].at = 1  PROVE FALSE
      <4>1. Len(Chain(command)) = 5
        BY <1>1, <3>1, ChainsAreKnown
      <4>2. NextModel(t, a)
        BY <4>1, <3>1, <2>2 DEF NextModel
      <4> QED
        BY <4>2
    <3> QED
      BY <3>1, <2>2, <1>2
  <2>3. CASE a \in {"list", "nested"}
    BY <2>3 DEF Escapes
  <2> QED
    BY <2>1, <2>2, <2>3 DEF Unusable
<1> HIDE DEF row, bad
<1>9. row.phase \in {"pausing", "answered", "dropped"}
  BY <1>4
<1>0. /\ answers' = answers \cup {<<t, task[t].at, a>>} /\ <<t, task[t].at, a>> \in answers'
      /\ answers \subseteq answers'
  OBVIOUS
<1>10. CoroutineMoves(t, row)
  <2>1. /\ Running /\ stage = "gather" /\ UNCHANGED <<todo, news, score, key, today, stage, files, mult, targets>>
        /\ answers \subseteq answers'
    BY <1>0 DEF In, Rest, given
  <2>2. row.phase = "pausing" => command = "fetch-sentiment"
    BY <1>4
  <2>3. row.at \in task[t].at .. Len(Chain(command))
    <3>1. row.at = task[t].at
      BY <1>4
    <3> QED
      BY <3>1, <1>2
  <2>4. row.phase \notin {"news", "queued", "asking"} /\ row \in TaskRows
    BY <1>4, <1>9
  <2> QED
    BY <2>1, <2>2, <2>3, <2>4, <1>1, <1>5 DEF CoroutineMoves
<1>11. PermitsOK'
  <2>1. CASE row.phase = "pausing"
    <3>1. ~bad /\ command = "fetch-sentiment"
      BY <2>1, <1>4
    <3>2. free' = free
      BY <3>1 DEF Released, bad
    <3> QED
      BY <3>2, <2>1, <1>1, <1>10, PermitsMove
  <2>2. CASE row.phase # "pausing"
    <3>1. bad \/ command # "fetch-sentiment"
      BY <2>2, <1>4
    <3>2. free' = free + 1
      BY <3>1 DEF Released, bad
    <3> QED
      BY <3>2, <2>2, <1>9, <1>1, <1>10, PermitsMove
  <2> QED
    BY <2>1, <2>2
<1>12. /\ DayOK' /\ StageOK' /\ AskedOK' /\ ResultOK'
       /\ DOMAIN task' = DOMAIN task /\ task'[t] = row
       /\ \A u \in DOMAIN task : u # t => task'[u] = task[u]
       /\ command' = command /\ Chain(command)' = Chain(command)
  BY <1>10, MovesKeepTheRest
<1>13. Good(command)' = Good(command) /\ \A v : Understood(command, v)' = Understood(command, v)
  BY <1>12, GoodStays
<1>14. bad => Exhausted(t)'
  <2> SUFFICES ASSUME bad  PROVE Exhausted(t)'
    OBVIOUS
  <2>1. task'[t].at = task[t].at /\ command' = command /\ Chain(command)' = Chain(command)
    BY <1>4, <1>12
  <2>2. CASE a = "raise" /\ task[t].at = Len(Chain(command))
    BY <1>0, <2>1, <2>2 DEF Exhausted
  <2>3. CASE /\ a \in {"prose", "list", "nested"}
             /\ command = "fetch-catalysts" => task[t].at > 1
    BY <1>0, <2>1, <2>3 DEF Exhausted
  <2> QED
    BY <1>8, <2>2, <2>3
<1>15. TaskOK(t)'
  <2>1. row.phase \in {"pausing", "answered"} => HasAnswer(t)'
    <3>1. CASE bad
      <4>1. row.phase \in {"pausing", "answered"} => command = "paper now"
        BY <3>1, <1>4
      <4>2. command = "paper now" => task'[t].model = "fallback" /\ task'[t].value = "APPROVE"
        BY <3>1, <1>4, <1>12
      <4> QED
        BY <3>1, <4>1, <4>2, <1>12, <1>14 DEF HasAnswer
    <3>2. CASE ~bad
      <4>1. <<t, task'[t].at, a>> \in answers' /\ a \in Good(command)
        BY <3>2, <1>0, <1>3, <1>4, <1>12
      <4>2. task'[t].value = Understood(command, a) /\ task'[t].model = Chain(command)[task'[t].at]
        BY <3>2, <1>4, <1>12 DEF ModelUsed
      <4> QED
        BY <4>1, <4>2, <1>12, <1>13 DEF HasAnswer
    <3> QED
      BY <3>1, <3>2
  <2>2. row.phase = "dropped" => Exhausted(t)'
    BY <1>4, <1>14
  <2>3. row.phase = "pausing" => command = "fetch-sentiment"
    BY <1>4
  <2> QED
    BY <2>1, <2>2, <2>3, <1>2, <1>4, <1>9, <1>12 DEF TaskOK
<1>16. TasksOK'
  BY <1>10, <1>12, <1>15, OtherTasksStay DEF TasksOK
<1>17. AnswersOK'
  <2> SUFFICES ASSUME NEW e \in answers'
               PROVE  /\ e[1] \in DOMAIN task /\ e[2] \in 1 .. task'[e[1]].at
                      /\ e[3] \in Good(command) =>
                           /\ task'[e[1]].phase \in {"pausing", "answered"}
                           /\ task'[e[1]].value = Understood(command, e[3])
    BY <1>12, <1>13 DEF AnswersOK
  <2>1. CASE e \in answers
    <3>1. /\ e[1] \in DOMAIN task /\ e[2] \in 1 .. task[e[1]].at
          /\ e[3] \in Good(command) =>
               /\ task[e[1]].phase \in {"pausing", "answered"}
               /\ task[e[1]].value = Understood(command, e[3])
      BY <2>1 DEF LayersInv, AnswersOK
    <3> QED
      BY <3>1, <1>1, <1>4, <1>12
  <2>2. CASE e = <<t, task[t].at, a>>
    <3>1. CASE bad
      <4>1. e[1] = t /\ e[2] = task[t].at /\ e[3] = a
        BY <2>2
      <4>2. task'[t].at = task[t].at /\ a \notin Good(command)
        BY <3>1, <1>4, <1>7, <1>12
      <4> QED
        BY <4>1, <4>2, <1>1, <1>2
    <3>2. CASE ~bad
      <4>1. e[1] = t /\ e[2] = task[t].at /\ e[3] = a
        BY <2>2
      <4>2. task'[t].at = task[t].at /\ task'[t].phase \in {"pausing", "answered"}
            /\ task'[t].value = Understood(command, a)
        BY <3>2, <1>4, <1>12
      <4> QED
        BY <4>1, <4>2, <1>1, <1>2
    <3> QED
      BY <3>1, <3>2
  <2> QED
    BY <2>1, <2>2
<1> QED
  BY <1>11, <1>12, <1>16, <1>17 DEF LayersInv

LEMMA AskKeeps ==
  ASSUME LayersInv, NEW t, Ask(t)
  PROVE  LayersInv'
<1>1. PICK a \in Answers(command) :
        IF NextModel(t, a)
        THEN /\ task' = [task EXCEPT ![t].at = @ + 1]
             /\ answers' = answers \cup {<<t, task[t].at, a>>}
             /\ Rest /\ UNCHANGED free
        ELSE IF Escapes(t, a)
        THEN Abandon(a) /\ UNCHANGED mult
        ELSE /\ task' = [task EXCEPT ![t] = Answered(t, a)]
             /\ answers' = answers \cup {<<t, task[t].at, a>>}
             /\ free' = Released(t, a)
             /\ Rest
  BY DEF Ask
<1>2. In(t, "asking") /\ Running
  BY DEF Ask, In
<1>3. CASE NextModel(t, a)
  BY <1>1, <1>2, <1>3, NextModelKeeps
<1>4. CASE ~NextModel(t, a) /\ Escapes(t, a)
  BY <1>1, <1>2, <1>4, AbandonKeeps
<1>5. CASE ~NextModel(t, a) /\ ~Escapes(t, a)
  BY <1>1, <1>2, <1>5, AnsweredKeeps
<1> QED
  BY <1>3, <1>4, <1>5

(* The coroutines are over; the command makes something of what they got.  *)
LEMMA GatheredKeeps ==
  ASSUME LayersInv, Running, UNCHANGED <<todo, news, score, key, today, task, free, answers, mult>>,
         stage # "start", stage' \in {"write", "end"}, stage' = "write" => command # "paper now",
         \A t \in DOMAIN task : task[t].phase \in {"answered", "dropped"},
         files' = [c \in Artifacts |-> files'[c]],
         targets' \subseteq Symbols, Cardinality(targets') <= TopK, ResultOK'
  PROVE  LayersInv'
<1>1. command' = command /\ Running'
  BY DEF command, Running
<1>2. Chain(command)' = Chain(command) /\ Good(command)' = Good(command)
      /\ \A v : Understood(command, v)' = Understood(command, v)
  BY <1>1, GoodStays DEF Chain
<1>3. DayOK' /\ StageOK'
  BY <1>1 DEF LayersInv, DayOK, StageOK
<1>4. AskedOK'
  BY <1>1 DEF LayersInv, AskedOK, Dated
<1>5. TasksOK'
  <2> SUFFICES ASSUME NEW t \in DOMAIN task  PROVE TaskOK(t)'
    BY DEF TasksOK
  <2>1. TaskOK(t)
    BY DEF LayersInv, TasksOK
  <2>2. Exhausted(t) => Exhausted(t)'
    BY <1>1, <1>2 DEF Exhausted
  <2>3. HasAnswer(t) => HasAnswer(t)'
    BY <1>1, <1>2, <2>2 DEF HasAnswer
  <2> QED
    BY <1>1, <1>2, <2>1, <2>2, <2>3 DEF TaskOK
<1>6. AnswersOK'
  BY <1>1, <1>2 DEF LayersInv, AnswersOK
<1>7. PermitsOK'
  BY DEF LayersInv, PermitsOK, Holders
<1> QED
  BY <1>3, <1>4, <1>5, <1>6, <1>7 DEF LayersInv

LEMMA ChooseTargetsKeeps ==
  ASSUME LayersInv, ChooseTargets
  PROVE  LayersInv'
<1>1. /\ Gathered /\ command = "paper now" /\ stage' = "end"
      /\ targets' \in TopOf(filter_by_sanity, Adjusted, TopK)
      /\ UNCHANGED <<todo, news, score, key, today, task, free, answers, files, mult>>
  BY DEF ChooseTargets, given
<1>2. filter_by_sanity \subseteq DOMAIN task
  BY DEF filter_by_sanity
<1>3. DOMAIN task \subseteq Symbols
  BY <1>1 DEF LayersInv, DayOK, AskedOK, Gathered
<1>4. IsFiniteSet(filter_by_sanity)
  BY <1>2, SetsFinite, FS_Subset DEF LayersInv
<1>5. targets' \subseteq filter_by_sanity /\ Cardinality(targets') <= TopK
  BY <1>1, <1>4, TopIsSmall, LlmAssumption
<1>6. command' = command
  BY <1>1 DEF command
<1>7. ResultOK'
  <2>1. filter_by_sanity' = filter_by_sanity
    BY <1>1 DEF filter_by_sanity
  <2>2. Adjusted' = Adjusted
    BY <1>1, <2>1 DEF Adjusted, Flagged
  <2>3. TopOf(filter_by_sanity, Adjusted, TopK)' = TopOf(filter_by_sanity, Adjusted, TopK)
    BY <2>1, <2>2 DEF TopOf
  <2> QED
    BY <1>1, <1>6, <2>3 DEF ResultOK
<1>8. files' = [c \in Artifacts |-> files'[c]]
  BY <1>1 DEF LayersInv, DayOK
<1>9. /\ Running /\ stage # "start" /\ \A t \in DOMAIN task : task[t].phase \in {"answered", "dropped"}
      /\ targets' \subseteq Symbols
  BY <1>1, <1>2, <1>3, <1>5 DEF Gathered
<1> QED
  BY <1>1, <1>5, <1>7, <1>8, <1>9, GatheredKeeps

LEMMA OpenFileKeeps ==
  ASSUME LayersInv, OpenFile
  PROVE  LayersInv'
<1>1. /\ Gathered /\ command # "paper now" /\ stage' = "write"
      /\ files' = [files EXCEPT ![command].state = "torn"]
      /\ UNCHANGED <<todo, news, score, key, today, task, free, answers, mult, targets>>
  BY DEF OpenFile, given
<1>2. files' = [c \in Artifacts |-> files'[c]]
  BY <1>1 DEF LayersInv, DayOK
<1>3. /\ Running /\ stage # "start" /\ \A t \in DOMAIN task : task[t].phase \in {"answered", "dropped"}
      /\ targets' \subseteq Symbols /\ Cardinality(targets') <= TopK
  BY <1>1 DEF Gathered, LayersInv, DayOK
<1>4. ResultOK'
  BY <1>1 DEF ResultOK
<1> QED
  BY <1>1, <1>2, <1>3, <1>4, GatheredKeeps

LEMMA CloseFileKeeps ==
  ASSUME LayersInv, CloseFile
  PROVE  LayersInv'
<1>1. /\ Running /\ stage = "write" /\ stage' = "end"
      /\ files' = [files EXCEPT ![command] = [state |-> "whole", rows |-> Rows]]
      /\ UNCHANGED <<todo, news, score, key, today, task, free, answers, mult, targets>>
  BY DEF CloseFile, given
<1>2. files' = [c \in Artifacts |-> files'[c]]
  BY <1>1 DEF LayersInv, DayOK
<1>3. /\ \A t \in DOMAIN task : task[t].phase \in {"answered", "dropped"}
      /\ command # "paper now" /\ targets' \subseteq Symbols /\ Cardinality(targets') <= TopK
  BY <1>1 DEF LayersInv, StageOK, DayOK
<1>4. command \in Artifacts /\ command' = command
  BY <1>1, <1>3, CommandKnown DEF LayersInv, Commands, command
<1>5. files'[command].rows = Rows
  BY <1>1, <1>4 DEF LayersInv, DayOK
<1>6. Done' = Done /\ \A a : DayOf(a)' = DayOf(a)
  BY <1>1 DEF Done, DayOf, Dated
<1>7. ResultOK'
  <2>1. command = "fetch-sentiment" => Rows = AggregatePerSymbolDay
    BY DEF Rows
  <2>2. command = "fetch-catalysts" => Rows = Tags
    BY DEF Rows
  <2>3. AggregatePerSymbolDay' = AggregatePerSymbolDay
    BY <1>1, <1>6 DEF AggregatePerSymbolDay
  <2>4. Tags' = Tags
    BY <1>1, <1>6 DEF Tags
  <2> QED
    BY <1>3, <1>4, <1>5, <2>1, <2>2, <2>3, <2>4 DEF ResultOK
<1> QED
  BY <1>1, <1>2, <1>3, <1>7, GatheredKeeps

LEMMA LayersInitInv == LayersInit => LayersInv
<1> SUFFICES ASSUME LayersInit  PROVE LayersInv
  OBVIOUS
<1>1. PICK s \in Scenarios :
        /\ todo = s.todo /\ news = s.news /\ score = s.score
        /\ files = [c \in Artifacts |-> IF c = "classify-regime" THEN s.regime ELSE Absent]
        /\ stage = "start" /\ task = NoTasks /\ free = MaxConcurrent /\ answers = {}
        /\ mult = 100 /\ targets = {}
  BY DEF LayersInit
<1>2. DayOK
  <2>1. {} \subseteq Symbols /\ Cardinality({}) <= TopK
    BY FS_EmptySet, LlmAssumption
  <2>2. files = [c \in Artifacts |-> files[c]]
    BY <1>1
  <2> QED
    BY <1>1, <2>1, <2>2, ScenariosAssumption DEF DayOK
<1>3. DOMAIN task = {}
  BY <1>1 DEF NoTasks
<1>4. StageOK /\ AskedOK /\ TasksOK /\ AnswersOK /\ ResultOK
  BY <1>1, <1>3 DEF StageOK, AskedOK, TasksOK, AnswersOK, ResultOK
<1>5. PermitsOK
  <2>1. Holders = {}
    BY <1>3 DEF Holders
  <2> QED
    BY <1>1, <2>1, FS_EmptySet, LlmAssumption DEF PermitsOK
<1> QED
  BY <1>2, <1>4, <1>5 DEF LayersInv

LEMMA LayersStutter ==
  ASSUME LayersInv, UNCHANGED layersVars
  PROVE  LayersInv'
<1>1. UNCHANGED <<todo, news, score, key, today, stage, task, free, answers, files, mult, targets>>
  BY DEF layersVars, given
<1>2. DayOK' /\ StageOK'
  BY <1>1 DEF LayersInv, DayOK, StageOK, command, Running
<1>3. AskedOK'
  BY <1>1 DEF LayersInv, AskedOK, Dated, command, Running
<1>4. command' = command /\ Chain(command)' = Chain(command) /\ Good(command)' = Good(command)
      /\ \A v : Understood(command, v)' = Understood(command, v)
  <2>1. command' = command
    BY <1>1 DEF command
  <2> QED
    BY <1>1, <2>1, GoodStays DEF Chain
<1>5. TasksOK' /\ AnswersOK'
  <2>1. \A t : (Exhausted(t) <=> Exhausted(t)') /\ (HasAnswer(t) <=> HasAnswer(t)')
    BY <1>1, <1>4 DEF Exhausted, HasAnswer
  <2> QED
    BY <1>1, <1>4, <2>1 DEF LayersInv, TasksOK, TaskOK, AnswersOK
<1>6. PermitsOK'
  BY <1>1 DEF LayersInv, PermitsOK, Holders
<1>7. ResultOK'
  <2>1. Done' = Done /\ \A a : DayOf(a)' = DayOf(a)
    BY <1>1 DEF Done, DayOf, Dated
  <2>2. AggregatePerSymbolDay' = AggregatePerSymbolDay /\ Tags' = Tags
    BY <1>1, <2>1 DEF AggregatePerSymbolDay, Tags
  <2>3. filter_by_sanity' = filter_by_sanity
    BY <1>1 DEF filter_by_sanity
  <2>4. Adjusted' = Adjusted
    BY <1>1, <2>3 DEF Adjusted, Flagged
  <2>5. TopOf(filter_by_sanity, Adjusted, TopK)' = TopOf(filter_by_sanity, Adjusted, TopK)
    BY <2>3, <2>4 DEF TopOf
  <2> QED
    BY <1>1, <1>4, <2>2, <2>5 DEF LayersInv, ResultOK
<1> QED
  BY <1>2, <1>3, <1>5, <1>6, <1>7 DEF LayersInv

LEMMA LayersStep == LayersInv /\ [LayersNext]_layersVars => LayersInv'
<1> SUFFICES ASSUME LayersInv, [LayersNext]_layersVars  PROVE LayersInv'
  OBVIOUS
<1>1. CASE Start
  BY <1>1, StartKeeps
<1>2. CASE ChooseTargets
  BY <1>2, ChooseTargetsKeeps
<1>3. CASE OpenFile
  BY <1>3, OpenFileKeeps
<1>4. CASE CloseFile
  BY <1>4, CloseFileKeeps
<1>5. CASE EndCommand \/ Killed
  BY <1>5, EndKeeps
<1>6. ASSUME NEW t \in Tasks, Coroutine(t)  PROVE LayersInv'
  BY <1>6, FetchHeadlinesKeeps, AcquireKeeps, AskKeeps, PauseKeeps DEF Coroutine
<1>7. CASE UNCHANGED layersVars
  BY <1>7, LayersStutter
<1> QED
  BY <1>1, <1>2, <1>3, <1>4, <1>5, <1>6, <1>7 DEF LayersNext, Loop

THEOREM LayersInvariant == LayersSpec => []LayersInv
  BY LayersInitInv, LayersStep, PTL DEF LayersSpec

-----------------------------------------------------------------------------
LEMMA TypesFollow == LayersInv => LayersTypeOK
<1> SUFFICES ASSUME LayersInv  PROVE LayersTypeOK
  OBVIOUS
<1>1. \A t \in DOMAIN task :
        /\ task[t].phase \in {"news", "queued", "asking", "pausing", "answered", "dropped"}
        /\ task[t].at \in 1 .. Len(Chain(command))
  BY DEF LayersInv, TasksOK, TaskOK, TaskRows
<1>2. free + Cardinality({t \in DOMAIN task : task[t].phase \in {"asking", "pausing"}}) = MaxConcurrent
  BY DEF LayersInv, PermitsOK, Holders
<1> QED
  BY <1>1, <1>2 DEF LayersInv, DayOK, LayersTypeOK

(* Of the sentiment, the articles that were scored are those with an answer *)
(* of the one model there is.                                               *)
LEMMA CountsFollow == LayersInv => SentimentCountsAnswers
<1> SUFFICES ASSUME LayersInv, Running, command = "fetch-sentiment", stage = "end"
             PROVE  LET scored == {a \in DOMAIN news : \E v \in Good(command) : <<a, 1, v>> \in answers}
                        rows == files["fetch-sentiment"].rows
                    IN /\ \A r \in rows : r.count = Cardinality({a \in scored : news[a].symbol = r.symbol /\ news[a].day = r.day})
                       /\ \A a \in scored : \E r \in rows : r.symbol = news[a].symbol /\ r.day = news[a].day
  BY DEF SentimentCountsAnswers
<1> DEFINE scored == {a \in DOMAIN news : \E v \in Good(command) : <<a, 1, v>> \in answers}
<1>1. Done = scored
  <2>1. ASSUME NEW a \in Done  PROVE a \in scored
    <3>1. /\ a \in DOMAIN task /\ task[a].phase = "answered" /\ TaskOK(a) /\ a \in DOMAIN news
      BY <2>1 DEF Done, LayersInv, TasksOK, AskedOK
    <3>2. HasAnswer(a) /\ task[a].at = 1
      BY <3>1, CommandKnown, ChainsAreKnown DEF TaskOK, LayersInv
    <3> QED
      BY <3>1, <3>2 DEF HasAnswer
  <2>2. ASSUME NEW a \in scored  PROVE a \in Done
    <3>1. PICK v \in Good(command) : <<a, 1, v>> \in answers
      BY <2>2
    <3>2. a \in DOMAIN task /\ task[a].phase \in {"pausing", "answered"}
      BY <3>1 DEF LayersInv, AnswersOK
    <3>3. task[a].phase # "pausing"
      BY <3>2 DEF LayersInv, StageOK
    <3> QED
      BY <3>2, <3>3 DEF Done
  <2> HIDE DEF scored
  <2> QED
    BY <2>1, <2>2, Zenon
<1>2. \A a \in Done : DayOf(a) = news[a].day
  BY DEF Done, DayOf, LayersInv, AskedOK
<1>3. files["fetch-sentiment"].rows = AggregatePerSymbolDay
  BY DEF LayersInv, ResultOK
<1> HIDE DEF scored
<1>4. ASSUME NEW r \in AggregatePerSymbolDay
      PROVE  r.count = Cardinality({a \in scored : news[a].symbol = r.symbol /\ news[a].day = r.day})
  <2>1. PICK a \in Done :
          r = [symbol |-> news[a].symbol, day |-> DayOf(a),
               count |-> Cardinality({b \in Done : news[b].symbol = news[a].symbol /\ DayOf(b) = DayOf(a)})]
    BY <1>4 DEF AggregatePerSymbolDay
  <2>2. r.symbol = news[a].symbol /\ r.day = DayOf(a)
        /\ r.count = Cardinality({b \in Done : news[b].symbol = news[a].symbol /\ DayOf(b) = DayOf(a)})
    BY <2>1
  <2>3. {b \in Done : news[b].symbol = news[a].symbol /\ DayOf(b) = DayOf(a)}
          = {b \in scored : news[b].symbol = r.symbol /\ news[b].day = r.day}
    BY <1>1, <1>2, <2>2
  <2> QED
    BY <2>2, <2>3
<1>5. ASSUME NEW a \in scored
      PROVE  \E r \in AggregatePerSymbolDay : r.symbol = news[a].symbol /\ r.day = news[a].day
  <2> DEFINE r == [symbol |-> news[a].symbol, day |-> DayOf(a),
                   count |-> Cardinality({b \in Done : news[b].symbol = news[a].symbol /\ DayOf(b) = DayOf(a)})]
  <2>1. r \in AggregatePerSymbolDay
    BY <1>1, <1>5 DEF AggregatePerSymbolDay
  <2>2. r.symbol = news[a].symbol /\ r.day = news[a].day
    BY <1>1, <1>2, <1>5
  <2> QED
    BY <2>1, <2>2
<1> QED
  BY <1>3, <1>4, <1>5 DEF scored

LEMMA TagsFollow == LayersInv => TagsAreOfTheirModel
<1> SUFFICES ASSUME LayersInv, Running, command = "fetch-catalysts", stage = "end",
                    NEW r \in files["fetch-catalysts"].rows
             PROVE  \E a \in DOMAIN news, n \in DOMAIN Chain(command), v \in Good(command) :
                      /\ news[a].symbol = r.symbol /\ Understood(command, v) = r.type
                      /\ Chain(command)[n] = r.model /\ <<a, n, v>> \in answers
  BY DEF TagsAreOfTheirModel
<1>1. PICK a \in Done : r = [symbol |-> news[a].symbol, day |-> DayOf(a),
                             type |-> task[a].value, model |-> task[a].model]
  BY DEF LayersInv, ResultOK, Tags
<1>2. /\ a \in DOMAIN task /\ task[a].phase = "answered" /\ TaskOK(a) /\ a \in DOMAIN news
  BY DEF Done, LayersInv, TasksOK, AskedOK
<1>3. PICK v \in Good(command) : /\ <<a, task[a].at, v>> \in answers
                                 /\ task[a].value = Understood(command, v)
                                 /\ task[a].model = Chain(command)[task[a].at]
  BY <1>2 DEF TaskOK, HasAnswer
<1>4. task[a].at \in DOMAIN Chain(command)
  BY <1>2, CommandKnown, ChainsAreKnown DEF TaskOK, LayersInv
<1>5. r.symbol = news[a].symbol /\ r.type = task[a].value /\ r.model = task[a].model
  BY <1>1
<1> QED
  BY <1>2, <1>3, <1>4, <1>5

LEMMA ChainsFollow == LayersInv => GivenUpAfterChain
<1> SUFFICES ASSUME LayersInv, NEW t \in DOMAIN task,
                    task[t].phase = "dropped" \/ task[t].model = "fallback"
             PROVE  \/ <<t, Len(Chain(command)), "raise">> \in answers
                    \/ \E n \in DOMAIN Chain(command) :
                         /\ \E a \in {"prose", "list", "nested"} : <<t, n, a>> \in answers
                         /\ \A m \in DOMAIN Chain(command) : m > n => \A a \in Answers(command) : <<t, m, a>> \notin answers
                         /\ command = "fetch-catalysts" => n > 1
  BY DEF GivenUpAfterChain
<1>1. TaskOK(t) /\ command \in Commands
  <2>1. Running
    BY DEF LayersInv, StageOK, NoTasks
  <2> QED
    BY <2>1, CommandKnown DEF LayersInv, TasksOK
<1>2. /\ Chain(command) \in Seq(Models) /\ task[t].at \in 1 .. Len(Chain(command))
      /\ Chain(command)[task[t].at] \in Models
  BY <1>1, ChainsAreKnown DEF TaskOK
<1>3. Exhausted(t)
  <2>1. CASE task[t].phase = "dropped"
    BY <1>1, <2>1 DEF TaskOK
  <2>2. CASE task[t].model = "fallback" /\ task[t].phase # "dropped"
    <3>1. task[t].phase \in {"pausing", "answered"}
      BY <1>1, <2>2 DEF TaskOK, TaskRows
    <3>2. "fallback" \notin Models
      BY DEF Models
    <3> QED
      BY <1>1, <1>2, <2>2, <3>1, <3>2 DEF TaskOK, HasAnswer
  <2> QED
    BY <2>1, <2>2
<1>4. CASE <<t, Len(Chain(command)), "raise">> \in answers
  BY <1>4
<1>5. CASE /\ \E a \in {"prose", "list", "nested"} : <<t, task[t].at, a>> \in answers
           /\ command = "fetch-catalysts" => task[t].at > 1
  <2>1. task[t].at \in DOMAIN Chain(command)
    BY <1>2
  <2>2. ASSUME NEW m \in DOMAIN Chain(command), m > task[t].at, NEW a \in Answers(command)
        PROVE  <<t, m, a>> \notin answers
    <3>1. SUFFICES ASSUME <<t, m, a>> \in answers  PROVE FALSE
      OBVIOUS
    <3>2. m \in 1 .. task[t].at
      BY <3>1 DEF LayersInv, AnswersOK
    <3> QED
      BY <3>2, <2>2, <1>2
  <2> QED
    BY <1>5, <2>1, <2>2
<1> QED
  BY <1>3, <1>4, <1>5 DEF Exhausted

(* For any articles, candidates and permits, and answers that interleave in *)
(* any way, what the commands store is what was answered, to which article  *)
(* and by which model, and nothing is given up before its chain is          *)
(* (openrouter.py, sentiment.py, catalysts.py).                             *)
THEOREM AnswersAreInPlace == LayersSpec => []AnswersStayInPlace
<1>1. LayersInv => AnswersStayInPlace
  BY TypesFollow, CountsFollow, TagsFollow, ChainsFollow DEF AnswersStayInPlace
<1> QED
  BY <1>1, LayersInvariant, PTL

(* What all scores are multiplied with changes no comparison.              *)
LEMMA ScalingKeepsOrder ==
  ASSUME NEW x \in Int, NEW y \in Int, NEW m \in {50, 85, 100}, x * m >= y * m
  PROVE  x >= y
<1>1. CASE m = 50
  <2>1. x * 50 >= y * 50
    BY <1>1
  <2> QED
    BY <2>1
<1>2. CASE m = 85
  <2>1. x * 85 >= y * 85
    BY <1>2
  <2> QED
    BY <2>1
<1>3. CASE m = 100
  <2>1. x * 100 >= y * 100
    BY <1>3
  <2> QED
    BY <2>1
<1> QED
  BY <1>1, <1>2, <1>3

LEMMA FlagsPromoteNobody ==
  ASSUME NEW x \in Int, NEW y \in Int, NEW m \in {50, 85, 100}, x * m >= (2 * y) * m, y > 0
  PROVE  x > y
<1>1. 2 * y \in Int
  OBVIOUS
<1>2. x >= 2 * y
  BY <1>1, ScalingKeepsOrder
<1> QED
  BY <1>2

(* What a candidate weighs without the regime.                             *)
Weight(s) == score[s] * (IF Flagged(s) THEN 1 ELSE 2)

LEMMA AdjustedScores ==
  ASSUME LayersInv, NEW s \in filter_by_sanity, filter_by_sanity \subseteq DOMAIN score
  PROVE  /\ score[s] \in Int /\ mult \in {50, 85, 100} /\ Weight(s) \in Int
         /\ Flagged(s) => Weight(s) = score[s]
         /\ ~Flagged(s) => Weight(s) = 2 * score[s]
         /\ Adjusted[s] = Weight(s) * mult
<1>1. PICK x, m : x = score[s] /\ m = mult
  OBVIOUS
<1>2. x \in Int /\ m \in {50, 85, 100}
  BY <1>1 DEF LayersInv, DayOK
<1>3. Adjusted[s] = x * m * (IF Flagged(s) THEN 1 ELSE 2) /\ Weight(s) = x * (IF Flagged(s) THEN 1 ELSE 2)
  BY <1>1 DEF Adjusted, Weight
<1>4. CASE Flagged(s)
  <2>1. Adjusted[s] = (x * m) * 1 /\ Weight(s) = x * 1
    BY <1>3, <1>4
  <2>2. x * m \in Int
    BY <1>2
  <2> QED
    BY <1>1, <1>2, <1>4, <2>1, <2>2
<1>5. CASE ~Flagged(s)
  <2>1. Adjusted[s] = (x * m) * 2 /\ Weight(s) = x * 2
    BY <1>3, <1>5
  <2>2. (x * m) * 2 = (x * 2) * m
    BY <1>2
  <2> QED
    BY <1>1, <1>2, <1>5, <2>1, <2>2
<1> QED
  BY <1>4, <1>5

LEMMA AdjustedOrder ==
  ASSUME LayersInv, filter_by_sanity \subseteq DOMAIN score,
         NEW a \in filter_by_sanity, NEW b \in filter_by_sanity, Adjusted[a] >= Adjusted[b]
  PROVE  Weight(a) >= Weight(b)
<1>1. /\ Weight(a) \in Int /\ Weight(b) \in Int /\ mult \in {50, 85, 100}
      /\ Weight(a) * mult >= Weight(b) * mult
  BY AdjustedScores
<1>2. \A x, y \in Int, m \in {50, 85, 100} : x * m >= y * m => x >= y
  BY ScalingKeepsOrder
<1> QED
  BY <1>1, <1>2

LEMMA ReviewFollows == LayersInv => ReviewIsKept
<1> SUFFICES ASSUME LayersInv, Running, command = "paper now", stage = "end"
             PROVE  /\ \A s \in targets : /\ s \in DOMAIN task
                                          /\ \A n \in DOMAIN FallbackChain : <<s, n, "REJECT">> \notin answers
                    /\ \A s \in targets, r \in DOMAIN task \ targets :
                         task[s].value = "FLAG" /\ task[r].value = "APPROVE" /\ score[r] > 0 => score[s] > score[r]
                    /\ targets \in TopOf(filter_by_sanity,
                         [s \in filter_by_sanity |-> score[s] * (IF Flagged(s) THEN 1 ELSE 2)], TopK)
  BY DEF ReviewIsKept, RejectedIsNotTargeted, FlaggedNotPromoted, RegimeKeepsTargets
<1>1. targets \in TopOf(filter_by_sanity, Adjusted, TopK) /\ DOMAIN task \subseteq DOMAIN score
  BY DEF LayersInv, ResultOK, AskedOK
<1>2. filter_by_sanity \subseteq DOMAIN task
  BY DEF filter_by_sanity
<1>3. /\ targets \subseteq filter_by_sanity
      /\ Cardinality(targets) = (IF Cardinality(filter_by_sanity) < TopK THEN Cardinality(filter_by_sanity) ELSE TopK)
      /\ \A a \in targets, b \in filter_by_sanity \ targets : Adjusted[a] >= Adjusted[b]
  BY <1>1 DEF TopOf
<1>4. ASSUME NEW s \in targets
      PROVE  /\ s \in DOMAIN task
             /\ \A n \in DOMAIN FallbackChain : <<s, n, "REJECT">> \notin answers
  <2>1. s \in DOMAIN task /\ task[s].value # "REJECT"
    BY <1>3, <1>4 DEF filter_by_sanity
  <2>2. "REJECT" \in Good("paper now") /\ Understood("paper now", "REJECT") = "REJECT"
    <3>1. /\ "REJECT" \in Answers("paper now") /\ "REJECT" \notin Unusable("paper now")
          /\ Understood("paper now", "REJECT") = "REJECT"
      BY DEF Answers, Vocabulary, Understood, Unusable
    <3> QED
      BY <3>1 DEF Good
  <2>3. ASSUME NEW n, <<s, n, "REJECT">> \in answers  PROVE FALSE
    <3>1. task[s].value = Understood(command, "REJECT")
      BY <2>2, <2>3 DEF LayersInv, AnswersOK
    <3> QED
      BY <3>1, <2>1, <2>2
  <2> QED
    BY <2>1, <2>3
<1>5. ASSUME NEW s \in targets, NEW r \in DOMAIN task \ targets,
             task[s].value = "FLAG", task[r].value = "APPROVE", score[r] > 0
      PROVE  score[s] > score[r]
  <2>1. s \in filter_by_sanity /\ r \in filter_by_sanity /\ Flagged(s) /\ ~Flagged(r)
    BY <1>2, <1>3, <1>5 DEF filter_by_sanity, Flagged
  <2>2. Adjusted[s] >= Adjusted[r]
    BY <1>3, <1>5, <2>1
  <2>3. /\ score[s] \in Int /\ score[r] \in Int /\ mult \in {50, 85, 100}
        /\ Weight(s) = score[s] /\ Weight(r) = 2 * score[r]
        /\ Weight(s) * mult >= Weight(r) * mult
    BY <1>1, <1>2, <2>1, <2>2, AdjustedScores
  <2>4. score[s] * mult >= (2 * score[r]) * mult
    BY <2>3
  <2> QED
    BY <1>5, <2>3, <2>4, FlagsPromoteNobody, ZenonT(60)
<1>6. targets \in TopOf(filter_by_sanity,
        [s \in filter_by_sanity |-> score[s] * (IF Flagged(s) THEN 1 ELSE 2)], TopK)
  <2> DEFINE by == [s \in filter_by_sanity |-> score[s] * (IF Flagged(s) THEN 1 ELSE 2)]
  <2>1. ASSUME NEW a \in targets, NEW b \in filter_by_sanity \ targets  PROVE by[a] >= by[b]
    <3>1. a \in filter_by_sanity /\ b \in filter_by_sanity /\ Adjusted[a] >= Adjusted[b]
      BY <1>3, <2>1
    <3>2. by[a] = Weight(a) /\ by[b] = Weight(b)
      BY <3>1 DEF Weight
    <3> HIDE DEF by
    <3> QED
      BY <1>1, <1>2, <3>1, <3>2, AdjustedOrder
  <2> HIDE DEF by
  <2>2. targets \in TopOf(filter_by_sanity, by, TopK)
    BY <1>3, <2>1 DEF TopOf
  <2> QED
    BY <2>2 DEF by
<1> QED
  BY <1>4, <1>5, <1>6

(* For any candidates, scores, answers and regime: the session goes for     *)
(* names that were reviewed and not rejected, a flag promotes nobody, and   *)
(* the regime changes nothing (sanity_check.py, macro_regime.py:132).       *)
THEOREM ReviewIsAlwaysKept == LayersSpec => []ReviewIsKept
  BY LayersInvariant, ReviewFollows, PTL

LEMMA SoftStep == LayersFailSoft /\ [LayersNext]_layersVars => LayersFailSoft'
<1> SUFFICES ASSUME LayersFailSoft, [LayersNext]_layersVars  PROVE LayersFailSoft'
  OBVIOUS
<1> DEFINE Soft(end) == /\ end[1] = "fetch-sentiment" => end[2] = "no adapter"
                        /\ end[1] = "fetch-catalysts" => end[2] \in {"no adapter", "list", "nested"}
                        /\ end[1] = "paper now" => end[2] \in {"no adapter", "list"}
<1>1. ASSUME NEW cause, Abandon(cause), Soft(<<command, cause>>)  PROVE LayersFailSoft'
  BY <1>1 DEF Abandon, LayersFailSoft
<1>2. ASSUME UNCHANGED abandoned  PROVE LayersFailSoft'
  BY <1>2 DEF LayersFailSoft
<1>3. CASE Start
  <2>1. Abandon("no adapter") \/ UNCHANGED abandoned
    BY <1>3 DEF Start
  <2>2. Soft(<<command, "no adapter">>)
    OBVIOUS
  <2> QED
    BY <2>1, <2>2, <1>1, <1>2
<1>4. ASSUME NEW t \in Tasks, Ask(t)  PROVE LayersFailSoft'
  <2>1. (\E a \in Answers(command) : Escapes(t, a) /\ Abandon(a)) \/ UNCHANGED abandoned
    BY <1>4 DEF Ask, Rest
  <2>2. ASSUME NEW a \in Answers(command), Escapes(t, a)  PROVE Soft(<<command, a>>)
    BY <2>2 DEF Escapes
  <2> HIDE DEF Soft
  <2> QED
    BY <2>1, <2>2, <1>1, <1>2
<1>5. CASE ChooseTargets \/ OpenFile \/ CloseFile \/ EndCommand \/ Killed
  BY <1>5, <1>2 DEF ChooseTargets, OpenFile, CloseFile, EndCommand, Killed
<1>6. ASSUME NEW t \in Tasks, FetchHeadlines(t) \/ Acquire(t) \/ Pause(t)  PROVE LayersFailSoft'
  BY <1>6, <1>2 DEF FetchHeadlines, Acquire, Pause, Rest
<1>7. CASE UNCHANGED layersVars
  BY <1>7, <1>2 DEF layersVars
<1> QED
  BY <1>3, <1>4, <1>5, <1>6, <1>7 DEF LayersNext, Loop, Coroutine

(* A model that is down or cannot be read never cuts a command short that  *)
(* asks about several things: only the want of an adapter does, or a       *)
(* parsed answer of the wrong shape, which is a list, and for the          *)
(* catalysts also an object whose type is no word (catalysts.py:138-140).  *)
THEOREM LayersFailSoftly == LayersSpec => []LayersFailSoft
<1>1. LayersInit => LayersFailSoft
  BY DEF LayersInit, LayersFailSoft
<1> QED
  BY <1>1, SoftStep, PTL DEF LayersSpec
=============================================================================
