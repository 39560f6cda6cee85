--------------------------- MODULE DailyPipeline ----------------------------
(***************************************************************************)
(* The job of .github/workflows/daily-paper.yml: check out the repository, *)
(* write the artifacts layer by layer, trade, commit and push them.  The   *)
(* repository is the only storage: what a job wrote and did not push is    *)
(* gone, and a file a layer did not write is the one that was checked out. *)
(*                                                                         *)
(* A file is the set of jobs whose data it holds, empty when it does not   *)
(* exist: an overwritten file holds one job's, an appended one (the        *)
(* snapshot history and the order log) those of all the jobs before.       *)
(* Jobs may overlap: the workflow has no concurrency group.                *)
(* Git ignores the artifact directory, so `git add` stages of it only what *)
(* the repository tracks already: the two snapshot files.                  *)
(***************************************************************************)
EXTENDS Naturals

CONSTANTS Runs,     \* executions of the workflow
          Secrets,  \* which of "openrouter", "news" are configured
          Past      \* the jobs before the first, of which data is tracked

ASSUME PipelineAssumption ==
  /\ Past \cap Runs = {}
  /\ Secrets \subseteq {"openrouter", "news"}

Files == {"regime", "sentiment", "catalysts", "paper-status", "paper-history",
          "briefing", "orders-log"}
Appended == {"paper-history", "orders-log"}

Tracked == {"paper-status", "paper-history"}

VARIABLES pc,       \* the step a job is at
          base,     \* the commit a job checked out
          ws,       \* the artifact files in a job's workspace
          head,     \* commits on the main branch
          main,     \* the artifact files on the main branch
          traded    \* jobs whose orders reached the broker

vars == <<pc, base, ws, head, main, traded>>

Layers  == {"regime", "sentiment", "catalysts", "briefing"}
Steps   == Layers \cup {"snapshot", "orders", "commit"}
Results == {"success", "failure", "cancelled"}
AfterSnapshot == {"orders", "briefing", "commit"}
StepAfter == [regime |-> "sentiment", sentiment |-> "catalysts",
              catalysts |-> "snapshot", snapshot |-> "orders",
              orders |-> "briefing", briefing |-> "commit"]

Init ==
  /\ pc = [r \in Runs |-> "idle"]
  /\ base = [r \in Runs |-> 0]
  /\ ws = [r \in Runs |-> [f \in Files |-> {}]]
  /\ head = 0
  /\ main = [f \in Files |-> IF f \in Tracked THEN Past ELSE {}]
  /\ traded = {}

Goto(r, step) == pc' = [pc EXCEPT ![r] = step]
Write(r, f, file) == ws' = [ws EXCEPT ![r][f] = file]

Checkout(r) ==
  /\ pc[r] = "idle"
  /\ base' = [base EXCEPT ![r] = head]
  /\ ws' = [ws EXCEPT ![r] = main]
  /\ Goto(r, "regime")
  /\ UNCHANGED <<head, main, traded>>

(* The condition of a layer's step: its secrets are configured. *)
Configured(layer) ==
  /\ layer # "sentiment" => "openrouter" \in Secrets
  /\ layer \in {"sentiment", "catalysts"} => "news" \in Secrets

(* A layer overwrites its file, or is skipped, or fails; the job goes on. *)
Layer(r) ==
  /\ pc[r] \in Layers
  /\ \/ Configured(pc[r]) /\ Write(r, pc[r], {r})
     \/ UNCHANGED ws
  /\ Goto(r, StepAfter[pc[r]])
  /\ UNCHANGED <<base, head, main, traded>>

SnapshotTaken(r) ==
  /\ ws' = [ws EXCEPT ![r]["paper-status"] = {r},
                      ![r]["paper-history"] = @ \cup {r}]
  /\ Goto(r, "orders")

(* Mutant: the job goes on when the snapshot fails. *)
SnapshotContinues(r) ==
  /\ pc[r] = "snapshot"
  /\ \/ SnapshotTaken(r)
     \/ /\ \/ Write(r, "paper-status", {r})
           \/ UNCHANGED ws
        /\ Goto(r, "orders")
  /\ UNCHANGED <<base, head, main, traded>>

(* `paper status` writes the JSON, then the history row; the job fails     *)
(* when it fails before or between the two.                                *)
Snapshot(r) ==
  /\ pc[r] = "snapshot"
  /\ \/ SnapshotTaken(r)
     \/ /\ \/ Write(r, "paper-status", {r})
           \/ UNCHANGED ws
        /\ Goto(r, "failure")
  /\ UNCHANGED <<base, head, main, traded>>

(* `paper now`: nothing is ordered (plan-only, or it fails first), or      *)
(* orders reach the broker and are logged, or are not (see LiveSession).   *)
Orders(r) ==
  /\ pc[r] = "orders"
  /\ \/ UNCHANGED <<ws, traded>>
     \/ /\ traded' = traded \cup {r}
        /\ \/ Write(r, "orders-log", ws[r]["orders-log"] \cup {r})
           \/ UNCHANGED ws
  /\ Goto(r, "briefing")
  /\ UNCHANGED <<base, head, main>>

(* `git add` of the seven files stages nothing when one does not exist;    *)
(* otherwise it stages the tracked ones and reports the ignored ones, an   *)
(* error the step hides.                                                   *)
Staged(r) == \A f \in Files : ws[r][f] # {}
Committed(r) == [f \in Files |-> IF f \in Tracked THEN ws[r][f] ELSE main[f]]

(* A push must be a fast-forward. *)
Push(r) ==
  /\ base[r] = head
  /\ main' = Committed(r)
  /\ head' = head + 1
  /\ Goto(r, "success")

(* Mutant: git push --force. *)
CommitForced(r) ==
  /\ pc[r] = "commit"
  /\ \/ ~Staged(r) /\ Goto(r, "success") /\ UNCHANGED <<head, main>>
     \/ Staged(r) /\ main' = Committed(r) /\ head' = head + 1 /\ Goto(r, "success")
  /\ UNCHANGED <<base, ws, traded>>

(* Mutant: a rejected push does not fail the step. *)
CommitIgnoresPush(r) ==
  /\ pc[r] = "commit"
  /\ \/ ~Staged(r) /\ Goto(r, "success") /\ UNCHANGED <<head, main>>
     \/ Staged(r) /\ Push(r)
     \/ Staged(r) /\ base[r] # head /\ Goto(r, "success") /\ UNCHANGED <<head, main>>
  /\ UNCHANGED <<base, ws, traded>>

Commit(r) ==
  /\ pc[r] = "commit"
  /\ \/ ~Staged(r) /\ Goto(r, "success") /\ UNCHANGED <<head, main>>
     \/ Staged(r) /\ Push(r)
     \/ Staged(r) /\ base[r] # head /\ Goto(r, "failure") /\ UNCHANGED <<head, main>>
  /\ UNCHANGED <<base, ws, traded>>

(* The job's 25 minutes are over, or someone cancels it. *)
Cancel(r) ==
  /\ pc[r] \in Steps
  /\ Goto(r, "cancelled")
  /\ UNCHANGED <<base, ws, head, main, traded>>

Next ==
  \E r \in Runs :
    \/ Checkout(r)
    \/ Layer(r)
    \/ Snapshot(r)
    \/ Orders(r)
    \/ Commit(r)
    \/ Cancel(r)

Spec == Init /\ [][Next]_vars

-----------------------------------------------------------------------------
OneJob(file) == file \in {Past, {}} \/ \E r \in Runs : file = {r}

(* The values the state may have; an overwritten file is of one job. *)
TypeOK ==
  /\ pc \in [Runs -> {"idle"} \cup Steps \cup Results]
  /\ base \in [Runs -> Nat]
  /\ ws \in [Runs -> [Files -> SUBSET (Runs \cup Past)]]
  /\ head \in Nat
  /\ main \in [Files -> SUBSET (Runs \cup Past)]
  /\ traded \subseteq Runs
  /\ \A f \in Files \ Appended : OneJob(main[f]) /\ \A r \in Runs : OneJob(ws[r][f])

(* orders_log.py:19 "Append-only", daily-paper.yml:261-278: whichever jobs *)
(* overlap, fail or are killed, no commit takes a row out of the history   *)
(* or the order log on the main branch, or removes a file from it.         *)
(* Git ignores the order log, which so far never got there.                *)
AuditTrailGrows ==
  [][/\ \A f \in Appended : main[f] \subseteq main'[f]
     /\ \A f \in Files : main[f] # {} => main'[f] # {}]_vars

(* daily-paper.yml:144-148: the job whose status the main branch shows has *)
(* its row in the history there, however the snapshot fails and whichever  *)
(* jobs overlap.                                                           *)
StatusIsInHistory ==
  main["paper-status"] \subseteq main["paper-history"]

(* daily-paper.yml:12 "commit artifacts": the snapshot of a green job whose*)
(* seven files exist is in the history on the main branch, for good.       *)
GreenMeansRecorded ==
  \A r \in Runs :
    pc[r] = "success" /\ Staged(r) => r \in main["paper-history"]

(* What the push's check protects: a job that checked out the head of main *)
(* still has all of its rows and files (daily-paper.yml:261-278).          *)
CurrentJobsHaveMain ==
  \A r \in Runs :
    pc[r] \in Steps =>
      /\ base[r] <= head
      /\ ws[r]["paper-status"] \subseteq ws[r]["paper-history"]
      /\ pc[r] \in AfterSnapshot => r \in ws[r]["paper-history"]
      /\ base[r] = head =>
           /\ \A f \in Appended : main[f] \subseteq ws[r][f]
           /\ \A f \in Files : main[f] # {} => ws[r][f] # {}

PipelineInv == CurrentJobsHaveMain /\ StatusIsInHistory /\ GreenMeansRecorded
=============================================================================
