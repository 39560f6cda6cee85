---------------------------- MODULE HttpAdapter -----------------------------
(***************************************************************************)
(* One HttpAdapter (quant/adapters/base.py) and the tasks that share it:   *)
(* a request takes a token of the TokenBucket, goes out, and is retried    *)
(* after an answer that may be transient.  A task that finds the bucket    *)
(* short sleeps with the bucket's lock held, so the others queue.          *)
(*                                                                         *)
(* A tick is half a second, the unit of the retries' waits.  Tokens are    *)
(* counted in parts, so that they stay whole numbers: a call costs         *)
(* PerTicks parts and each tick brings Capacity of them.                   *)
(***************************************************************************)
EXTENDS Integers, Sequences

CONSTANTS Callers,      \* the tasks
          Capacity,     \* calls_per_minute
          PerTicks,     \* per_seconds, in ticks
          MaxRetries,   \* max_retries: attempts of one request
          RetryAfters,  \* values of a Retry-After header, in ticks
          MaxNow        \* bound: the last tick

ASSUME AdapterAssumption ==
  /\ {Capacity, PerTicks, MaxRetries} \subseteq Nat \ {0}
  /\ RetryAfters \subseteq Nat
  /\ MaxNow \in Nat

VARIABLES now,      \* time.monotonic()
          tokens,   \* _tokens, in parts
          last,     \* _last
          queue,    \* who waits for _lock; the first has it
          step,     \* where the request of a task is
          attempt,  \* which attempt it is at, 0 without a request
          until,    \* when the sleep of a task ends, 0 when it is awake
          calls     \* history: when each token was taken

bucket == <<tokens, last, calls>>
adapterVars == <<now, bucket, queue, step, attempt, until>>

Full == Capacity * PerTicks

AdapterInit ==
  /\ now = 0
  /\ tokens = PerTicks
  /\ last = 0
  /\ queue = <<>>
  /\ step = [c \in Callers |-> "idle"]
  /\ attempt = [c \in Callers |-> 0]
  /\ until = [c \in Callers |-> 0]
  /\ calls = <<>>

Enters(c, s) == step' = [step EXCEPT ![c] = s]
Sleep(c, ticks) == until' = [until EXCEPT ![c] = now + ticks]
Awake(c) == until' = [until EXCEPT ![c] = 0]

Request(c) ==
  /\ step[c] = "idle"
  /\ Enters(c, "acquire")
  /\ queue' = Append(queue, c)
  /\ attempt' = [attempt EXCEPT ![c] = 1]
  /\ UNCHANGED <<now, bucket, until>>

-----------------------------------------------------------------------------
(* TokenBucket.acquire *)

Refilled ==
  LET sum == tokens + (now - last) * Capacity
  IN IF sum < Full THEN sum ELSE Full

HasLock(c) ==
  /\ step[c] = "acquire"
  /\ c = Head(queue)
  /\ now >= until[c]

TakeToken(c) ==
  /\ HasLock(c)
  /\ Refilled >= PerTicks
  /\ tokens' = Refilled - PerTicks
  /\ last' = now
  /\ calls' = Append(calls, now)
  /\ queue' = Tail(queue)
  /\ Enters(c, "send")
  /\ Awake(c)
  /\ UNCHANGED <<now, attempt>>

(* Mutant: the refill is kept, but not the time up to which it counts. *)
AwaitTokenKeepsLast(c) ==
  /\ HasLock(c)
  /\ Refilled < PerTicks
  /\ tokens' = Refilled
  /\ Sleep(c, (PerTicks - Refilled + Capacity - 1) \div Capacity)
  /\ UNCHANGED <<now, last, calls, queue, step, attempt>>

(* Whoever sleeps until the bucket has a token keeps the lock. *)
AwaitToken(c) ==
  /\ HasLock(c)
  /\ Refilled < PerTicks
  /\ tokens' = Refilled
  /\ last' = now
  /\ Sleep(c, (PerTicks - Refilled + Capacity - 1) \div Capacity)
  /\ UNCHANGED <<now, calls, queue, step, attempt>>

-----------------------------------------------------------------------------
(* The answer *)

Succeeds(c) ==
  /\ step[c] = "send"
  /\ Enters(c, "done")
  /\ UNCHANGED <<now, bucket, queue, attempt, until>>

(* 401, 403 and other client errors are not retried. *)
Refused(c) ==
  /\ step[c] = "send"
  /\ Enters(c, "failed")
  /\ UNCHANGED <<now, bucket, queue, attempt, until>>

MaxBackoff == 60
MaxRetryAfter == 120

(* wait_exponential: the powers of 2 up to 30 seconds. *)
Doublings == <<1, 2, 4, 8, 16, 32>>
Backoff(n) == IF n <= Len(Doublings) THEN Doublings[n] ELSE MaxBackoff

HasAttempts(c) == attempt[c] < MaxRetries

(* A timeout, a network error, 5xx or 429: sleep as long as a Retry-After  *)
(* says, and before another attempt the backoff.                           *)
MayBeTransient(c) ==
  /\ step[c] = "send"
  /\ \E after \in RetryAfters \cup {0} :
       Sleep(c, (IF after < MaxRetryAfter THEN after ELSE MaxRetryAfter)
                  + IF HasAttempts(c) THEN Backoff(attempt[c]) ELSE 0)
  /\ Enters(c, "wait")
  /\ UNCHANGED <<now, bucket, queue, attempt>>

RetryOrRaise(c) ==
  /\ step[c] = "wait"
  /\ now >= until[c]
  /\ IF HasAttempts(c)
     THEN /\ attempt' = [attempt EXCEPT ![c] = @ + 1]
          /\ queue' = Append(queue, c)
          /\ Enters(c, "acquire")
     ELSE Enters(c, "failed") /\ UNCHANGED <<attempt, queue>>
  /\ Awake(c)
  /\ UNCHANGED <<now, bucket>>

Return(c) ==
  /\ step[c] \in {"done", "failed"}
  /\ Enters(c, "idle")
  /\ attempt' = [attempt EXCEPT ![c] = 0]
  /\ UNCHANGED <<now, bucket, queue, until>>

Tick ==
  /\ now < MaxNow
  /\ now' = now + 1
  /\ UNCHANGED <<bucket, queue, step, attempt, until>>

Transfer(c) ==
  \/ TakeToken(c) \/ AwaitToken(c)
  \/ Refused(c) \/ MayBeTransient(c) \/ RetryOrRaise(c)

-----------------------------------------------------------------------------
AdapterTypeOK ==
  /\ now \in Nat /\ last \in Nat /\ last <= now
  /\ tokens \in Nat /\ tokens <= Full
  /\ queue \in Seq(Callers)
  /\ step \in [Callers -> {"idle", "acquire", "send", "wait", "done", "failed"}]
  /\ attempt \in [Callers -> 0 .. MaxRetries]
  /\ until \in [Callers -> Nat]
  /\ calls \in Seq(Nat)

(* base.py:7 "per-adapter calls-per-minute budget": between any two calls, *)
(* however many tasks retry and sleep, no more tokens were taken than a    *)
(* full bucket and the refill since.                                       *)
WindowBudget ==
  \A i, j \in 1 .. Len(calls) :
    i <= j => (j - i + 1) * PerTicks <= Full + (calls[j] - calls[i]) * Capacity

(* base.py:47-52 "bursting the full budget at boot defeats the point":     *)
(* since the start no more than one token and the refill was taken.        *)
BootBudget == Len(calls) * PerTicks <= PerTicks + now * Capacity

(* Why they hold: the tokens left are part of both budgets.                *)
BucketInv ==
  /\ \A i \in 1 .. Len(calls) :
       /\ calls[i] <= last
       /\ tokens + (Len(calls) - i + 1) * PerTicks <= Full + (last - calls[i]) * Capacity
  /\ tokens + Len(calls) * PerTicks <= PerTicks + last * Capacity
  /\ WindowBudget

(* base.py:81-83 "sleep until we'd have enough": whoever slept for a token *)
(* with the lock in hand finds one when it wakes.                          *)
SleepersFindToken ==
  \A c \in Callers :
    step[c] = "acquire" /\ until[c] \in 1 .. now => Refilled >= PerTicks

(* The budget, at the start and at any time, and without a caller that     *)
(* slept in vain.                                                          *)
BudgetIsKept == WindowBudget /\ BootBudget /\ SleepersFindToken
=============================================================================
