----------------------------- MODULE TaskQueue -----------------------------
(***************************************************************************)
(* The life of a background task: asynq's retry bookkeeping, which is an   *)
(* external library, and the middleware the payment and transfer handlers  *)
(* run behind (internal/queues/middleware.go, worker.go).                  *)
(*                                                                         *)
(* A task is idle (unknown to Redis, or completed), queued (pending,       *)
(* scheduled or waiting for a retry), archived, or active: a handler is    *)
(* running and pc[t] is the call it makes next.  The labels "exhausted"    *)
(* and "exhaustedLater" are the hook OnRetriesExhausted runs after the     *)
(* last attempt, failed or merely postponed.                               *)
(***************************************************************************)
EXTENDS Naturals

CONSTANTS Tasks,       \* every task that can be in Redis
          MaxRetry,    \* asynq.MaxRetry of each task
          Exhaustible  \* tasks whose handler is wrapped in OnRetriesExhausted

VARIABLES pc,     \* where each task is
          retried \* asynq's count of the failed attempts of each task

Parked == {"idle", "queued", "archived"}

Active(t) == pc[t] \notin Parked

QueueInit ==
  /\ pc = [t \in Tasks |-> "idle"]
  /\ retried = [t \in Tasks |-> 0]

Goto(t, label) ==
  /\ pc' = [pc EXCEPT ![t] = label]
  /\ UNCHANGED retried

(* A task with a TaskID that Redis still holds, archived ones included, is *)
(* not enqueued again: the conflict is reported as success.                *)
Enqueue(t) ==
  IF pc[t] = "idle" THEN Goto(t, "queued") ELSE UNCHANGED <<pc, retried>>

(* A worker takes a queued task.                                           *)
Start(t, label) == pc[t] = "queued" /\ Goto(t, label)

(* The handler returned nil, or Inspector.DeleteTask removed the task.     *)
Remove(ts) ==
  /\ pc' = [t \in Tasks |-> IF t \in ts THEN "idle" ELSE pc[t]]
  /\ retried' = [t \in Tasks |-> IF t \in ts THEN 0 ELSE retried[t]]

Complete(t) == Remove({t})

Archive(t) ==
  /\ pc' = [pc EXCEPT ![t] = "archived"]
  /\ retried' = [retried EXCEPT ![t] = 0]

(* Mutant: the count is compared with the wrong bound.                     *)
IsFinalAttemptLate(t) == retried[t] > MaxRetry[t]

IsFinalAttempt(t) == retried[t] >= MaxRetry[t]

Requeue(t) ==
  /\ pc' = [pc EXCEPT ![t] = "queued"]
  /\ retried' = [retried EXCEPT ![t] = @ + 1]

(* No retry is left: the exhaustion hook runs, if the task has one, and    *)
(* then asynq archives the task.                                           *)
Exhaust(t) ==
  IF t \in Exhaustible THEN Goto(t, "exhausted") ELSE Archive(t)

(* The handler returned an ordinary error.                                 *)
Fail(t) == IF IsFinalAttempt(t) THEN Exhaust(t) ELSE Requeue(t)

(* Mutant: IsFailure forgets ErrRetryLater.                                *)
RetryLaterCounted(t) == Fail(t)

(* The handler (the poll's, which has a hook) returned ErrRetryLater:      *)
(* IsFailure says it is no failure, so asynq retries the task without      *)
(* counting the attempt.                                                   *)
RetryLater(t) ==
  Goto(t, IF IsFinalAttempt(t) THEN "exhaustedLater" ELSE "queued")

(* The hook returned.  OnRetriesExhausted takes the task for archived, but *)
(* asynq may also retry one that was postponed.                            *)
HookReturns(t) == \/ Archive(t)
                  \/ pc[t] = "exhaustedLater" /\ Goto(t, "queued")

(* The worker died.  asynq's recoverer finds the expired lease and counts  *)
(* the attempt; it archives an exhausted task without any middleware.      *)
LeaseLost(t) ==
  /\ Active(t)
  /\ IF IsFinalAttempt(t) THEN Archive(t) ELSE Requeue(t)

(* Inspector.DeleteTask removes any task that is not running.              *)
Deletable(t) == pc[t] \in {"queued", "archived"}
=============================================================================
