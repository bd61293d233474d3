------------------------------ MODULE BullMQ ------------------------------
(***************************************************************************)
(* One BullMQ job, as the workers of packages/jobs use the library: what   *)
(* becomes of the job when a processor takes it, returns, throws, or loses *)
(* its lock.  The library is not part of the repository; the options are   *)
(* QUEUE_DEFAULT_JOB_OPTIONS, and the backoff is left out because a job    *)
(* that waits for it differs from a waiting one by its delay only.         *)
(***************************************************************************)
EXTENDS Integers

CONSTANTS
  NoWorker,
  QueueAttempts, \* QUEUE_DEFAULT_JOB_OPTIONS.attempts
  MaxStalls      \* the library's maxStalledCount

ASSUME QueueAssumption == QueueAttempts \in Nat /\ MaxStalls \in Nat

BullStates == {"none", "wait", "active", "completed", "failed"}

NewBull(state) == [state |-> state, holder |-> NoWorker, attemptsMade |-> 0, stalls |-> 0]

HeldBy(b, w) == b.state = "active" /\ b.holder = w

Taken(b, w) == [b EXCEPT !.state = "active", !.holder = w]

\* The processor returned: the job is completed if w still has its lock.
Returned(b, w) == IF HeldBy(b, w) THEN [b EXCEPT !.state = "completed"] ELSE b

\* The processor threw: another attempt, or the dead letters.
Thrown(b, w) ==
  IF ~HeldBy(b, w) THEN b
  ELSE [b EXCEPT !.state = IF b.attemptsMade + 1 < QueueAttempts THEN "wait" ELSE "failed",
                 !.attemptsMade = b.attemptsMade + 1,
                 !.holder = NoWorker]

\* The stall checker found the lock gone: the job waits again, or is given up.
Stalled(b) ==
  IF b.stalls < MaxStalls
  THEN [b EXCEPT !.state = "wait", !.holder = NoWorker, !.stalls = b.stalls + 1]
  ELSE [b EXCEPT !.state = "failed", !.holder = NoWorker]

============================================================================
