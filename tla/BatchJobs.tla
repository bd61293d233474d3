----------------------------- MODULE BatchJobs -----------------------------
(***************************************************************************)
(* One batch job of a workspace, from console/batches.create to the end of *)
(* the last processBatchJob invocation that works on it.                   *)
(*                                                                         *)
(* Every await on the database is one step, so steps of two invocations,   *)
(* of a cancel request and of the clock interleave between any two of      *)
(* them.  An invocation of processBatchJob draws a fresh workerId, hence   *)
(* each element of Workers runs at most once.  Jobs share no state.        *)
(*                                                                         *)
(* The two timing facts the code relies on are constants:                  *)
(*   LockLapse   the BullMQ lock (30 s, renewed by a timer) of a running   *)
(*               invocation can run out, and a second invocation starts;   *)
(*   LeaseLapse  the lease of a claimed chunk (120 s, never renewed) can   *)
(*               run out while the invocation that claimed it still runs.  *)
(***************************************************************************)
EXTENDS BullMQ, FiniteSets

CONSTANTS
  Items,         \* the rows of batch_job_item of the job
  Workers,       \* invocations of processBatchJob, named by their workerId
  NoItem,
  ChunkSize,     \* BATCH_JOB_CHUNK_SIZE
  MaxAttempts,   \* ITEM_PROCESS_MAX_ATTEMPTS
  DispatchModes, \* isRedisEnabled(): "queue" through BullMQ, else "inline" in the request
  LockLapse,
  LeaseLapse,
  MaxFaults      \* bound: crashes and rejected database calls

ASSUME BatchAssumption ==
  /\ IsFiniteSet(Items)
  /\ NoWorker \notin Workers
  /\ NoItem \notin Items
  /\ ChunkSize \in Nat \ {0}
  /\ MaxAttempts \in Nat \ {0}
  /\ DispatchModes \subseteq {"queue", "inline"}
  /\ LockLapse \in BOOLEAN
  /\ LeaseLapse \in BOOLEAN
  /\ MaxFaults \in Nat

VARIABLES
  job,        \* the row of batch_job
  item,       \* the rows of batch_job_item
  proc,       \* the local state of every processBatchJob invocation
  bull,       \* the BullMQ job "batch-job-<id>"
  faults,     \* faults so far, for the bound
  counted,    \* history: the items each progress counter includes
  lateClaims  \* history: chunks claimed since the job was last canceled

vars == <<job, item, proc, bull, faults, counted, lateClaims>>

JobStatus  == {"absent", "pending", "processing", "completed", "failed", "canceled"}
ItemStatus == {"pending", "processing", "completed", "failed"}
Dispatches == {"dispatching", "lost", "inline"}
Results    == {"completed", "failed"}
Labels     == {"read", "start", "check", "release", "claim", "mark", "write", "giveUp",
               "countDone", "countBad", "recheck", "final", "settle"}

\* A lease is the pair lease_expires_at / now as the claim query compares them.
ItemRow(status, lease, owner) == [status |-> status, lease |-> lease, workerId |-> owner]
Fresh == ItemRow("pending", "none", NoWorker)

\* todo: claimed and not yet decided by this invocation; done and bad: decided by
\* it and not yet counted (completedInChunk and failedInChunk are their sizes).
Local(pc) == [pc |-> pc, todo |-> {}, cur |-> NoItem, attempt |-> 0,
              done |-> {}, bad |-> {}, verdict |-> "completed"]

Running(w) == proc[w].pc \in Labels

JobRows == [status : JobStatus, completed : Nat, failed : Nat]

ItemRows == [status : ItemStatus, lease : {"none", "live", "expired"},
             workerId : Workers \cup {NoWorker}]

Locals == [pc : Labels \cup {"idle", "ended", "crashed"},
           todo : SUBSET Items, cur : Items \cup {NoItem}, attempt : Nat,
           done : SUBSET Items, bad : SUBSET Items, verdict : Results]

BullJobs == [state : BullStates \cup Dispatches, holder : Workers \cup {NoWorker},
             attemptsMade : Nat, stalls : Nat]

Init ==
  /\ job  = [status |-> "absent", completed |-> 0, failed |-> 0]
  /\ item = [i \in Items |-> Fresh]
  /\ proc = [w \in Workers |-> Local("idle")]
  /\ bull = NewBull("none")
  /\ faults = 0
  /\ counted = [r \in Results |-> {}]
  /\ lateClaims = [w \in Workers |-> 0]

----------------------------------------------------------------------------
(* The request: batches.create, dispatchBatchJob, batches.cancel.          *)

Create ==
  /\ job.status = "absent"
  /\ job'  = [job EXCEPT !.status = "pending"]
  /\ bull' = [bull EXCEPT !.state = "dispatching"]
  /\ UNCHANGED <<item, proc, faults, counted, lateClaims>>

Enqueue ==
  /\ "queue" \in DispatchModes
  /\ bull.state = "dispatching"
  /\ bull' = [bull EXCEPT !.state = "wait"]
  /\ UNCHANGED <<job, item, proc, faults, counted, lateClaims>>

\* The add rejects, or the server dies before it: the row stays, nothing will run it.
EnqueueLost ==
  /\ "queue" \in DispatchModes
  /\ bull.state = "dispatching"
  /\ bull' = [bull EXCEPT !.state = "lost"]
  /\ UNCHANGED <<job, item, proc, faults, counted, lateClaims>>

RunInline(w) ==
  /\ "inline" \in DispatchModes
  /\ bull.state = "dispatching"
  /\ proc[w].pc = "idle"
  /\ proc' = [proc EXCEPT ![w] = Local("read")]
  /\ bull' = [bull EXCEPT !.state = "inline"]
  /\ UNCHANGED <<job, item, faults, counted, lateClaims>>

Cancel ==
  /\ job.status \in {"pending", "processing"}
  /\ job' = [job EXCEPT !.status = "canceled"]
  /\ lateClaims' = [w \in Workers |-> 0]
  /\ UNCHANGED <<item, proc, bull, faults, counted>>

----------------------------------------------------------------------------
(* BullMQ, as the worker of the batch-jobs queue uses it.                  *)

Pick(w) ==
  /\ bull.state = "wait"
  /\ proc[w].pc = "idle"
  /\ proc' = [proc EXCEPT ![w] = Local("read")]
  /\ bull' = Taken(bull, w)
  /\ UNCHANGED <<job, item, faults, counted, lateClaims>>

\* The stall checker finds the lock of the holder gone.
Stall ==
  /\ bull.state = "active"
  /\ proc[bull.holder].pc = "crashed" \/ LockLapse
  /\ bull' = Stalled(bull)
  /\ UNCHANGED <<job, item, proc, faults, counted, lateClaims>>

\* processBatchJob returns.
Return(w) ==
  /\ proc' = [proc EXCEPT ![w] = Local("ended")]
  /\ bull' = Returned(bull, w)

\* A database call outside the item's try block rejects, and so does processBatchJob.
\* A call that was applied and whose reply was lost is this step after the call's own
\* ("write" follows an item's update to processing), except for Settle's, whose retry
\* would only read a terminal status.
Reject(w) ==
  /\ Running(w)
  /\ faults < MaxFaults
  /\ faults' = faults + 1
  /\ proc' = [proc EXCEPT ![w] = Local("ended")]
  /\ bull' = Thrown(bull, w)
  /\ UNCHANGED <<job, item, counted, lateClaims>>

\* The process of w dies between two of its database calls.
Crash(w) ==
  /\ Running(w)
  /\ faults < MaxFaults
  /\ faults' = faults + 1
  /\ proc' = [proc EXCEPT ![w] = Local("crashed")]
  /\ UNCHANGED <<job, item, bull, counted, lateClaims>>

----------------------------------------------------------------------------
(* processBatchJob, one action per await.                                  *)

At(w, l) == proc[w].pc = l
Goto(w, l) == proc' = [proc EXCEPT ![w].pc = l]

ReadJob(w) ==
  /\ At(w, "read")
  /\ IF job.status \in {"completed", "failed", "canceled"}
     THEN Return(w)
     ELSE Goto(w, "start") /\ UNCHANGED bull
  /\ UNCHANGED <<job, item, faults, counted, lateClaims>>

\* updateBatchJobStatus has no condition on the status it overwrites.
StartJob(w) ==
  /\ At(w, "start")
  /\ job' = [job EXCEPT !.status = "processing"]
  /\ Goto(w, "check")
  /\ UNCHANGED <<item, bull, faults, counted, lateClaims>>

\* Mutant of CheckCanceled: the loop does not look at the job's status.
CheckCanceledSkipped(w) ==
  /\ At(w, "check")
  /\ Goto(w, "release")
  /\ UNCHANGED <<job, item, bull, faults, counted, lateClaims>>

CheckCanceled(w) ==
  /\ At(w, "check")
  /\ IF job.status = "canceled"
     THEN Return(w)
     ELSE Goto(w, "release") /\ UNCHANGED bull
  /\ UNCHANGED <<job, item, faults, counted, lateClaims>>

\* Mutant of ReleaseExpired: lease_expires_at is not compared with now.
ReleaseUnconditional(w) ==
  /\ At(w, "release")
  /\ item' = [i \in Items |-> IF item[i].status = "processing" THEN Fresh ELSE item[i]]
  /\ Goto(w, "claim")
  /\ UNCHANGED <<job, bull, faults, counted, lateClaims>>

ReleaseExpired(w) ==
  /\ At(w, "release")
  /\ item' = [i \in Items |->
                IF item[i].status = "processing" /\ item[i].lease = "expired"
                THEN Fresh ELSE item[i]]
  /\ Goto(w, "claim")
  /\ UNCHANGED <<job, bull, faults, counted, lateClaims>>

\* Mutant of Claimable: lease_expires_at is not compared with now.
ClaimableUnexpired(i) == item[i].status \in {"pending", "processing"}

Claimable(i) ==
  \/ item[i].status = "pending"
  \/ item[i].status = "processing" /\ item[i].lease = "expired"

\* The items of a job share created_at, so ORDER BY leaves the choice of the chunk
\* open.  SKIP LOCKED passes over rows another transaction is writing: the claim then
\* reads as if it came before or after that transaction.
Chunks ==
  LET open == {i \in Items : Claimable(i)}
  IN  {S \in SUBSET open : \/ Cardinality(S) = ChunkSize
                           \/ S = open /\ Cardinality(S) < ChunkSize}

Claim(w) ==
  /\ At(w, "claim")
  /\ \E S \in Chunks :
       /\ item' = [i \in Items |-> IF i \in S THEN ItemRow("processing", "live", w)
                                              ELSE item[i]]
       /\ proc' = [proc EXCEPT ![w] = IF S = {} THEN Local("recheck")
                                      ELSE [Local("mark") EXCEPT !.todo = S]]
       /\ lateClaims' = IF S # {} /\ job.status = "canceled"
                        THEN [lateClaims EXCEPT ![w] = @ + 1] ELSE lateClaims
  /\ UNCHANGED <<job, bull, faults, counted>>

\* The next attempt at an item: only its status and attempts columns are written.
MarkProcessing(w) ==
  /\ At(w, "mark")
  /\ \E i \in proc[w].todo :
       /\ proc[w].cur \in {i, NoItem}
       /\ item' = [item EXCEPT ![i].status = "processing"]
       /\ proc' = [proc EXCEPT ![w] = [proc[w] EXCEPT !.pc = "write", !.cur = i,
                                                   !.attempt = proc[w].attempt + 1]]
  /\ UNCHANGED <<job, bull, faults, counted, lateClaims>>

\* The current item is decided: the next item of the chunk, or the counters.
AfterItem(w, done, bad) ==
  LET rest == proc[w].todo \ {proc[w].cur}
  IN  proc' = [proc EXCEPT ![w] =
                 [proc[w] EXCEPT
                    !.todo = rest, !.cur = NoItem, !.attempt = 0, !.done = done, !.bad = bad,
                    !.pc = IF rest # {} THEN "mark"
                           ELSE IF done # {} THEN "countDone" ELSE "countBad"]]

CompleteItem(w) ==
  /\ At(w, "write")
  /\ item' = [item EXCEPT ![proc[w].cur] = ItemRow("completed", "none", NoWorker)]
  /\ AfterItem(w, proc[w].done \cup {proc[w].cur}, proc[w].bad)
  /\ UNCHANGED <<job, bull, faults, counted, lateClaims>>

\* Mutant of AttemptFails: completedInChunk is incremented before the write.
AttemptFailsCounted(w) ==
  /\ At(w, "write")
  /\ \E applied \in BOOLEAN :
       item' = IF applied
               THEN [item EXCEPT ![proc[w].cur] = ItemRow("completed", "none", NoWorker)]
               ELSE item
  /\ proc' = [proc EXCEPT ![w] =
                [proc[w] EXCEPT !.done = proc[w].done \cup {proc[w].cur},
                                !.pc = IF proc[w].attempt < MaxAttempts
                                       THEN "mark" ELSE "giveUp"]]
  /\ UNCHANGED <<job, bull, faults, counted, lateClaims>>

\* The write of the result rejects inside the try block: it was not applied, or it was
\* and its reply was lost.  Either way the attempt counts as failed.
AttemptFails(w) ==
  /\ At(w, "write")
  /\ \E applied \in BOOLEAN :
       item' = IF applied
               THEN [item EXCEPT ![proc[w].cur] = ItemRow("completed", "none", NoWorker)]
               ELSE item
  /\ Goto(w, IF proc[w].attempt < MaxAttempts THEN "mark" ELSE "giveUp")
  /\ UNCHANGED <<job, bull, faults, counted, lateClaims>>

FailItem(w) ==
  /\ At(w, "giveUp")
  /\ item' = [item EXCEPT ![proc[w].cur] = ItemRow("failed", "none", NoWorker)]
  /\ AfterItem(w, proc[w].done, proc[w].bad \cup {proc[w].cur})
  /\ UNCHANGED <<job, bull, faults, counted, lateClaims>>

\* Mutant of CountCompleted: the failures of a mixed chunk fall into an else branch.
CountCompletedOnly(w) ==
  /\ At(w, "countDone")
  /\ job' = [job EXCEPT !.completed = @ + Cardinality(proc[w].done)]
  /\ counted' = [counted EXCEPT !["completed"] = @ \cup proc[w].done]
  /\ proc' = [proc EXCEPT ![w] = [proc[w] EXCEPT !.done = {}, !.bad = {}, !.pc = "check"]]
  /\ UNCHANGED <<item, bull, faults, lateClaims>>

\* incrementBatchJobProgress adds to the row, once per kind and only if there is any.
CountCompleted(w) ==
  /\ At(w, "countDone")
  /\ job' = [job EXCEPT !.completed = @ + Cardinality(proc[w].done)]
  /\ counted' = [counted EXCEPT !["completed"] = @ \cup proc[w].done]
  /\ proc' = [proc EXCEPT ![w] =
                [proc[w] EXCEPT !.done = {},
                                !.pc = IF proc[w].bad # {} THEN "countBad" ELSE "check"]]
  /\ UNCHANGED <<item, bull, faults, lateClaims>>

CountFailed(w) ==
  /\ At(w, "countBad")
  /\ job' = [job EXCEPT !.failed = @ + Cardinality(proc[w].bad)]
  /\ counted' = [counted EXCEPT !["failed"] = @ \cup proc[w].bad]
  /\ proc' = [proc EXCEPT ![w] = [proc[w] EXCEPT !.bad = {}, !.pc = "check"]]
  /\ UNCHANGED <<item, bull, faults, lateClaims>>

RecheckCanceled(w) ==
  /\ At(w, "recheck")
  /\ IF job.status = "canceled"
     THEN Return(w)
     ELSE Goto(w, "final") /\ UNCHANGED bull
  /\ UNCHANGED <<job, item, faults, counted, lateClaims>>

\* Mutant of Verdict: the status of the job is written back.
VerdictUnchanged == job.status

\* finalJob: the first and the last verdict of the code are the same write.
Verdict == IF job.failed > 0 /\ job.completed = 0 THEN "failed" ELSE "completed"

\* Mutant of ReadFinal: a run that finds nothing counted leaves the job alone.
ReadFinalOnlyCounted(w) ==
  /\ At(w, "final")
  /\ IF job.status = "canceled" \/ job.completed + job.failed = 0
     THEN Return(w)
     ELSE /\ proc' = [proc EXCEPT ![w] = [proc[w] EXCEPT !.pc = "settle", !.verdict = Verdict]]
          /\ UNCHANGED bull
  /\ UNCHANGED <<job, item, faults, counted, lateClaims>>

ReadFinal(w) ==
  /\ At(w, "final")
  /\ IF job.status = "canceled"
     THEN Return(w)
     ELSE /\ proc' = [proc EXCEPT ![w] = [proc[w] EXCEPT !.pc = "settle", !.verdict = Verdict]]
          /\ UNCHANGED bull
  /\ UNCHANGED <<job, item, faults, counted, lateClaims>>

Settle(w) ==
  /\ At(w, "settle")
  /\ job' = [job EXCEPT !.status = proc[w].verdict]
  /\ Return(w)
  /\ UNCHANGED <<item, faults, counted, lateClaims>>

----------------------------------------------------------------------------

\* The clock passes lease_expires_at of the chunk that o claimed.
ExpireLease(o) ==
  /\ LeaseLapse \/ ~Running(o)
  /\ \E i \in Items : item[i].lease = "live" /\ item[i].workerId = o
  /\ item' = [i \in Items |->
                IF item[i].lease = "live" /\ item[i].workerId = o
                THEN [item[i] EXCEPT !.lease = "expired"] ELSE item[i]]
  /\ UNCHANGED <<job, proc, bull, faults, counted, lateClaims>>

----------------------------------------------------------------------------

Process(w) ==
  \/ ReadJob(w) \/ StartJob(w) \/ CheckCanceled(w) \/ ReleaseExpired(w) \/ Claim(w)
  \/ MarkProcessing(w) \/ CompleteItem(w) \/ AttemptFails(w) \/ FailItem(w)
  \/ CountCompleted(w) \/ CountFailed(w)
  \/ RecheckCanceled(w) \/ ReadFinal(w) \/ Settle(w)

Next ==
  \/ Create \/ Enqueue \/ EnqueueLost \/ Cancel \/ Stall
  \/ \E w \in Workers :
       \/ RunInline(w) \/ Pick(w) \/ Process(w)
       \/ Reject(w) \/ Crash(w) \/ ExpireLease(w)

Spec == Init /\ [][Next]_vars

\* A running invocation goes on unless it crashes, an idle worker picks a waiting
\* job, and the stall checker runs.  Nobody has to create, cancel or enqueue.
Fairness ==
  /\ \A w \in Workers : WF_vars(Process(w))
  /\ WF_vars(\E w \in Workers : Pick(w))
  /\ WF_vars(Stall /\ proc[bull.holder].pc = "crashed")

FairSpec == Spec /\ Fairness

----------------------------------------------------------------------------
(* Properties.                                                             *)

TypeOK ==
  /\ job \in JobRows
  /\ item \in [Items -> ItemRows]
  /\ proc \in [Workers -> Locals]
  /\ bull \in BullJobs
  /\ faults \in Nat
  /\ counted \in [Results -> SUBSET Items]
  /\ lateClaims \in [Workers -> Nat]

\* Two running invocations never work on the same item: FOR UPDATE SKIP LOCKED, the
\* status of a claimed row and its lease together make the claim exclusive.  The code
\* needs the lease to outlast the chunk for it.
ClaimsAreExclusive ==
  \A v, w \in Workers : v # w => proc[v].todo \cap proc[w].todo = {}

\* The counters the progress bar shows never include an item twice, nor one that is
\* not decided that way: a retried or overlapping run adds only what it decided.
CountersMatchItems ==
  \A r \in Results :
    /\ job[r] = Cardinality(counted[r])
    /\ counted[r] \subseteq {i \in Items : item[i].status = r}

\* Once nothing runs any more and no fault occurred, a settled job has decided every
\* item and counted every decision, however many invocations overlapped.
FaultFreeRunIsExact ==
  (/\ faults = 0
   /\ job.status \in {"completed", "failed"}
   /\ \A w \in Workers : ~Running(w))
  => /\ \A i \in Items : item[i].status \in Results
     /\ job.completed + job.failed = Cardinality(Items)

\* As long as a cancel is not overwritten, an invocation that is already running
\* claims at most one more chunk.
CancelBoundsClaims == \A w \in Workers : lateClaims[w] <= 1

\* An item this invocation or another still works on is undecided for the ledger.
Outcome ==
  [i \in Items |-> IF item[i].status \in Results /\ \A w \in Workers : i \notin proc[w].todo
                   THEN item[i].status ELSE "open"]

Ledger == INSTANCE BatchLedger
            WITH outcome <- Outcome, tally <- [r \in Results |-> job[r]]

\* The job implements the ledger: retries, crashes, lost replies and overlapping
\* invocations never change a decision or count one twice.
ImplementsLedger == Ledger!Spec

\* A job that was dispatched is settled or canceled, unless BullMQ gives it up, or
\* the one inline run there is met a fault.
DispatchedJobSettles ==
  bull.state \in {"wait", "inline"} ~>
    \/ job.status \in {"completed", "failed", "canceled"}
    \/ bull.state = "failed"
    \/ bull.state = "inline" /\ faults > 0

\* What the cancel request answers: a canceled job stays canceled.
CancelIsFinal == [][job.status = "canceled" => job'.status = "canceled"]_vars

\* A job that reports completed, with nothing left that could run it, has decided
\* every item.
CompletedJobIsDone ==
  (/\ job.status = "completed"
   /\ bull.state \in {"completed", "failed"}
   /\ \A w \in Workers : ~Running(w))
  => \A i \in Items : item[i].status \in Results

============================================================================
