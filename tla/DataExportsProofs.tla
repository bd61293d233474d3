-------------------------- MODULE DataExportsProofs --------------------------
(***************************************************************************)
(* Theorems about DataExports: its safety properties for any invocations,  *)
(* progress writes, stalls and faults.                                     *)
(***************************************************************************)
EXTENDS DataExports, TLAPS

----------------------------------------------------------------------------
(* The inductive invariant.                                                *)

\* An export that has grown old, is being swept or was swept away.
Aged ==
  \/ req.expires \in {"past", "old"} \/ req.completed = "old" \/ sweep.pc # "idle"
  \/ req.status = "gone" /\ req.was # "workspace"

Unworked == /\ \A r \in Runs : ~Running(r)
            /\ bull.state \notin {"dispatching", "wait", "active"}

\* The clock and the schedules only meet an export that nobody works on, now or later.
AgedIsUnworked == Aged => Unworked

\* Nor is there anything to work on before the request is created.
AbsentIsUnworked ==
  req.status = "absent" =>
    /\ Unworked /\ sweep.pc = "idle" /\ file.state = "none"
    /\ req.expires = "none" /\ req.completed = "none"

\* The row goes with the workspace, and key and expiry are written together.
RowShape ==
  /\ HasRow => workspace
  /\ req.status = "ready" => req.fileKey /\ req.by \in Runs
  /\ req.fileKey <=> req.expires # "none"
  /\ req.completed = "old" \/ sweep.pc # "idle" => req.expires # "live"

\* Between opening the file and the expiry, nobody deletes it.
FileIsThere ==
  /\ \A r \in Runs : proc[r].pc \in {"copy", "ready"} => file.state # "none"
  /\ req.status = "ready" /\ req.expires = "live" => file.state # "none"

\* Where a run has read the row and has not settled it.
Working == {"start", "rows", "progress", "check", "upload", "copy", "ready", "cancel"}

\* Without an overlap: one invocation at a time, the file is its own, and a request
\* that is ready, or was reported so, is not started again.
SoleRun == ~overlap =>
  /\ \A r, v \in Runs : Running(r) /\ Running(v) => r = v
  /\ req.status = "ready" /\ req.expires = "live" => file = [state |-> "whole", by |-> req.by]
  /\ \A r \in Runs :
       /\ proc[r].pc = "copy" => file = [state |-> "partial", by |-> r]
       /\ proc[r].pc = "ready" => file = [state |-> "whole", by |-> r]
       /\ proc[r].pc \in Working => req.status # "ready"
       /\ proc[r].pc = "audit" => req.status \in {"ready", "gone"}
       /\ notified # {} /\ Running(r) => proc[r].pc \in {"read", "done"}

\* A look at the cancel mark is ahead of the run, or it has given up.
Stopping(r) ==
  \/ proc[r].pc \in {"read", "check", "fail", "failAudit", "cancel", "done"}
  \/ /\ proc[r].pc \in {"start", "rows", "progress"}
     /\ \E i \in proc[r].at .. Len(Stops) : Stops[i] = "chunk"

\* Once the mark is set, this is so for every run the mark was not too late for.
CanceledIsStopping ==
  req.canceledAt => \A r \in Runs \ escaped : Running(r) => Stopping(r)

\* The rows are counted before the file is opened.
ExceedsHasNoFile == req.size = "exceeds" =>
  /\ file.state = "none"
  /\ \A r \in Runs :
       /\ proc[r].pc \notin {"upload", "copy", "ready", "audit"}
       /\ proc[r].pc \in {"progress", "check"} => proc[r].at # Len(Stops)

\* Without a fault an export that fits does not fail.
FailedByFault == HasRow /\ req.size = "fits" /\ faults = 0 =>
  req.status # "failed" /\ \A r \in Runs : proc[r].pc \notin {"fail", "failAudit"}

\* Once the sweep has passed the object, or has no key of it, only a failed run's
\* file is left.
SweptFile ==
  HasRow /\ file.state # "none"
    /\ (sweep.pc = "row" \/ (sweep.pc = "object" /\ ~sweep.hasKey)) => req.status = "failed"

\* The inductive invariant: the properties and what they rest on.
IInv ==
  /\ TypeOK /\ AgedIsUnworked /\ AbsentIsUnworked /\ RowShape /\ FileIsThere /\ SoleRun
  /\ CanceledIsStopping /\ ExceedsHasNoFile /\ FailedByFault /\ SweptFile
  /\ NotifiedStaysReady /\ CancelStopsChunks /\ FileOutlivesOnlyFailures


----------------------------------------------------------------------------
(* What the steps do, field by field.                                      *)

\* One invocation goes on.
ProcMoves(r, l, n) ==
  /\ proc' \in [Runs -> Locals]
  /\ \A v \in Runs \ {r} : proc'[v] = proc[v]
  /\ proc'[r].pc = l /\ proc'[r].at = n

\* It has written its progress and goes on with the next rows, or with the file.
StopMoves(r) ==
  \/ proc[r].at = Len(Stops) /\ ProcMoves(r, "upload", 1)
  \/ proc[r].at # Len(Stops) /\ ProcMoves(r, "rows", proc[r].at + 1)

\* The row, if there is one, gets a status.
RowBecomes(status, completed) ==
  /\ req' \in Rows
  /\ ~HasRow => req' = req
  /\ HasRow => /\ req'.status = status /\ req'.completed = completed
               /\ req'.size = req.size /\ req'.fileKey = req.fileKey /\ req'.by = req.by
               /\ req'.expires = req.expires /\ req'.canceledAt = req.canceledAt

RowReady(r) ==
  /\ req' \in Rows
  /\ ~HasRow => req' = req
  /\ HasRow => /\ req'.status = "ready" /\ req'.completed = "recent"
               /\ req'.size = req.size /\ req'.fileKey = TRUE /\ req'.by = r
               /\ req'.expires = "live" /\ req'.canceledAt = req.canceledAt

RowCanceled ==
  /\ req' \in Rows
  /\ req'.status = "canceled" /\ req'.canceledAt = TRUE
  /\ req'.size = req.size /\ req'.fileKey = req.fileKey /\ req'.by = req.by
  /\ req'.expires = req.expires /\ req'.completed = req.completed

RowGone(why) ==
  /\ req' \in Rows
  /\ req'.status = "gone" /\ req'.was = why
  /\ req'.size = "fits" /\ req'.fileKey = FALSE /\ req'.expires = "none"
  /\ req'.completed = "none" /\ req'.canceledAt = FALSE

RowAges ==
  /\ req' \in Rows
  /\ req'.status = req.status /\ req'.size = req.size /\ req'.fileKey = req.fileKey
  /\ req'.by = req.by /\ req'.canceledAt = req.canceledAt /\ req'.was = req.was
  /\ req'.expires # "live" /\ (req'.expires = "none" <=> req.expires = "none")
  /\ req.status # "absent"

SweepMoves(pc) ==
  /\ sweep.pc = "idle"
  /\ sweep' \in [pc : {"idle", "object", "row"}, hasKey : BOOLEAN]
  /\ sweep'.pc = pc /\ sweep'.hasKey = req.fileKey

LEMMA StopsAreThere == Len(Stops) \in Nat /\ 1 \in 1 .. Len(Stops)
  BY ExportAssumption

LEMMA ProcTypes ==
  ASSUME TypeOK, NEW r \in Runs
  PROVE  /\ proc[r] \in Locals /\ proc[r].at \in 1 .. Len(Stops)
         /\ proc[r].pc \in Labels \cup {"idle", "ended", "crashed"}
  BY DEF TypeOK, Locals

LEMMA RowTypes ==
  ASSUME TypeOK
  PROVE  /\ req.status \in {"absent", "gone", "pending", "processing", "ready", "failed",
                            "canceled"}
         /\ req.size \in {"fits", "exceeds"} /\ req.fileKey \in BOOLEAN
         /\ req.canceledAt \in BOOLEAN
  BY DEF TypeOK, Rows

LEMMA SetMoves ==
  ASSUME TypeOK, NEW r \in Runs, NEW l \in Labels \cup {"idle", "ended", "crashed"},
         NEW n \in 1 .. Len(Stops), proc' = [proc EXCEPT ![r] = [pc |-> l, at |-> n]]
  PROVE  ProcMoves(r, l, n)
  BY DEF TypeOK, ProcMoves, Locals

LEMMA LocalMoves ==
  ASSUME TypeOK, NEW r \in Runs, NEW l \in Labels \cup {"idle", "ended", "crashed"},
         proc' = [proc EXCEPT ![r] = Local(l)]
  PROVE  ProcMoves(r, l, 1)
  BY StopsAreThere, SetMoves DEF Local

LEMMA GotoMoves ==
  ASSUME TypeOK, NEW r \in Runs, NEW l \in Labels \cup {"idle", "ended", "crashed"}, Goto(r, l)
  PROVE  ProcMoves(r, l, proc[r].at)
<1>1. PICK v : v = [proc[r] EXCEPT !.pc = l]
  OBVIOUS
<1>2. v \in Locals /\ v.pc = l /\ v.at = proc[r].at
  BY <1>1, ProcTypes DEF Locals
<1>3. proc' = [proc EXCEPT ![r] = v]
  BY <1>1 DEF Goto
<1>4. QED
  BY <1>2, <1>3 DEF TypeOK, ProcMoves

LEMMA AfterStopMoves ==
  ASSUME TypeOK, NEW r \in Runs, AfterStop(r)
  PROVE  StopMoves(r)
<1>1. CASE proc[r].at = Len(Stops)
  <2>1. proc' = [proc EXCEPT ![r] = Local("upload")]
    BY <1>1 DEF AfterStop
  <2>2. QED
    BY <1>1, <2>1, LocalMoves DEF Labels, StopMoves
<1>2. CASE proc[r].at # Len(Stops)
  <2>1. PICK n \in 1 .. Len(Stops) : n = proc[r].at + 1
    BY <1>2, ProcTypes, StopsAreThere
  <2>2. proc' = [proc EXCEPT ![r] = [pc |-> "rows", at |-> n]]
    BY <1>2, <2>1 DEF AfterStop
  <2>3. ProcMoves(r, "rows", n)
    BY <2>2, SetMoves DEF Labels
  <2>4. QED
    BY <1>2, <2>1, <2>3 DEF StopMoves
<1>3. QED
  BY <1>1, <1>2

LEMMA BullTypes ==
  ASSUME TypeOK
  PROVE  /\ bull \in BullJobs /\ bull.attemptsMade \in Nat /\ bull.stalls \in Nat
         /\ bull.holder \in Runs \cup {NoWorker}
         /\ bull.state \in BullStates \cup {"dispatching", "lost", "inline"}
  BY DEF TypeOK, BullJobs

LEMMA StalledType ==
  ASSUME TypeOK, bull' = Stalled(bull)
  PROVE  bull' \in BullJobs
<1>1. PICK k \in Nat : k = bull.stalls + 1
  BY BullTypes
<1>2. [bull EXCEPT !.state = "wait", !.holder = NoWorker, !.stalls = k] \in BullJobs
  BY BullTypes DEF BullJobs, BullStates
<1>3. [bull EXCEPT !.state = "failed", !.holder = NoWorker] \in BullJobs
  BY BullTypes DEF BullJobs, BullStates
<1>4. QED
  BY <1>1, <1>2, <1>3 DEF Stalled

LEMMA ReturnMoves ==
  ASSUME TypeOK, NEW r \in Runs, Return(r)
  PROVE  ProcMoves(r, "ended", 1) /\ bull' \in BullJobs
<1>1. [bull EXCEPT !.state = "completed"] \in BullJobs
  BY BullTypes DEF BullJobs, BullStates
<1>2. QED
  BY <1>1, BullTypes, LocalMoves DEF Return, Returned

LEMMA ThrowMoves ==
  ASSUME TypeOK, NEW r \in Runs, Throw(r)
  PROVE  ProcMoves(r, "ended", 1) /\ bull' \in BullJobs
<1>1. PICK k \in Nat : k = bull.attemptsMade + 1
  BY BullTypes
<1>2. PICK s \in {"wait", "failed"} : s = IF k < QueueAttempts THEN "wait" ELSE "failed"
  OBVIOUS
<1>3. [bull EXCEPT !.state = s, !.attemptsMade = k, !.holder = NoWorker] \in BullJobs
  BY BullTypes DEF BullJobs, BullStates
<1>4. bull' \in BullJobs
  BY <1>1, <1>2, <1>3, BullTypes DEF Throw, Thrown
<1>5. QED
  BY <1>4, LocalMoves DEF Throw

LEMMA UpdateStatus ==
  ASSUME TypeOK, Update([req EXCEPT !.status = "processing"])
  PROVE  RowBecomes("processing", req.completed)
<1>1. PICK row : row = [req EXCEPT !.status = "processing"]
  OBVIOUS
<1>2. /\ row \in Rows /\ row.status = "processing" /\ row.completed = req.completed
      /\ row.size = req.size /\ row.fileKey = req.fileKey /\ row.by = req.by
      /\ row.expires = req.expires /\ row.canceledAt = req.canceledAt
  BY <1>1 DEF TypeOK, Rows
<1>3. QED
  BY <1>1, <1>2 DEF TypeOK, Update, RowBecomes

LEMMA UpdateCompleted ==
  ASSUME TypeOK, NEW s \in {"failed", "canceled"},
         Update([req EXCEPT !.status = s, !.completed = "recent"])
  PROVE  RowBecomes(s, "recent")
<1>1. PICK row : row = [req EXCEPT !.status = s, !.completed = "recent"]
  OBVIOUS
<1>2. /\ row \in Rows /\ row.status = s /\ row.completed = "recent"
      /\ row.size = req.size /\ row.fileKey = req.fileKey /\ row.by = req.by
      /\ row.expires = req.expires /\ row.canceledAt = req.canceledAt
  BY <1>1 DEF TypeOK, Rows
<1>3. QED
  BY <1>1, <1>2 DEF TypeOK, Update, RowBecomes

LEMMA UpdateReady ==
  ASSUME TypeOK, NEW r \in Runs,
         Update([req EXCEPT !.status = "ready", !.fileKey = TRUE, !.by = r,
                            !.expires = "live", !.completed = "recent"])
  PROVE  RowReady(r)
<1>1. PICK row : row = [req EXCEPT !.status = "ready", !.fileKey = TRUE, !.by = r,
                                   !.expires = "live", !.completed = "recent"]
  OBVIOUS
<1>2. /\ row \in Rows /\ row.status = "ready" /\ row.completed = "recent"
      /\ row.size = req.size /\ row.fileKey = TRUE /\ row.by = r
      /\ row.expires = "live" /\ row.canceledAt = req.canceledAt
  BY <1>1 DEF TypeOK, Rows
<1>3. QED
  BY <1>1, <1>2 DEF TypeOK, Update, RowReady

LEMMA GoneMoves ==
  ASSUME NEW why \in {"workspace", "pending", "processing", "ready", "failed", "canceled"},
         req' = Gone(why)
  PROVE  RowGone(why)
  BY DEF Gone, NoRow, RowGone, Rows

\* An invocation that runs keeps the clock and the sweep out, and is the only one
\* unless two have overlapped.
Moving(r) ==
  /\ TypeOK /\ Running(r)
  /\ sweep.pc = "idle" /\ req.expires \in {"none", "live"} /\ req.completed # "old"
  /\ req.status # "absent" /\ (req.status = "gone" => req.was = "workspace")
  /\ ~overlap => \A v \in Runs \ {r} : proc[v].pc \notin Labels

LEMMA MovingHolds ==
  ASSUME IInv, NEW r \in Runs, Running(r)
  PROVE  Moving(r)
  BY DEF IInv, TypeOK, Rows, AgedIsUnworked, AbsentIsUnworked, Aged, Unworked, SoleRun, Running,
     Moving

\* So does a job that is to be taken.
Entering ==
  /\ TypeOK
  /\ sweep.pc = "idle" /\ req.expires \in {"none", "live"} /\ req.completed # "old"
  /\ req.status # "absent" /\ (req.status = "gone" => req.was = "workspace")

LEMMA EnteringHolds ==
  ASSUME IInv, bull.state \in {"dispatching", "wait", "active"}
  PROVE  Entering
  BY DEF IInv, TypeOK, Rows, AgedIsUnworked, AbsentIsUnworked, Aged, Unworked, Entering

\* An invocation that is stopping goes on stopping.
LEMMA StoppingKeeps ==
  ASSUME IInv, NEW r \in Runs, proc' \in [Runs -> Locals],
         \A v \in Runs \ {r} : proc'[v] = proc[v],
         escaped' = escaped, req'.canceledAt => req.canceledAt,
         req.canceledAt /\ proc'[r].pc \in Labels => Running(r) /\ (Stopping(r) => Stopping(r)')
  PROVE  CanceledIsStopping'
<1> SUFFICES ASSUME req.canceledAt, NEW v \in Runs \ escaped, proc'[v].pc \in Labels
             PROVE  Stopping(v)'
  BY DEF CanceledIsStopping, Running
<1>1. CASE v = r
  BY <1>1 DEF IInv, CanceledIsStopping
<1>2. CASE v # r
  <2>1. proc'[v] = proc[v] /\ Running(v)
    BY <1>2 DEF Running
  <2>2. Stopping(v)
    BY <2>1 DEF IInv, CanceledIsStopping
  <2>3. QED
    BY <2>1, <2>2 DEF Stopping
<1>3. QED
  BY <1>1, <1>2

----------------------------------------------------------------------------
(* Every action keeps the invariant.                                       *)

LEMMA CreateKeeps ==
  ASSUME IInv, Create
  PROVE  IInv'
<1>0. /\ req.status = "absent" /\ workspace /\ req' \in Rows /\ bull' \in BullJobs
      /\ req'.status = "pending" /\ req'.fileKey = FALSE /\ req'.expires = "none"
      /\ req'.completed = "none" /\ req'.canceledAt = FALSE
      /\ UNCHANGED <<file, proc, sweep, workspace, faults, overlap, escaped, notified>>
  <2>1. PICK s \in Sizes : /\ req' = [NoRow EXCEPT !.status = "pending", !.size = s]
                           /\ s \in {"fits", "exceeds"}
    BY ExportAssumption DEF Create
  <2>2. /\ req' \in Rows /\ req'.status = "pending" /\ req'.fileKey = FALSE
        /\ req'.expires = "none" /\ req'.completed = "none" /\ req'.canceledAt = FALSE
    BY <2>1 DEF NoRow, Rows
  <2>3. bull' \in BullJobs
    BY DEF Create, IInv, TypeOK, BullJobs
  <2>4. QED
    BY <2>2, <2>3 DEF Create, ledger
<1>1. TypeOK'
  BY <1>0 DEF IInv, TypeOK
<1>2. AgedIsUnworked'
  <2>1. Unworked /\ sweep.pc = "idle"
    BY <1>0 DEF IInv, AbsentIsUnworked
  <2>2. ~Aged'
    BY <1>0, <2>1 DEF Aged
  <2>3. QED
    BY <2>2 DEF AgedIsUnworked
<1>3. AbsentIsUnworked'
  BY <1>0 DEF IInv, TypeOK, AbsentIsUnworked, Unworked, Running, Labels
<1>4. RowShape'
  BY <1>0 DEF IInv, TypeOK, RowShape, HasRow, AgedIsUnworked, Aged, AbsentIsUnworked
<1>5. FileIsThere'
  BY <1>0 DEF IInv, TypeOK, FileIsThere, AgedIsUnworked, Aged, Unworked, Running, Labels,
     RowShape
<1>6. SoleRun'
  BY <1>0 DEF IInv, TypeOK, SoleRun, Working, Running, Labels, AgedIsUnworked, Aged, Unworked,
     AbsentIsUnworked, RowShape
<1>7. CanceledIsStopping'
  BY <1>0 DEF IInv, TypeOK, CanceledIsStopping, Stopping, Running, Labels
<1>8. ExceedsHasNoFile'
  <2>1. file.state = "none" /\ \A r \in Runs : ~Running(r)
    BY <1>0 DEF IInv, AbsentIsUnworked, Unworked
  <2>2. \A r \in Runs : proc[r].pc \in {"idle", "ended", "crashed"}
    BY <2>1, ProcTypes DEF IInv, Running
  <2>3. QED
    BY <1>0, <2>1, <2>2 DEF ExceedsHasNoFile
<1>9. FailedByFault'
  BY <1>0 DEF IInv, TypeOK, FailedByFault, HasRow, AbsentIsUnworked, Unworked, Running, Labels
<1>10. SweptFile'
  BY <1>0 DEF IInv, TypeOK, SweptFile, HasRow, RowShape, AbsentIsUnworked
<1>11. NotifiedStaysReady'
  BY <1>0 DEF IInv, TypeOK, NotifiedStaysReady, AbsentIsUnworked
<1>12. CancelStopsChunks'
  BY <1>0 DEF IInv, TypeOK, CancelStopsChunks
<1>13. FileOutlivesOnlyFailures'
  BY <1>0 DEF IInv, TypeOK, FileOutlivesOnlyFailures, SweptFile, HasRow, ExceedsHasNoFile,
     FailedByFault, AbsentIsUnworked
<1>14. QED
  BY <1>1, <1>2, <1>3, <1>4, <1>5, <1>6, <1>7, <1>8, <1>9, <1>10, <1>11, <1>12, <1>13 DEF IInv

LEMMA DispatchKeeps ==
  ASSUME IInv, Dispatch
  PROVE  IInv'
<1>0. /\ bull.state = "dispatching" /\ bull' \in BullJobs
      /\ UNCHANGED <<req, file, proc, sweep, workspace, faults, overlap, escaped, notified>>
  BY DEF IInv, TypeOK, Dispatch, ledger, BullJobs, BullStates
<1>1. TypeOK'
  BY <1>0 DEF IInv, TypeOK
<1>2. AgedIsUnworked'
  BY <1>0 DEF IInv, TypeOK, AgedIsUnworked, Aged, Unworked, Running, Labels
<1>3. AbsentIsUnworked'
  BY <1>0 DEF IInv, TypeOK, AbsentIsUnworked, Unworked, Running, Labels
<1>4. /\ RowShape' /\ FileIsThere' /\ SoleRun' /\ CanceledIsStopping'
      /\ ExceedsHasNoFile' /\ FailedByFault' /\ SweptFile' /\ NotifiedStaysReady'
      /\ CancelStopsChunks' /\ FileOutlivesOnlyFailures'
  BY <1>0 DEF IInv, RowShape, HasRow, FileIsThere, SoleRun, Working, Running, Labels,
     CanceledIsStopping, Stopping, ExceedsHasNoFile, FailedByFault, SweptFile,
     NotifiedStaysReady, CancelStopsChunks, FileOutlivesOnlyFailures
<1>5. QED
  BY <1>1, <1>2, <1>3, <1>4 DEF IInv

LEMMA RunInlineKeeps ==
  ASSUME IInv, NEW r \in Runs, RunInline(r)
  PROVE  IInv'
<1>q. Entering
  BY EnteringHolds DEF RunInline
<1>0. /\ proc[r].pc = "idle" /\ bull.state = "dispatching" /\ bull' \in BullJobs
      /\ ProcMoves(r, "read", 1)
      /\ overlap' = (overlap \/ \E v \in Runs : Running(v))
      /\ UNCHANGED <<req, file, sweep, workspace, faults, escaped, notified>>
  BY <1>q, LocalMoves DEF IInv, TypeOK, Entering, Labels, RunInline, ledger, Enter, BullJobs,
     BullStates
<1>1. TypeOK'
  BY <1>q, <1>0 DEF IInv, TypeOK, Entering, ProcMoves
<1>2. AgedIsUnworked'
  BY <1>q, <1>0 DEF IInv, TypeOK, AgedIsUnworked, Aged, Unworked, Running, Labels, ProcMoves,
     Entering
<1>3. AbsentIsUnworked'
  BY <1>q, <1>0 DEF IInv, TypeOK, AbsentIsUnworked, Unworked, Running, Labels, ProcMoves,
     Entering
<1>4. FileIsThere'
  BY <1>q, <1>0 DEF IInv, TypeOK, FileIsThere, ProcMoves, Entering
<1>5. SoleRun'
  <2> SUFFICES ASSUME ~overlap'
               PROVE  SoleRun'
    BY DEF SoleRun
  <2>1. ~overlap /\ \A v \in Runs : ~Running(v)
    BY <1>0
  <2>2. \A v \in Runs : proc'[v].pc \in Labels => v = r
    BY <1>0, <2>1 DEF Running, ProcMoves
  <2>3. \A v \in Runs : proc'[v].pc \notin Working \cup {"audit"}
    BY <1>0, <2>1 DEF Running, ProcMoves, Working, Labels
  <2>4. \A v \in Runs : proc'[v].pc \in Labels => proc'[v].pc = "read"
    BY <1>0, <2>2 DEF ProcMoves
  <2>5. \A v \in Runs : proc'[v].pc \notin {"copy", "ready"}
    BY <2>3 DEF Working
  <2>6. req.status = "ready" /\ req.expires = "live"
          => file = [state |-> "whole", by |-> req.by]
    BY <2>1 DEF IInv, SoleRun
  <2>7. QED
    BY <1>0, <2>2, <2>3, <2>4, <2>5, <2>6 DEF SoleRun, Running
<1>6. CanceledIsStopping'
  BY <1>q, <1>0 DEF IInv, TypeOK, CanceledIsStopping, Stopping, Running, Labels, ProcMoves,
     Entering
<1>7. ExceedsHasNoFile'
  BY <1>q, <1>0 DEF IInv, TypeOK, ExceedsHasNoFile, ProcMoves, Entering
<1>8. FailedByFault'
  BY <1>q, <1>0 DEF IInv, TypeOK, FailedByFault, HasRow, RowShape, ExceedsHasNoFile, ProcMoves,
     Entering
<1>9. NotifiedStaysReady'
  BY <1>q, <1>0 DEF IInv, TypeOK, NotifiedStaysReady, SoleRun, Working, ProcMoves, Entering
<1>10. RowShape' /\ SweptFile' /\ CancelStopsChunks' /\ FileOutlivesOnlyFailures'
  BY <1>0 DEF IInv, RowShape, HasRow, SweptFile, CancelStopsChunks, FileOutlivesOnlyFailures
<1>11. QED
  BY <1>1, <1>2, <1>3, <1>4, <1>5, <1>6, <1>7, <1>8, <1>9, <1>10 DEF IInv

LEMMA PickKeeps ==
  ASSUME IInv, NEW r \in Runs, Pick(r)
  PROVE  IInv'
<1>q. Entering
  BY EnteringHolds DEF Pick
<1>0. /\ proc[r].pc = "idle" /\ bull.state = "wait" /\ bull' \in BullJobs
      /\ ProcMoves(r, "read", 1)
      /\ overlap' = (overlap \/ \E v \in Runs : Running(v))
      /\ UNCHANGED <<req, file, sweep, workspace, faults, escaped, notified>>
  BY <1>q, LocalMoves DEF IInv, TypeOK, Entering, Labels, Pick, ledger, Enter, Taken, BullJobs,
     BullStates
<1>1. TypeOK'
  BY <1>q, <1>0 DEF IInv, TypeOK, Entering, ProcMoves
<1>2. AgedIsUnworked'
  BY <1>q, <1>0 DEF IInv, TypeOK, AgedIsUnworked, Aged, Unworked, Running, Labels, ProcMoves,
     Entering
<1>3. AbsentIsUnworked'
  BY <1>q, <1>0 DEF IInv, TypeOK, AbsentIsUnworked, Unworked, Running, Labels, ProcMoves,
     Entering
<1>4. FileIsThere'
  BY <1>q, <1>0 DEF IInv, TypeOK, FileIsThere, ProcMoves, Entering
<1>5. SoleRun'
  <2> SUFFICES ASSUME ~overlap'
               PROVE  SoleRun'
    BY DEF SoleRun
  <2>1. ~overlap /\ \A v \in Runs : ~Running(v)
    BY <1>0
  <2>2. \A v \in Runs : proc'[v].pc \in Labels => v = r
    BY <1>0, <2>1 DEF Running, ProcMoves
  <2>3. \A v \in Runs : proc'[v].pc \notin Working \cup {"audit"}
    BY <1>0, <2>1 DEF Running, ProcMoves, Working, Labels
  <2>4. \A v \in Runs : proc'[v].pc \in Labels => proc'[v].pc = "read"
    BY <1>0, <2>2 DEF ProcMoves
  <2>5. \A v \in Runs : proc'[v].pc \notin {"copy", "ready"}
    BY <2>3 DEF Working
  <2>6. req.status = "ready" /\ req.expires = "live"
          => file = [state |-> "whole", by |-> req.by]
    BY <2>1 DEF IInv, SoleRun
  <2>7. QED
    BY <1>0, <2>2, <2>3, <2>4, <2>5, <2>6 DEF SoleRun, Running
<1>6. CanceledIsStopping'
  BY <1>q, <1>0 DEF IInv, TypeOK, CanceledIsStopping, Stopping, Running, Labels, ProcMoves,
     Entering
<1>7. ExceedsHasNoFile'
  BY <1>q, <1>0 DEF IInv, TypeOK, ExceedsHasNoFile, ProcMoves, Entering
<1>8. FailedByFault'
  BY <1>q, <1>0 DEF IInv, TypeOK, FailedByFault, HasRow, RowShape, ExceedsHasNoFile, ProcMoves,
     Entering
<1>9. NotifiedStaysReady'
  BY <1>q, <1>0 DEF IInv, TypeOK, NotifiedStaysReady, SoleRun, Working, ProcMoves, Entering
<1>10. RowShape' /\ SweptFile' /\ CancelStopsChunks' /\ FileOutlivesOnlyFailures'
  BY <1>0 DEF IInv, RowShape, HasRow, SweptFile, CancelStopsChunks, FileOutlivesOnlyFailures
<1>11. QED
  BY <1>1, <1>2, <1>3, <1>4, <1>5, <1>6, <1>7, <1>8, <1>9, <1>10 DEF IInv

LEMMA StallKeeps ==
  ASSUME IInv, Stall
  PROVE  IInv'
<1>0. /\ bull.state = "active" /\ bull' \in BullJobs
      /\ UNCHANGED <<req, file, proc, sweep, workspace, faults, overlap, escaped, notified>>
  BY StalledType DEF IInv, TypeOK, Stall, ledger
<1>1. TypeOK'
  BY <1>0 DEF IInv, TypeOK
<1>2. AgedIsUnworked'
  BY <1>0 DEF IInv, TypeOK, AgedIsUnworked, Aged, Unworked, Running, Labels
<1>3. AbsentIsUnworked'
  BY <1>0 DEF IInv, TypeOK, AbsentIsUnworked, Unworked, Running, Labels
<1>4. /\ RowShape' /\ FileIsThere' /\ SoleRun' /\ CanceledIsStopping'
      /\ ExceedsHasNoFile' /\ FailedByFault' /\ SweptFile' /\ NotifiedStaysReady'
      /\ CancelStopsChunks' /\ FileOutlivesOnlyFailures'
  BY <1>0 DEF IInv, RowShape, HasRow, FileIsThere, SoleRun, Working, Running, Labels,
     CanceledIsStopping, Stopping, ExceedsHasNoFile, FailedByFault, SweptFile,
     NotifiedStaysReady, CancelStopsChunks, FileOutlivesOnlyFailures
<1>5. QED
  BY <1>1, <1>2, <1>3, <1>4 DEF IInv

LEMMA RejectKeeps ==
  ASSUME IInv, NEW r \in Runs, Reject(r)
  PROVE  IInv'
<1>q. Moving(r)
  BY MovingHolds DEF Reject, At, Running, Labels
<1>0. /\ faults' \in Nat /\ faults' > 0 /\ bull' \in BullJobs
      /\ \/ ProcMoves(r, "ended", 1)
         \/ /\ proc[r].pc \notin {"read", "start", "fail", "failAudit", "cancel", "done"}
            /\ ProcMoves(r, "fail", proc[r].at)
      /\ UNCHANGED <<req, file, sweep, workspace, overlap, escaped, notified>>
  BY <1>q, ThrowMoves, GotoMoves DEF IInv, TypeOK, Moving, Labels, Reject, ledger
<1>1. TypeOK'
  BY <1>q, <1>0 DEF IInv, TypeOK, Moving, ProcMoves
<1>2. AgedIsUnworked'
  BY <1>q, <1>0 DEF IInv, TypeOK, AgedIsUnworked, Aged, Unworked, Running, Labels, ProcMoves,
     Moving
<1>3. AbsentIsUnworked'
  BY <1>q, <1>0 DEF IInv, TypeOK, AbsentIsUnworked, Unworked, Running, Labels, ProcMoves, Moving
<1>4. FileIsThere'
  BY <1>q, <1>0 DEF IInv, TypeOK, FileIsThere, ProcMoves, Moving
<1>5. SoleRun'
  BY <1>q, <1>0 DEF IInv, TypeOK, SoleRun, Working, Running, Labels, FileIsThere, ProcMoves,
     Moving
<1>6. CanceledIsStopping'
  <2>1. Stopping(r) /\ req.canceledAt /\ proc'[r].pc \in Labels => Stopping(r)'
    BY <1>q, <1>0 DEF Stopping, ProcMoves, Labels, Moving
  <2>2. QED
    BY <1>q, <1>0, <2>1, StoppingKeeps DEF ProcMoves, Moving
<1>7. ExceedsHasNoFile'
  BY <1>q, <1>0 DEF IInv, TypeOK, ExceedsHasNoFile, ProcMoves, Moving
<1>8. FailedByFault'
  BY <1>q, <1>0 DEF IInv, TypeOK, FailedByFault, HasRow, RowShape, ExceedsHasNoFile, ProcMoves,
     Moving
<1>9. FileOutlivesOnlyFailures'
  BY <1>q, <1>0 DEF IInv, TypeOK, FileOutlivesOnlyFailures, HasRow, ProcMoves, Moving
<1>10. RowShape' /\ SweptFile' /\ NotifiedStaysReady' /\ CancelStopsChunks'
  BY <1>0 DEF IInv, RowShape, HasRow, SweptFile, NotifiedStaysReady, CancelStopsChunks
<1>11. QED
  BY <1>1, <1>2, <1>3, <1>4, <1>5, <1>6, <1>7, <1>8, <1>9, <1>10 DEF IInv

LEMMA CrashKeeps ==
  ASSUME IInv, NEW r \in Runs, Crash(r)
  PROVE  IInv'
<1>q. Moving(r)
  BY MovingHolds DEF Crash, At, Running, Labels
<1>0. /\ faults' \in Nat /\ faults' > 0
      /\ ProcMoves(r, "crashed", proc[r].at)
      /\ UNCHANGED <<req, file, bull, sweep, workspace, overlap, escaped, notified>>
  BY <1>q, GotoMoves DEF IInv, TypeOK, Moving, Labels, Crash, ledger
<1>1. TypeOK'
  BY <1>q, <1>0 DEF IInv, TypeOK, Moving, ProcMoves
<1>2. AgedIsUnworked'
  BY <1>q, <1>0 DEF IInv, TypeOK, AgedIsUnworked, Aged, Unworked, Running, Labels, ProcMoves,
     Moving
<1>3. AbsentIsUnworked'
  BY <1>q, <1>0 DEF IInv, TypeOK, AbsentIsUnworked, Unworked, Running, Labels, ProcMoves, Moving
<1>4. FileIsThere'
  BY <1>q, <1>0 DEF IInv, TypeOK, FileIsThere, ProcMoves, Moving
<1>5. SoleRun'
  BY <1>q, <1>0 DEF IInv, TypeOK, SoleRun, Working, Running, Labels, FileIsThere, ProcMoves,
     Moving
<1>6. CanceledIsStopping'
  <2>1. Stopping(r) /\ req.canceledAt /\ proc'[r].pc \in Labels => Stopping(r)'
    BY <1>q, <1>0 DEF Stopping, ProcMoves, Labels, Moving
  <2>2. QED
    BY <1>q, <1>0, <2>1, StoppingKeeps DEF ProcMoves, Moving
<1>7. ExceedsHasNoFile'
  BY <1>q, <1>0 DEF IInv, TypeOK, ExceedsHasNoFile, ProcMoves, Moving
<1>8. FailedByFault'
  BY <1>q, <1>0 DEF IInv, TypeOK, FailedByFault, HasRow, RowShape, ExceedsHasNoFile, ProcMoves,
     Moving
<1>9. FileOutlivesOnlyFailures'
  BY <1>q, <1>0 DEF IInv, TypeOK, FileOutlivesOnlyFailures, HasRow, ProcMoves, Moving
<1>10. RowShape' /\ SweptFile' /\ NotifiedStaysReady' /\ CancelStopsChunks'
  BY <1>0 DEF IInv, RowShape, HasRow, SweptFile, NotifiedStaysReady, CancelStopsChunks
<1>11. QED
  BY <1>1, <1>2, <1>3, <1>4, <1>5, <1>6, <1>7, <1>8, <1>9, <1>10 DEF IInv

LEMMA ReadRequestKeeps ==
  ASSUME IInv, NEW r \in Runs, ReadRequest(r)
  PROVE  IInv'
<1>q. Moving(r)
  BY MovingHolds DEF ReadRequest, At, Running, Labels
<1>0. /\ proc[r].pc = "read" /\ bull' \in BullJobs
      /\ \/ ProcMoves(r, "ended", 1)
         \/ /\ req.status \notin {"ready", "gone"} /\ ~req.canceledAt
            /\ ProcMoves(r, "start", proc[r].at)
      /\ UNCHANGED <<req, file, sweep, workspace, faults, overlap, escaped, notified>>
  BY <1>q, ReturnMoves, GotoMoves DEF IInv, TypeOK, Moving, Labels, ReadRequest, ledger, At,
     HasRow
<1>1. TypeOK'
  BY <1>q, <1>0 DEF IInv, TypeOK, Moving, ProcMoves
<1>2. AgedIsUnworked'
  BY <1>q, <1>0 DEF IInv, TypeOK, AgedIsUnworked, Aged, Unworked, Running, Labels, ProcMoves,
     Moving
<1>3. AbsentIsUnworked'
  BY <1>q, <1>0 DEF IInv, TypeOK, AbsentIsUnworked, Unworked, Running, Labels, ProcMoves, Moving
<1>4. FileIsThere'
  BY <1>q, <1>0 DEF IInv, TypeOK, FileIsThere, ProcMoves, Moving
<1>5. SoleRun'
  BY <1>q, <1>0 DEF IInv, TypeOK, SoleRun, Working, Running, Labels, FileIsThere,
     NotifiedStaysReady, RowShape, ProcMoves, Moving
<1>6. CanceledIsStopping'
  <2>1. Stopping(r) /\ req.canceledAt /\ proc'[r].pc \in Labels => Stopping(r)'
    BY <1>q, <1>0 DEF Stopping, ProcMoves, Labels, Moving
  <2>2. QED
    BY <1>q, <1>0, <2>1, StoppingKeeps DEF ProcMoves, Moving
<1>7. ExceedsHasNoFile'
  BY <1>q, <1>0 DEF IInv, TypeOK, ExceedsHasNoFile, ProcMoves, Moving
<1>8. FailedByFault'
  BY <1>q, <1>0 DEF IInv, TypeOK, FailedByFault, HasRow, RowShape, ExceedsHasNoFile, ProcMoves,
     Moving
<1>9. /\ RowShape' /\ SweptFile' /\ NotifiedStaysReady' /\ CancelStopsChunks'
      /\ FileOutlivesOnlyFailures'
  BY <1>0 DEF IInv, RowShape, HasRow, SweptFile, NotifiedStaysReady, CancelStopsChunks,
     FileOutlivesOnlyFailures
<1>10. QED
  BY <1>1, <1>2, <1>3, <1>4, <1>5, <1>6, <1>7, <1>8, <1>9 DEF IInv

LEMMA StartExportKeeps ==
  ASSUME IInv, NEW r \in Runs, StartExport(r)
  PROVE  IInv'
<1>q. Moving(r)
  BY MovingHolds DEF StartExport, At, Running, Labels
<1>0. /\ proc[r].pc = "start"
      /\ RowBecomes("processing", req.completed)
      /\ ProcMoves(r, "rows", proc[r].at)
      /\ UNCHANGED <<file, bull, sweep, workspace, faults, overlap, escaped, notified>>
  BY <1>q, UpdateStatus, GotoMoves DEF IInv, TypeOK, Moving, Labels, StartExport, ledger, At
<1>1. TypeOK'
  BY <1>q, <1>0 DEF IInv, TypeOK, Moving, ProcMoves, RowBecomes, HasRow
<1>2. AgedIsUnworked'
  BY <1>q, <1>0 DEF IInv, TypeOK, AgedIsUnworked, Aged, Unworked, Running, Labels, ProcMoves,
     RowBecomes, HasRow, Moving
<1>3. AbsentIsUnworked'
  BY <1>q, <1>0 DEF IInv, TypeOK, AbsentIsUnworked, Unworked, Running, Labels, ProcMoves,
     RowBecomes, HasRow, Moving
<1>4. RowShape'
  BY <1>q, <1>0 DEF IInv, TypeOK, RowShape, HasRow, ProcMoves, RowBecomes, Moving
<1>5. FileIsThere'
  BY <1>q, <1>0 DEF IInv, TypeOK, FileIsThere, ProcMoves, RowBecomes, HasRow, Moving
<1>6. SoleRun'
  BY <1>q, <1>0 DEF IInv, TypeOK, SoleRun, Working, Running, Labels, FileIsThere, ProcMoves,
     RowBecomes, HasRow, Moving
<1>7. CanceledIsStopping'
  <2>1. Stopping(r) /\ req.canceledAt /\ proc'[r].pc \in Labels => Stopping(r)'
    BY <1>q, <1>0 DEF Stopping, ProcMoves, Labels, Moving, RowBecomes
  <2>2. QED
    BY <1>q, <1>0, <2>1, StoppingKeeps DEF ProcMoves, Moving, RowBecomes, HasRow
<1>8. ExceedsHasNoFile'
  BY <1>q, <1>0 DEF IInv, TypeOK, ExceedsHasNoFile, ProcMoves, RowBecomes, HasRow, Moving
<1>9. FailedByFault'
  BY <1>q, <1>0 DEF IInv, TypeOK, FailedByFault, HasRow, RowShape, ExceedsHasNoFile, ProcMoves,
     RowBecomes, Moving
<1>10. SweptFile'
  BY <1>q, <1>0 DEF IInv, TypeOK, SweptFile, HasRow, ExceedsHasNoFile, ProcMoves, RowBecomes,
     Moving
<1>11. NotifiedStaysReady'
  BY <1>q, <1>0 DEF IInv, TypeOK, NotifiedStaysReady, SoleRun, Working, ProcMoves, RowBecomes,
     HasRow, Moving
<1>12. CancelStopsChunks'
  BY <1>q, <1>0 DEF IInv, TypeOK, CancelStopsChunks, CanceledIsStopping, Stopping, ProcMoves,
     RowBecomes, HasRow, Moving
<1>13. FileOutlivesOnlyFailures'
  BY <1>q, <1>0 DEF IInv, TypeOK, FileOutlivesOnlyFailures, HasRow, ProcMoves, RowBecomes,
     Moving
<1>14. QED
  BY <1>1, <1>2, <1>3, <1>4, <1>5, <1>6, <1>7, <1>8, <1>9, <1>10, <1>11, <1>12, <1>13 DEF IInv

LEMMA WriteRowsKeeps ==
  ASSUME IInv, NEW r \in Runs, WriteRows(r)
  PROVE  IInv'
<1>q. Moving(r)
  BY MovingHolds DEF WriteRows, At, Running, Labels
<1>0. /\ proc[r].pc = "rows"
      /\ \/ (req.size = "exceeds" \/ ~workspace) /\ ProcMoves(r, "fail", proc[r].at)
         \/ ProcMoves(r, "progress", proc[r].at) /\ (req.size = "exceeds" => proc[r].at # Len(Stops))
      /\ UNCHANGED <<req, file, bull, sweep, workspace, faults, overlap, escaped, notified>>
  BY <1>q, GotoMoves DEF IInv, TypeOK, Moving, Labels, WriteRows, ledger, At, Rows
<1>1. TypeOK'
  BY <1>q, <1>0 DEF IInv, TypeOK, Moving, ProcMoves
<1>2. AgedIsUnworked'
  BY <1>q, <1>0 DEF IInv, TypeOK, AgedIsUnworked, Aged, Unworked, Running, Labels, ProcMoves,
     Moving
<1>3. AbsentIsUnworked'
  BY <1>q, <1>0 DEF IInv, TypeOK, AbsentIsUnworked, Unworked, Running, Labels, ProcMoves, Moving
<1>4. FileIsThere'
  BY <1>q, <1>0 DEF IInv, TypeOK, FileIsThere, ProcMoves, Moving
<1>5. SoleRun'
  BY <1>q, <1>0 DEF IInv, TypeOK, SoleRun, Working, Running, Labels, FileIsThere, ProcMoves,
     Moving
<1>6. CanceledIsStopping'
  <2>1. Stopping(r) /\ req.canceledAt /\ proc'[r].pc \in Labels => Stopping(r)'
    BY <1>q, <1>0 DEF Stopping, ProcMoves, Labels, Moving
  <2>2. QED
    BY <1>q, <1>0, <2>1, StoppingKeeps DEF ProcMoves, Moving
<1>7. ExceedsHasNoFile'
  BY <1>q, <1>0 DEF IInv, TypeOK, ExceedsHasNoFile, ProcMoves, Moving
<1>8. FailedByFault'
  BY <1>q, <1>0 DEF IInv, TypeOK, FailedByFault, HasRow, RowShape, ExceedsHasNoFile, ProcMoves,
     Moving
<1>9. /\ RowShape' /\ SweptFile' /\ NotifiedStaysReady' /\ CancelStopsChunks'
      /\ FileOutlivesOnlyFailures'
  BY <1>0 DEF IInv, RowShape, HasRow, SweptFile, NotifiedStaysReady, CancelStopsChunks,
     FileOutlivesOnlyFailures
<1>10. QED
  BY <1>1, <1>2, <1>3, <1>4, <1>5, <1>6, <1>7, <1>8, <1>9 DEF IInv

LEMMA PersistProgressKeeps ==
  ASSUME IInv, NEW r \in Runs, PersistProgress(r)
  PROVE  IInv'
<1>q. Moving(r)
  BY MovingHolds DEF PersistProgress, At, Running, Labels
<1>0. /\ proc[r].pc = "progress"
      /\ RowBecomes("processing", req.completed)
      /\ \/ ProcMoves(r, "check", proc[r].at)
         \/ Stops[proc[r].at] # "chunk" /\ StopMoves(r)
      /\ UNCHANGED <<file, bull, sweep, workspace, faults, overlap, escaped, notified>>
  BY <1>q, UpdateStatus, GotoMoves, AfterStopMoves DEF IInv, TypeOK, Moving, Labels,
     PersistProgress, ledger, At
<1>1. TypeOK'
  BY <1>q, <1>0 DEF IInv, TypeOK, Moving, ProcMoves, RowBecomes, StopMoves, HasRow
<1>2. AgedIsUnworked'
  BY <1>q, <1>0 DEF IInv, TypeOK, AgedIsUnworked, Aged, Unworked, Running, Labels, ProcMoves,
     RowBecomes, StopMoves, HasRow, Moving
<1>3. AbsentIsUnworked'
  BY <1>q, <1>0 DEF IInv, TypeOK, AbsentIsUnworked, Unworked, Running, Labels, ProcMoves,
     RowBecomes, StopMoves, HasRow, Moving
<1>4. RowShape'
  BY <1>q, <1>0 DEF IInv, TypeOK, RowShape, HasRow, ProcMoves, RowBecomes, StopMoves, Moving
<1>5. FileIsThere'
  BY <1>q, <1>0 DEF IInv, TypeOK, FileIsThere, ProcMoves, RowBecomes, StopMoves, HasRow, Moving
<1>6. SoleRun'
  BY <1>q, <1>0 DEF IInv, TypeOK, SoleRun, Working, Running, Labels, FileIsThere, ProcMoves,
     RowBecomes, StopMoves, HasRow, Moving
<1>7. CanceledIsStopping'
  <2>1. ASSUME Stops[proc[r].at] # "chunk", StopMoves(r), Stopping(r)
        PROVE  Stopping(r)'
    <3>1. PICK i \in proc[r].at .. Len(Stops) : Stops[i] = "chunk"
      BY <1>0, <2>1 DEF Stopping
    <3>2. proc[r].at # Len(Stops) /\ i \in proc[r].at + 1 .. Len(Stops)
      BY <1>q, <2>1, <3>1, ProcTypes, StopsAreThere DEF Moving
    <3>3. ProcMoves(r, "rows", proc[r].at + 1)
      BY <2>1, <3>2 DEF StopMoves
    <3>4. QED
      BY <3>1, <3>2, <3>3 DEF ProcMoves, Stopping
  <2>2. Stopping(r) => Stopping(r)'
    BY <1>0, <2>1 DEF ProcMoves, Stopping
  <2>3. req'.canceledAt => req.canceledAt
    BY <1>0 DEF RowBecomes
  <2>4. proc' \in [Runs -> Locals] /\ \A v \in Runs \ {r} : proc'[v] = proc[v]
    BY <1>0 DEF ProcMoves, StopMoves
  <2>5. QED
    BY <1>q, <1>0, <2>2, <2>3, <2>4, StoppingKeeps DEF Moving
<1>8. ExceedsHasNoFile'
  BY <1>q, <1>0 DEF IInv, TypeOK, ExceedsHasNoFile, ProcMoves, RowBecomes, StopMoves, HasRow,
     Moving
<1>9. FailedByFault'
  BY <1>q, <1>0 DEF IInv, TypeOK, FailedByFault, HasRow, RowShape, ExceedsHasNoFile, ProcMoves,
     RowBecomes, StopMoves, Moving
<1>10. SweptFile'
  BY <1>q, <1>0 DEF IInv, TypeOK, SweptFile, HasRow, ExceedsHasNoFile, ProcMoves, RowBecomes,
     StopMoves, Moving
<1>11. NotifiedStaysReady'
  BY <1>q, <1>0 DEF IInv, TypeOK, NotifiedStaysReady, SoleRun, Working, ProcMoves, RowBecomes,
     StopMoves, HasRow, Moving
<1>12. CancelStopsChunks'
  BY <1>q, <1>0 DEF IInv, TypeOK, CancelStopsChunks, CanceledIsStopping, Stopping, ProcMoves,
     RowBecomes, StopMoves, HasRow, Moving
<1>13. FileOutlivesOnlyFailures'
  BY <1>q, <1>0 DEF IInv, TypeOK, FileOutlivesOnlyFailures, HasRow, ProcMoves, RowBecomes,
     StopMoves, Moving
<1>14. QED
  BY <1>1, <1>2, <1>3, <1>4, <1>5, <1>6, <1>7, <1>8, <1>9, <1>10, <1>11, <1>12, <1>13 DEF IInv

LEMMA CheckCanceledKeeps ==
  ASSUME IInv, NEW r \in Runs, CheckCanceled(r)
  PROVE  IInv'
<1>q. Moving(r)
  BY MovingHolds DEF CheckCanceled, At, Running, Labels
<1>0. /\ proc[r].pc = "check"
      /\ \/ ProcMoves(r, "cancel", proc[r].at)
         \/ ~req.canceledAt /\ StopMoves(r)
      /\ UNCHANGED <<req, file, bull, sweep, workspace, faults, overlap, escaped, notified>>
  BY <1>q, GotoMoves, AfterStopMoves DEF IInv, TypeOK, Moving, Labels, CheckCanceled, ledger,
     At, IsCanceled
<1>1. TypeOK'
  BY <1>q, <1>0 DEF IInv, TypeOK, Moving, ProcMoves, StopMoves
<1>2. AgedIsUnworked'
  BY <1>q, <1>0 DEF IInv, TypeOK, AgedIsUnworked, Aged, Unworked, Running, Labels, ProcMoves,
     StopMoves, Moving
<1>3. AbsentIsUnworked'
  BY <1>q, <1>0 DEF IInv, TypeOK, AbsentIsUnworked, Unworked, Running, Labels, ProcMoves,
     StopMoves, Moving
<1>4. FileIsThere'
  BY <1>q, <1>0 DEF IInv, TypeOK, FileIsThere, ProcMoves, StopMoves, Moving
<1>5. SoleRun'
  BY <1>q, <1>0 DEF IInv, TypeOK, SoleRun, Working, Running, Labels, FileIsThere, ProcMoves,
     StopMoves, Moving
<1>6. CanceledIsStopping'
  <2>1. Stopping(r) /\ req.canceledAt /\ proc'[r].pc \in Labels => Stopping(r)'
    BY <1>q, <1>0, ProcTypes, StopsAreThere DEF Stopping, ProcMoves, Labels, Moving, StopMoves
  <2>2. QED
    BY <1>q, <1>0, <2>1, StoppingKeeps DEF ProcMoves, Moving, StopMoves
<1>7. ExceedsHasNoFile'
  BY <1>q, <1>0 DEF IInv, TypeOK, ExceedsHasNoFile, ProcMoves, StopMoves, Moving
<1>8. FailedByFault'
  BY <1>q, <1>0 DEF IInv, TypeOK, FailedByFault, HasRow, RowShape, ExceedsHasNoFile, ProcMoves,
     StopMoves, Moving
<1>9. /\ RowShape' /\ SweptFile' /\ NotifiedStaysReady' /\ CancelStopsChunks'
      /\ FileOutlivesOnlyFailures'
  BY <1>0 DEF IInv, RowShape, HasRow, SweptFile, NotifiedStaysReady, CancelStopsChunks,
     FileOutlivesOnlyFailures
<1>10. QED
  BY <1>1, <1>2, <1>3, <1>4, <1>5, <1>6, <1>7, <1>8, <1>9 DEF IInv

LEMMA OpenFileKeeps ==
  ASSUME IInv, NEW r \in Runs, OpenFile(r)
  PROVE  IInv'
<1>q. Moving(r)
  BY MovingHolds DEF OpenFile, At, Running, Labels
<1>0. /\ proc[r].pc = "upload"
      /\ file' = [state |-> "partial", by |-> r]
      /\ ProcMoves(r, "copy", proc[r].at)
      /\ UNCHANGED <<req, bull, sweep, workspace, faults, overlap, escaped, notified>>
  BY <1>q, GotoMoves DEF IInv, TypeOK, Moving, Labels, OpenFile, ledger, At
<1>1. TypeOK'
  BY <1>q, <1>0 DEF IInv, TypeOK, Moving, ProcMoves
<1>2. AgedIsUnworked'
  BY <1>q, <1>0 DEF IInv, TypeOK, AgedIsUnworked, Aged, Unworked, Running, Labels, ProcMoves,
     Moving
<1>3. AbsentIsUnworked'
  BY <1>q, <1>0 DEF IInv, TypeOK, AbsentIsUnworked, Unworked, Running, Labels, ProcMoves, Moving
<1>4. FileIsThere'
  BY <1>q, <1>0 DEF IInv, TypeOK, FileIsThere, ProcMoves, Moving
<1>5. SoleRun'
  BY <1>q, <1>0 DEF IInv, TypeOK, SoleRun, Working, Running, Labels, FileIsThere, ProcMoves,
     Moving
<1>6. CanceledIsStopping'
  <2>1. Stopping(r) /\ req.canceledAt /\ proc'[r].pc \in Labels => Stopping(r)'
    BY <1>q, <1>0 DEF Stopping, ProcMoves, Labels, Moving
  <2>2. QED
    BY <1>q, <1>0, <2>1, StoppingKeeps DEF ProcMoves, Moving
<1>7. ExceedsHasNoFile'
  BY <1>q, <1>0 DEF IInv, TypeOK, ExceedsHasNoFile, ProcMoves, Moving
<1>8. FailedByFault'
  BY <1>q, <1>0 DEF IInv, TypeOK, FailedByFault, HasRow, RowShape, ExceedsHasNoFile, ProcMoves,
     Moving
<1>9. SweptFile'
  BY <1>q, <1>0 DEF IInv, TypeOK, SweptFile, HasRow, ExceedsHasNoFile, ProcMoves, Moving
<1>10. FileOutlivesOnlyFailures'
  BY <1>q, <1>0 DEF IInv, TypeOK, FileOutlivesOnlyFailures, HasRow, ProcMoves, Moving
<1>11. RowShape' /\ NotifiedStaysReady' /\ CancelStopsChunks'
  BY <1>0 DEF IInv, RowShape, HasRow, NotifiedStaysReady, CancelStopsChunks
<1>12. QED
  BY <1>1, <1>2, <1>3, <1>4, <1>5, <1>6, <1>7, <1>8, <1>9, <1>10, <1>11 DEF IInv

LEMMA CopyFileKeeps ==
  ASSUME IInv, NEW r \in Runs, CopyFile(r)
  PROVE  IInv'
<1>q. Moving(r)
  BY MovingHolds DEF CopyFile, At, Running, Labels
<1>0. /\ proc[r].pc = "copy"
      /\ file' = [file EXCEPT !.state = IF file.by = r THEN "whole" ELSE file.state]
      /\ ProcMoves(r, "ready", proc[r].at)
      /\ UNCHANGED <<req, bull, sweep, workspace, faults, overlap, escaped, notified>>
  BY <1>q, GotoMoves DEF IInv, TypeOK, Moving, Labels, CopyFile, ledger, At
<1>1. TypeOK'
  BY <1>q, <1>0 DEF IInv, TypeOK, Moving, ProcMoves
<1>2. AgedIsUnworked'
  BY <1>q, <1>0 DEF IInv, TypeOK, AgedIsUnworked, Aged, Unworked, Running, Labels, ProcMoves,
     Moving
<1>3. AbsentIsUnworked'
  BY <1>q, <1>0 DEF IInv, TypeOK, AbsentIsUnworked, Unworked, Running, Labels, ProcMoves, Moving
<1>4. FileIsThere'
  BY <1>q, <1>0 DEF IInv, TypeOK, FileIsThere, ProcMoves, Moving
<1>5. SoleRun'
  BY <1>q, <1>0 DEF IInv, TypeOK, SoleRun, Working, Running, Labels, FileIsThere, ProcMoves,
     Moving
<1>6. CanceledIsStopping'
  <2>1. Stopping(r) /\ req.canceledAt /\ proc'[r].pc \in Labels => Stopping(r)'
    BY <1>q, <1>0 DEF Stopping, ProcMoves, Labels, Moving
  <2>2. QED
    BY <1>q, <1>0, <2>1, StoppingKeeps DEF ProcMoves, Moving
<1>7. ExceedsHasNoFile'
  BY <1>q, <1>0 DEF IInv, TypeOK, ExceedsHasNoFile, ProcMoves, Moving
<1>8. FailedByFault'
  BY <1>q, <1>0 DEF IInv, TypeOK, FailedByFault, HasRow, RowShape, ExceedsHasNoFile, ProcMoves,
     Moving
<1>9. SweptFile'
  BY <1>q, <1>0 DEF IInv, TypeOK, SweptFile, HasRow, ExceedsHasNoFile, ProcMoves, Moving
<1>10. FileOutlivesOnlyFailures'
  BY <1>q, <1>0 DEF IInv, TypeOK, FileOutlivesOnlyFailures, HasRow, ProcMoves, Moving
<1>11. RowShape' /\ NotifiedStaysReady' /\ CancelStopsChunks'
  BY <1>0 DEF IInv, RowShape, HasRow, NotifiedStaysReady, CancelStopsChunks
<1>12. QED
  BY <1>1, <1>2, <1>3, <1>4, <1>5, <1>6, <1>7, <1>8, <1>9, <1>10, <1>11 DEF IInv

LEMMA MarkReadyKeeps ==
  ASSUME IInv, NEW r \in Runs, MarkReady(r)
  PROVE  IInv'
<1>q. Moving(r)
  BY MovingHolds DEF MarkReady, At, Running, Labels
<1>0. /\ proc[r].pc = "ready"
      /\ RowReady(r)
      /\ ProcMoves(r, "audit", proc[r].at)
      /\ UNCHANGED <<file, bull, sweep, workspace, faults, overlap, escaped, notified>>
  BY <1>q, UpdateReady, GotoMoves DEF IInv, TypeOK, Moving, Labels, MarkReady, ledger, At
<1>1. TypeOK'
  BY <1>q, <1>0 DEF IInv, TypeOK, Moving, ProcMoves, RowReady, HasRow
<1>2. AgedIsUnworked'
  BY <1>q, <1>0 DEF IInv, TypeOK, AgedIsUnworked, Aged, Unworked, Running, Labels, ProcMoves,
     RowReady, HasRow, Moving
<1>3. AbsentIsUnworked'
  BY <1>q, <1>0 DEF IInv, TypeOK, AbsentIsUnworked, Unworked, Running, Labels, ProcMoves,
     RowReady, HasRow, Moving
<1>4. RowShape'
  BY <1>q, <1>0 DEF IInv, TypeOK, RowShape, HasRow, ProcMoves, RowReady, Moving
<1>5. FileIsThere'
  BY <1>q, <1>0 DEF IInv, TypeOK, FileIsThere, ProcMoves, RowReady, HasRow, Moving
<1>6. SoleRun'
  BY <1>q, <1>0 DEF IInv, TypeOK, SoleRun, Working, Running, Labels, FileIsThere, ProcMoves,
     RowReady, HasRow, Moving
<1>7. CanceledIsStopping'
  <2>1. Stopping(r) /\ req.canceledAt /\ proc'[r].pc \in Labels => Stopping(r)'
    BY <1>q, <1>0 DEF Stopping, ProcMoves, Labels, Moving, RowReady
  <2>2. QED
    BY <1>q, <1>0, <2>1, StoppingKeeps DEF ProcMoves, Moving, RowReady, HasRow
<1>8. ExceedsHasNoFile'
  BY <1>q, <1>0 DEF IInv, TypeOK, ExceedsHasNoFile, ProcMoves, RowReady, HasRow, Moving
<1>9. FailedByFault'
  BY <1>q, <1>0 DEF IInv, TypeOK, FailedByFault, HasRow, RowShape, ExceedsHasNoFile, ProcMoves,
     RowReady, Moving
<1>10. SweptFile'
  BY <1>q, <1>0 DEF IInv, TypeOK, SweptFile, HasRow, ExceedsHasNoFile, ProcMoves, RowReady,
     Moving
<1>11. NotifiedStaysReady'
  BY <1>q, <1>0 DEF IInv, TypeOK, NotifiedStaysReady, SoleRun, Working, ProcMoves, RowReady,
     HasRow, Moving
<1>12. CancelStopsChunks'
  BY <1>q, <1>0 DEF IInv, TypeOK, CancelStopsChunks, CanceledIsStopping, Stopping, ProcMoves,
     RowReady, HasRow, Moving
<1>13. FileOutlivesOnlyFailures'
  BY <1>q, <1>0 DEF IInv, TypeOK, FileOutlivesOnlyFailures, HasRow, ProcMoves, RowReady, Moving
<1>14. QED
  BY <1>1, <1>2, <1>3, <1>4, <1>5, <1>6, <1>7, <1>8, <1>9, <1>10, <1>11, <1>12, <1>13 DEF IInv

LEMMA AuditAndNotifyKeeps ==
  ASSUME IInv, NEW r \in Runs, AuditAndNotify(r)
  PROVE  IInv'
<1>q. Moving(r)
  BY MovingHolds DEF AuditAndNotify, At, Running, Labels
<1>0. /\ proc[r].pc = "audit"
      /\ notified' = notified \cup {r}
      /\ ProcMoves(r, "done", proc[r].at)
      /\ UNCHANGED <<req, file, bull, sweep, workspace, faults, overlap, escaped>>
  BY <1>q, GotoMoves DEF IInv, TypeOK, Moving, Labels, AuditAndNotify, ledger, At
<1>1. TypeOK'
  BY <1>q, <1>0 DEF IInv, TypeOK, Moving, ProcMoves
<1>2. AgedIsUnworked'
  BY <1>q, <1>0 DEF IInv, TypeOK, AgedIsUnworked, Aged, Unworked, Running, Labels, ProcMoves,
     Moving
<1>3. AbsentIsUnworked'
  BY <1>q, <1>0 DEF IInv, TypeOK, AbsentIsUnworked, Unworked, Running, Labels, ProcMoves, Moving
<1>4. FileIsThere'
  BY <1>q, <1>0 DEF IInv, TypeOK, FileIsThere, ProcMoves, Moving
<1>5. SoleRun'
  BY <1>q, <1>0 DEF IInv, TypeOK, SoleRun, Working, Running, Labels, FileIsThere, ProcMoves,
     Moving
<1>6. CanceledIsStopping'
  <2>1. Stopping(r) /\ req.canceledAt /\ proc'[r].pc \in Labels => Stopping(r)'
    BY <1>q, <1>0 DEF Stopping, ProcMoves, Labels, Moving
  <2>2. QED
    BY <1>q, <1>0, <2>1, StoppingKeeps DEF ProcMoves, Moving
<1>7. ExceedsHasNoFile'
  BY <1>q, <1>0 DEF IInv, TypeOK, ExceedsHasNoFile, ProcMoves, Moving
<1>8. FailedByFault'
  BY <1>q, <1>0 DEF IInv, TypeOK, FailedByFault, HasRow, RowShape, ExceedsHasNoFile, ProcMoves,
     Moving
<1>9. NotifiedStaysReady'
  BY <1>q, <1>0 DEF IInv, TypeOK, NotifiedStaysReady, SoleRun, Working, ProcMoves, Moving
<1>10. RowShape' /\ SweptFile' /\ CancelStopsChunks' /\ FileOutlivesOnlyFailures'
  BY <1>0 DEF IInv, RowShape, HasRow, SweptFile, CancelStopsChunks, FileOutlivesOnlyFailures
<1>11. QED
  BY <1>1, <1>2, <1>3, <1>4, <1>5, <1>6, <1>7, <1>8, <1>9, <1>10 DEF IInv

LEMMA MarkFailedKeeps ==
  ASSUME IInv, NEW r \in Runs, MarkFailed(r)
  PROVE  IInv'
<1>q. Moving(r)
  BY MovingHolds DEF MarkFailed, At, Running, Labels
<1>0. /\ proc[r].pc = "fail"
      /\ RowBecomes("failed", "recent")
      /\ ProcMoves(r, "failAudit", proc[r].at)
      /\ UNCHANGED <<file, bull, sweep, workspace, faults, overlap, escaped, notified>>
  BY <1>q, UpdateCompleted, GotoMoves DEF IInv, TypeOK, Moving, Labels, MarkFailed, ledger, At
<1>1. TypeOK'
  BY <1>q, <1>0 DEF IInv, TypeOK, Moving, ProcMoves, RowBecomes, HasRow
<1>2. AgedIsUnworked'
  BY <1>q, <1>0 DEF IInv, TypeOK, AgedIsUnworked, Aged, Unworked, Running, Labels, ProcMoves,
     RowBecomes, HasRow, Moving
<1>3. AbsentIsUnworked'
  BY <1>q, <1>0 DEF IInv, TypeOK, AbsentIsUnworked, Unworked, Running, Labels, ProcMoves,
     RowBecomes, HasRow, Moving
<1>4. RowShape'
  BY <1>q, <1>0 DEF IInv, TypeOK, RowShape, HasRow, ProcMoves, RowBecomes, Moving
<1>5. FileIsThere'
  BY <1>q, <1>0 DEF IInv, TypeOK, FileIsThere, ProcMoves, RowBecomes, HasRow, Moving
<1>6. SoleRun'
  BY <1>q, <1>0 DEF IInv, TypeOK, SoleRun, Working, Running, Labels, FileIsThere, ProcMoves,
     RowBecomes, HasRow, Moving
<1>7. CanceledIsStopping'
  <2>1. Stopping(r) /\ req.canceledAt /\ proc'[r].pc \in Labels => Stopping(r)'
    BY <1>q, <1>0 DEF Stopping, ProcMoves, Labels, Moving, RowBecomes
  <2>2. QED
    BY <1>q, <1>0, <2>1, StoppingKeeps DEF ProcMoves, Moving, RowBecomes, HasRow
<1>8. ExceedsHasNoFile'
  BY <1>q, <1>0 DEF IInv, TypeOK, ExceedsHasNoFile, ProcMoves, RowBecomes, HasRow, Moving
<1>9. FailedByFault'
  BY <1>q, <1>0 DEF IInv, TypeOK, FailedByFault, HasRow, RowShape, ExceedsHasNoFile, ProcMoves,
     RowBecomes, Moving
<1>10. SweptFile'
  BY <1>q, <1>0 DEF IInv, TypeOK, SweptFile, HasRow, ExceedsHasNoFile, ProcMoves, RowBecomes,
     Moving
<1>11. NotifiedStaysReady'
  BY <1>q, <1>0 DEF IInv, TypeOK, NotifiedStaysReady, SoleRun, Working, ProcMoves, RowBecomes,
     HasRow, Moving
<1>12. CancelStopsChunks'
  BY <1>q, <1>0 DEF IInv, TypeOK, CancelStopsChunks, CanceledIsStopping, Stopping, ProcMoves,
     RowBecomes, HasRow, Moving
<1>13. FileOutlivesOnlyFailures'
  BY <1>q, <1>0 DEF IInv, TypeOK, FileOutlivesOnlyFailures, HasRow, ProcMoves, RowBecomes,
     Moving
<1>14. QED
  BY <1>1, <1>2, <1>3, <1>4, <1>5, <1>6, <1>7, <1>8, <1>9, <1>10, <1>11, <1>12, <1>13 DEF IInv

LEMMA AuditFailureKeeps ==
  ASSUME IInv, NEW r \in Runs, AuditFailure(r)
  PROVE  IInv'
<1>q. Moving(r)
  BY MovingHolds DEF AuditFailure, At, Running, Labels
<1>0. /\ proc[r].pc = "failAudit" /\ bull' \in BullJobs
      /\ ProcMoves(r, "ended", 1)
      /\ UNCHANGED <<req, file, sweep, workspace, faults, overlap, escaped, notified>>
  BY <1>q, ThrowMoves DEF IInv, TypeOK, Moving, Labels, AuditFailure, ledger, At
<1>1. TypeOK'
  BY <1>q, <1>0 DEF IInv, TypeOK, Moving, ProcMoves
<1>2. AgedIsUnworked'
  BY <1>q, <1>0 DEF IInv, TypeOK, AgedIsUnworked, Aged, Unworked, Running, Labels, ProcMoves,
     Moving
<1>3. AbsentIsUnworked'
  BY <1>q, <1>0 DEF IInv, TypeOK, AbsentIsUnworked, Unworked, Running, Labels, ProcMoves, Moving
<1>4. FileIsThere'
  BY <1>q, <1>0 DEF IInv, TypeOK, FileIsThere, ProcMoves, Moving
<1>5. SoleRun'
  BY <1>q, <1>0 DEF IInv, TypeOK, SoleRun, Working, Running, Labels, FileIsThere, ProcMoves,
     Moving
<1>6. CanceledIsStopping'
  <2>1. Stopping(r) /\ req.canceledAt /\ proc'[r].pc \in Labels => Stopping(r)'
    BY <1>q, <1>0 DEF Stopping, ProcMoves, Labels, Moving
  <2>2. QED
    BY <1>q, <1>0, <2>1, StoppingKeeps DEF ProcMoves, Moving
<1>7. ExceedsHasNoFile'
  BY <1>q, <1>0 DEF IInv, TypeOK, ExceedsHasNoFile, ProcMoves, Moving
<1>8. FailedByFault'
  BY <1>q, <1>0 DEF IInv, TypeOK, FailedByFault, HasRow, RowShape, ExceedsHasNoFile, ProcMoves,
     Moving
<1>9. /\ RowShape' /\ SweptFile' /\ NotifiedStaysReady' /\ CancelStopsChunks'
      /\ FileOutlivesOnlyFailures'
  BY <1>0 DEF IInv, RowShape, HasRow, SweptFile, NotifiedStaysReady, CancelStopsChunks,
     FileOutlivesOnlyFailures
<1>10. QED
  BY <1>1, <1>2, <1>3, <1>4, <1>5, <1>6, <1>7, <1>8, <1>9 DEF IInv

LEMMA MarkCanceledKeeps ==
  ASSUME IInv, NEW r \in Runs, MarkCanceled(r)
  PROVE  IInv'
<1>q. Moving(r)
  BY MovingHolds DEF MarkCanceled, At, Running, Labels
<1>0. /\ proc[r].pc = "cancel"
      /\ RowBecomes("canceled", "recent")
      /\ ProcMoves(r, "done", proc[r].at)
      /\ UNCHANGED <<file, bull, sweep, workspace, faults, overlap, escaped, notified>>
  BY <1>q, UpdateCompleted, GotoMoves DEF IInv, TypeOK, Moving, Labels, MarkCanceled, ledger, At
<1>1. TypeOK'
  BY <1>q, <1>0 DEF IInv, TypeOK, Moving, ProcMoves, RowBecomes, HasRow
<1>2. AgedIsUnworked'
  BY <1>q, <1>0 DEF IInv, TypeOK, AgedIsUnworked, Aged, Unworked, Running, Labels, ProcMoves,
     RowBecomes, HasRow, Moving
<1>3. AbsentIsUnworked'
  BY <1>q, <1>0 DEF IInv, TypeOK, AbsentIsUnworked, Unworked, Running, Labels, ProcMoves,
     RowBecomes, HasRow, Moving
<1>4. RowShape'
  BY <1>q, <1>0 DEF IInv, TypeOK, RowShape, HasRow, ProcMoves, RowBecomes, Moving
<1>5. FileIsThere'
  BY <1>q, <1>0 DEF IInv, TypeOK, FileIsThere, ProcMoves, RowBecomes, HasRow, Moving
<1>6. SoleRun'
  BY <1>q, <1>0 DEF IInv, TypeOK, SoleRun, Working, Running, Labels, FileIsThere, ProcMoves,
     RowBecomes, HasRow, Moving
<1>7. CanceledIsStopping'
  <2>1. Stopping(r) /\ req.canceledAt /\ proc'[r].pc \in Labels => Stopping(r)'
    BY <1>q, <1>0 DEF Stopping, ProcMoves, Labels, Moving, RowBecomes
  <2>2. QED
    BY <1>q, <1>0, <2>1, StoppingKeeps DEF ProcMoves, Moving, RowBecomes, HasRow
<1>8. ExceedsHasNoFile'
  BY <1>q, <1>0 DEF IInv, TypeOK, ExceedsHasNoFile, ProcMoves, RowBecomes, HasRow, Moving
<1>9. FailedByFault'
  BY <1>q, <1>0 DEF IInv, TypeOK, FailedByFault, HasRow, RowShape, ExceedsHasNoFile, ProcMoves,
     RowBecomes, Moving
<1>10. SweptFile'
  BY <1>q, <1>0 DEF IInv, TypeOK, SweptFile, HasRow, ExceedsHasNoFile, ProcMoves, RowBecomes,
     Moving
<1>11. NotifiedStaysReady'
  BY <1>q, <1>0 DEF IInv, TypeOK, NotifiedStaysReady, SoleRun, Working, ProcMoves, RowBecomes,
     HasRow, Moving
<1>12. CancelStopsChunks'
  BY <1>q, <1>0 DEF IInv, TypeOK, CancelStopsChunks, CanceledIsStopping, Stopping, ProcMoves,
     RowBecomes, HasRow, Moving
<1>13. FileOutlivesOnlyFailures'
  BY <1>q, <1>0 DEF IInv, TypeOK, FileOutlivesOnlyFailures, HasRow, ProcMoves, RowBecomes,
     Moving
<1>14. QED
  BY <1>1, <1>2, <1>3, <1>4, <1>5, <1>6, <1>7, <1>8, <1>9, <1>10, <1>11, <1>12, <1>13 DEF IInv

LEMMA FinishKeeps ==
  ASSUME IInv, NEW r \in Runs, Finish(r)
  PROVE  IInv'
<1>q. Moving(r)
  BY MovingHolds DEF Finish, At, Running, Labels
<1>0. /\ proc[r].pc = "done" /\ bull' \in BullJobs
      /\ ProcMoves(r, "ended", 1)
      /\ UNCHANGED <<req, file, sweep, workspace, faults, overlap, escaped, notified>>
  BY <1>q, ReturnMoves DEF IInv, TypeOK, Moving, Labels, Finish, ledger, At
<1>1. TypeOK'
  BY <1>q, <1>0 DEF IInv, TypeOK, Moving, ProcMoves
<1>2. AgedIsUnworked'
  BY <1>q, <1>0 DEF IInv, TypeOK, AgedIsUnworked, Aged, Unworked, Running, Labels, ProcMoves,
     Moving
<1>3. AbsentIsUnworked'
  BY <1>q, <1>0 DEF IInv, TypeOK, AbsentIsUnworked, Unworked, Running, Labels, ProcMoves, Moving
<1>4. FileIsThere'
  BY <1>q, <1>0 DEF IInv, TypeOK, FileIsThere, ProcMoves, Moving
<1>5. SoleRun'
  BY <1>q, <1>0 DEF IInv, TypeOK, SoleRun, Working, Running, Labels, FileIsThere, ProcMoves,
     Moving
<1>6. CanceledIsStopping'
  <2>1. Stopping(r) /\ req.canceledAt /\ proc'[r].pc \in Labels => Stopping(r)'
    BY <1>q, <1>0 DEF Stopping, ProcMoves, Labels, Moving
  <2>2. QED
    BY <1>q, <1>0, <2>1, StoppingKeeps DEF ProcMoves, Moving
<1>7. ExceedsHasNoFile'
  BY <1>q, <1>0 DEF IInv, TypeOK, ExceedsHasNoFile, ProcMoves, Moving
<1>8. FailedByFault'
  BY <1>q, <1>0 DEF IInv, TypeOK, FailedByFault, HasRow, RowShape, ExceedsHasNoFile, ProcMoves,
     Moving
<1>9. /\ RowShape' /\ SweptFile' /\ NotifiedStaysReady' /\ CancelStopsChunks'
      /\ FileOutlivesOnlyFailures'
  BY <1>0 DEF IInv, RowShape, HasRow, SweptFile, NotifiedStaysReady, CancelStopsChunks,
     FileOutlivesOnlyFailures
<1>10. QED
  BY <1>1, <1>2, <1>3, <1>4, <1>5, <1>6, <1>7, <1>8, <1>9 DEF IInv

LEMMA CancelKeeps ==
  ASSUME IInv, Cancel
  PROVE  IInv'
<1>0. /\ req.status = "processing" /\ RowCanceled
      /\ escaped' = {r \in Runs : Running(r) /\ ~ChunkAhead(r)}
      /\ UNCHANGED <<file, proc, bull, sweep, workspace, faults, overlap, notified>>
  BY DEF IInv, TypeOK, Cancel, ledger, Rows, RowCanceled
<1>1. TypeOK'
  BY <1>0 DEF IInv, TypeOK, RowCanceled
<1>2. AgedIsUnworked'
  BY <1>0 DEF IInv, TypeOK, AgedIsUnworked, Aged, Unworked, Running, Labels, RowCanceled
<1>3. AbsentIsUnworked'
  BY <1>0 DEF IInv, TypeOK, AbsentIsUnworked, Unworked, Running, Labels, RowCanceled
<1>4. RowShape'
  BY <1>0 DEF IInv, TypeOK, RowShape, HasRow, AgedIsUnworked, Aged, AbsentIsUnworked,
     RowCanceled
<1>5. FileIsThere'
  BY <1>0 DEF IInv, TypeOK, FileIsThere, AgedIsUnworked, Aged, Unworked, Running, Labels,
     RowShape, RowCanceled
<1>6. SoleRun'
  BY <1>0 DEF IInv, TypeOK, SoleRun, Working, Running, Labels, AgedIsUnworked, Aged, Unworked,
     AbsentIsUnworked, RowShape, RowCanceled
<1>7. CanceledIsStopping'
  <2> SUFFICES ASSUME NEW v \in Runs \ escaped', Running(v)
               PROVE  Stopping(v)
    BY <1>0 DEF CanceledIsStopping, Running, Stopping
  <2>1. ChunkAhead(v)
    BY <1>0
  <2>2. QED
    BY <2>1 DEF ChunkAhead, Stopping
<1>8. ExceedsHasNoFile'
  BY <1>0 DEF IInv, TypeOK, ExceedsHasNoFile, AbsentIsUnworked, Unworked, Running, Labels,
     RowCanceled
<1>9. FailedByFault'
  BY <1>0 DEF IInv, TypeOK, FailedByFault, HasRow, AbsentIsUnworked, Unworked, Running, Labels,
     RowCanceled
<1>10. SweptFile'
  BY <1>0 DEF IInv, TypeOK, SweptFile, HasRow, RowShape, AbsentIsUnworked, RowCanceled
<1>11. NotifiedStaysReady'
  BY <1>0 DEF IInv, TypeOK, NotifiedStaysReady, AbsentIsUnworked, RowCanceled
<1>12. CancelStopsChunks'
  BY <1>0 DEF IInv, TypeOK, CancelStopsChunks, RowCanceled
<1>13. FileOutlivesOnlyFailures'
  BY <1>0 DEF IInv, TypeOK, FileOutlivesOnlyFailures, SweptFile, HasRow, ExceedsHasNoFile,
     FailedByFault, AbsentIsUnworked, RowCanceled
<1>14. QED
  BY <1>1, <1>2, <1>3, <1>4, <1>5, <1>6, <1>7, <1>8, <1>9, <1>10, <1>11, <1>12, <1>13 DEF IInv

LEMMA DeleteWorkspaceKeeps ==
  ASSUME IInv, DeleteWorkspace
  PROVE  IInv'
<1>0. /\ workspace' = FALSE
      /\ ~HasRow => req' = req
      /\ HasRow => RowGone("workspace")
      /\ UNCHANGED <<file, proc, bull, sweep, faults, overlap, escaped, notified>>
  BY GoneMoves DEF IInv, TypeOK, DeleteWorkspace, ledger
<1>1. TypeOK'
  BY <1>0 DEF IInv, TypeOK, RowGone, HasRow
<1>2. AgedIsUnworked'
  BY <1>0 DEF IInv, TypeOK, AgedIsUnworked, Aged, Unworked, Running, Labels, RowGone, HasRow
<1>3. AbsentIsUnworked'
  BY <1>0 DEF IInv, TypeOK, AbsentIsUnworked, Unworked, Running, Labels, RowGone, HasRow
<1>4. RowShape'
  BY <1>0 DEF IInv, TypeOK, RowShape, HasRow, AgedIsUnworked, Aged, AbsentIsUnworked, RowGone
<1>5. FileIsThere'
  BY <1>0 DEF IInv, TypeOK, FileIsThere, AgedIsUnworked, Aged, Unworked, Running, Labels,
     RowShape, RowGone, HasRow
<1>6. SoleRun'
  BY <1>0 DEF IInv, TypeOK, SoleRun, Working, Running, Labels, AgedIsUnworked, Aged, Unworked,
     AbsentIsUnworked, RowShape, RowGone, HasRow
<1>7. CanceledIsStopping'
  BY <1>0 DEF IInv, TypeOK, CanceledIsStopping, Stopping, Running, Labels, RowGone, HasRow
<1>8. ExceedsHasNoFile'
  BY <1>0 DEF IInv, TypeOK, ExceedsHasNoFile, AbsentIsUnworked, Unworked, Running, Labels,
     RowGone, HasRow
<1>9. FailedByFault'
  BY <1>0 DEF IInv, TypeOK, FailedByFault, HasRow, AbsentIsUnworked, Unworked, Running, Labels,
     RowGone
<1>10. SweptFile'
  BY <1>0 DEF IInv, TypeOK, SweptFile, HasRow, RowShape, AbsentIsUnworked, RowGone
<1>11. NotifiedStaysReady'
  BY <1>0 DEF IInv, TypeOK, NotifiedStaysReady, AbsentIsUnworked, RowGone, HasRow
<1>12. CancelStopsChunks'
  BY <1>0 DEF IInv, TypeOK, CancelStopsChunks, RowGone, HasRow
<1>13. FileOutlivesOnlyFailures'
  BY <1>0 DEF IInv, TypeOK, FileOutlivesOnlyFailures, SweptFile, HasRow, ExceedsHasNoFile,
     FailedByFault, AbsentIsUnworked, RowGone
<1>14. QED
  BY <1>1, <1>2, <1>3, <1>4, <1>5, <1>6, <1>7, <1>8, <1>9, <1>10, <1>11, <1>12, <1>13 DEF IInv

LEMMA PassExpiryKeeps ==
  ASSUME IInv, PassExpiry
  PROVE  IInv'
<1>0. /\ Quiet /\ RowAges
      /\ UNCHANGED <<file, proc, bull, sweep, workspace, faults, overlap, escaped, notified>>
  <2>1. PICK x \in {"none", "past", "old"}, y \in {"none", "recent", "old"} :
          /\ req' = [req EXCEPT !.completed = y, !.expires = x]
          /\ x = "none" <=> req.expires = "none"
    BY DEF PassExpiry, IInv, TypeOK, Rows
  <2>2. PICK row : row = [req EXCEPT !.completed = y, !.expires = x]
    OBVIOUS
  <2>3. /\ row \in Rows /\ row.expires = x /\ row.status = req.status
        /\ row.size = req.size /\ row.fileKey = req.fileKey /\ row.by = req.by
        /\ row.canceledAt = req.canceledAt /\ row.was = req.was
    BY <2>2 DEF IInv, TypeOK, Rows
  <2>4. req.status # "absent"
    BY DEF PassExpiry, IInv, AbsentIsUnworked
  <2>5. RowAges
    BY <2>1, <2>2, <2>3, <2>4 DEF RowAges
  <2>6. QED
    BY <2>5 DEF PassExpiry, ledger
<1>1. TypeOK'
  BY <1>0 DEF IInv, TypeOK, RowAges
<1>2. AgedIsUnworked'
  BY <1>0 DEF IInv, TypeOK, AgedIsUnworked, Aged, Unworked, Running, Labels, RowAges, Quiet
<1>3. AbsentIsUnworked'
  BY <1>0 DEF IInv, TypeOK, AbsentIsUnworked, Unworked, Running, Labels, RowAges, Quiet
<1>4. RowShape'
  BY <1>0 DEF IInv, TypeOK, RowShape, HasRow, AgedIsUnworked, Aged, AbsentIsUnworked, RowAges,
     Quiet
<1>5. FileIsThere'
  BY <1>0 DEF IInv, TypeOK, FileIsThere, AgedIsUnworked, Aged, Unworked, Running, Labels,
     RowShape, RowAges, Quiet
<1>6. SoleRun'
  BY <1>0 DEF IInv, TypeOK, SoleRun, Working, Running, Labels, AgedIsUnworked, Aged, Unworked,
     AbsentIsUnworked, RowShape, RowAges, Quiet
<1>7. CanceledIsStopping'
  BY <1>0 DEF IInv, TypeOK, CanceledIsStopping, Stopping, Running, Labels, RowAges, Quiet
<1>8. ExceedsHasNoFile'
  BY <1>0 DEF IInv, TypeOK, ExceedsHasNoFile, AbsentIsUnworked, Unworked, Running, Labels,
     RowAges, Quiet
<1>9. FailedByFault'
  BY <1>0 DEF IInv, TypeOK, FailedByFault, HasRow, AbsentIsUnworked, Unworked, Running, Labels,
     RowAges, Quiet
<1>10. SweptFile'
  BY <1>0 DEF IInv, TypeOK, SweptFile, HasRow, RowShape, AbsentIsUnworked, RowAges, Quiet
<1>11. NotifiedStaysReady'
  BY <1>0 DEF IInv, TypeOK, NotifiedStaysReady, AbsentIsUnworked, RowAges, Quiet
<1>12. CancelStopsChunks'
  BY <1>0 DEF IInv, TypeOK, CancelStopsChunks, RowAges, Quiet
<1>13. FileOutlivesOnlyFailures'
  BY <1>0 DEF IInv, TypeOK, FileOutlivesOnlyFailures, SweptFile, HasRow, ExceedsHasNoFile,
     FailedByFault, AbsentIsUnworked, RowAges, Quiet
<1>14. QED
  BY <1>1, <1>2, <1>3, <1>4, <1>5, <1>6, <1>7, <1>8, <1>9, <1>10, <1>11, <1>12, <1>13 DEF IInv

LEMMA PassRetentionKeeps ==
  ASSUME IInv, PassRetention
  PROVE  IInv'
<1>0. /\ Quiet /\ RowAges
      /\ UNCHANGED <<file, proc, bull, sweep, workspace, faults, overlap, escaped, notified>>
  <2>1. PICK x \in {"none", "past", "old"}, y \in {"none", "recent", "old"} :
          /\ req' = [req EXCEPT !.completed = y, !.expires = x]
          /\ x = "none" <=> req.expires = "none"
    BY DEF PassRetention, IInv, TypeOK, Rows
  <2>2. PICK row : row = [req EXCEPT !.completed = y, !.expires = x]
    OBVIOUS
  <2>3. /\ row \in Rows /\ row.expires = x /\ row.status = req.status
        /\ row.size = req.size /\ row.fileKey = req.fileKey /\ row.by = req.by
        /\ row.canceledAt = req.canceledAt /\ row.was = req.was
    BY <2>2 DEF IInv, TypeOK, Rows
  <2>4. req.status # "absent"
    BY DEF PassRetention, IInv, AbsentIsUnworked
  <2>5. RowAges
    BY <2>1, <2>2, <2>3, <2>4 DEF RowAges
  <2>6. QED
    BY <2>5 DEF PassRetention, ledger
<1>1. TypeOK'
  BY <1>0 DEF IInv, TypeOK, RowAges
<1>2. AgedIsUnworked'
  BY <1>0 DEF IInv, TypeOK, AgedIsUnworked, Aged, Unworked, Running, Labels, RowAges, Quiet
<1>3. AbsentIsUnworked'
  BY <1>0 DEF IInv, TypeOK, AbsentIsUnworked, Unworked, Running, Labels, RowAges, Quiet
<1>4. RowShape'
  BY <1>0 DEF IInv, TypeOK, RowShape, HasRow, AgedIsUnworked, Aged, AbsentIsUnworked, RowAges,
     Quiet
<1>5. FileIsThere'
  BY <1>0 DEF IInv, TypeOK, FileIsThere, AgedIsUnworked, Aged, Unworked, Running, Labels,
     RowShape, RowAges, Quiet
<1>6. SoleRun'
  BY <1>0 DEF IInv, TypeOK, SoleRun, Working, Running, Labels, AgedIsUnworked, Aged, Unworked,
     AbsentIsUnworked, RowShape, RowAges, Quiet
<1>7. CanceledIsStopping'
  BY <1>0 DEF IInv, TypeOK, CanceledIsStopping, Stopping, Running, Labels, RowAges, Quiet
<1>8. ExceedsHasNoFile'
  BY <1>0 DEF IInv, TypeOK, ExceedsHasNoFile, AbsentIsUnworked, Unworked, Running, Labels,
     RowAges, Quiet
<1>9. FailedByFault'
  BY <1>0 DEF IInv, TypeOK, FailedByFault, HasRow, AbsentIsUnworked, Unworked, Running, Labels,
     RowAges, Quiet
<1>10. SweptFile'
  BY <1>0 DEF IInv, TypeOK, SweptFile, HasRow, RowShape, AbsentIsUnworked, RowAges, Quiet
<1>11. NotifiedStaysReady'
  BY <1>0 DEF IInv, TypeOK, NotifiedStaysReady, AbsentIsUnworked, RowAges, Quiet
<1>12. CancelStopsChunks'
  BY <1>0 DEF IInv, TypeOK, CancelStopsChunks, RowAges, Quiet
<1>13. FileOutlivesOnlyFailures'
  BY <1>0 DEF IInv, TypeOK, FileOutlivesOnlyFailures, SweptFile, HasRow, ExceedsHasNoFile,
     FailedByFault, AbsentIsUnworked, RowAges, Quiet
<1>14. QED
  BY <1>1, <1>2, <1>3, <1>4, <1>5, <1>6, <1>7, <1>8, <1>9, <1>10, <1>11, <1>12, <1>13 DEF IInv

LEMMA ListExpiredReadyKeeps ==
  ASSUME IInv, ListExpiredReady
  PROVE  IInv'
<1>0. /\ req.status = "ready" /\ req.expires \in {"past", "old"}
      /\ SweepMoves("object")
      /\ UNCHANGED <<req, file, proc, bull, workspace, faults, overlap, escaped, notified>>
  BY DEF IInv, TypeOK, ListExpiredReady, ledger, List, SweepMoves, Rows
<1>1. TypeOK'
  BY <1>0 DEF IInv, TypeOK, SweepMoves
<1>2. AgedIsUnworked'
  BY <1>0 DEF IInv, TypeOK, AgedIsUnworked, Aged, Unworked, Running, Labels, SweepMoves
<1>3. AbsentIsUnworked'
  BY <1>0 DEF IInv, TypeOK, AbsentIsUnworked, Unworked, Running, Labels, SweepMoves
<1>4. RowShape'
  BY <1>0 DEF IInv, TypeOK, RowShape, HasRow, AgedIsUnworked, Aged, AbsentIsUnworked, SweepMoves
<1>5. SweptFile'
  BY <1>0 DEF IInv, TypeOK, SweptFile, HasRow, RowShape, AbsentIsUnworked, SweepMoves
<1>6. /\ FileIsThere' /\ SoleRun' /\ CanceledIsStopping' /\ ExceedsHasNoFile'
      /\ FailedByFault' /\ NotifiedStaysReady' /\ CancelStopsChunks' /\ FileOutlivesOnlyFailures'
  BY <1>0 DEF IInv, FileIsThere, SoleRun, Working, Running, Labels, CanceledIsStopping,
     Stopping, ExceedsHasNoFile, FailedByFault, HasRow, NotifiedStaysReady, CancelStopsChunks,
     FileOutlivesOnlyFailures
<1>7. QED
  BY <1>1, <1>2, <1>3, <1>4, <1>5, <1>6 DEF IInv

LEMMA ListStaleFailedKeeps ==
  ASSUME IInv, ListStaleFailed
  PROVE  IInv'
<1>0. /\ req.status = "failed" /\ req.completed = "old"
      /\ SweepMoves("row")
      /\ UNCHANGED <<req, file, proc, bull, workspace, faults, overlap, escaped, notified>>
  BY DEF IInv, TypeOK, ListStaleFailed, ledger, List, SweepMoves, Rows
<1>1. TypeOK'
  BY <1>0 DEF IInv, TypeOK, SweepMoves
<1>2. AgedIsUnworked'
  BY <1>0 DEF IInv, TypeOK, AgedIsUnworked, Aged, Unworked, Running, Labels, SweepMoves
<1>3. AbsentIsUnworked'
  BY <1>0 DEF IInv, TypeOK, AbsentIsUnworked, Unworked, Running, Labels, SweepMoves
<1>4. RowShape'
  BY <1>0 DEF IInv, TypeOK, RowShape, HasRow, AgedIsUnworked, Aged, AbsentIsUnworked, SweepMoves
<1>5. SweptFile'
  BY <1>0 DEF IInv, TypeOK, SweptFile, HasRow, RowShape, AbsentIsUnworked, SweepMoves
<1>6. /\ FileIsThere' /\ SoleRun' /\ CanceledIsStopping' /\ ExceedsHasNoFile'
      /\ FailedByFault' /\ NotifiedStaysReady' /\ CancelStopsChunks' /\ FileOutlivesOnlyFailures'
  BY <1>0 DEF IInv, FileIsThere, SoleRun, Working, Running, Labels, CanceledIsStopping,
     Stopping, ExceedsHasNoFile, FailedByFault, HasRow, NotifiedStaysReady, CancelStopsChunks,
     FileOutlivesOnlyFailures
<1>7. QED
  BY <1>1, <1>2, <1>3, <1>4, <1>5, <1>6 DEF IInv

LEMMA ListRetentionKeeps ==
  ASSUME IInv, ListRetention
  PROVE  IInv'
<1>0. /\ \/ req.expires = "old"
         \/ req.completed = "old" /\ req.status \in {"ready", "failed"}
      /\ HasRow /\ SweepMoves("object")
      /\ UNCHANGED <<req, file, proc, bull, workspace, faults, overlap, escaped, notified>>
  BY DEF IInv, TypeOK, ListRetention, ledger, List, SweepMoves, Rows
<1>1. TypeOK'
  BY <1>0 DEF IInv, TypeOK, SweepMoves
<1>2. AgedIsUnworked'
  BY <1>0 DEF IInv, TypeOK, AgedIsUnworked, Aged, Unworked, Running, Labels, SweepMoves
<1>3. AbsentIsUnworked'
  BY <1>0 DEF IInv, TypeOK, AbsentIsUnworked, Unworked, Running, Labels, HasRow, SweepMoves
<1>4. RowShape'
  BY <1>0 DEF IInv, TypeOK, RowShape, HasRow, AgedIsUnworked, Aged, AbsentIsUnworked, SweepMoves
<1>5. SweptFile'
  BY <1>0 DEF IInv, TypeOK, SweptFile, HasRow, RowShape, AbsentIsUnworked, SweepMoves
<1>6. /\ FileIsThere' /\ SoleRun' /\ CanceledIsStopping' /\ ExceedsHasNoFile'
      /\ FailedByFault' /\ NotifiedStaysReady' /\ CancelStopsChunks' /\ FileOutlivesOnlyFailures'
  BY <1>0 DEF IInv, FileIsThere, SoleRun, Working, Running, Labels, CanceledIsStopping,
     Stopping, ExceedsHasNoFile, FailedByFault, HasRow, NotifiedStaysReady, CancelStopsChunks,
     FileOutlivesOnlyFailures
<1>7. QED
  BY <1>1, <1>2, <1>3, <1>4, <1>5, <1>6 DEF IInv

LEMMA DeleteObjectKeeps ==
  ASSUME IInv, DeleteObject
  PROVE  IInv'
<1>0. /\ sweep.pc = "object"
      /\ file' = IF sweep.hasKey THEN [state |-> "none", by |-> NoWorker] ELSE file
      /\ sweep'.pc = "row" /\ sweep' \in [pc : {"idle", "object", "row"}, hasKey : BOOLEAN]
      /\ UNCHANGED <<req, proc, bull, workspace, faults, overlap, escaped, notified>>
  BY DEF IInv, TypeOK, DeleteObject, ledger
<1>1. TypeOK'
  BY <1>0 DEF IInv, TypeOK
<1>2. AgedIsUnworked'
  BY <1>0 DEF IInv, TypeOK, AgedIsUnworked, Aged, Unworked, Running, Labels
<1>3. AbsentIsUnworked'
  BY <1>0 DEF IInv, TypeOK, AbsentIsUnworked, Unworked, Running, Labels
<1>4. RowShape'
  BY <1>0 DEF IInv, TypeOK, RowShape, HasRow, AgedIsUnworked, Aged, AbsentIsUnworked
<1>5. FileIsThere'
  BY <1>0 DEF IInv, TypeOK, FileIsThere, AgedIsUnworked, Aged, Unworked, Running, Labels,
     RowShape
<1>6. SoleRun'
  BY <1>0 DEF IInv, TypeOK, SoleRun, Working, Running, Labels, AgedIsUnworked, Aged, Unworked,
     AbsentIsUnworked, RowShape
<1>7. ExceedsHasNoFile'
  BY <1>0 DEF IInv, TypeOK, ExceedsHasNoFile, AbsentIsUnworked, Unworked, Running, Labels
<1>8. SweptFile'
  BY <1>0 DEF IInv, TypeOK, SweptFile, HasRow, RowShape, AbsentIsUnworked
<1>9. FileOutlivesOnlyFailures'
  BY <1>0 DEF IInv, TypeOK, FileOutlivesOnlyFailures, SweptFile, HasRow, ExceedsHasNoFile,
     FailedByFault, AbsentIsUnworked
<1>10. CanceledIsStopping' /\ FailedByFault' /\ NotifiedStaysReady' /\ CancelStopsChunks'
  BY <1>0 DEF IInv, CanceledIsStopping, Stopping, Running, Labels, FailedByFault, HasRow,
     NotifiedStaysReady, CancelStopsChunks
<1>11. QED
  BY <1>1, <1>2, <1>3, <1>4, <1>5, <1>6, <1>7, <1>8, <1>9, <1>10 DEF IInv

LEMMA DeleteRowKeeps ==
  ASSUME IInv, DeleteRow
  PROVE  IInv'
<1>0. /\ sweep.pc = "row" /\ sweep' = Idle
      /\ ~HasRow => req' = req
      /\ HasRow => RowGone(req.status)
      /\ UNCHANGED <<file, proc, bull, workspace, faults, overlap, escaped, notified>>
  <2>1. HasRow => RowGone(req.status)
    <3> SUFFICES ASSUME HasRow
                 PROVE  RowGone(req.status)
      OBVIOUS
    <3>1. PICK why \in {"workspace", "pending", "processing", "ready", "failed", "canceled"} :
            why = req.status
      BY RowTypes DEF IInv, HasRow
    <3>2. req' = Gone(why)
      BY <3>1 DEF DeleteRow
    <3>3. QED
      BY <3>1, <3>2, GoneMoves
  <2>2. ~HasRow => req' = req
    BY DEF DeleteRow
  <2>3. QED
    BY <2>1, <2>2 DEF DeleteRow, ledger
<1>1. TypeOK'
  BY <1>0 DEF IInv, TypeOK, RowGone, Idle, HasRow
<1>2. AgedIsUnworked'
  BY <1>0 DEF IInv, TypeOK, AgedIsUnworked, Aged, Unworked, Running, Labels, RowGone, Idle,
     HasRow
<1>3. AbsentIsUnworked'
  BY <1>0 DEF IInv, TypeOK, AbsentIsUnworked, Unworked, Running, Labels, RowGone, Idle, HasRow
<1>4. RowShape'
  BY <1>0 DEF IInv, TypeOK, RowShape, HasRow, AgedIsUnworked, Aged, AbsentIsUnworked, RowGone,
     Idle
<1>5. FileIsThere'
  BY <1>0 DEF IInv, TypeOK, FileIsThere, AgedIsUnworked, Aged, Unworked, Running, Labels,
     RowShape, RowGone, Idle, HasRow
<1>6. SoleRun'
  BY <1>0 DEF IInv, TypeOK, SoleRun, Working, Running, Labels, AgedIsUnworked, Aged, Unworked,
     AbsentIsUnworked, RowShape, RowGone, Idle, HasRow
<1>7. CanceledIsStopping'
  BY <1>0 DEF IInv, TypeOK, CanceledIsStopping, Stopping, Running, Labels, RowGone, Idle, HasRow
<1>8. ExceedsHasNoFile'
  BY <1>0 DEF IInv, TypeOK, ExceedsHasNoFile, AbsentIsUnworked, Unworked, Running, Labels,
     RowGone, Idle, HasRow
<1>9. FailedByFault'
  BY <1>0 DEF IInv, TypeOK, FailedByFault, HasRow, AbsentIsUnworked, Unworked, Running, Labels,
     RowGone, Idle
<1>10. SweptFile'
  BY <1>0 DEF IInv, TypeOK, SweptFile, HasRow, RowShape, AbsentIsUnworked, RowGone, Idle
<1>11. NotifiedStaysReady'
  BY <1>0 DEF IInv, TypeOK, NotifiedStaysReady, AbsentIsUnworked, RowGone, Idle, HasRow
<1>12. CancelStopsChunks'
  BY <1>0 DEF IInv, TypeOK, CancelStopsChunks, RowGone, Idle, HasRow
<1>13. FileOutlivesOnlyFailures'
  <2>1. CASE HasRow
    <3>1. file.state # "none" => req.status = "failed" /\ req.size = "fits"
      BY <1>0, <2>1, RowTypes DEF IInv, SweptFile, ExceedsHasNoFile
    <3>2. file.state # "none" => faults \in Nat /\ faults # 0
      BY <2>1, <3>1 DEF IInv, TypeOK, FailedByFault
    <3>3. QED
      BY <1>0, <2>1, <3>1, <3>2 DEF RowGone, FileOutlivesOnlyFailures
  <2>2. CASE ~HasRow
    BY <1>0, <2>2 DEF IInv, FileOutlivesOnlyFailures
  <2>3. QED
    BY <2>1, <2>2
<1>14. QED
  BY <1>1, <1>2, <1>3, <1>4, <1>5, <1>6, <1>7, <1>8, <1>9, <1>10, <1>11, <1>12, <1>13 DEF IInv

LEMMA SweepFailsKeeps ==
  ASSUME IInv, SweepFails
  PROVE  IInv'
<1>0. /\ sweep.pc # "idle" /\ sweep' = Idle /\ faults' \in Nat /\ faults' >= faults
      /\ UNCHANGED <<req, file, proc, bull, workspace, overlap, escaped, notified>>
  BY DEF IInv, TypeOK, SweepFails, ledger
<1>1. TypeOK'
  BY <1>0 DEF IInv, TypeOK, Idle
<1>2. AgedIsUnworked'
  BY <1>0 DEF IInv, TypeOK, AgedIsUnworked, Aged, Unworked, Running, Labels, Idle
<1>3. AbsentIsUnworked'
  BY <1>0 DEF IInv, TypeOK, AbsentIsUnworked, Unworked, Running, Labels, Idle
<1>4. RowShape'
  BY <1>0 DEF IInv, TypeOK, RowShape, HasRow, AgedIsUnworked, Aged, AbsentIsUnworked, Idle
<1>5. FailedByFault'
  BY <1>0 DEF IInv, TypeOK, FailedByFault, HasRow, AbsentIsUnworked, Unworked, Running, Labels,
     Idle
<1>6. SweptFile'
  BY <1>0 DEF IInv, TypeOK, SweptFile, HasRow, RowShape, AbsentIsUnworked, Idle
<1>7. FileOutlivesOnlyFailures'
  BY <1>0 DEF IInv, TypeOK, FileOutlivesOnlyFailures
<1>8. /\ FileIsThere' /\ SoleRun' /\ CanceledIsStopping' /\ ExceedsHasNoFile'
      /\ NotifiedStaysReady' /\ CancelStopsChunks'
  BY <1>0 DEF IInv, FileIsThere, SoleRun, Working, Running, Labels, CanceledIsStopping,
     Stopping, ExceedsHasNoFile, NotifiedStaysReady, CancelStopsChunks
<1>9. QED
  BY <1>1, <1>2, <1>3, <1>4, <1>5, <1>6, <1>7, <1>8 DEF IInv

----------------------------------------------------------------------------
(* The theorems.                                                           *)

LEMMA ProcessKeeps ==
  ASSUME IInv, NEW r \in Runs, Process(r)
  PROVE  IInv'
  BY ReadRequestKeeps, StartExportKeeps, WriteRowsKeeps, PersistProgressKeeps,
     CheckCanceledKeeps, OpenFileKeeps, CopyFileKeeps, MarkReadyKeeps, AuditAndNotifyKeeps,
     MarkFailedKeeps, AuditFailureKeeps, MarkCanceledKeeps, FinishKeeps DEF Process

LEMMA StepIInv == IInv /\ [Next]_vars => IInv'
<1> SUFFICES ASSUME IInv, [Next]_vars PROVE IInv'
  OBVIOUS
<1>1. CASE Create \/ Dispatch \/ Stall \/ Cancel \/ DeleteWorkspace \/ PassExpiry
             \/ PassRetention
  BY <1>1, CreateKeeps, DispatchKeeps, StallKeeps, CancelKeeps, DeleteWorkspaceKeeps,
     PassExpiryKeeps, PassRetentionKeeps
<1>2. CASE ListExpiredReady \/ ListStaleFailed \/ ListRetention \/ DeleteObject \/ DeleteRow
             \/ SweepFails
  BY <1>2, ListExpiredReadyKeeps, ListStaleFailedKeeps, ListRetentionKeeps, DeleteObjectKeeps,
     DeleteRowKeeps, SweepFailsKeeps
<1>3. ASSUME NEW r \in Runs, RunInline(r) \/ Pick(r) \/ Process(r) \/ Reject(r) \/ Crash(r)
      PROVE  IInv'
  BY <1>3, RunInlineKeeps, PickKeeps, ProcessKeeps, RejectKeeps, CrashKeeps
<1>4. CASE UNCHANGED vars
  BY <1>4 DEF vars, IInv, TypeOK, AgedIsUnworked, Aged, Unworked, AbsentIsUnworked, RowShape,
     HasRow, FileIsThere, SoleRun, Running, CanceledIsStopping, Stopping, ExceedsHasNoFile,
     FailedByFault, SweptFile, NotifiedStaysReady, CancelStopsChunks, FileOutlivesOnlyFailures
<1>5. QED
  BY <1>1, <1>2, <1>3, <1>4 DEF Next

LEMMA InitIInv == Init => IInv
<1> SUFFICES ASSUME Init PROVE IInv
  OBVIOUS
<1>0. /\ NoRow \in Rows /\ Local("idle") \in Locals /\ Local("idle").pc = "idle"
      /\ NewBull("none") \in BullJobs /\ NewBull("none").state = "none"
      /\ Idle \in [pc : {"idle", "object", "row"}, hasKey : BOOLEAN]
  BY StopsAreThere DEF NoRow, Rows, Local, Locals, NewBull, BullJobs, BullStates, Idle
<1>1. TypeOK
  BY <1>0 DEF Init, TypeOK
<1>2. /\ req.status = "absent" /\ req.expires = "none" /\ req.completed = "none"
      /\ req.fileKey = FALSE /\ req.canceledAt = FALSE /\ req.size = "fits"
      /\ \A r \in Runs : proc[r].pc = "idle"
      /\ bull.state = "none" /\ sweep.pc = "idle" /\ file.state = "none"
      /\ notified = {} /\ overlap = FALSE
  BY <1>0 DEF Init, NoRow, Idle
<1>3. \A r \in Runs : ~Running(r)
  BY <1>2 DEF Running, Labels
<1>4. QED
  BY <1>1, <1>2, <1>3 DEF IInv, AgedIsUnworked, Aged, Unworked, AbsentIsUnworked, RowShape,
     HasRow, FileIsThere, SoleRun, Working, CanceledIsStopping, ExceedsHasNoFile, FailedByFault,
     SweptFile, NotifiedStaysReady, CancelStopsChunks, FileOutlivesOnlyFailures

\* The invariant is inductive: every reachable state has it.
THEOREM Inductive == Spec => []IInv
  BY InitIInv, StepIInv, PTL DEF Spec

\* The variables have their types, for any number of invocations and any tables.
THEOREM TypeCorrect == Spec => []TypeOK
<1>1. IInv => TypeOK
  BY DEF IInv
<1>2. QED
  BY <1>1, Inductive, PTL

\* An export that may be downloaded has a file, and without an overlap it is the whole
\* file of the run whose counters the row shows, whatever stalls, crashes and sweeps.
THEOREM DownloadServed == Spec => []DownloadServesItsFile
<1>1. IInv => DownloadServesItsFile
  BY DEF IInv, TypeOK, Rows, RowShape, FileIsThere, SoleRun, DownloadServesItsFile, Downloadable
<1>2. QED
  BY <1>1, Inductive, PTL

\* After the notification of processDataExportRequest's result the export stays ready
\* until it is removed, unless two invocations overlapped.
THEOREM NotifiedStays == Spec => []NotifiedStaysReady
<1>1. IInv => NotifiedStaysReady
  BY DEF IInv
<1>2. QED
  BY <1>1, Inductive, PTL

\* A cancel mark that is set while every run still has a look at it ahead of it is
\* obeyed, for tables of any length and any overlap.
THEOREM CancelStops == Spec => []CancelStopsChunks
<1>1. IInv => CancelStopsChunks
  BY DEF IInv
<1>2. QED
  BY <1>1, Inductive, PTL

\* What runDataExportCleanup and the retention purge leave behind without a row comes
\* from a deleted workspace or from a failed run.
THEOREM FileOutlives == Spec => []FileOutlivesOnlyFailures
<1>1. IInv => FileOutlivesOnlyFailures
  BY DEF IInv
<1>2. QED
  BY <1>1, Inductive, PTL

============================================================================
