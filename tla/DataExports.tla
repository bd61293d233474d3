---------------------------- MODULE DataExports ----------------------------
(***************************************************************************)
(* One export of a workspace's data: the row of data_export_request, the   *)
(* file written under exports/<org>/<request>.ndjson, the invocations of   *)
(* processDataExportRequest that work on it, and the scheduled jobs that   *)
(* remove row and file when their time has passed.                         *)
(*                                                                         *)
(* Every await is one step.  What the tables hold is abstracted to Stops,  *)
(* the moments at which a run writes its progress: after a full chunk of   *)
(* rows ("chunk", followed by a look at the cancel mark) and at the end of *)
(* a table ("table").  The copy to the media directory takes two steps; an *)
(* upload to object storage is the case where nothing comes between them.  *)
(***************************************************************************)
EXTENDS BullMQ, Sequences

CONSTANTS
  Runs,          \* invocations of processDataExportRequest
  Stops,         \* the progress writes of one run, in order
  Sizes,         \* "fits", or "exceeds" MAX_DATA_EXPORT_ROWS or MAX_DATA_EXPORT_BYTES
  DispatchModes, \* isRedisEnabled(): "queue" through BullMQ, else "inline" in the request
  LockLapse,     \* the BullMQ lock of a running invocation can run out
  MaxFaults      \* bound: crashes and rejected calls

ASSUME ExportAssumption ==
  /\ NoWorker \notin Runs
  /\ Stops \in Seq({"chunk", "table"}) /\ Len(Stops) > 0
  /\ Sizes \subseteq {"fits", "exceeds"}
  /\ DispatchModes \subseteq {"queue", "inline"}
  /\ LockLapse \in BOOLEAN
  /\ MaxFaults \in Nat

VARIABLES
  req,       \* the row of data_export_request; "gone" when it has been deleted
  file,      \* the object under the request's key
  proc,      \* the local state of every invocation
  bull,      \* the BullMQ job "data-export-<id>"
  sweep,     \* the scheduled cleanup or purge: the row it has listed and where it is
  workspace, \* the organization exists
  faults,    \* faults so far, for the bound
  overlap,   \* history: two invocations have been running at the same time
  escaped,   \* history: the runs past their last look at the mark when it was set
  notified   \* history: the runs after which "Data export ready" was dispatched

vars == <<req, file, proc, bull, sweep, workspace, faults, overlap, escaped, notified>>
ledger == <<workspace, overlap, escaped, notified>>

Labels == {"read", "start", "rows", "progress", "check", "upload", "copy", "ready", "audit",
           "fail", "failAudit", "cancel", "done"}

\* by stands for bytesWritten and rowsWritten, which describe the file of one run;
\* was is history: why a row is gone.
NoRow == [status |-> "absent", size |-> "fits", fileKey |-> FALSE, by |-> NoWorker,
          expires |-> "none", completed |-> "none", canceledAt |-> FALSE, was |-> "absent"]

Local(pc) == [pc |-> pc, at |-> 1]
Idle == [pc |-> "idle", hasKey |-> FALSE]
Running(r) == proc[r].pc \in Labels
HasRow == req.status \notin {"absent", "gone"}

Init ==
  /\ req = NoRow
  /\ file = [state |-> "none", by |-> NoWorker]
  /\ proc = [r \in Runs |-> Local("idle")]
  /\ bull = NewBull("none")
  /\ sweep = Idle
  /\ workspace = TRUE
  /\ faults = 0
  /\ overlap = FALSE
  /\ escaped = {}
  /\ notified = {}

----------------------------------------------------------------------------
(* The request, its dispatch and the queue.                                *)

Create ==
  /\ req.status = "absent" /\ workspace
  /\ \E s \in Sizes : req' = [NoRow EXCEPT !.status = "pending", !.size = s]
  /\ bull' = [bull EXCEPT !.state = "dispatching"]
  /\ UNCHANGED <<file, proc, sweep, ledger, faults>>

\* The add succeeds; or it rejects, the audit before it does, or the server dies.
Dispatch ==
  /\ "queue" \in DispatchModes
  /\ bull.state = "dispatching"
  /\ \E s \in {"wait", "lost"} : bull' = [bull EXCEPT !.state = s]
  /\ UNCHANGED <<req, file, proc, sweep, ledger, faults>>

Enter(r) ==
  /\ proc[r].pc = "idle"
  /\ proc' = [proc EXCEPT ![r] = Local("read")]
  /\ overlap' = (overlap \/ \E v \in Runs : Running(v))
  /\ UNCHANGED <<req, file, sweep, workspace, faults, escaped, notified>>

RunInline(r) ==
  /\ "inline" \in DispatchModes
  /\ bull.state = "dispatching"
  /\ bull' = [bull EXCEPT !.state = "inline"]
  /\ Enter(r)

Pick(r) ==
  /\ bull.state = "wait"
  /\ bull' = Taken(bull, r)
  /\ Enter(r)

Stall ==
  /\ bull.state = "active"
  /\ proc[bull.holder].pc = "crashed" \/ LockLapse
  /\ bull' = Stalled(bull)
  /\ UNCHANGED <<req, file, proc, sweep, ledger, faults>>

Return(r) ==
  /\ proc' = [proc EXCEPT ![r] = Local("ended")]
  /\ bull' = Returned(bull, r)

Throw(r) ==
  /\ proc' = [proc EXCEPT ![r] = Local("ended")]
  /\ bull' = Thrown(bull, r)

At(r, l) == proc[r].pc = l
Goto(r, l) == proc' = [proc EXCEPT ![r].pc = l]

\* A call outside the try block rejects, or was applied and its reply is lost: the two
\* writes that begin a run and end a canceled one are followed by "rows" and "done".
RejectsOutside(r) ==
  \/ proc[r].pc \in {"read", "start", "fail", "failAudit", "cancel"}
  \/ proc[r].pc = "rows" /\ proc[r].at = 1
  \/ proc[r].pc = "done" /\ r \notin notified

\* A call rejects: inside the try block the catch block follows, elsewhere the
\* invocation throws.  A call that was applied and whose reply was lost is this step
\* after the call's own; recordAudit itself swallows its errors.
Reject(r) ==
  /\ Running(r) /\ faults < MaxFaults
  /\ faults' = faults + 1
  /\ \/ RejectsOutside(r) /\ Throw(r)
     \/ /\ proc[r].pc \in {"rows", "progress", "check", "upload", "copy", "ready", "audit"}
        /\ Goto(r, "fail")
        /\ UNCHANGED bull
  /\ UNCHANGED <<req, file, sweep, ledger>>

Crash(r) ==
  /\ Running(r) /\ faults < MaxFaults
  /\ faults' = faults + 1
  /\ Goto(r, "crashed")
  /\ UNCHANGED <<req, file, bull, sweep, ledger>>

----------------------------------------------------------------------------
(* processDataExportRequest.  updateDataExportRequestStatus has no         *)
(* condition but the id: without a row it does nothing.                    *)

Update(row) == req' = IF HasRow THEN row ELSE req

\* Mutant of ReadRequest: an export that is already processing is left to its run.
ReadRequestPendingOnly(r) ==
  /\ At(r, "read")
  /\ IF req.status \notin {"pending", "failed"} \/ req.canceledAt
     THEN Return(r)
     ELSE Goto(r, "start") /\ UNCHANGED bull
  /\ UNCHANGED <<req, file, sweep, ledger, faults>>

ReadRequest(r) ==
  /\ At(r, "read")
  /\ IF ~HasRow \/ req.status \in {"ready", "canceled"} \/ req.canceledAt
     THEN Return(r)
     ELSE Goto(r, "start") /\ UNCHANGED bull
  /\ UNCHANGED <<req, file, sweep, ledger, faults>>

StartExport(r) ==
  /\ At(r, "start")
  /\ Update([req EXCEPT !.status = "processing"])
  /\ Goto(r, "rows")
  /\ UNCHANGED <<file, bull, sweep, ledger, faults>>

\* The records up to the next stop.  Without an organization the run ends here, and
\* with too many records at one of the stops.
WriteRows(r) ==
  /\ At(r, "rows")
  /\ \/ /\ req.size = "exceeds" \/ (proc[r].at = 1 /\ ~workspace)
        /\ Goto(r, "fail")
     \/ /\ req.size = "exceeds" => proc[r].at # Len(Stops)
        /\ proc[r].at = 1 => workspace
        /\ Goto(r, "progress")
  /\ UNCHANGED <<req, file, bull, sweep, ledger, faults>>

\* Mutant of AfterStop: the loop runs one table too far.
AfterStopPastEnd(r) ==
  proc' = [proc EXCEPT ![r] = IF proc[r].at > Len(Stops) THEN Local("upload")
                              ELSE [pc |-> "rows", at |-> proc[r].at + 1]]

AfterStop(r) ==
  proc' = [proc EXCEPT ![r] = IF proc[r].at = Len(Stops) THEN Local("upload")
                              ELSE [pc |-> "rows", at |-> proc[r].at + 1]]

PersistProgress(r) ==
  /\ At(r, "progress")
  /\ Update([req EXCEPT !.status = "processing"])
  /\ IF Stops[proc[r].at] = "chunk" THEN Goto(r, "check") ELSE AfterStop(r)
  /\ UNCHANGED <<file, bull, sweep, ledger, faults>>

\* Mutant of IsCanceled: only the status, which the progress write has just overwritten.
IsCanceledByStatus == ~HasRow \/ req.status = "canceled"

IsCanceled == ~HasRow \/ req.status = "canceled" \/ req.canceledAt

CheckCanceled(r) ==
  /\ At(r, "check")
  /\ IF IsCanceled THEN Goto(r, "cancel") ELSE AfterStop(r)
  /\ UNCHANGED <<req, file, bull, sweep, ledger, faults>>

\* Mutant of OpenFile: the copy is not awaited.
OpenFileNotAwaited(r) ==
  /\ At(r, "upload")
  /\ file' = [state |-> "partial", by |-> r]
  /\ Goto(r, "ready")
  /\ UNCHANGED <<req, bull, sweep, ledger, faults>>

OpenFile(r) ==
  /\ At(r, "upload")
  /\ file' = [state |-> "partial", by |-> r]
  /\ Goto(r, "copy")
  /\ UNCHANGED <<req, bull, sweep, ledger, faults>>

CopyFile(r) ==
  /\ At(r, "copy")
  /\ file' = [file EXCEPT !.state = IF file.by = r THEN "whole" ELSE file.state]
  /\ Goto(r, "ready")
  /\ UNCHANGED <<req, bull, sweep, ledger, faults>>

\* Mutant of MarkReady: the notification is dispatched with the write, before the audit.
MarkReadyAndNotify(r) ==
  /\ At(r, "ready")
  /\ Update([req EXCEPT !.status = "ready", !.fileKey = TRUE, !.by = r,
                        !.expires = "live", !.completed = "recent"])
  /\ Goto(r, "audit")
  /\ notified' = notified \cup {r}
  /\ UNCHANGED <<file, bull, sweep, workspace, faults, overlap, escaped>>

MarkReady(r) ==
  /\ At(r, "ready")
  /\ Update([req EXCEPT !.status = "ready", !.fileKey = TRUE, !.by = r,
                        !.expires = "live", !.completed = "recent"])
  /\ Goto(r, "audit")
  /\ UNCHANGED <<file, bull, sweep, ledger, faults>>

\* runDataExportJob dispatches the notification of a run that returns ready.
AuditAndNotify(r) ==
  /\ At(r, "audit")
  /\ Goto(r, "done")
  /\ notified' = notified \cup {r}
  /\ UNCHANGED <<req, file, bull, sweep, workspace, faults, overlap, escaped>>

\* The catch block: the row, the audit, and the error again.
MarkFailed(r) ==
  /\ At(r, "fail")
  /\ Update([req EXCEPT !.status = "failed", !.completed = "recent"])
  /\ Goto(r, "failAudit")
  /\ UNCHANGED <<file, bull, sweep, ledger, faults>>

AuditFailure(r) ==
  /\ At(r, "failAudit")
  /\ Throw(r)
  /\ UNCHANGED <<req, file, sweep, ledger, faults>>

MarkCanceled(r) ==
  /\ At(r, "cancel")
  /\ Update([req EXCEPT !.status = "canceled", !.completed = "recent"])
  /\ Goto(r, "done")
  /\ UNCHANGED <<file, bull, sweep, ledger, faults>>

\* The processor returns and BullMQ completes the job, if the worker lives that long.
Finish(r) ==
  /\ At(r, "done")
  /\ Return(r)
  /\ UNCHANGED <<req, file, sweep, ledger, faults>>

----------------------------------------------------------------------------
(* The other actors: who cancels, who deletes the workspace, the clock.    *)

ChunkAhead(r) ==
  /\ Running(r)
  /\ \/ proc[r].pc \in {"read", "check"}
     \/ proc[r].pc \in {"start", "rows", "progress"}
          /\ \E i \in proc[r].at .. Len(Stops) : Stops[i] = "chunk"

\* cancelDataExportRequest: only an export that is processing.
Cancel ==
  /\ req.status = "processing"
  /\ req' = [req EXCEPT !.status = "canceled", !.canceledAt = TRUE]
  /\ escaped' = {r \in Runs : Running(r) /\ ~ChunkAhead(r)}
  /\ UNCHANGED <<file, proc, bull, sweep, workspace, faults, overlap, notified>>

Gone(why) == [NoRow EXCEPT !.status = "gone", !.was = why]

\* The row goes with the organization (ON DELETE CASCADE).
DeleteWorkspace ==
  /\ workspace
  /\ workspace' = FALSE
  /\ req' = IF HasRow THEN Gone("workspace") ELSE req
  /\ UNCHANGED <<file, proc, bull, sweep, faults, overlap, escaped, notified>>

\* Weeks pass: never while the export is worked on, waits for a worker or is swept.
Quiet == /\ \A r \in Runs : ~Running(r)
         /\ bull.state \notin {"dispatching", "wait", "active"}
         /\ sweep.pc = "idle"

PassExpiry ==
  /\ Quiet /\ req.expires = "live"
  /\ req' = [req EXCEPT !.expires = "past"]
  /\ UNCHANGED <<file, proc, bull, sweep, ledger, faults>>

\* 30 days: the window of stale failed exports and of DATA_EXPORT_RECORD.
PassRetention ==
  /\ Quiet
  /\ req.completed = "recent" \/ req.expires = "past"
  /\ req' = [req EXCEPT !.completed = IF @ = "recent" THEN "old" ELSE @,
                        !.expires = CASE @ = "past" -> "old" [] @ = "live" -> "past"
                                      [] OTHER -> @]
  /\ UNCHANGED <<file, proc, bull, sweep, ledger, faults>>

----------------------------------------------------------------------------
(* runDataExportCleanup and purgeDataExportRecords, run by the schedules.  *)

List(pc) ==
  /\ sweep.pc = "idle"
  /\ sweep' = [pc |-> pc, hasKey |-> req.fileKey]
  /\ UNCHANGED <<req, file, proc, bull, ledger, faults>>

\* Mutant of ListExpiredReady: the object of an expired export is not deleted.
ListExpiredReadyRowOnly ==
  req.status = "ready" /\ req.expires \in {"past", "old"} /\ List("row")

ListExpiredReady == req.status = "ready" /\ req.expires \in {"past", "old"} /\ List("object")

\* Only the id is listed: the object, if there is one, is not looked for.
ListStaleFailed == req.status = "failed" /\ req.completed = "old" /\ List("row")

ListRetention ==
  /\ HasRow
  /\ \/ req.expires = "old"
     \/ req.completed = "old" /\ req.status \in {"ready", "failed"}
  /\ List("object")

\* Mutant of DeleteObject: a file that is not there any more is an error.
DeleteObjectStrict ==
  /\ sweep.pc = "object"
  /\ \/ ~sweep.hasKey /\ sweep' = [sweep EXCEPT !.pc = "row"] /\ UNCHANGED file
     \/ /\ sweep.hasKey /\ file.state # "none"
        /\ file' = [state |-> "none", by |-> NoWorker]
        /\ sweep' = [sweep EXCEPT !.pc = "row"]
     \/ sweep.hasKey /\ file.state = "none" /\ sweep' = Idle /\ UNCHANGED file
  /\ UNCHANGED <<req, proc, bull, ledger, faults>>

DeleteObject ==
  /\ sweep.pc = "object"
  /\ file' = IF sweep.hasKey THEN [state |-> "none", by |-> NoWorker] ELSE file
  /\ sweep' = [sweep EXCEPT !.pc = "row"]
  /\ UNCHANGED <<req, proc, bull, ledger, faults>>

DeleteRow ==
  /\ sweep.pc = "row"
  /\ req' = IF HasRow THEN Gone(req.status) ELSE req
  /\ sweep' = Idle
  /\ UNCHANGED <<file, proc, bull, ledger, faults>>

\* A delete rejects or the worker dies: the next schedule starts over.
SweepFails ==
  /\ sweep.pc # "idle" /\ faults < MaxFaults
  /\ faults' = faults + 1
  /\ sweep' = Idle
  /\ UNCHANGED <<req, file, proc, bull, ledger>>

----------------------------------------------------------------------------

Process(r) ==
  \/ ReadRequest(r) \/ StartExport(r) \/ WriteRows(r) \/ PersistProgress(r)
  \/ CheckCanceled(r) \/ OpenFile(r) \/ CopyFile(r) \/ MarkReady(r)
  \/ AuditAndNotify(r) \/ MarkFailed(r) \/ AuditFailure(r) \/ MarkCanceled(r)
  \/ Finish(r)

Sweep == ListExpiredReady \/ ListStaleFailed \/ ListRetention \/ DeleteObject \/ DeleteRow

Next ==
  \/ Create \/ Dispatch \/ Stall \/ Cancel \/ DeleteWorkspace
  \/ PassExpiry \/ PassRetention
  \/ ListExpiredReady \/ ListStaleFailed \/ ListRetention \/ DeleteObject \/ DeleteRow
  \/ SweepFails
  \/ \E r \in Runs : RunInline(r) \/ Pick(r) \/ Process(r) \/ Reject(r) \/ Crash(r)

Spec == Init /\ [][Next]_vars

\* A running invocation and a started sweep go on unless they fail, an idle worker
\* picks a waiting job, the stall checker and the schedules run.
Fairness ==
  /\ \A r \in Runs : WF_vars(Process(r))
  /\ WF_vars(\E r \in Runs : Pick(r))
  /\ WF_vars(Stall /\ proc[bull.holder].pc = "crashed")
  /\ WF_vars(Sweep)

FairSpec == Spec /\ Fairness

----------------------------------------------------------------------------
(* Properties.                                                             *)

Rows == [status : {"absent", "gone", "pending", "processing", "ready", "failed", "canceled"},
         size : {"fits", "exceeds"}, fileKey : BOOLEAN, by : Runs \cup {NoWorker},
         expires : {"none", "live", "past", "old"}, completed : {"none", "recent", "old"},
         canceledAt : BOOLEAN,
         was : {"absent", "workspace", "pending", "processing", "ready", "failed", "canceled"}]

Locals == [pc : Labels \cup {"idle", "ended", "crashed"}, at : 1 .. Len(Stops)]

BullJobs == [state : BullStates \cup {"dispatching", "lost", "inline"},
             holder : Runs \cup {NoWorker}, attemptsMade : Nat, stalls : Nat]

TypeOK ==
  /\ req \in Rows
  /\ file \in [state : {"none", "partial", "whole"}, by : Runs \cup {NoWorker}]
  /\ proc \in [Runs -> Locals]
  /\ bull \in BullJobs
  /\ sweep \in [pc : {"idle", "object", "row"}, hasKey : BOOLEAN]
  /\ workspace \in BOOLEAN
  /\ faults \in Nat
  /\ overlap \in BOOLEAN
  /\ escaped \in SUBSET Runs
  /\ notified \in SUBSET Runs

\* assertCanDownloadDataExport and canDownload, for an owner or admin.
Downloadable == req.status = "ready" /\ req.fileKey /\ req.expires \in {"none", "live"}

\* Whoever may download an export gets a file: the whole file of the very run whose
\* counters the row shows, unless two invocations overlapped.
DownloadServesItsFile ==
  Downloadable =>
    /\ file.state # "none"
    /\ overlap \/ file = [state |-> "whole", by |-> req.by]

\* Once the requester was told that the export is ready, it stays so until it is
\* removed for good, unless two invocations overlapped.
NotifiedStaysReady ==
  notified # {} /\ ~overlap => req.status \in {"ready", "gone"}

\* An export that was canceled while a chunk of rows was still ahead of every run is
\* never made ready: the progress writes overwrite the status and not the mark.
CancelStopsChunks ==
  req.canceledAt /\ req.status = "ready" => req.by \in escaped

\* A file outlives its row only if the workspace was deleted under it, or if a run
\* failed between opening the file and recording its key, or after.
FileOutlivesOnlyFailures ==
  file.state # "none" /\ req.status = "gone" =>
    req.was = "workspace" \/ (req.was = "failed" /\ faults > 0)

Settled == req.status \in {"ready", "failed", "canceled", "gone"}

\* A dispatched export ends ready, failed or canceled and stays so.  The exceptions need
\* a fault: BullMQ gives the job up, the inline run was the only one, or a fault meets
\* overlapping runs.  A cancel mark counts although the row may still say processing.
DispatchedExportSettles ==
  bull.state \in {"wait", "inline"} ~>
    []( \/ Settled \/ req.canceledAt
        \/ faults > 0 /\ (bull.state \in {"failed", "inline"} \/ overlap))

\* An expired export is removed in the end, whatever step of a removal fails.
ExpiredExportIsRemoved ==
  req.status = "ready" /\ req.expires \in {"past", "old"} ~> req.status = "gone"

============================================================================
