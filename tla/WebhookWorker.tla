----------------------------- MODULE WebhookWorker -----------------------------
(***************************************************************************)
(* The delivery of a webhook event by worker processes that start, drain,  *)
(* are cut off and are replaced: the composition of WebhookDelivery and    *)
(* WorkerLifecycle.  A worker takes the job while it is Taking, a drain    *)
(* waits for the job it holds, and an exit ends the delivery where it is.  *)
(***************************************************************************)
EXTENDS WebhookDelivery, WorkerLifecycle

ASSUME SendersAreWorkers == Senders = Workers \cup {Inline} /\ Inline \notin Workers

vars == <<delivery, life>>

Init == DeliveryInit /\ LifeInit

\* A step of the process, with the delivery it drops when it exits.
Live(w, step) ==
    /\ step
    /\ IF Alive(w)' THEN UNCHANGED delivery ELSE Vanish(w)

Lifecycle(w) == Live(w, LifeStep(w, HeldBy(bull, w)))
\* Without Redis no worker starts.
Event(w) == mode = "queue" /\ Live(w, LifeEvent(w))

\* A worker that runs looks for stalled jobs; a process that lives renews its lock.
FindStalled ==
    /\ \E w \in Workers : Taking(w)
    /\ bull.state = "active" /\ ~Alive(bull.holder)
    /\ Stall
    /\ UNCHANGED life

\* The server waits for its connections, not for a delivery: its exit, ordered or
\* not, ends the one it runs inline.
ServerExits == ~At(Inline, "idle") /\ Vanish(Inline) /\ UNCHANGED life

Take(w) == Taking(w) /\ Pick(w) /\ UNCHANGED life

Next ==
    \/ \E w \in Workers : Lifecycle(w) \/ Event(w) \/ Take(w)
    \/ \E s \in Senders : (SendStep(s) \/ Remote(s)) /\ UNCHANGED life
    \/ (SetEnabled \/ DeleteEndpoint \/ Dispatch) /\ UNCHANGED life
    \/ FindStalled \/ ServerExits

Spec == Init /\ [][Next]_vars

\* What a process does without Redis: the timer of its drain runs out, and its
\* health server closes once no request is in progress.
OnItsOwn(w) == Live(w, CloseServer(w) \/ Timeout(w))

\* What waits for Redis as long as Redis is away: the registration of the
\* schedules, a readiness request, and the closing of workers and queues.
WithRedis(w) ==
    Live(w, \/ FinishStart(w) \/ Answer(w)
            \/ CloseCore(w) \/ CloseRest(w, HeldBy(bull, w)) \/ CloseQueues(w))

\* Deliveries go on, some running worker takes a job that waits, timers run
\* out, and stalled jobs are found.  Nothing makes the endpoint answer.
FairSpec ==
    /\ Spec
    /\ \A w \in Workers : WF_vars(OnItsOwn(w))
    /\ WF_vars(\E w \in Workers : Take(w))
    /\ WF_vars(\E s \in Senders : SendStep(s) /\ UNCHANGED life)
    /\ WF_vars(FindStalled)

-----------------------------------------------------------------------------
(* Properties.                                                             *)

\* Types.
TypeOK ==
    /\ mode \in DispatchModes
    /\ endpoint \in {"enabled", "disabled", "deleted"}
    /\ event \in {"new", "dispatched"}
    /\ bull \in [state : BullStates, holder : Workers \cup {NoWorker},
                 attemptsMade : Nat, stalls : Nat]
    /\ sender \in [Senders -> Locals]
    /\ rows \in [delivered : Nat, failed : Nat]
    /\ answered \in {"never", "POST", "GET"}
    /\ proc \in [Workers -> Processes]
    /\ faults \in 0..MaxFaults /\ incidents \in 0..MaxIncidents

\* A job that completed was answered with 2xx and has its delivered row, or
\* its endpoint was deleted: no drain, crash, timeout or failed insert drops
\* an event silently.  The 2xx may be the answer to the GET that a redirect
\* made of the POST.
CompletedIsDelivered ==
    (bull.state = "completed" /\ endpoint # "deleted") =>
        rows.delivered >= 1 /\ answered # "never"

\* Every attempt the queue counts has its failed row, but for the faults.
FailedAttemptsAreLogged ==
    endpoint # "deleted" => bull.attemptsMade <= rows.failed + faults

\* An event is logged as delivered once, but for each time the job was taken
\* from a dead worker and each insert whose reply was lost.
DeliveredOnce == rows.delivered <= 1 + bull.stalls + faults

\* A process whose drain ended with exit code 0 left no job behind, although
\* its workers went on taking jobs when the drain began.  (A second signal
\* exits with 0 in the middle of the drain, and leaves its job to the stall
\* checker.)
CleanExitLeavesNoJob ==
    \A w \in Workers : proc[w].code = "0" => ~HeldBy(bull, w)

\* Readiness flips before workers drain: no request is answered healthy once
\* the workers began to close.
ReadinessFlipsFirst ==
    \A w \in Workers : proc[w].asked => proc[w].drain \in {"no", "server"}

\* Nothing keeps what waits for Redis waiting for ever.
ConnectionsAnswer == \A w \in Workers : WF_vars(WithRedis(w))

\* Unless Redis stays away, drains end: neither readiness requests nor deliveries
\* keep one for ever, also one begun by an exception, which has no timer.
DrainEnds ==
    ConnectionsAnswer =>
        ((\E w \in Workers : Draining(w)) ~> (\A w \in Workers : ~Draining(w)))

\* The process takes jobs, or still has this one.
Serves(w) == Taking(w) \/ (Alive(w) /\ HeldBy(bull, w))

\* A queued event is settled unless no process is left to settle it, also while
\* drains hang.
QueuedEventSettles ==
    bull.state \in {"wait", "active"} ~>
        bull.state \in {"completed", "failed"} \/ \A w \in Workers : ~Serves(w)
=============================================================================
