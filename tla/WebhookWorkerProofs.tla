-------------------------- MODULE WebhookWorkerProofs --------------------------
(***************************************************************************)
(* Theorems about WebhookWorker: its safety properties for any workers,    *)
(* attempts, stalls, redirects, addresses, faults and incidents.           *)
(***************************************************************************)
EXTENDS WebhookWorker, TLAPS

Bulls == [state : BullStates, holder : Workers \cup {NoWorker},
          attemptsMade : Nat, stalls : Nat]

\* The types of the part that delivers.
DeliveryTypes ==
    /\ mode \in DispatchModes
    /\ endpoint \in {"enabled", "disabled", "deleted"}
    /\ event \in {"new", "dispatched"}
    /\ bull \in Bulls
    /\ sender \in [Senders -> Locals]
    /\ rows \in [delivered : Nat, failed : Nat]
    /\ answered \in {"never", "POST", "GET"}
    /\ faults \in 0..MaxFaults

LifeTypes == proc \in [Workers -> Processes] /\ incidents \in 0..MaxIncidents

LEMMA Types == TypeOK <=> DeliveryTypes /\ LifeTypes
    BY DEF TypeOK, DeliveryTypes, LifeTypes, Bulls

-----------------------------------------------------------------------------
(* The inductive invariant.                                                *)

\* A delivery under way is the job's, in a worker that lives, or the server's.
RunningIsOwned ==
    \A s \in Senders : sender[s].pc # "idle" =>
        \/ s \in Workers /\ HeldBy(bull, s) /\ Alive(s)
        \/ s = Inline /\ bull.state = "none" /\ event = "dispatched"

NewIsClean == event = "new" => bull.state = "none" /\ rows.delivered = 0

\* A request that ended well was answered, and is past that answer.
OkIsAnswered ==
    \A s \in Senders : sender[s].ok =>
        sender[s].pc \in {"body", "record", "ended"} /\ answered # "never"

\* What has ended is in the log.
EndedIsLogged ==
    \A s \in Senders : sender[s].pc = "ended" /\ endpoint # "deleted" =>
        /\ sender[s].ok => rows.delivered >= 1
        /\ ~sender[s].ok => bull.attemptsMade + 1 <= rows.failed + faults

\* Nobody is between the dispatch of the event, or a new attempt, and its log.
Over(s) == sender[s].pc = "idle" \/ (sender[s].pc = "ended" /\ sender[s].ok)
Concluded ==
    \/ bull.state \in {"completed", "failed"}
    \/ bull.state = "active" /\ Over(bull.holder)
    \/ bull.state = "none" /\ event = "dispatched" /\ Over(Inline)
DeliveredBound ==
    /\ rows.delivered <= 1 + bull.stalls + faults
    /\ ~Concluded => rows.delivered <= bull.stalls + faults

\* The end of a drain.
DrainedIsFree ==
    \A w \in Workers :
        /\ proc[w].drain = "queues" \/ proc[w].code = "0" => ~HeldBy(bull, w)
        /\ proc[w].code # "none" => proc[w].boot = "off"

Log == /\ OkIsAnswered /\ EndedIsLogged /\ DeliveredBound
       /\ CompletedIsDelivered /\ FailedAttemptsAreLogged

IInv == /\ DeliveryTypes /\ LifeTypes /\ RunningIsOwned /\ NewIsClean /\ Log
        /\ DrainedIsFree /\ ReadinessFlipsFirst

-----------------------------------------------------------------------------
(* The job.                                                                *)

LEMMA InlineApart == Inline \in Senders /\ Inline \notin Workers /\ Inline # NoWorker
    BY SendersAreWorkers, SendersAssumption

LEMMA ReturnEffect ==
    ASSUME DeliveryTypes, NEW s \in Senders, Return(s)
    PROVE  /\ bull' \in Bulls
           /\ sender' = [sender EXCEPT ![s] = Idle]
           /\ bull'.attemptsMade = bull.attemptsMade /\ bull'.stalls = bull.stalls
           /\ HeldBy(bull, s) => bull'.state = "completed"
           /\ ~HeldBy(bull, s) => bull' = bull
<1>1. CASE HeldBy(bull, s)
    BY <1>1 DEF Return, Returned, Local, DeliveryTypes, Bulls, BullStates
<1>2. CASE ~HeldBy(bull, s)
    BY <1>2 DEF Return, Returned, Local, DeliveryTypes
<1>3. QED
    BY <1>1, <1>2

LEMMA ThrowEffect ==
    ASSUME DeliveryTypes, NEW s \in Senders, Throw(s)
    PROVE  /\ bull' \in Bulls
           /\ sender' = [sender EXCEPT ![s] = Idle]
           /\ bull'.stalls = bull.stalls
           /\ HeldBy(bull, s) => /\ bull'.state \in {"wait", "failed"}
                                 /\ bull'.attemptsMade = bull.attemptsMade + 1
           /\ ~HeldBy(bull, s) => bull' = bull
<1>1. CASE HeldBy(bull, s)
  <2>1. PICK st \in {"wait", "failed"} :
            bull' = [bull EXCEPT !.state = st, !.attemptsMade = bull.attemptsMade + 1,
                                 !.holder = NoWorker]
    BY <1>1 DEF Throw, Thrown
  <2>2. bull.attemptsMade + 1 \in Nat
    BY DEF DeliveryTypes, Bulls
  <2>3. QED
    BY <1>1, <2>1, <2>2 DEF Throw, Local, DeliveryTypes, Bulls, BullStates
<1>2. CASE ~HeldBy(bull, s)
    BY <1>2 DEF Throw, Thrown, Local, DeliveryTypes
<1>3. QED
    BY <1>1, <1>2

LEMMA StallEffect ==
    ASSUME DeliveryTypes, Stall
    PROVE  /\ bull' \in Bulls
           /\ bull'.attemptsMade = bull.attemptsMade
           /\ \/ bull'.state = "wait" /\ bull'.stalls = bull.stalls + 1
              \/ bull'.state = "failed" /\ bull'.stalls = bull.stalls
<1>1. CASE bull.stalls < MaxStalls
  <2>1. bull' = [bull EXCEPT !.state = "wait", !.holder = NoWorker, !.stalls = bull.stalls + 1]
    BY <1>1 DEF Stall, Stalled
  <2>2. bull.stalls + 1 \in Nat
    BY DEF DeliveryTypes, Bulls
  <2>3. QED
    BY <2>1, <2>2 DEF DeliveryTypes, Bulls, BullStates
<1>2. CASE ~(bull.stalls < MaxStalls)
    BY <1>2 DEF Stall, Stalled, DeliveryTypes, Bulls, BullStates
<1>3. QED
    BY <1>1, <1>2

LEMMA TakenEffect ==
    ASSUME DeliveryTypes, NEW w \in Workers
    PROVE  /\ Taken(bull, w) \in Bulls
           /\ Taken(bull, w).state = "active" /\ Taken(bull, w).holder = w
           /\ Taken(bull, w).attemptsMade = bull.attemptsMade
           /\ Taken(bull, w).stalls = bull.stalls
    BY DEF DeliveryTypes, Taken, Bulls, BullStates

LEMMA NewBullEffect ==
    ASSUME NEW st \in BullStates
    PROVE  /\ NewBull(st) \in Bulls /\ NewBull(st).state = st
           /\ NewBull(st).attemptsMade = 0 /\ NewBull(st).stalls = 0
    BY DEF NewBull, Bulls

-----------------------------------------------------------------------------
(* Steps of the processes.                                                 *)

ProcStep(w, busy) ==
    \E p \in Processes :
        /\ proc' = [proc EXCEPT ![w] = p]
        /\ p.asked => p.drain \in {"no", "server"}
        /\ p.drain = "queues" => proc[w].drain = "queues" \/ ~busy
        /\ p.code = "0" => proc[w].drain = "queues" \/ proc[w].code = "0"
        /\ p.code # "none" => p.boot = "off"

LEMMA BecomeStep ==
    ASSUME NEW w \in Workers, NEW busy, NEW p \in Processes, Become(w, p),
           p.asked => p.drain \in {"no", "server"},
           p.drain = "queues" => proc[w].drain = "queues" \/ ~busy,
           p.code = "0" => proc[w].drain = "queues" \/ proc[w].code = "0",
           p.code # "none" => p.boot = "off"
    PROVE  ProcStep(w, busy)
    BY DEF Become, ProcStep

LEMMA ExitStep ==
    ASSUME LifeTypes, NEW w \in Workers, NEW busy, NEW code \in {"0", "0 early", "1"},
           Exit(w, code), code = "0" => proc[w].drain = "queues"
    PROVE  ProcStep(w, busy)
<1>1. [NewProcess EXCEPT !.code = code] \in Processes
    BY DEF NewProcess, Processes
<1>2. QED
    BY <1>1 DEF Exit, Become, ProcStep, NewProcess

LEMMA ProcessSteps ==
    ASSUME LifeTypes, DrainedIsFree, ReadinessFlipsFirst,
           NEW w \in Workers, NEW busy \in BOOLEAN, LifeStep(w, busy) \/ LifeEvent(w)
    PROVE  ProcStep(w, busy) /\ incidents' \in 0..MaxIncidents
<1> USE DEF Alive
<1>t. proc[w] \in Processes /\ incidents \in 0..MaxIncidents
    BY DEF LifeTypes
<1>i. UNCHANGED incidents \/ Incident => incidents' \in 0..MaxIncidents
    BY <1>t, LifecycleBounds DEF Incident
<1>d. proc[w].asked => proc[w].drain \in {"no", "server"}
    BY DEF ReadinessFlipsFirst
<1>c. proc[w].code # "none" => proc[w].boot = "off"
    BY DEF DrainedIsFree
<1>b. ASSUME NEW b \in {"starting", "up"}, proc[w].code = "none"
      PROVE  /\ [proc[w] EXCEPT !.boot = b] \in Processes
             /\ Become(w, [proc[w] EXCEPT !.boot = b]) => ProcStep(w, busy)
  <2>1. [proc[w] EXCEPT !.boot = b] \in Processes
    BY <1>t DEF Processes
  <2>2. QED
    BY <2>1, <1>t, <1>b, <1>d, BecomeStep DEF Processes
<1>a. ASSUME NEW a \in BOOLEAN, a => proc[w].drain = "no",
             Become(w, [proc[w] EXCEPT !.asked = a])
      PROVE  ProcStep(w, busy)
  <2>1. [proc[w] EXCEPT !.asked = a] \in Processes
    BY <1>t DEF Processes
  <2>2. QED
    BY <2>1, <1>t, <1>a, <1>c, BecomeStep DEF Processes
<1>e. ASSUME NEW to \in {"core", "rest", "queues"}, NEW from,
             Drain(w, from, to), ~proc[w].asked, to = "queues" => ~busy
      PROVE  ProcStep(w, busy)
  <2>1. [proc[w] EXCEPT !.drain = to] \in Processes
    BY <1>t DEF Processes
  <2>2. QED
    BY <2>1, <1>t, <1>e, <1>c, BecomeStep DEF Processes, Drain
<1>f. ASSUME NEW fatal \in BOOLEAN, BeginDrain(w, fatal), proc[w].boot # "off"
      PROVE  ProcStep(w, busy)
  <2>1. [proc[w] EXCEPT !.drain = "server", !.fatal = fatal] \in Processes
    BY <1>t DEF Processes
  <2>2. QED
    BY <2>1, <1>t, <1>f, <1>c, BecomeStep DEF Processes, BeginDrain
<1>1. CASE FinishStart(w)
    BY <1>1, <1>b, <1>c, <1>i DEF FinishStart
<1>2. CASE Answer(w)
    BY <1>2, <1>a, <1>i DEF Answer
<1>3. CASE CloseServer(w)
    BY <1>3, <1>e, <1>i DEF CloseServer, Drain
<1>4. CASE CloseCore(w)
    BY <1>4, <1>e, <1>i, <1>d DEF CloseCore, Drain
<1>5. CASE CloseRest(w, busy)
    BY <1>5, <1>e, <1>i, <1>d DEF CloseRest, Drain
<1>6. CASE CloseQueues(w)
    BY <1>6, <1>i, ExitStep DEF CloseQueues
<1>7. CASE Timeout(w)
    BY <1>7, <1>i, ExitStep DEF Timeout
<1>8. CASE Start(w)
    BY <1>8, <1>b, <1>i DEF Start
<1>9. CASE StartFails(w)
    BY <1>9, <1>i, ExitStep DEF StartFails
<1>10. CASE Ask(w)
    BY <1>10, <1>a, <1>i DEF Ask
<1>11. CASE Signal(w)
    BY <1>11, <1>i, <1>f, ExitStep DEF Signal
<1>12. CASE Throws(w)
    BY <1>12, <1>i, <1>f, ExitStep DEF Throws
<1>13. CASE DrainFails(w)
    BY <1>13, <1>i, ExitStep DEF DrainFails
<1>14. CASE Kill(w)
    BY <1>14, <1>i, ExitStep DEF Kill
<1>15. QED
    BY <1>1, <1>2, <1>3, <1>4, <1>5, <1>6, <1>7, <1>8, <1>9, <1>10, <1>11, <1>12,
       <1>13, <1>14 DEF LifeStep, LifeEvent

-----------------------------------------------------------------------------
(* Steps of a delivery.                                                    *)

\* A delivery under way is the only one, and the job is not concluded before it is over.
LEMMA OneRuns ==
    ASSUME IInv, NEW s \in Senders, sender[s].pc # "idle"
    PROVE  /\ \A t \in Senders \ {s} : sender[t].pc = "idle"
           /\ event = "dispatched"
           /\ bull.state \notin {"completed", "failed"}
           /\ ~Over(s) => ~Concluded
           /\ \/ s \in Workers /\ HeldBy(bull, s)
              \/ s = Inline /\ ~HeldBy(bull, s) /\ bull.state = "none"
    BY InlineApart DEF IInv, RunningIsOwned, NewIsClean, HeldBy, Concluded, DeliveryTypes

\* A step within a delivery: what it writes to the log it owes to the log.
Moves(s, l) ==
    /\ sender[s].pc \notin {"idle", "ended"} /\ l.pc # "idle"
    /\ sender' = [sender EXCEPT ![s] = l]
    /\ mode' = mode /\ endpoint' = endpoint /\ event' = event /\ bull' = bull
    /\ UNCHANGED life
    /\ answered' \in {"never", "POST", "GET"}
    /\ answered # "never" => answered' # "never"
    /\ rows' \in [delivered : Nat, failed : Nat]
    /\ faults' \in 0..MaxFaults /\ faults' >= faults
    /\ rows'.delivered >= rows.delivered /\ rows'.failed >= rows.failed
    /\ l.ok => l.pc \in {"body", "record", "ended"} /\ answered' # "never"
    /\ l.pc = "ended" /\ l.ok /\ endpoint # "deleted" => rows'.delivered >= 1
    /\ l.pc = "ended" /\ ~l.ok /\ endpoint # "deleted" =>
           rows'.failed + faults' >= rows.failed + faults + 1
    /\ \/ rows'.delivered - rows.delivered <= faults' - faults
       \/ l.pc = "ended" /\ l.ok /\ rows'.delivered <= rows.delivered + 1

LEMMA MoveKeeps ==
    ASSUME IInv, NEW s \in Senders, NEW l \in Locals, Moves(s, l)
    PROVE  IInv'
<1> USE DEF Moves
<1>t. DeliveryTypes /\ LifeTypes /\ sender[s] \in Locals /\ MaxFaults \in Nat
    BY DeliveryBounds DEF IInv, DeliveryTypes
<1>f. faults \in Nat /\ faults' \in Nat /\ rows.delivered \in Nat /\ rows'.delivered \in Nat
      /\ rows.failed \in Nat /\ rows'.failed \in Nat
      /\ bull.stalls \in Nat /\ bull.attemptsMade \in Nat
    BY <1>t DEF DeliveryTypes, Bulls
<1>n. ~Concluded /\ event = "dispatched"
    BY OneRuns DEF Over
<1>s. \A t \in Senders : sender'[t] = IF t = s THEN l ELSE sender[t]
    BY <1>t DEF DeliveryTypes
<1>1. DeliveryTypes' /\ LifeTypes'
    BY <1>t DEF DeliveryTypes, LifeTypes, life
<1>2. RunningIsOwned'
    BY <1>s DEF IInv, RunningIsOwned, Alive, life
<1>3. NewIsClean'
    BY <1>n DEF NewIsClean
<1>4. OkIsAnswered'
    BY <1>s DEF IInv, Log, OkIsAnswered
<1>5. EndedIsLogged'
    BY <1>s, <1>f DEF IInv, Log, EndedIsLogged, FailedAttemptsAreLogged
<1>6. DeliveredBound'
  <2>1. rows.delivered <= bull.stalls + faults
    BY <1>n DEF IInv, Log, DeliveredBound
  <2>2. CASE rows'.delivered - rows.delivered <= faults' - faults
    BY <2>1, <2>2, <1>f DEF DeliveredBound
  <2>3. CASE l.pc = "ended" /\ l.ok /\ rows'.delivered <= rows.delivered + 1
    <3>1. Over(s)'
      BY <2>3, <1>s DEF Over
    <3>2. Concluded'
      BY <3>1, OneRuns, <1>n DEF Concluded, HeldBy
    <3>3. QED
      BY <3>2, <2>1, <2>3, <1>f DEF DeliveredBound
  <2>4. QED
    BY <2>2, <2>3
<1>7. CompletedIsDelivered' /\ FailedAttemptsAreLogged'
    BY <1>f DEF IInv, Log, CompletedIsDelivered, FailedAttemptsAreLogged
<1>8. DrainedIsFree' /\ ReadinessFlipsFirst'
    BY DEF IInv, DrainedIsFree, ReadinessFlipsFirst, HeldBy, life
<1>9. QED
    BY <1>1, <1>2, <1>3, <1>4, <1>5, <1>6, <1>7, <1>8 DEF IInv, Log

LEMMA ReturnKeeps ==
    ASSUME IInv, NEW s \in Senders, sender[s].pc # "idle", Return(s),
           UNCHANGED <<mode, endpoint, event, rows, answered, faults, life>>,
           endpoint = "deleted" \/ (sender[s].pc = "ended" /\ sender[s].ok)
    PROVE  IInv'
<1>t. DeliveryTypes /\ LifeTypes
    BY DEF IInv
<1>f. faults \in Nat /\ rows.delivered \in Nat /\ rows.failed \in Nat
      /\ bull.stalls \in Nat /\ bull.attemptsMade \in Nat
    BY <1>t, DeliveryBounds DEF DeliveryTypes, Bulls
<1>s. sender' = [sender EXCEPT ![s] = Idle] /\ Idle \in Locals
    BY <1>t, ReturnEffect, DeliveryBounds DEF Idle, Locals
<1>i. \A t \in Senders : sender'[t].pc = "idle" /\ ~sender'[t].ok
    BY <1>s, <1>t, OneRuns DEF DeliveryTypes, Idle, IInv, Log, OkIsAnswered
<1>1. DeliveryTypes' /\ LifeTypes'
    BY <1>t, <1>s, ReturnEffect DEF DeliveryTypes, LifeTypes, life
<1>2. RunningIsOwned' /\ OkIsAnswered' /\ EndedIsLogged'
    BY <1>i DEF RunningIsOwned, OkIsAnswered, EndedIsLogged
<1>3. NewIsClean'
    BY OneRuns DEF NewIsClean
<1>4. CASE HeldBy(bull, s)
  <2>1. bull'.state = "completed" /\ bull'.attemptsMade = bull.attemptsMade
        /\ bull'.stalls = bull.stalls
    BY <1>4, <1>t, ReturnEffect
  <2>2. DeliveredBound'
    BY <2>1, <1>f DEF DeliveredBound, Concluded, IInv, Log
  <2>3. CompletedIsDelivered'
    BY DEF CompletedIsDelivered, IInv, Log, EndedIsLogged, OkIsAnswered
  <2>4. FailedAttemptsAreLogged'
    BY <2>1 DEF FailedAttemptsAreLogged, IInv, Log
  <2>5. DrainedIsFree' /\ ReadinessFlipsFirst'
    BY <2>1 DEF IInv, DrainedIsFree, ReadinessFlipsFirst, HeldBy, life
  <2>6. QED
    BY <1>1, <1>2, <1>3, <2>2, <2>3, <2>4, <2>5 DEF IInv, Log
<1>5. CASE ~HeldBy(bull, s)
  <2>1. bull' = bull /\ bull.state = "none" /\ event = "dispatched" /\ s = Inline
    BY <1>5, <1>t, ReturnEffect, OneRuns
  <2>2. Concluded'
    BY <2>1, <1>i DEF Concluded, Over
  <2>3. DeliveredBound'
    BY <2>1, <2>2, <1>f DEF DeliveredBound, IInv, Log
  <2>4. CompletedIsDelivered' /\ FailedAttemptsAreLogged'
    BY <2>1 DEF CompletedIsDelivered, FailedAttemptsAreLogged, IInv, Log
  <2>5. DrainedIsFree' /\ ReadinessFlipsFirst'
    BY <2>1 DEF IInv, DrainedIsFree, ReadinessFlipsFirst, HeldBy, life
  <2>6. QED
    BY <1>1, <1>2, <1>3, <2>3, <2>4, <2>5 DEF IInv, Log
<1>6. QED
    BY <1>4, <1>5

LEMMA ThrowKeeps ==
    ASSUME IInv, NEW s \in Senders, sender[s].pc # "idle", ~Over(s), Throw(s),
           UNCHANGED <<mode, endpoint, event, rows, answered, life>>,
           faults' \in 0..MaxFaults, faults' >= faults,
           endpoint # "deleted" => bull.attemptsMade + 1 <= rows.failed + faults'
    PROVE  IInv'
<1>t. DeliveryTypes /\ LifeTypes
    BY DEF IInv
<1>f. faults \in Nat /\ faults' \in Nat /\ rows.delivered \in Nat /\ rows.failed \in Nat
      /\ bull.stalls \in Nat /\ bull.attemptsMade \in Nat
    BY <1>t, DeliveryBounds DEF DeliveryTypes, Bulls
<1>s. sender' = [sender EXCEPT ![s] = Idle] /\ Idle \in Locals
    BY <1>t, ThrowEffect, DeliveryBounds DEF Idle, Locals
<1>i. \A t \in Senders : sender'[t].pc = "idle" /\ ~sender'[t].ok
    BY <1>s, <1>t, OneRuns DEF DeliveryTypes, Idle, IInv, Log, OkIsAnswered
<1>d. rows.delivered <= bull.stalls + faults
    BY OneRuns DEF IInv, Log, DeliveredBound
<1>1. DeliveryTypes' /\ LifeTypes'
    BY <1>t, <1>s, ThrowEffect DEF DeliveryTypes, LifeTypes, life
<1>2. RunningIsOwned' /\ OkIsAnswered' /\ EndedIsLogged'
    BY <1>i DEF RunningIsOwned, OkIsAnswered, EndedIsLogged
<1>3. NewIsClean'
    BY OneRuns DEF NewIsClean
<1>4. DeliveredBound'
    BY <1>d, <1>f, <1>t, ThrowEffect DEF DeliveredBound
<1>5. CASE HeldBy(bull, s)
  <2>1. bull'.state \in {"wait", "failed"} /\ bull'.attemptsMade = bull.attemptsMade + 1
    BY <1>5, <1>t, ThrowEffect
  <2>2. CompletedIsDelivered' /\ FailedAttemptsAreLogged'
    BY <2>1 DEF CompletedIsDelivered, FailedAttemptsAreLogged
  <2>3. DrainedIsFree' /\ ReadinessFlipsFirst'
    BY <2>1 DEF IInv, DrainedIsFree, ReadinessFlipsFirst, HeldBy, life
  <2>4. QED
    BY <1>1, <1>2, <1>3, <1>4, <2>2, <2>3 DEF IInv, Log
<1>6. CASE ~HeldBy(bull, s)
  <2>1. bull' = bull
    BY <1>6, <1>t, ThrowEffect
  <2>2. CompletedIsDelivered' /\ FailedAttemptsAreLogged'
    BY <2>1, <1>f DEF CompletedIsDelivered, FailedAttemptsAreLogged, IInv, Log
  <2>3. DrainedIsFree' /\ ReadinessFlipsFirst'
    BY <2>1 DEF IInv, DrainedIsFree, ReadinessFlipsFirst, HeldBy, life
  <2>4. QED
    BY <1>1, <1>2, <1>3, <1>4, <2>2, <2>3 DEF IInv, Log
<1>7. QED
    BY <1>5, <1>6

LEMMA FaultBounds ==
    ASSUME faults \in 0..MaxFaults, Fault
    PROVE  faults' \in 0..MaxFaults /\ faults' = faults + 1
    BY DeliveryBounds DEF Fault

\* The fields of a sender after a step within the request.
LEMMA LocalFields ==
    ASSUME NEW l \in Locals, NEW pc \in {"lookup", "resolve", "send", "body", "record", "fail", "ended"}
    PROVE  /\ [l EXCEPT !.pc = pc] \in Locals
           /\ [l EXCEPT !.pc = pc].pc = pc /\ [l EXCEPT !.pc = pc].ok = l.ok
           /\ [Idle EXCEPT !.pc = pc] \in Locals
           /\ [Idle EXCEPT !.pc = pc].pc = pc /\ ~[Idle EXCEPT !.pc = pc].ok
<1>1. Idle \in Locals /\ ~Idle.ok
    BY DeliveryBounds DEF Locals, Idle
<1>2. QED
    BY <1>1 DEF Locals

LEMMA RequestKeeps ==
    ASSUME IInv, NEW s \in Senders, UNCHANGED life,
           \/ Resolve(s) \/ Abort(s) \/ AddressFails(s) \/ ReadBody(s)
           \/ \E ok \in BOOLEAN : Respond(s, ok)
           \/ \E method \in {"POST", "GET"} : Redirect(s, method)
    PROVE  IInv'
<1> DEFINE me == sender[s]
<1>t. /\ me \in Locals /\ faults \in 0..MaxFaults /\ rows \in [delivered : Nat, failed : Nat]
      /\ answered \in {"never", "POST", "GET"}
      /\ me.ok => me.pc \in {"body", "record", "ended"} /\ answered # "never"
    BY DEF IInv, DeliveryTypes, Log, OkIsAnswered
<1>f. faults \in Nat /\ rows.delivered \in Nat /\ rows.failed \in Nat
    BY <1>t, DeliveryBounds
<1>m. ASSUME NEW l \in Locals, me.pc \in {"resolve", "send", "body"}, Local(s, l),
             UNCHANGED <<mode, endpoint, event, bull, rows, faults>>,
             l.pc \in {"resolve", "send", "body", "record", "fail"},
             answered' \in {"never", "POST", "GET"}, answered # "never" => answered' # "never",
             l.ok => l.pc \in {"body", "record"} /\ answered' # "never"
      PROVE  IInv'
  <2>1. Moves(s, l)
    BY <1>m, <1>t, <1>f DEF Moves, Local
  <2>2. QED
    BY <2>1, MoveKeeps
<1>g. Failing \in Locals /\ Failing.pc = "fail" /\ ~Failing.ok
    BY <1>t, LocalFields DEF Failing
<1>1. CASE Resolve(s)
  <2>1. CASE Local(s, Failing)
    BY <1>1, <2>1, <1>m, <1>t, <1>g DEF Resolve, At
  <2>2. ASSUME NEW n \in 1..MaxAddresses, Local(s, [me EXCEPT !.pc = "send", !.left = n])
        PROVE  IInv'
    <3>1. /\ [me EXCEPT !.pc = "send", !.left = n] \in Locals
          /\ [me EXCEPT !.pc = "send", !.left = n].pc = "send"
          /\ [me EXCEPT !.pc = "send", !.left = n].ok = me.ok
      <4>1. n \in 0..MaxAddresses
        BY DeliveryBounds
      <4>2. QED
        BY <4>1, <1>t DEF Locals
    <3>2. QED
      BY <3>1, <1>1, <2>2, <1>m, <1>t DEF Resolve, At
  <2>3. QED
    BY <1>1, <2>1, <2>2 DEF Resolve
<1>2. CASE Abort(s)
    BY <1>2, <1>m, <1>t, <1>g DEF Abort, At
<1>3. CASE AddressFails(s)
  <2>1. CASE me.left > 1
    <3>1. /\ [me EXCEPT !.left = me.left - 1] \in Locals
          /\ [me EXCEPT !.left = me.left - 1].pc = me.pc
          /\ [me EXCEPT !.left = me.left - 1].ok = me.ok
      BY <2>1, <1>t, DeliveryBounds DEF Locals
    <3>2. QED
      BY <3>1, <2>1, <1>3, <1>m, <1>t DEF AddressFails, At
  <2>2. CASE ~(me.left > 1)
    BY <1>3, <2>2, <1>m, <1>t, <1>g DEF AddressFails, At
  <2>3. QED
    BY <2>1, <2>2
<1>4. CASE ReadBody(s)
    BY <1>4, <1>m, <1>t, LocalFields DEF ReadBody, At, Goto
<1>5. ASSUME NEW ok \in BOOLEAN, Respond(s, ok)
      PROVE  IInv'
  <2>1. /\ [Idle EXCEPT !.pc = "body", !.ok = ok] \in Locals
        /\ [Idle EXCEPT !.pc = "body", !.ok = ok].pc = "body"
        /\ [Idle EXCEPT !.pc = "body", !.ok = ok].ok = ok
  <3>1. Idle \in Locals
    BY DeliveryBounds DEF Locals, Idle
  <3>2. QED
    BY <3>1 DEF Locals, Idle
  <2>2. me.method \in {"POST", "GET"}
    BY <1>t DEF Locals
  <2>3. QED
    BY <2>1, <2>2, <1>5, <1>m, <1>t DEF Respond, At
<1>6. ASSUME NEW method \in {"POST", "GET"}, Redirect(s, method)
      PROVE  IInv'
  <2>1. PICK l : l = [me EXCEPT !.pc = "resolve", !.method = method, !.left = 0,
                                !.redirects = me.redirects + 1]
    OBVIOUS
  <2>2. me.redirects \in 0..MaxRedirects /\ me.redirects < MaxRedirects
    BY <1>6, <1>t DEF Redirect, Locals
  <2>3. l \in Locals /\ l.pc = "resolve" /\ l.ok = me.ok
    <3>1. me.redirects + 1 \in 0..MaxRedirects /\ 0 \in 0..MaxAddresses
      BY <2>2, DeliveryBounds
    <3>2. QED
      BY <2>1, <3>1, <1>t DEF Locals
  <2>4. QED
    BY <2>1, <2>3, <1>6, <1>m, <1>t DEF Redirect, At
<1>7. QED
    BY <1>1, <1>2, <1>3, <1>4, <1>5, <1>6

LEMMA LogKeeps ==
    ASSUME IInv, NEW s \in Senders, UNCHANGED life, Record(s) \/ RecordFailure(s)
    PROVE  IInv'
<1>t. /\ sender[s] \in Locals /\ faults \in 0..MaxFaults
      /\ rows \in [delivered : Nat, failed : Nat]
      /\ answered \in {"never", "POST", "GET"}
      /\ sender[s].ok => sender[s].pc \in {"body", "record", "ended"} /\ answered # "never"
    BY DEF IInv, DeliveryTypes, Log, OkIsAnswered
<1>f. faults \in Nat /\ rows.delivered \in Nat /\ rows.failed \in Nat
    BY <1>t, DeliveryBounds
<1>e. PICK l : l = [sender[s] EXCEPT !.pc = "ended"]
    OBVIOUS
<1>l. l \in Locals /\ l.pc = "ended" /\ l.ok = sender[s].ok
    BY <1>e, <1>t, LocalFields
<1>g. Failing \in Locals /\ Failing.pc = "fail" /\ ~Failing.ok
    BY <1>t, LocalFields DEF Failing
<1>w. ASSUME NEW status \in {"delivered", "failed"}, Logged(status)
      PROVE  /\ rows' \in [delivered : Nat, failed : Nat]
             /\ status = "delivered" => rows'.delivered = rows.delivered + 1
                                        /\ rows'.failed = rows.failed
             /\ status = "failed" => rows'.failed = rows.failed + 1
                                     /\ rows'.delivered = rows.delivered
    BY <1>w, <1>t DEF Logged
<1>1. CASE Record(s)
  <2>0. sender[s].pc = "record" /\ UNCHANGED <<mode, endpoint, event, bull, answered>>
    BY <1>1 DEF Record, At
  <2>1. CASE endpoint # "deleted" /\ Goto(s, "ended") /\ UNCHANGED faults
             /\ Logged(IF sender[s].ok THEN "delivered" ELSE "failed")
    <3>1. CASE sender[s].ok
      <4>1. Moves(s, l)
        BY <3>1, <2>0, <2>1, <1>t, <1>f, <1>e, <1>l, <1>w DEF Moves, Goto, Local
      <4>2. QED
        BY <4>1, <1>l, MoveKeeps
    <3>2. CASE ~sender[s].ok
      <4>1. Moves(s, l)
        BY <3>2, <2>0, <2>1, <1>t, <1>f, <1>e, <1>l, <1>w DEF Moves, Goto, Local
      <4>2. QED
        BY <4>1, <1>l, MoveKeeps
    <3>3. QED
      BY <3>1, <3>2
  <2>2. CASE endpoint = "deleted" /\ Local(s, Failing) /\ UNCHANGED <<rows, faults>>
    <3>1. Moves(s, Failing)
      BY <2>0, <2>2, <1>t, <1>f, <1>g DEF Moves, Local
    <3>2. QED
      BY <3>1, MoveKeeps, <1>g
  <2>3. CASE /\ Fault /\ Local(s, Failing)
             /\ rows' = rows \/ (endpoint # "deleted" /\
                                 Logged(IF sender[s].ok THEN "delivered" ELSE "failed"))
    <3>0. faults' \in 0..MaxFaults /\ faults' = faults + 1
      BY <2>3, <1>t, FaultBounds
    <3>1. /\ rows' \in [delivered : Nat, failed : Nat]
          /\ rows'.delivered >= rows.delivered /\ rows'.delivered <= rows.delivered + 1
          /\ rows'.failed >= rows.failed
      <4>1. CASE rows' = rows
        BY <4>1, <1>t, <1>f
      <4>2. CASE sender[s].ok /\ Logged("delivered")
        BY <4>2, <1>w, <1>f
      <4>3. CASE ~sender[s].ok /\ Logged("failed")
        BY <4>3, <1>w, <1>f
      <4>4. QED
        BY <2>3, <4>1, <4>2, <4>3
    <3>2. QED
      <4>1. Moves(s, Failing)
        BY <2>0, <2>3, <3>0, <3>1, <1>t, <1>f, <1>g DEF Moves, Local
      <4>2. QED
        BY <4>1, MoveKeeps, <1>g
  <2>4. QED
    BY <1>1, <2>1, <2>2, <2>3 DEF Record
<1>2. CASE RecordFailure(s)
  <2>0. /\ sender[s].pc = "fail" /\ UNCHANGED <<mode, endpoint, event, bull, answered>>
        /\ sender' = [sender EXCEPT ![s] = l] /\ ~sender[s].ok
    BY <1>2, <1>e, <1>t DEF RecordFailure, At, Goto, Local
  <2>1. CASE endpoint # "deleted" /\ Logged("failed") /\ UNCHANGED faults
    <3>1. Moves(s, l)
      BY <2>0, <2>1, <1>t, <1>f, <1>l, <1>w DEF Moves
    <3>2. QED
      BY <3>1, <1>l, MoveKeeps
  <2>2. CASE endpoint = "deleted" /\ UNCHANGED <<rows, faults>>
    <3>1. Moves(s, l)
      BY <2>0, <2>2, <1>t, <1>f, <1>l DEF Moves
    <3>2. QED
      BY <3>1, <1>l, MoveKeeps
  <2>3. CASE Fault /\ UNCHANGED rows
    <3>0. faults' \in 0..MaxFaults /\ faults' = faults + 1
      BY <2>3, <1>t, FaultBounds
    <3>1. QED
      <4>1. Moves(s, l)
        BY <2>0, <2>3, <3>0, <1>t, <1>f, <1>l DEF Moves
      <4>2. QED
        BY <4>1, <1>l, MoveKeeps
  <2>4. QED
    BY <1>2, <2>1, <2>2, <2>3 DEF RecordFailure
<1>3. QED
    BY <1>1, <1>2

LEMMA JobKeeps ==
    ASSUME IInv, NEW s \in Senders, UNCHANGED life, Lookup(s) \/ Finish(s)
    PROVE  IInv'
<1>t. /\ DeliveryTypes /\ sender[s] \in Locals /\ faults \in 0..MaxFaults
      /\ rows \in [delivered : Nat, failed : Nat]
      /\ answered \in {"never", "POST", "GET"}
      /\ sender[s].ok => sender[s].pc \in {"body", "record", "ended"} /\ answered # "never"
    BY DEF IInv, DeliveryTypes, Log, OkIsAnswered
<1>f. /\ faults \in Nat /\ rows.delivered \in Nat /\ rows.failed \in Nat
      /\ bull.attemptsMade \in Nat
    BY <1>t, DeliveryBounds DEF DeliveryTypes, Bulls
<1>1. CASE Lookup(s)
  <2>0. sender[s].pc = "lookup" /\ UNCHANGED <<mode, endpoint, event, rows, answered>>
    BY <1>1 DEF Lookup, At
  <2>1. CASE endpoint = "deleted" /\ Return(s) /\ UNCHANGED faults
    BY <2>0, <2>1, ReturnKeeps
  <2>2. CASE endpoint # "deleted" /\ Goto(s, "resolve") /\ UNCHANGED <<bull, faults>>
    <3>1. PICK l : l = [sender[s] EXCEPT !.pc = "resolve"]
      OBVIOUS
    <3>2. l \in Locals /\ l.pc = "resolve" /\ ~l.ok
      BY <3>1, <2>0, <1>t, LocalFields
    <3>3. QED
      <4>1. Moves(s, l)
        BY <3>1, <3>2, <2>0, <2>2, <1>t, <1>f DEF Moves, Goto, Local
      <4>2. QED
        BY <4>1, <3>2, MoveKeeps
  <2>3. CASE Fault /\ Throw(s)
    <3>0. faults' \in 0..MaxFaults /\ faults' = faults + 1
      BY <2>3, <1>t, FaultBounds
    <3>1. endpoint # "deleted" => bull.attemptsMade <= rows.failed + faults
      BY DEF IInv, Log, FailedAttemptsAreLogged
    <3>2. QED
      BY <2>0, <2>3, <3>0, <3>1, <1>f, ThrowKeeps DEF Over
  <2>4. QED
    BY <1>1, <2>1, <2>2, <2>3 DEF Lookup
<1>2. CASE Finish(s)
  <2>0. sender[s].pc = "ended" /\ UNCHANGED <<mode, endpoint, event, rows, answered, faults>>
    BY <1>2 DEF Finish, At
  <2>1. CASE sender[s].ok
    BY <2>0, <2>1, <1>2, ReturnKeeps DEF Finish
  <2>2. CASE ~sender[s].ok
    <3>1. endpoint # "deleted" => bull.attemptsMade + 1 <= rows.failed + faults
      BY <2>0, <2>2 DEF IInv, Log, EndedIsLogged
    <3>2. QED
      BY <2>0, <2>2, <3>1, <1>2, <1>t, <1>f, ThrowKeeps DEF Finish, Over
  <2>3. QED
    BY <2>1, <2>2
<1>3. QED
    BY <1>1, <1>2

-----------------------------------------------------------------------------
(* The event, the endpoint, and processes that come and go.                *)

\* What an exit leaves of a delivery: a job that is held by nobody who works on it.
LEMMA VanishKeeps ==
    ASSUME IInv, NEW s \in Senders, Vanish(s)
    PROVE  /\ DeliveryTypes' /\ NewIsClean' /\ Log' /\ bull' = bull /\ event' = event
           /\ \A t \in Senders : sender'[t] = IF t = s THEN Idle ELSE sender[t]
<1>t. DeliveryTypes /\ Idle \in Locals /\ Idle.pc = "idle" /\ ~Idle.ok
    BY DeliveryBounds DEF IInv, Idle, Locals
<1>u. UNCHANGED <<mode, endpoint, event, bull, rows, answered, faults>>
    BY DEF Vanish
<1>s. \A t \in Senders : sender'[t] = IF t = s THEN Idle ELSE sender[t]
    BY <1>t DEF Vanish, Local, DeliveryTypes
<1>1. DeliveryTypes'
    BY <1>t, <1>u DEF Vanish, Local, DeliveryTypes
<1>2. OkIsAnswered' /\ EndedIsLogged'
    BY <1>t, <1>u, <1>s DEF IInv, Log, OkIsAnswered, EndedIsLogged
<1>3. Concluded => Concluded'
  <2>1. ASSUME NEW t \in Senders, Over(t)
        PROVE  Over(t)'
    BY <2>1, <1>s, <1>t DEF Over
  <2>2. bull.state = "active" => bull.holder \in Senders \/ bull.holder = NoWorker
    BY <1>t, SendersAreWorkers DEF DeliveryTypes, Bulls
  <2>3. bull.holder \notin Senders => sender'[bull.holder] = sender[bull.holder]
    BY DEF Vanish, Local
  <2>4. QED
    BY <2>1, <2>2, <2>3, <1>u, InlineApart DEF Concluded, Over
<1>4. DeliveredBound' /\ CompletedIsDelivered' /\ FailedAttemptsAreLogged' /\ NewIsClean'
    BY <1>u, <1>3 DEF IInv, Log, DeliveredBound, CompletedIsDelivered,
                      FailedAttemptsAreLogged, NewIsClean
<1>5. QED
    BY <1>1, <1>2, <1>4, <1>s, <1>u DEF Log

LEMMA ProcessKeeps ==
    ASSUME IInv, NEW w \in Workers, ProcStep(w, HeldBy(bull, w)),
           incidents' \in 0..MaxIncidents,
           IF Alive(w)' THEN UNCHANGED delivery ELSE Vanish(w)
    PROVE  IInv'
<1>1. PICK p \in Processes :
          /\ proc' = [proc EXCEPT ![w] = p]
          /\ p.asked => p.drain \in {"no", "server"}
          /\ p.drain = "queues" => proc[w].drain = "queues" \/ ~HeldBy(bull, w)
          /\ p.code = "0" => proc[w].drain = "queues" \/ proc[w].code = "0"
          /\ p.code # "none" => p.boot = "off"
    BY DEF ProcStep
<1>2. \A v \in Workers : proc'[v] = IF v = w THEN p ELSE proc[v]
    BY <1>1 DEF IInv, LifeTypes
<1>3. LifeTypes' /\ ReadinessFlipsFirst'
    BY <1>1, <1>2 DEF IInv, LifeTypes, ReadinessFlipsFirst
<1>4. ASSUME bull' = bull
      PROVE  DrainedIsFree'
    BY <1>1, <1>2, <1>4 DEF IInv, DrainedIsFree, HeldBy
<1>5. CASE Alive(w)'
  <2>1. UNCHANGED <<mode, endpoint, event, bull, sender, rows, answered, faults>>
    BY <1>5 DEF delivery
  <2>2. RunningIsOwned'
    BY <1>2, <1>5, <2>1 DEF IInv, RunningIsOwned, Alive, HeldBy
  <2>3. DeliveryTypes' /\ NewIsClean' /\ Log'
    BY <2>1 DEF IInv, DeliveryTypes, NewIsClean, Log, OkIsAnswered, EndedIsLogged,
                DeliveredBound, Concluded, Over, CompletedIsDelivered, FailedAttemptsAreLogged
  <2>4. QED
    BY <1>3, <1>4, <2>1, <2>2, <2>3 DEF IInv
<1>6. CASE ~Alive(w)'
  <2>0. w \in Senders /\ Vanish(w) /\ Idle.pc = "idle"
    BY <1>6, SendersAreWorkers DEF Idle
  <2>1. /\ bull' = bull /\ event' = event
        /\ \A t \in Senders : sender'[t] = IF t = w THEN Idle ELSE sender[t]
    BY <2>0, VanishKeeps
  <2>2. RunningIsOwned'
    BY <1>2, <2>0, <2>1 DEF IInv, RunningIsOwned, Alive, HeldBy
  <2>3. QED
    BY <1>3, <1>4, <2>0, <2>1, <2>2, VanishKeeps DEF IInv
<1>7. QED
    BY <1>5, <1>6

LEMMA ServerExitKeeps ==
    ASSUME IInv, ServerExits
    PROVE  IInv'
<1>0. Inline \in Senders /\ Vanish(Inline) /\ UNCHANGED <<proc, incidents>> /\ Idle.pc = "idle"
    BY InlineApart DEF ServerExits, life, Idle
<1>1. /\ bull' = bull /\ event' = event
      /\ \A t \in Senders : sender'[t] = IF t = Inline THEN Idle ELSE sender[t]
    BY <1>0, VanishKeeps
<1>2. RunningIsOwned'
    BY <1>0, <1>1 DEF IInv, RunningIsOwned, Alive, HeldBy
<1>3. LifeTypes' /\ DrainedIsFree' /\ ReadinessFlipsFirst'
    BY <1>0, <1>1 DEF IInv, LifeTypes, DrainedIsFree, ReadinessFlipsFirst, HeldBy
<1>4. QED
    BY <1>0, <1>2, <1>3, VanishKeeps DEF IInv

LEMMA TakeKeeps ==
    ASSUME IInv, NEW w \in Workers, Take(w)
    PROVE  IInv'
<1>t. DeliveryTypes /\ w \in Senders /\ w # NoWorker
    BY SendersAreWorkers, SendersAssumption DEF IInv
<1>l. PICK l : l = [Idle EXCEPT !.pc = "lookup"]
    OBVIOUS
<1>k. l \in Locals /\ l.pc = "lookup" /\ ~l.ok
    BY <1>l, <1>t, LocalFields DEF DeliveryTypes
<1>0. /\ bull.state = "wait" /\ Taking(w) /\ UNCHANGED <<proc, incidents>>
      /\ bull' = Taken(bull, w) /\ sender' = [sender EXCEPT ![w] = l]
      /\ mode' = mode /\ endpoint' = endpoint /\ event' = event /\ rows' = rows
      /\ answered' = answered /\ faults' = faults
    BY <1>l DEF Take, Pick, Local, life
<1>b. /\ bull' \in Bulls /\ bull'.state = "active" /\ bull'.holder = w
      /\ bull'.attemptsMade = bull.attemptsMade /\ bull'.stalls = bull.stalls
    BY <1>0, <1>t, TakenEffect
<1>f. /\ faults \in Nat /\ rows.delivered \in Nat /\ rows.failed \in Nat
      /\ bull.attemptsMade \in Nat /\ bull.stalls \in Nat
    BY <1>t, DeliveryBounds DEF DeliveryTypes, Bulls
<1>i. \A t \in Senders : sender[t].pc = "idle"
    BY <1>0 DEF IInv, RunningIsOwned, HeldBy
<1>s. \A t \in Senders : sender'[t] = IF t = w THEN l ELSE sender[t]
    BY <1>0, <1>t DEF DeliveryTypes
<1>a. Alive(w) /\ proc[w].drain # "queues" /\ proc[w].code # "0"
    BY <1>0 DEF Taking, Alive, IInv, DrainedIsFree
<1>1. DeliveryTypes' /\ LifeTypes'
    BY <1>0, <1>b, <1>k, <1>t DEF IInv, DeliveryTypes, LifeTypes
<1>2. RunningIsOwned'
    BY <1>s, <1>i, <1>b, <1>a, <1>0 DEF RunningIsOwned, HeldBy, Alive
<1>3. NewIsClean'
    BY <1>0 DEF IInv, NewIsClean
<1>4. OkIsAnswered' /\ EndedIsLogged'
    BY <1>s, <1>i, <1>k, <1>0 DEF IInv, Log, OkIsAnswered, EndedIsLogged
<1>5. DeliveredBound'
    BY <1>0, <1>b, <1>f DEF IInv, Log, DeliveredBound, Concluded
<1>6. CompletedIsDelivered' /\ FailedAttemptsAreLogged'
    BY <1>0, <1>b DEF IInv, Log, CompletedIsDelivered, FailedAttemptsAreLogged
<1>7. DrainedIsFree' /\ ReadinessFlipsFirst'
    BY <1>0, <1>b, <1>a DEF IInv, DrainedIsFree, ReadinessFlipsFirst, HeldBy
<1>8. QED
    BY <1>1, <1>2, <1>3, <1>4, <1>5, <1>6, <1>7 DEF IInv, Log

LEMMA StallKeeps ==
    ASSUME IInv, FindStalled
    PROVE  IInv'
<1>t. DeliveryTypes
    BY DEF IInv
<1>0. /\ bull.state = "active" /\ ~Alive(bull.holder) /\ UNCHANGED <<proc, incidents>>
      /\ mode' = mode /\ endpoint' = endpoint /\ event' = event /\ sender' = sender
      /\ rows' = rows /\ answered' = answered /\ faults' = faults
    BY DEF FindStalled, Stall, life
<1>b. /\ bull' \in Bulls /\ bull'.attemptsMade = bull.attemptsMade
      /\ \/ bull'.state = "wait" /\ bull'.stalls = bull.stalls + 1
         \/ bull'.state = "failed" /\ bull'.stalls = bull.stalls
    BY <1>t, StallEffect DEF FindStalled
<1>f. /\ faults \in Nat /\ rows.delivered \in Nat /\ rows.failed \in Nat
      /\ bull.attemptsMade \in Nat /\ bull.stalls \in Nat
    BY <1>t, DeliveryBounds DEF DeliveryTypes, Bulls
<1>i. \A t \in Senders : sender[t].pc = "idle"
    BY <1>0 DEF IInv, RunningIsOwned, HeldBy
<1>1. DeliveryTypes' /\ LifeTypes'
    BY <1>0, <1>b, <1>t DEF IInv, DeliveryTypes, LifeTypes
<1>2. RunningIsOwned' /\ EndedIsLogged'
    BY <1>0, <1>i DEF RunningIsOwned, EndedIsLogged
<1>3. NewIsClean' /\ OkIsAnswered'
    BY <1>0 DEF IInv, NewIsClean, Log, OkIsAnswered
<1>4. DeliveredBound'
    BY <1>0, <1>b, <1>f DEF IInv, Log, DeliveredBound, Concluded
<1>5. CompletedIsDelivered' /\ FailedAttemptsAreLogged'
    BY <1>0, <1>b DEF IInv, Log, CompletedIsDelivered, FailedAttemptsAreLogged
<1>6. DrainedIsFree' /\ ReadinessFlipsFirst'
    BY <1>0, <1>b DEF IInv, DrainedIsFree, ReadinessFlipsFirst, HeldBy
<1>7. QED
    BY <1>1, <1>2, <1>3, <1>4, <1>5, <1>6 DEF IInv, Log

LEMMA EndpointKeeps ==
    ASSUME IInv, SetEnabled \/ DeleteEndpoint, UNCHANGED life
    PROVE  IInv'
<1>t. DeliveryTypes
    BY DEF IInv
<1>0. /\ UNCHANGED <<proc, incidents>> /\ mode' = mode /\ event' = event /\ bull' = bull
      /\ sender' = sender /\ answered' = answered /\ faults' = faults
      /\ endpoint' \in {"enabled", "disabled", "deleted"}
      /\ \/ rows' = rows /\ endpoint # "deleted"
         \/ rows' = NoRows /\ endpoint' = "deleted"
  <2>1. CASE SetEnabled
    BY <2>1 DEF SetEnabled, life
  <2>2. CASE DeleteEndpoint
    BY <2>2 DEF DeleteEndpoint, life
  <2>3. QED
    BY <2>1, <2>2
<1>f. /\ faults \in Nat /\ rows.delivered \in Nat
      /\ bull.attemptsMade \in Nat /\ bull.stalls \in Nat
    BY <1>t, DeliveryBounds DEF DeliveryTypes, Bulls
<1>n. NoRows \in [delivered : Nat, failed : Nat] /\ NoRows.delivered = 0
    BY DEF NoRows
<1>1. DeliveryTypes' /\ LifeTypes'
    BY <1>0, <1>n, <1>t DEF IInv, DeliveryTypes, LifeTypes
<1>2. RunningIsOwned' /\ OkIsAnswered' /\ DrainedIsFree' /\ ReadinessFlipsFirst' /\ NewIsClean'
    BY <1>0, <1>n DEF IInv, RunningIsOwned, Log, OkIsAnswered, DrainedIsFree,
                      ReadinessFlipsFirst, NewIsClean, HeldBy, Alive
<1>3. EndedIsLogged' /\ CompletedIsDelivered' /\ FailedAttemptsAreLogged'
    BY <1>0 DEF IInv, Log, EndedIsLogged, CompletedIsDelivered, FailedAttemptsAreLogged
<1>4. DeliveredBound'
    BY <1>0, <1>n, <1>f DEF IInv, Log, DeliveredBound, Concluded, Over
<1>5. QED
    BY <1>1, <1>2, <1>3, <1>4 DEF IInv, Log

LEMMA DispatchKeeps ==
    ASSUME IInv, Dispatch, UNCHANGED life
    PROVE  IInv'
<1>t. DeliveryTypes
    BY DEF IInv
<1>0. /\ UNCHANGED <<proc, incidents>> /\ mode' = mode /\ event = "new" /\ event' = "dispatched"
      /\ endpoint' = endpoint /\ rows' = rows /\ answered' = answered
      /\ bull.state = "none" /\ rows.delivered = 0
    BY DEF Dispatch, life, IInv, NewIsClean
<1>l. PICK l : l = [Idle EXCEPT !.pc = "resolve"]
    OBVIOUS
<1>k. l \in Locals /\ l.pc = "resolve" /\ ~l.ok
    BY <1>l, <1>t, InlineApart, LocalFields DEF DeliveryTypes
<1>b. /\ \/ bull' = NewBull("wait") /\ sender' = sender
         \/ bull' = bull /\ sender' = [sender EXCEPT ![Inline] = l]
         \/ bull' = bull /\ sender' = sender
      /\ faults' = faults \/ Fault
    BY <1>l DEF Dispatch
<1>c. NewBull("wait") \in Bulls /\ NewBull("wait").state = "wait"
      /\ NewBull("wait").attemptsMade = 0 /\ NewBull("wait").stalls = 0
    BY NewBullEffect DEF BullStates
<1>d. faults' \in 0..MaxFaults /\ faults' >= faults
    BY <1>b, <1>t, FaultBounds, DeliveryBounds DEF DeliveryTypes
<1>f. /\ faults \in Nat /\ faults' \in Nat /\ rows.failed \in Nat
      /\ bull.attemptsMade \in Nat /\ bull.stalls \in Nat
      /\ bull'.attemptsMade \in Nat /\ bull'.stalls \in Nat
    BY <1>t, <1>b, <1>c, <1>d, DeliveryBounds DEF DeliveryTypes, Bulls
<1>i. \A t \in Senders : sender[t].pc = "idle"
    BY <1>0 DEF IInv, RunningIsOwned, HeldBy
<1>s. \A t \in Senders : sender'[t] = sender[t] \/
          (t = Inline /\ sender'[t] = l /\ bull' = bull)
    BY <1>b, <1>t DEF DeliveryTypes
<1>1. DeliveryTypes' /\ LifeTypes'
    BY <1>0, <1>b, <1>c, <1>d, <1>k, <1>t DEF IInv, DeliveryTypes, LifeTypes
<1>2. RunningIsOwned'
    BY <1>s, <1>i, <1>0 DEF RunningIsOwned
<1>3. NewIsClean'
    BY <1>0 DEF NewIsClean
<1>4. OkIsAnswered' /\ EndedIsLogged'
    BY <1>s, <1>i, <1>k, <1>0 DEF IInv, Log, OkIsAnswered, EndedIsLogged
<1>5. DeliveredBound'
    BY <1>0, <1>f DEF DeliveredBound
<1>6. CompletedIsDelivered' /\ FailedAttemptsAreLogged'
    BY <1>0, <1>b, <1>c, <1>d, <1>f DEF IInv, Log, CompletedIsDelivered, FailedAttemptsAreLogged
<1>7. DrainedIsFree' /\ ReadinessFlipsFirst'
    BY <1>0, <1>b, <1>c DEF IInv, DrainedIsFree, ReadinessFlipsFirst, HeldBy
<1>8. QED
    BY <1>1, <1>2, <1>3, <1>4, <1>5, <1>6, <1>7 DEF IInv, Log

-----------------------------------------------------------------------------
(* The theorems.                                                           *)

LEMMA InitIInv == Init => IInv
<1> SUFFICES ASSUME Init PROVE IInv
    OBVIOUS
<1> USE DEF Init, DeliveryInit, LifeInit
<1>1. Idle \in Locals /\ Idle.pc = "idle" /\ ~Idle.ok
    BY DeliveryBounds DEF Idle, Locals
<1>2. NewProcess \in Processes /\ ~NewProcess.asked /\ NewProcess.drain = "no"
      /\ NewProcess.code = "none"
    BY DEF NewProcess, Processes
<1>3. bull \in Bulls /\ bull.state = "none" /\ bull.attemptsMade = 0 /\ bull.stalls = 0
    BY NewBullEffect DEF BullStates
<1>4. NoRows \in [delivered : Nat, failed : Nat] /\ NoRows.delivered = 0 /\ NoRows.failed = 0
    BY DEF NoRows
<1>5. DeliveryTypes /\ LifeTypes
    BY <1>1, <1>2, <1>3, <1>4, DeliveryBounds, LifecycleBounds DEF DeliveryTypes, LifeTypes
<1>6. RunningIsOwned /\ NewIsClean /\ OkIsAnswered /\ EndedIsLogged
    BY <1>1, <1>3, <1>4 DEF RunningIsOwned, NewIsClean, OkIsAnswered, EndedIsLogged
<1>7. DeliveredBound /\ CompletedIsDelivered /\ FailedAttemptsAreLogged
    BY <1>3, <1>4 DEF DeliveredBound, CompletedIsDelivered, FailedAttemptsAreLogged
<1>8. DrainedIsFree /\ ReadinessFlipsFirst
    BY <1>2, <1>3 DEF DrainedIsFree, ReadinessFlipsFirst, HeldBy
<1>9. QED
    BY <1>5, <1>6, <1>7, <1>8 DEF IInv, Log

LEMMA StepIInv == IInv /\ [Next]_vars => IInv'
<1> SUFFICES ASSUME IInv, [Next]_vars PROVE IInv'
    OBVIOUS
<1>p. ASSUME NEW w \in Workers, NEW b \in BOOLEAN, LifeStep(w, b) \/ LifeEvent(w),
             b = HeldBy(bull, w), IF Alive(w)' THEN UNCHANGED delivery ELSE Vanish(w)
      PROVE  IInv'
  <2>1. ProcStep(w, b) /\ incidents' \in 0..MaxIncidents
    BY <1>p, ProcessSteps DEF IInv
  <2>2. QED
    BY <2>1, <1>p, ProcessKeeps
<1>1. ASSUME NEW w \in Workers, Lifecycle(w) \/ Event(w)
      PROVE  IInv'
  <2>1. PICK b \in BOOLEAN : b = HeldBy(bull, w)
    BY DEF HeldBy
  <2>2. QED
    BY <1>1, <1>p, <2>1 DEF Lifecycle, Event, Live
<1>2. ASSUME NEW s \in Senders, SendStep(s) \/ Remote(s), UNCHANGED life
      PROVE  IInv'
    BY <1>2, RequestKeeps, LogKeeps, JobKeeps DEF SendStep, Remote
<1>3. CASE UNCHANGED vars
  <2>1. UNCHANGED <<mode, endpoint, event, bull, sender, rows, answered, faults, proc, incidents>>
    BY <1>3 DEF vars, delivery, life
  <2>2. DeliveryTypes' /\ LifeTypes' /\ RunningIsOwned' /\ NewIsClean'
    BY <2>1 DEF IInv, DeliveryTypes, LifeTypes, RunningIsOwned, NewIsClean, HeldBy, Alive
  <2>3. Log'
    BY <2>1 DEF IInv, Log, OkIsAnswered, EndedIsLogged, DeliveredBound, Concluded, Over,
                CompletedIsDelivered, FailedAttemptsAreLogged
  <2>4. DrainedIsFree' /\ ReadinessFlipsFirst'
    BY <2>1 DEF IInv, DrainedIsFree, ReadinessFlipsFirst, HeldBy
  <2>5. QED
    BY <2>2, <2>3, <2>4 DEF IInv
<1>4. QED
    BY <1>1, <1>2, <1>3, TakeKeeps, StallKeeps, EndpointKeeps, DispatchKeeps, ServerExitKeeps
       DEF Next

\* The inductive invariant: deliveries under way are owned, what has ended is in the
\* log, and drained processes hold no job.
THEOREM Inductive == Spec => []IInv
    BY InitIInv, StepIInv, PTL DEF Spec

\* Every variable keeps its type: redirects and addresses stay within their bounds.
THEOREM TypeCorrect == Spec => []TypeOK
<1>1. IInv => TypeOK
    BY Types DEF IInv
<1>2. QED
    BY <1>1, Inductive, PTL

\* deliverWebhookHttp and the job: an event the queue calls completed was answered with
\* 2xx and is in the log, or its endpoint was deleted.
THEOREM NothingDropped == Spec => []CompletedIsDelivered
<1>1. IInv => CompletedIsDelivered
    BY DEF IInv, Log
<1>2. QED
    BY <1>1, Inductive, PTL

\* recordWebhookDelivery: every attempt the queue counted has its failed row, but for
\* the faults.
THEOREM AttemptsLogged == Spec => []FailedAttemptsAreLogged
<1>1. IInv => FailedAttemptsAreLogged
    BY DEF IInv, Log
<1>2. QED
    BY <1>1, Inductive, PTL

\* An event is logged as delivered at most once more than there were stalls and faults.
THEOREM DeliveriesBounded == Spec => []DeliveredOnce
<1>1. IInv => DeliveredOnce
    BY DEF IInv, Log, DeliveredBound, DeliveredOnce
<1>2. QED
    BY <1>1, Inductive, PTL

\* closeAllWorkers: a drain that ends with code 0 leaves no job behind.
THEOREM CleanExits == Spec => []CleanExitLeavesNoJob
<1>1. IInv => CleanExitLeavesNoJob
    BY DEF IInv, DrainedIsFree, CleanExitLeavesNoJob
<1>2. QED
    BY <1>1, Inductive, PTL

\* closeWorkerHealthServer before closeAllWorkers: no request is answered healthy once
\* the workers began to close.
THEOREM ReadinessFirst == Spec => []ReadinessFlipsFirst
<1>1. IInv => ReadinessFlipsFirst
    BY DEF IInv
<1>2. QED
    BY <1>1, Inductive, PTL

=============================================================================
