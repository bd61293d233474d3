---------------------------- MODULE WorkerLifecycle ----------------------------
(***************************************************************************)
(* A worker process from start to exit (apps/worker/src/index.ts, its      *)
(* health server, and closeAllWorkers of packages/jobs).  Whether it holds *)
(* a job is a parameter.  A process that exits does not come back: the     *)
(* supervisor starts another one.                                          *)
(***************************************************************************)
EXTENDS Naturals

CONSTANTS
    Workers,      \* the processes that are started, one after the other or together
    MaxIncidents  \* bound: kills, exceptions, rejected starts and drains

ASSUME LifecycleBounds == MaxIncidents \in Nat

VARIABLES
    proc,         \* the module state of each process
    incidents     \* incidents so far

life == <<proc, incidents>>

\* boot: startWorker; drain: shutdownWorkerRuntime, isShuttingDown once it is
\* not "no"; fatal: an uncaught exception began the drain; asked: a readiness
\* request is in progress whose input was healthy; code: how the process
\* ended, "0 early" when a second signal cut the drain off.
\* Traffic is accepted once boot is "up" and while drain is "no".
Processes ==
    [boot : {"off", "starting", "up"}, drain : {"no", "server", "core", "rest", "queues"},
     fatal : BOOLEAN, asked : BOOLEAN, code : {"none", "0", "0 early", "1"}]

NewProcess ==
    [boot |-> "off", drain |-> "no", fatal |-> FALSE, asked |-> FALSE, code |-> "none"]

LifeInit == proc = [w \in Workers |-> NewProcess] /\ incidents = 0

Alive(w) == proc[w].boot # "off"
Draining(w) == Alive(w) /\ proc[w].drain # "no"

\* The webhook worker is closed in the second batch of closeAllWorkers: until
\* then it goes on taking jobs.
Taking(w) == Alive(w) /\ proc[w].drain \in {"no", "server", "core"}

Become(w, p) == proc' = [proc EXCEPT ![w] = p]
Exit(w, code) == Become(w, [NewProcess EXCEPT !.code = code])
Incident == incidents < MaxIncidents /\ incidents' = incidents + 1

-----------------------------------------------------------------------------
(* Start and readiness.                                                    *)

\* The module is loaded: the workers run from here on, and a signal or an
\* exception finds its handler.
Start(w) ==
    /\ proc[w].boot = "off" /\ proc[w].code = "none"
    /\ Become(w, [proc[w] EXCEPT !.boot = "starting"])
    /\ UNCHANGED incidents

\* The schedules are registered and the queue metrics read: acceptingTraffic
\* is set, drain or not.
FinishStart(w) ==
    /\ Alive(w) /\ proc[w].boot = "starting"
    /\ Become(w, [proc[w] EXCEPT !.boot = "up"])
    /\ UNCHANGED incidents

StartFails(w) ==
    /\ Alive(w) /\ proc[w].boot = "starting"
    /\ Incident
    /\ Exit(w, "1")

\* getWorkerReadinessInput is read when the request comes; Redis, the database
\* and the queues are asked after that.  A closing server takes no request,
\* and a request with an unhealthy input is left out.
Ask(w) ==
    /\ Alive(w) /\ proc[w].boot = "up" /\ proc[w].drain = "no" /\ ~proc[w].asked
    /\ Become(w, [proc[w] EXCEPT !.asked = TRUE])
    /\ UNCHANGED incidents

\* Mutation: a request in progress is left unanswered by a drain.
AnswerBeforeDrain(w) ==
    /\ Alive(w) /\ proc[w].asked /\ proc[w].drain = "no"
    /\ Become(w, [proc[w] EXCEPT !.asked = FALSE])
    /\ UNCHANGED incidents

\* The answer: 200 if every worker still runs.
Answer(w) ==
    /\ Alive(w) /\ proc[w].asked
    /\ Become(w, [proc[w] EXCEPT !.asked = FALSE])
    /\ UNCHANGED incidents

-----------------------------------------------------------------------------
(* Drain and exit.                                                         *)

BeginDrain(w, fatal) == Become(w, [proc[w] EXCEPT !.drain = "server", !.fatal = fatal])

\* The first signal drains, raced against the timer.  The next one finds
\* isShuttingDown set: shutdownWorkerRuntime returns at once, and its caller
\* goes on to process.exit(0).
Signal(w) ==
    /\ Alive(w)
    /\ IF Draining(w) THEN Exit(w, "0 early") ELSE BeginDrain(w, FALSE)
    /\ UNCHANGED incidents

\* uncaughtException: a drain without a timer, or the exit at once.
Throws(w) ==
    /\ Alive(w)
    /\ Incident
    /\ IF Draining(w) THEN Exit(w, "1") ELSE BeginDrain(w, TRUE)

Drain(w, from, to) ==
    /\ Alive(w) /\ proc[w].drain = from
    /\ Become(w, [proc[w] EXCEPT !.drain = to])
    /\ UNCHANGED incidents

\* Mutations: the close waits neither for requests nor for jobs.
CloseServerAtOnce(w) == Drain(w, "server", "core")
CloseRestAtOnce(w, busy) == Drain(w, "rest", "queues")

\* server.close waits for the requests in progress.
CloseServer(w) == ~proc[w].asked /\ Drain(w, "server", "core")

\* The email and notification workers.
CloseCore(w) == Drain(w, "core", "rest")

\* The other workers: each waits for the job it holds.
CloseRest(w, busy) == ~busy /\ Drain(w, "rest", "queues")

\* Queues and Redis; then the exit.
CloseQueues(w) ==
    /\ Alive(w) /\ proc[w].drain = "queues"
    /\ Exit(w, IF proc[w].fatal THEN "1" ELSE "0")
    /\ UNCHANGED incidents

DrainFails(w) ==
    /\ Draining(w)
    /\ Incident
    /\ Exit(w, "1")

\* shutdown_timeout: armed by the signal that began the drain.
Timeout(w) ==
    /\ Draining(w) /\ ~proc[w].fatal
    /\ Exit(w, "1")
    /\ UNCHANGED incidents

Kill(w) ==
    /\ Alive(w)
    /\ Incident
    /\ Exit(w, "1")

LifeStep(w, busy) ==
    \/ FinishStart(w) \/ Answer(w)
    \/ CloseServer(w) \/ CloseCore(w) \/ CloseRest(w, busy) \/ CloseQueues(w)
    \/ Timeout(w)

LifeEvent(w) ==
    Start(w) \/ StartFails(w) \/ Ask(w) \/ Signal(w) \/ Throws(w) \/ DrainFails(w) \/ Kill(w)
=============================================================================
