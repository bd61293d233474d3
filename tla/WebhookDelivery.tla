---------------------------- MODULE WebhookDelivery ----------------------------
(***************************************************************************)
(* One event for one webhook endpoint of an organization: its dispatch     *)
(* (packages/jobs/src/webhook-dispatch.ts), the delivery job, the HTTP     *)
(* attempt with its addresses, redirects and timeouts                      *)
(* (packages/db/src/outbound-http/client.ts), and the rows of              *)
(* webhook_delivery (packages/db/src/webhooks.ts).                         *)
(***************************************************************************)
EXTENDS BullMQ

CONSTANTS
    Senders,       \* who runs a delivery: worker processes, and the server inline
    Inline,        \* the server
    DispatchModes, \* "queue": Redis is configured; "inline": it is not
    MaxAddresses,  \* bound: addresses a host name resolves to
    MaxRedirects,  \* OUTBOUND_HTTP_LIMITS.MAX_REDIRECTS
    MaxFaults      \* bound: rejected calls of the database or of Redis

ASSUME SendersAssumption == Inline \in Senders /\ NoWorker \notin Senders
ASSUME DispatchAssumption == DispatchModes \subseteq {"queue", "inline"}
ASSUME DeliveryBounds == MaxAddresses \in Nat /\ MaxRedirects \in Nat /\ MaxFaults \in Nat

VARIABLES
    mode,          \* how this deployment dispatches
    endpoint,      \* the webhook_endpoint row
    event,         \* "new", then "dispatched"
    bull,          \* the delivery job
    sender,        \* the delivery each sender runs
    rows,          \* webhook_delivery rows of the event, by status
    answered,      \* the method of the last request the endpoint answered with 2xx
    faults         \* faults so far

delivery == <<mode, endpoint, event, bull, sender, rows, answered, faults>>

Locals == [pc : {"idle", "lookup", "resolve", "send", "body", "record", "fail", "ended"},
           method : {"POST", "GET"}, redirects : 0..MaxRedirects,
           left : 0..MaxAddresses, ok : BOOLEAN]
Idle == [pc |-> "idle", method |-> "POST", redirects |-> 0, left |-> 0, ok |-> FALSE]
NoRows == [delivered |-> 0, failed |-> 0]

DeliveryInit ==
    /\ mode \in DispatchModes
    /\ endpoint = "enabled"
    /\ event = "new"
    /\ bull = NewBull("none")
    /\ sender = [s \in Senders |-> Idle]
    /\ rows = NoRows
    /\ answered = "never"
    /\ faults = 0

Fault == faults < MaxFaults /\ faults' = faults + 1

-----------------------------------------------------------------------------
(* The endpoint row and the dispatch.                                      *)

\* (Nothing reads enabled after the dispatch: a queued event still goes out.)
SetEnabled ==
    /\ event = "new" /\ endpoint \in {"enabled", "disabled"}
    /\ endpoint' \in {"enabled", "disabled"} \ {endpoint}
    /\ UNCHANGED <<mode, event, bull, sender, rows, answered, faults>>

\* The deliveries go with the endpoint (foreign key, cascade).
DeleteEndpoint ==
    /\ endpoint # "deleted"
    /\ endpoint' = "deleted"
    /\ rows' = NoRows
    /\ UNCHANGED <<mode, event, bull, sender, answered, faults>>

\* getEnabledWebhookTargets, then the job or the delivery itself.  A rejected
\* call is logged: the event is gone.
Dispatch ==
    /\ event = "new"
    /\ event' = "dispatched"
    /\ \/ endpoint = "enabled" /\ mode = "queue" /\ bull' = NewBull("wait")
          /\ UNCHANGED <<sender, faults>>
       \/ endpoint = "enabled" /\ mode = "inline"
          /\ sender' = [sender EXCEPT ![Inline] = [Idle EXCEPT !.pc = "resolve"]]
          /\ UNCHANGED <<bull, faults>>
       \/ endpoint # "enabled" /\ UNCHANGED <<bull, sender, faults>>
       \/ Fault /\ UNCHANGED <<bull, sender>>
    /\ UNCHANGED <<mode, endpoint, rows, answered>>

-----------------------------------------------------------------------------
(* The job.                                                                *)

At(s, pc) == sender[s].pc = pc
Local(s, l) == sender' = [sender EXCEPT ![s] = l]
Failing == [Idle EXCEPT !.pc = "fail"]
Goto(s, pc) == Local(s, [sender[s] EXCEPT !.pc = pc])

Pick(w) ==
    /\ bull.state = "wait" /\ At(w, "idle")
    /\ bull' = Taken(bull, w)
    /\ Local(w, [Idle EXCEPT !.pc = "lookup"])
    /\ UNCHANGED <<mode, endpoint, event, rows, answered, faults>>

\* The lock of a process that is gone runs out.
Stall ==
    /\ bull.state = "active"
    /\ bull' = Stalled(bull)
    /\ UNCHANGED <<mode, endpoint, event, sender, rows, answered, faults>>

\* The processor returns, or throws; inline the result is not looked at.
Return(s) == bull' = Returned(bull, s) /\ Local(s, Idle)
Throw(s) == bull' = Thrown(bull, s) /\ Local(s, Idle)

\* What is left of a delivery when its process exits: nothing.
Vanish(s) ==
    /\ Local(s, Idle)
    /\ UNCHANGED <<mode, endpoint, event, bull, rows, answered, faults>>

\* The endpoint is read again: one deleted meanwhile ends the job.
Lookup(s) ==
    /\ At(s, "lookup")
    /\ \/ endpoint = "deleted" /\ Return(s) /\ UNCHANGED faults
       \/ endpoint # "deleted" /\ Goto(s, "resolve") /\ UNCHANGED <<bull, faults>>
       \/ Fault /\ Throw(s)
    /\ UNCHANGED <<mode, endpoint, event, rows, answered>>

-----------------------------------------------------------------------------
(* The HTTP request.                                                       *)

\* The addresses of the host, all of them checked against the policy.
Resolve(s) ==
    /\ At(s, "resolve")
    /\ \/ \E n \in 1..MaxAddresses : Local(s, [sender[s] EXCEPT !.pc = "send", !.left = n])
       \/ Local(s, Failing)
    /\ UNCHANGED <<mode, endpoint, event, bull, rows, answered, faults>>

\* A response that is no redirect.
Respond(s, ok) ==
    /\ At(s, "send")
    /\ Local(s, [Idle EXCEPT !.pc = "body", !.ok = ok])
    /\ answered' = IF ok THEN sender[s].method ELSE answered
    /\ UNCHANGED <<mode, endpoint, event, bull, rows, faults>>

\* Mutation: redirects are followed without a bound.
RedirectUnbounded(s, method) ==
    /\ At(s, "send")
    /\ method \in {sender[s].method, "GET"}
    /\ Local(s, [sender[s] EXCEPT !.pc = "resolve", !.method = method, !.left = 0,
                                  !.redirects = sender[s].redirects + 1])
    /\ UNCHANGED <<mode, endpoint, event, bull, rows, answered, faults>>

\* A redirect within the origin.  303, and 302 to a POST, turn the request
\* into a GET without the payload and without the signature.
Redirect(s, method) ==
    /\ At(s, "send") /\ sender[s].redirects < MaxRedirects
    /\ method \in {sender[s].method, "GET"}
    /\ Local(s, [sender[s] EXCEPT !.pc = "resolve", !.method = method, !.left = 0,
                                  !.redirects = sender[s].redirects + 1])
    /\ UNCHANGED <<mode, endpoint, event, bull, rows, answered, faults>>

\* A connection fails, or the headers do not come in time (the endpoint may
\* have taken the payload all the same): the next address is tried.
AddressFails(s) ==
    /\ At(s, "send")
    /\ Local(s, IF sender[s].left > 1 THEN [sender[s] EXCEPT !.left = sender[s].left - 1]
                                       ELSE Failing)
    /\ UNCHANGED <<mode, endpoint, event, bull, rows, answered, faults>>

ReadBody(s) ==
    /\ At(s, "body")
    /\ Goto(s, "record")
    /\ UNCHANGED <<mode, endpoint, event, bull, rows, answered, faults>>

\* Mutation: no timeout before the headers.
AbortBodyOnly(s) ==
    /\ At(s, "body")
    /\ Local(s, Failing)
    /\ UNCHANGED <<mode, endpoint, event, bull, rows, answered, faults>>

\* The total timeout, the idle timeout of the body, a broken stream, one
\* redirect too many, one without a location or to another origin.
Abort(s) ==
    /\ At(s, "send") \/ At(s, "body")
    /\ Local(s, Failing)
    /\ UNCHANGED <<mode, endpoint, event, bull, rows, answered, faults>>

-----------------------------------------------------------------------------
(* The log.                                                                *)

Logged(status) == rows' = [rows EXCEPT ![status] = rows[status] + 1]

\* The row of an answered request, inside the try block: an insert that
\* rejects, or whose reply is lost, is caught and logged as a failure.
Record(s) ==
    /\ At(s, "record")
    /\ \/ endpoint # "deleted" /\ Goto(s, "ended") /\ UNCHANGED faults
          /\ Logged(IF sender[s].ok THEN "delivered" ELSE "failed")
       \/ endpoint = "deleted" /\ Local(s, Failing) /\ UNCHANGED <<rows, faults>>
       \/ /\ Fault /\ Local(s, Failing)
          /\ rows' = rows \/ (endpoint # "deleted" /\
                              Logged(IF sender[s].ok THEN "delivered" ELSE "failed"))
    /\ UNCHANGED <<mode, endpoint, event, bull, answered>>

\* Mutation: a request without an answer leaves no row.
RecordFailureUnlogged(s) ==
    /\ At(s, "fail")
    /\ Goto(s, "ended")
    /\ UNCHANGED <<mode, endpoint, event, bull, rows, answered, faults>>

\* The row of a failed request; the result is not ok, or the insert rejects:
\* either way the processor will throw.
RecordFailure(s) ==
    /\ At(s, "fail")
    /\ Goto(s, "ended")
    /\ \/ endpoint # "deleted" /\ Logged("failed") /\ UNCHANGED faults
       \/ endpoint = "deleted" /\ UNCHANGED <<rows, faults>>
       \/ Fault /\ UNCHANGED rows
    /\ UNCHANGED <<mode, endpoint, event, bull, answered>>

\* Mutations: the result is not looked at; it is looked at the wrong way.
FinishReturns(s) ==
    /\ At(s, "ended")
    /\ Return(s)
    /\ UNCHANGED <<mode, endpoint, event, rows, answered, faults>>
FinishThrows(s) ==
    /\ At(s, "ended")
    /\ Throw(s)
    /\ UNCHANGED <<mode, endpoint, event, rows, answered, faults>>

\* The processor returns or throws, and BullMQ moves the job: a worker that dies
\* before leaves a row, and a job to be run again.
Finish(s) ==
    /\ At(s, "ended")
    /\ IF sender[s].ok THEN Return(s) ELSE Throw(s)
    /\ UNCHANGED <<mode, endpoint, event, rows, answered, faults>>

\* What the sender does by itself, and what its timers do for it.
SendStep(s) ==
    Lookup(s) \/ Resolve(s) \/ Abort(s) \/ Record(s) \/ RecordFailure(s)
        \/ Finish(s)

\* What the network and the endpoint do.
Remote(s) ==
    \/ \E ok \in BOOLEAN : Respond(s, ok)
    \/ \E method \in {"POST", "GET"} : Redirect(s, method)
    \/ AddressFails(s) \/ ReadBody(s)
=============================================================================
