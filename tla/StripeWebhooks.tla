--------------------------- MODULE StripeWebhooks ---------------------------
(***************************************************************************)
(* Subscription billing: checkouts that give a workspace its Stripe        *)
(* customer, Stripe's posts of events, the BullMQ job of each event, and   *)
(* the handler that applies it to the organization row under the idempot-  *)
(* ency claim, the advisory lock of the customer and the ordering guard.   *)
(*                                                                         *)
(* Every await on the database or on Stripe is one step.  The writes of a  *)
(* transaction become visible when it commits, and keep the rows they      *)
(* touch locked until then (READ COMMITTED).  recordAudit and the lookups  *)
(* for the email go through db: a second connection of the pool, while the *)
(* transaction holds its own.  A handler the route runs inline shares the  *)
(* pool of the server with the checkouts and the other inline handlers;    *)
(* one of the queue shares it with no other handler (the queue's           *)
(* concurrency is 1).                                                      *)
(***************************************************************************)
EXTENDS BullMQ, FiniteSets

CONSTANTS
  Events,        \* the events Stripe sends, by event.id
  KindOf,        \* event.type, as far as applyStripeWebhookEvent tells types apart
  CreatedAt,     \* event.created, in seconds
  CustomerOf,    \* extractStripeCustomerId
  HasMetadata,   \* the subscription carries metadata.organizationId
  Orgs,
  Customers,     \* Stripe's customers
  OwnerOf,       \* metadata.organizationId of a customer
  NoCustomer,
  NoEvent,
  NoOrg,
  Workers,       \* handler invocations: of the stripe worker, or of the route itself
  Checkouts,     \* createCheckoutSession requests
  DispatchModes, \* isRedisEnabled(): "queue" through BullMQ, else "inline" in the route
  PoolSize,      \* DATABASE_MAX_CONNECTIONS, of each process
  LockLapse,     \* the BullMQ lock of a running handler can run out
  MaxFaults      \* bound: crashes and rejected calls

Kinds == {"created", "subscription", "invoice", "other"}

ASSUME StripeAssumption ==
  /\ NoWorker \notin Workers
  /\ NoCustomer \notin Customers
  /\ NoEvent \notin Events
  /\ NoOrg \notin Orgs
  /\ KindOf \in [Events -> Kinds]
  /\ CreatedAt \in [Events -> Nat \ {0}]
  /\ CustomerOf \in [Events -> Customers \cup {NoCustomer}]
  /\ HasMetadata \in [Events -> BOOLEAN]
  /\ OwnerOf \in [Customers -> Orgs]
  /\ \A e \in Events : KindOf[e] = "other" <=> CustomerOf[e] = NoCustomer
  /\ DispatchModes \subseteq {"queue", "inline"}
  /\ PoolSize \in Nat \ {0}
  /\ LockLapse \in BOOLEAN
  /\ MaxFaults \in Nat

VARIABLES
  org,       \* the billing columns of the rows of organization
  claimed,   \* processed_event
  bull,      \* per event: the BullMQ job "stripe-<event.id>"
  proc,      \* the local state of every handler invocation
  shop,      \* the local state of every checkout request
  known,     \* the customers that exist at Stripe
  sessions,  \* those a checkout session was created for
  faults,    \* faults so far, for the bound
  applied,   \* history: per event, how often its transaction committed
  audits,    \* per event: rows recordAudit wrote
  unaudited, \* history: the events recordAudit failed for, which it never reports
  emails     \* per event: subscription emails dispatched

rows == <<org, claimed>>
checkout == <<shop, known, sessions>>
effects == <<applied, audits, unaudited, emails>>
vars == <<rows, bull, proc, checkout, faults, effects>>

Labels == {"claim", "begin", "lock", "read", "apply", "audit", "commit", "email"}

\* shown: the event whose subscription values the row holds; lastAt: lastStripeEventAt,
\* 0 for null.
OrgRows == [customer : Customers \cup {NoCustomer}, shown : Events \cup {NoEvent}, lastAt : Nat]

\* posted: the route runs the handler inline; wrote: the rows of the open transaction;
\* found: a workspace was found for the event.
Handlers == [pc : Labels \cup {"idle", "ended", "crashed"}, event : Events \cup {NoEvent},
             posted : BOOLEAN, wrote : SUBSET Orgs, found : BOOLEAN]

Shops == [pc : {"idle", "create", "save", "update", "session", "ended"},
          org : Orgs \cup {NoOrg}, customer : Customers \cup {NoCustomer}]

BullJobs == [state : BullStates, holder : Workers \cup {NoWorker}, attemptsMade : Nat,
             stalls : Nat]

Running(w) == proc[w].pc \in Labels
Rest(pc) == [pc |-> pc, event |-> NoEvent, posted |-> FALSE, wrote |-> {}, found |-> FALSE]

Init ==
  /\ org = [o \in Orgs |-> [customer |-> NoCustomer, shown |-> NoEvent, lastAt |-> 0]]
  /\ claimed = {}
  /\ bull = [e \in Events |-> NewBull("none")]
  /\ proc = [w \in Workers |-> Rest("idle")]
  /\ shop = [k \in Checkouts |-> [pc |-> "idle", org |-> NoOrg, customer |-> NoCustomer]]
  /\ known = {}
  /\ sessions = {}
  /\ faults = 0
  /\ applied = [e \in Events |-> 0]
  /\ audits = [e \in Events |-> 0]
  /\ unaudited = {}
  /\ emails = [e \in Events |-> 0]

\* A transaction holds the advisory lock of its customer and the rows it has written.
HoldsLock(w, c) == /\ proc[w].pc \in {"read", "apply", "audit", "commit"}
                   /\ CustomerOf[proc[w].event] = c
\* Mutant of RowFree: the second update of the transaction goes through db instead of
\* tx, and waits for the rows of its own transaction.
RowFreeOfAll(o, w) == \A v \in Workers : o \notin proc[v].wrote
RowFree(o, w) == \A v \in Workers \ {w} : o \notin proc[v].wrote

\* A transaction keeps its connection, also while it waits for a lock; so does an update
\* that waits for a row.
InTransaction(w) == proc[w].pc \in {"lock", "read", "apply", "audit", "commit"}
ServerFree ==
  Cardinality({w \in Workers : proc[w].posted /\ InTransaction(w)})
    + Cardinality({k \in Checkouts : shop[k].pc = "update"}) < PoolSize

\* There is a connection for one more call of the handler through db.
HasConnection(w) == IF proc[w].posted THEN ServerFree ELSE InTransaction(w) => PoolSize > 1

----------------------------------------------------------------------------
(* createCheckoutSession and createPortalSession, which both begin with    *)
(* ensureCustomer.                                                         *)

\* Mutant of OpenCheckout: ensureCustomer is not called.
OpenCheckoutUnchecked(k, o) ==
  /\ shop[k].pc = "idle"
  /\ ServerFree
  /\ shop' = [shop EXCEPT ![k] = [pc |-> "session", org |-> o, customer |-> org[o].customer]]
  /\ UNCHANGED <<rows, bull, proc, known, sessions, faults, effects>>

OpenCheckout(k, o) ==
  /\ shop[k].pc = "idle"
  /\ ServerFree
  /\ shop' = [shop EXCEPT ![k] =
                [pc |-> IF org[o].customer = NoCustomer THEN "create" ELSE "session",
                 org |-> o, customer |-> org[o].customer]]
  /\ UNCHANGED <<rows, bull, proc, known, sessions, faults, effects>>

CreateCustomer(k, c) ==
  /\ shop[k].pc = "create"
  /\ c \notin known /\ OwnerOf[c] = shop[k].org
  /\ known' = known \cup {c}
  /\ shop' = [shop EXCEPT ![k] = [shop[k] EXCEPT !.pc = "save", !.customer = c]]
  /\ UNCHANGED <<rows, bull, proc, sessions, faults, effects>>

BeginSave(k) ==
  /\ shop[k].pc = "save"
  /\ ServerFree
  /\ shop' = [shop EXCEPT ![k].pc = "update"]
  /\ UNCHANGED <<rows, bull, proc, known, sessions, faults, effects>>

\* The update has no condition on the customer the row has by now.
SaveCustomer(k) ==
  /\ shop[k].pc = "update"
  /\ RowFree(shop[k].org, NoWorker)
  /\ org' = [org EXCEPT ![shop[k].org].customer = shop[k].customer]
  /\ shop' = [shop EXCEPT ![k].pc = "session"]
  /\ UNCHANGED <<claimed, bull, proc, known, sessions, faults, effects>>

CreateSession(k) ==
  /\ shop[k].pc = "session"
  /\ sessions' = sessions \cup {shop[k].customer}
  /\ shop' = [shop EXCEPT ![k].pc = "ended"]
  /\ UNCHANGED <<rows, bull, proc, known, faults, effects>>

\* A session of the portal sells nothing.
CreatePortal(k) ==
  /\ shop[k].pc = "session"
  /\ shop' = [shop EXCEPT ![k].pc = "ended"]
  /\ UNCHANGED <<rows, bull, proc, known, sessions, faults, effects>>

\* Any of the awaits of the request rejects: what it did so far stays.
CheckoutFails(k) ==
  /\ shop[k].pc \in {"create", "save", "update", "session"}
  /\ faults < MaxFaults
  /\ faults' = faults + 1
  /\ shop' = [shop EXCEPT ![k].pc = "ended"]
  /\ UNCHANGED <<rows, bull, proc, known, sessions, effects>>

----------------------------------------------------------------------------
(* Stripe posts an event once its customer can have a subscription, in any *)
(* order and as often as it likes; the queue keeps one job per event.      *)

Sent(e) == CustomerOf[e] \in sessions \cup {NoCustomer}

Begin(w, e, posted) ==
  proc' = [proc EXCEPT ![w] = [Rest("claim") EXCEPT !.event = e, !.posted = posted]]

Enqueue(e) ==
  /\ "queue" \in DispatchModes
  /\ Sent(e)
  /\ bull[e].state = "none"
  /\ bull' = [bull EXCEPT ![e].state = "wait"]
  /\ UNCHANGED <<rows, proc, checkout, faults, effects>>

PostInline(w, e) ==
  /\ "inline" \in DispatchModes
  /\ Sent(e)
  /\ proc[w].pc = "idle"
  /\ Begin(w, e, TRUE)
  /\ UNCHANGED <<rows, bull, checkout, faults, effects>>

Pick(w, e) ==
  /\ bull[e].state = "wait"
  /\ proc[w].pc = "idle"
  /\ Begin(w, e, FALSE)
  /\ bull' = [bull EXCEPT ![e] = Taken(bull[e], w)]
  /\ UNCHANGED <<rows, checkout, faults, effects>>

Stall(e) ==
  /\ bull[e].state = "active"
  /\ proc[bull[e].holder].pc = "crashed" \/ LockLapse
  /\ bull' = [bull EXCEPT ![e] = Stalled(bull[e])]
  /\ UNCHANGED <<rows, proc, checkout, faults, effects>>

IsSubscription(e) == KindOf[e] \in {"created", "subscription"}
SelectsUpdated(e) == IsSubscription(e) /\ ~HasMetadata[e]

Return(w) ==
  /\ proc' = [proc EXCEPT ![w] = Rest("ended")]
  /\ bull' = [e \in Events |-> Returned(bull[e], w)]

\* An await of the handler rejects; an open transaction rolls back.  Neither recordAudit nor
\* the email throws; before recordAudit, a subscription without metadata still selects the
\* row it has updated.
Reject(w) ==
  /\ Running(w) /\ proc[w].pc # "email"
  /\ proc[w].pc = "audit" => SelectsUpdated(proc[w].event)
  /\ faults < MaxFaults
  /\ faults' = faults + 1
  /\ proc' = [proc EXCEPT ![w] = Rest("ended")]
  /\ bull' = [e \in Events |-> Thrown(bull[e], w)]
  /\ UNCHANGED <<rows, checkout, effects>>

\* The process of w dies; the database closes its transaction.
Crash(w) ==
  /\ Running(w)
  /\ faults < MaxFaults
  /\ faults' = faults + 1
  /\ proc' = [proc EXCEPT ![w] = Rest("crashed")]
  /\ UNCHANGED <<rows, bull, checkout, effects>>

----------------------------------------------------------------------------
(* applyOrderedStripeWebhookEvent and the email of its result.             *)

At(w, l) == proc[w].pc = l
Goto(w, l) == proc' = [proc EXCEPT ![w].pc = l]

\* Mutant of Claim: the insert reports a row whether or not it conflicted.
ClaimAlways(w) ==
  LET e == proc[w].event
  IN  /\ At(w, "claim")
      /\ HasConnection(w)
      /\ claimed' = claimed \cup {e}
      /\ IF CustomerOf[e] = NoCustomer
         THEN Return(w)
         ELSE Goto(w, "begin") /\ UNCHANGED bull
      /\ applied' = IF CustomerOf[e] = NoCustomer
                    THEN [applied EXCEPT ![e] = @ + 1] ELSE applied
      /\ UNCHANGED <<org, checkout, faults, audits, unaudited, emails>>

Claim(w) ==
  LET e == proc[w].event
  IN  /\ At(w, "claim")
      /\ HasConnection(w)
      /\ claimed' = claimed \cup {e}
      /\ IF e \in claimed \/ CustomerOf[e] = NoCustomer
         THEN Return(w)
         ELSE Goto(w, "begin") /\ UNCHANGED bull
      /\ applied' = IF e \notin claimed /\ CustomerOf[e] = NoCustomer
                    THEN [applied EXCEPT ![e] = @ + 1] ELSE applied
      /\ UNCHANGED <<org, checkout, faults, audits, unaudited, emails>>

BeginTransaction(w) ==
  /\ At(w, "begin")
  /\ HasConnection(w)
  /\ Goto(w, "lock")
  /\ UNCHANGED <<rows, bull, checkout, faults, effects>>

\* Mutant of Lock: no advisory lock.
LockFree(w) ==
  /\ At(w, "lock")
  /\ Goto(w, "read")
  /\ UNCHANGED <<rows, bull, checkout, faults, effects>>

Lock(w) ==
  /\ At(w, "lock")
  /\ \A v \in Workers : ~HoldsLock(v, CustomerOf[proc[w].event])
  /\ Goto(w, "read")
  /\ UNCHANGED <<rows, bull, checkout, faults, effects>>

Matching(c) == {o \in Orgs : org[o].customer = c}

\* Mutant of Stale: the comparison is the wrong way round.
StaleSwapped(e) == \E o \in Matching(CustomerOf[e]) :
                     org[o].lastAt # 0 /\ CreatedAt[e] >= org[o].lastAt

\* isStaleStripeEvent: not newer than the last event applied for the customer.
Stale(e) == \E o \in Matching(CustomerOf[e]) :
              org[o].lastAt # 0 /\ CreatedAt[e] <= org[o].lastAt

CheckOrder(w) ==
  /\ At(w, "read")
  /\ IF Stale(proc[w].event)
     THEN Return(w)
     ELSE Goto(w, "apply") /\ UNCHANGED bull
  /\ UNCHANGED <<rows, checkout, faults, effects>>

\* The organization rows a subscription event is written to.
Targets(e) == IF HasMetadata[e] THEN {OwnerOf[CustomerOf[e]]} ELSE Matching(CustomerOf[e])

Apply(w) ==
  LET targets == IF IsSubscription(proc[w].event) THEN Targets(proc[w].event) ELSE {}
  IN  /\ At(w, "apply")
      /\ \A o \in targets : RowFree(o, w)
      /\ proc' = [proc EXCEPT ![w] = [proc[w] EXCEPT !.pc = "audit", !.wrote = targets]]
      /\ UNCHANGED <<rows, bull, checkout, faults, effects>>

\* recordAudit: a failed insert is swallowed.
Record(e) ==
  \/ /\ audits' = [audits EXCEPT ![e] = @ + 1]
     /\ UNCHANGED <<unaudited, faults>>
  \/ /\ faults < MaxFaults
     /\ faults' = faults + 1
     /\ unaudited' = unaudited \cup {e}
     /\ UNCHANGED audits

\* Mutant of Audit: an invoice is not recorded.
AuditSubscriptions(w) ==
  LET e == proc[w].event
  IN  /\ At(w, "audit")
      /\ IF IsSubscription(e) /\ Targets(e) # {}
         THEN HasConnection(w) /\ Record(e)
         ELSE UNCHANGED <<audits, unaudited, faults>>
      /\ proc' = [proc EXCEPT ![w] =
                    [proc[w] EXCEPT !.pc = "commit", !.found = Targets(e) # {}]]
      /\ UNCHANGED <<rows, bull, checkout, applied, emails>>

\* Without a row to attribute the event to, nothing is recorded.
Audit(w) ==
  LET e == proc[w].event
  IN  /\ At(w, "audit")
      /\ IF Targets(e) # {}
         THEN HasConnection(w) /\ Record(e)
         ELSE UNCHANGED <<audits, unaudited, faults>>
      /\ proc' = [proc EXCEPT ![w] =
                    [proc[w] EXCEPT !.pc = "commit", !.found = Targets(e) # {}]]
      /\ UNCHANGED <<rows, bull, checkout, applied, emails>>

\* getOrgOwner and planName look up the email's addressee and plan.
OwesEmail(w) == KindOf[proc[w].event] = "created" /\ proc[w].found

\* Mutant of Commit: lastStripeEventAt is not set.
CommitUnordered(w) ==
  LET e == proc[w].event
      c == CustomerOf[e]
  IN  /\ At(w, "commit")
      /\ OwesEmail(w) => HasConnection(w)
      /\ org' = [o \in Orgs |-> IF o \in proc[w].wrote
                                THEN [org[o] EXCEPT !.customer = c, !.shown = e]
                                ELSE org[o]]
      /\ applied' = [applied EXCEPT ![e] = @ + 1]
      /\ IF OwesEmail(w)
         THEN /\ proc' = [proc EXCEPT ![w] = [proc[w] EXCEPT !.pc = "email", !.wrote = {}]]
              /\ UNCHANGED bull
         ELSE Return(w)
      /\ UNCHANGED <<claimed, checkout, faults, audits, unaudited, emails>>

\* The lookups, setLastStripeEventAtForCustomer, and the commit of both updates.
Commit(w) ==
  LET e == proc[w].event
      c == CustomerOf[e]
      written == [o \in Orgs |-> IF o \in proc[w].wrote
                                 THEN [org[o] EXCEPT !.customer = c, !.shown = e]
                                 ELSE org[o]]
      marked == {o \in Orgs : written[o].customer = c}
  IN  /\ At(w, "commit")
      /\ OwesEmail(w) => HasConnection(w)
      /\ \A o \in marked : RowFree(o, w)
      /\ org' = [o \in Orgs |-> IF o \in marked
                                THEN [written[o] EXCEPT !.lastAt = CreatedAt[e]]
                                ELSE written[o]]
      /\ applied' = [applied EXCEPT ![e] = @ + 1]
      /\ IF OwesEmail(w)
         THEN /\ proc' = [proc EXCEPT ![w] = [proc[w] EXCEPT !.pc = "email", !.wrote = {}]]
              /\ UNCHANGED bull
         ELSE Return(w)
      /\ UNCHANGED <<claimed, checkout, faults, audits, unaudited, emails>>

\* dispatchTemplateEmail never throws: the email may be lost, the job completes.
SendEmail(w) ==
  /\ At(w, "email")
  /\ \/ emails' = [emails EXCEPT ![proc[w].event] = @ + 1] /\ UNCHANGED faults
     \/ faults < MaxFaults /\ faults' = faults + 1 /\ UNCHANGED emails
  /\ Return(w)
  /\ UNCHANGED <<rows, checkout, applied, audits, unaudited>>

----------------------------------------------------------------------------

Process(w) ==
  \/ Claim(w) \/ BeginTransaction(w) \/ Lock(w) \/ CheckOrder(w) \/ Apply(w)
  \/ Audit(w) \/ Commit(w) \/ SendEmail(w)

Checkout(k) ==
  \/ \E o \in Orgs : OpenCheckout(k, o)
  \/ \E c \in Customers : CreateCustomer(k, c)
  \/ BeginSave(k) \/ SaveCustomer(k) \/ CreateSession(k) \/ CreatePortal(k)
  \/ CheckoutFails(k)

Next ==
  \/ \E k \in Checkouts : Checkout(k)
  \/ \E e \in Events : Enqueue(e) \/ Stall(e)
  \/ \E w \in Workers : \/ \E e \in Events : PostInline(w, e) \/ Pick(w, e)
                        \/ Process(w) \/ Reject(w) \/ Crash(w)

Spec == Init /\ [][Next]_vars

\* Handlers go on unless they crash, the connections, advisory locks and row locks that
\* calls wait for are granted, idle workers take waiting jobs, and the stall checker runs.
Fairness ==
  /\ \A w \in Workers : WF_vars(Process(w))
  /\ \A k \in Checkouts : WF_vars(SaveCustomer(k))
  /\ \A e \in Events : /\ WF_vars(\E w \in Workers : Pick(w, e))
                       /\ WF_vars(Stall(e) /\ proc[bull[e].holder].pc = "crashed")

FairSpec == Spec /\ Fairness

----------------------------------------------------------------------------
(* Properties.                                                             *)

TypeOK ==
  /\ org \in [Orgs -> OrgRows]
  /\ claimed \in SUBSET Events
  /\ bull \in [Events -> BullJobs]
  /\ proc \in [Workers -> Handlers]
  /\ shop \in [Checkouts -> Shops]
  /\ known \in SUBSET Customers
  /\ sessions \in SUBSET Customers
  /\ faults \in Nat
  /\ applied \in [Events -> Nat]
  /\ audits \in [Events -> Nat]
  /\ unaudited \in SUBSET Events
  /\ emails \in [Events -> Nat]

\* However often Stripe posts an event, the queue retries it or a lock runs out, its
\* update is committed once, audited once and mailed once at most.
EffectsAtMostOnce ==
  \A e \in Events : /\ applied[e] <= 1 /\ audits[e] <= 1
                    /\ emails[e] <= applied[e]

\* What the guard compares with is never behind an event it let through: the advisory
\* lock keeps the read and the update of lastStripeEventAt together.
LastCoversApplied ==
  \A e \in Events, o \in Orgs :
    applied[e] > 0 /\ CustomerOf[e] \in Customers /\ org[o].customer = CustomerOf[e]
      => CreatedAt[e] <= org[o].lastAt

\* No handler works on the event any more.
Unattended(e) == \A w \in Workers : proc[w].event # e

TookEffect(e) ==
  \/ applied[e] > 0
  \/ \E d \in Events : /\ CustomerOf[d] = CustomerOf[e] /\ applied[d] > 0
                       /\ CreatedAt[d] >= CreatedAt[e]

\* Without faults, and with one customer per workspace, an event that was claimed is
\* applied, or it is at most as new as one of its customer that was: no interleaving of
\* duplicates and handlers loses it.
FaultFreeEventTakesEffect ==
  faults = 0 => \A e \in claimed : Unattended(e) => TookEffect(e)

\* The subscription a workspace is shown never goes back to an older event.
ShownNeverRegresses ==
  [][\A o \in Orgs : org'[o].shown # org[o].shown /\ org[o].shown # NoEvent
                       => CreatedAt[org'[o].shown] > CreatedAt[org[o].shown]]_vars

\* Unless the connections stay taken for ever, every handler ends: waiting for advisory locks
\* and row locks never closes a circle, and who waits for a connection gets one.
HandlersFinish ==
  ([]<>(\A w \in Workers : Running(w) => HasConnection(w)))
    => \A w \in Workers : Running(w) ~> ~Running(w)

\* The rows the next step of w updates.
NeedsRows(w) ==
  LET e == proc[w].event
  IN  CASE At(w, "apply")  -> IF IsSubscription(e) THEN Targets(e) ELSE {}
        [] At(w, "commit") -> proc[w].wrote \cup Matching(CustomerOf[e])
        [] OTHER           -> {}

\* The handler waits for an advisory lock or for a row another transaction has written.
Waits(w) ==
  \/ At(w, "lock") /\ \E v \in Workers : HoldsLock(v, CustomerOf[proc[w].event])
  \/ \E o \in NeedsRows(w) : ~RowFree(o, w)

CheckoutWaits(k) == shop[k].pc = "update" /\ ~RowFree(shop[k].org, NoWorker)

\* However many handlers and checkouts contend for the advisory locks of customers and the
\* rows of workspaces, with one customer each or several: if anybody waits for them, some
\* handler that holds a lock does not, and goes on if there is a connection for its calls.
NoWaitCircle ==
  (\E w \in Workers : Waits(w)) \/ (\E k \in Checkouts : CheckoutWaits(k))
    => \E v \in Workers : HoldsLock(v, CustomerOf[proc[v].event]) /\ ~Waits(v)

Ledger == INSTANCE SubscriptionLedger
            WITH WorkspaceOf <- [e \in Events |-> IF CustomerOf[e] = NoCustomer
                                                 THEN NoOrg ELSE OwnerOf[CustomerOf[e]]],
                 TimeOf <- CreatedAt,
                 Subscriptions <- {e \in Events : IsSubscription(e)},
                 Welcomes <- {e \in Events : KindOf[e] = "created"},
                 audited <- audits,
                 missed <- unaudited,
                 taken <- applied,
                 mailed <- emails,
                 last <- [o \in Orgs |-> org[o].lastAt],
                 shown <- [o \in Orgs |-> org[o].shown]

\* Behind all retries, duplicates, locks and crashes, the billing of a workspace is a ledger:
\* each event once, in the order of Stripe's times, and none whose audit row was not at least
\* tried first.
ImplementsLedger == Ledger!Spec

\* A job the queue has completed took effect: retries make up for failed attempts.
CompletedEventTookEffect ==
  \A e \in Events : bull[e].state = "completed" /\ Unattended(e) => TookEffect(e)

============================================================================
