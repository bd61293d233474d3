# SaaSWeave in TLA+

A model of the parts of SaaSWeave in which several actors (server requests, queue workers,
the clock, Stripe, a crash) change the same rows. Each module translates the code of one
component, TLC checks its properties on small instances, and TLAPS proves the most important
ones for every value of the constants.

## The system

SaaSWeave is a TypeScript monorepo: `apps/web` (server-rendered UI), `apps/server` (Hono:
oRPC, Stripe webhook, media routes), `apps/worker` (hosts the BullMQ workers), and the packages
they share. PostgreSQL (Drizzle) holds the state; Redis holds BullMQ and the cache, and is
optional: without it jobs run inline in the request.

| Component | State | Operations | Interacts by | What is hard | What makes it correct |
|---|---|---|---|---|---|
| Batch jobs (`app/batch-jobs`, `db/batch-job.ts`, `api/.../batches.ts`) | `batch_job`, `batch_job_item` with leases | create, cancel, start, claim a chunk, attempt an item, decide it, count, settle | rows; one BullMQ job per batch job | overlapping runs (stalled lock, retry), leases, lost replies, cancel racing every write | an item is decided once and counted once; cancel stops the work; a dispatched job settles; completed means done |
| Queue layer (`jobs/queues.ts`, `*-worker*.ts`) | BullMQ jobs in Redis | enqueue with a job id, take, return, throw, stall | Redis | at-least-once: a run can be repeated or overlap itself | every processor is idempotent |
| Stripe webhooks (`app/stripe`, `db/stripe-webhook*.ts`, server route) | billing columns of `organization`, `processed_event`, audit rows, a connection pool per process | post, claim, begin, lock, check order, apply, audit, commit, email | rows, advisory lock, pool, BullMQ | duplicates, reordering, crash between claim and commit, two customers of a workspace, calls that need a second connection inside a transaction | effects at most once; an older event never overwrites a newer one; no event is lost |
| Stripe checkout (`api/lib/stripe.ts`) | `organization.stripeCustomerId` | read, create customer, save, create session | rows, Stripe | two checkouts at once | one customer per workspace |
| Data exports (`app/data-export`, `db/data-export-request.ts`) | request rows, objects | request, stream, progress, ready, fail, download, expire (cancel is exported, no route calls it) | BullMQ, storage | overlapping runs race through unconditional updates and one file key; object and row can part | a ready export stays ready until it expires and has its whole object; no object leaks |
| Media assets (`app/storage`, `db/media-lifecycle.ts`) | asset rows, objects, `user.image` | create, upload, complete, replace avatar, delete, sweep | rows, storage | two uploads at once; sweep against completion | the linked avatar has its object |
| Cache (`cache/cache.ts`) | memory and Redis tiers, tag versions | get, set, wrap, invalidate tag | Redis, two processes | invalidation during a load; tiers that disagree; versions set back to 1 | after an invalidation no older value is served beyond its bound |
| Rate limits (`cache/rate-limit.ts`) | counters | consume | one Lua script, its synchronous twin in memory | fallback between the two | the limit holds per window |
| Organization webhooks (`jobs/webhook-dispatch.ts`, `db/webhooks.ts`) | endpoint and delivery rows | fan out, deliver, record, enable, delete | BullMQ, HTTP | redirects, addresses and four timeouts; delivered but not recorded; the worker drains meanwhile | nothing is completed that was not delivered; every attempt recorded |
| Worker and server lifecycle (`apps/worker`, `jobs/worker*.ts`) | processes, connections | start, ready, drain, close, exit | signals, Redis | second signal, exceptions, a readiness request under way | a clean exit leaves no job behind; readiness flips first; a drain ends |
| Schedules and retention (`jobs/schedules.ts`, `db/retention-purge.ts`) | job schedulers, old rows | upsert, purge | BullMQ, rows | purge against work under way | nothing still needed is deleted |
| Auth and tenancy (`auth`) | users, members, invitations, sessions | sign up, provision, invite, impersonate | rows | check then insert: seats, workspaces | seats within plan; one personal workspace |
| Routers, web app, infrastructure packages | none of their own | queries, forms, mail, logs | calls | - | - |

## Modules

- **`BullMQ`** one job of the external queue, as the options in `queues.ts:75-83` and the
  workers use it: `Taken`, `Returned`, `Thrown` (attempts, then failed), `Stalled` (waits again,
  or given up after `MaxStalls`). Backoff is left out: a job may wait arbitrarily long or not at
  all. A worker whose lock is gone goes on, and what it returns is ignored.
- **`BatchLedger`** the abstract specification: undecided items are decided once, and counters
  add sets of decided items that they do not include yet.
- **`BatchJobs`** one batch job: its rows (`job`, `item`), the local state of every invocation of
  `processBatchJob` (`proc`), and its BullMQ job (`bull`). There is one action per `await`:

  | action | code |
  |---|---|
  | `Create`, `Enqueue`, `EnqueueLost`, `RunInline` | `batches.create`, `dispatchBatchJob` (never throws) |
  | `Cancel` | `cancelBatchJob`: conditional on pending or processing |
  | `Pick`, `Stall`, `Return`, `Reject`, `Crash` | the queue worker; a rejected database call; death of the process |
  | `ReadJob`, `StartJob` | `process.ts:24-34`: two statements, the second without a condition |
  | `CheckCanceled`, `ReleaseExpired`, `Claim` | `process.ts:40-59`; the claim is one `FOR UPDATE SKIP LOCKED` statement |
  | `MarkProcessing`, `CompleteItem`, `AttemptFails`, `FailItem` | `process.ts:69-102`; a write may be applied and its reply lost |
  | `CountCompleted`, `CountFailed` | `process.ts:105-110` |
  | `RecheckCanceled`, `ReadFinal`, `Settle` | `process.ts:113-135` |
  | `ExpireLease` | the clock passes `lease_expires_at` of one invocation's chunk |

  The item handler is a pure function and is abstracted to "the attempt succeeds or fails".
  `counted` and `lateClaims` are history variables: no guard reads them.
- **`StripeWebhooks`** checkouts and portal sessions (`OpenCheckout`, `CreateCustomer`, `BeginSave`,
  `SaveCustomer`, `CreateSession`, `CreatePortal`), the posts of events (`Enqueue`, `PostInline`), the
  queue, and the handler `Claim`, `BeginTransaction`, `Lock`, `CheckOrder`, `Apply`, `Audit`, `Commit`,
  `SendEmail` (`webhook-process.ts:20-45`, `webhook-apply.ts`, `stripe-webhook.ts`). A transaction's
  writes become visible at `Commit`; from its update on it holds the row, which other transactions
  and checkouts wait for. `claimed` commits at once, because `claimStripeWebhookEvent` uses `db` and
  not `tx`; so do audit rows. `recordAudit` never throws (`db/audit.ts:28-45`): `Audit` writes the row or,
  at the cost of a fault, notes the event in `unaudited`, and the transaction goes on to its
  commit either way. An event's subscription values are abstracted to the event (`shown`).
  Connections are counted (`PoolSize`, `connection.ts:12`): a transaction has one from
  `BeginTransaction` to its end, an update of a checkout one while it waits for its row, and `Audit`
  and the lookups of `Commit`, which go through `db`, need one more for the moment (`HasConnection`).
  Inline handlers and checkouts share the pool of the server; a handler of the queue is alone in
  its process (`domain-workers.ts:42`), whose other workers are taken to leave connections over.
  `applied`, `audits`, `unaudited` and `emails` are history variables.
- **`SubscriptionLedger`** the abstract specification of it: the events of a workspace take effect one
  after the other, each once, only if it is newer than the last, and after its audit row or the
  one failed attempt to write it (`missed`); the subscription shown is that of the last one that
  carried one; an email is sent once, about an event that took effect. Posts, claims, locks,
  transactions and retries are not in it.
- **`DataExports`** one export: its row (`req`), the object under its key (`file`), the local state
  of every invocation of `processDataExportRequest` (`proc`), its BullMQ job (`bull`), and the
  cleanup (`sweep`), which is `runDataExportCleanup` or `purgeDataExportRecords`:

  | action | code |
  |---|---|
  | `Create`, `Dispatch`, `RunInline`, `Pick`, `Stall` | the router, `dispatchDataExport`, the queue worker |
  | `ReadRequest`, `StartExport` | `process.ts:29-43`: the read skips what is ready or canceled |
  | `WriteRows`, `PersistProgress`, `CheckCanceled` | `stream-export.ts`: a table's records up to the next write of the progress, and the look at the cancel mark after a full chunk |
  | `OpenFile`, `CopyFile` | `stream-writer.ts`: the local copy, in two steps |
  | `MarkReady`, `AuditAndNotify`, `Finish` | `process.ts:51-84`, `data-export-job.ts` |
  | `MarkFailed`, `AuditFailure`, `MarkCanceled`, `Reject`, `Crash` | the catch block; a rejected call inside or outside the try |
  | `Cancel`, `DeleteWorkspace` | `cancelDataExportRequest`, the cascade |
  | `PassExpiry`, `PassRetention` | the clock; not while the export is worked on |
  | `ListExpiredReady`, `ListStaleFailed`, `ListRetention`, `DeleteObject`, `DeleteRow`, `SweepFails` | `media-cleanup.ts`, `retention-purge.ts` |

  What the tables hold is abstracted to the sequence `Stops` of progress writes.
- **`TagCache`** one cached value under one tag: per store (Redis, and the memory of each process) an
  entry and the tag's version (`store`), the load each process shares (`inFlight`), readers (`op`) and
  writers (`wr`). `kind` chooses `cacheWrap` over a row or `verifyApiKey`; `mode` the failure mode.

  | action | code |
  |---|---|
  | `Begin`, `Get`, `CompareVersion` | `cacheGet`: the entry, then the versions, with the fallback to memory |
  | `Coalesce`, `Load`, `LoadRejects` | `cacheWrap`: one load per process |
  | `SetVersion`, `SetEntry` | `cacheSet`: the version is read when the value is stored |
  | `Touch` | the refresh of `verifyApiKey` |
  | `Write`, `Invalidate`, `ResetVersion`, `FallBack`, `InvalidateLost` | an update, then `cacheInvalidateTag`: INCR, and SET 1 past the limit; a call that fails after the INCR still falls back to the memory |
  | `Expire`, `RedisFails`, `RedisRecovers` | time to live and trimming; outages |

  A value is the number of the write that made it. `acked`, `current`, `sure`, `floor` and `late` are
  history: they say which invalidations a value is known to reflect.
- **`MediaAssets`** the avatars of one user: rows (`row`), objects (`object`), `user.image` (`image`), the
  requests in progress (`call`) and the hourly cleanup (`sweep`):

  | action | code |
  |---|---|
  | `RequestUpload`, `PutObject` | `createMediaAssetUpload` and the signed put to an object store |
  | `Upload`, `ReadPending`, `WriteFile`, `MarkUploaded` | `PUT /media/upload/:id`, `saveUploadedMediaObject` |
  | `Complete`, `ReadRow`, `CheckObject`, `MarkOrphan`, `Link`, `SetImage`, `MarkOthersReplaced` | `completeAvatarUpload` |
  | `Reject`, `Fail` | a check that fails; a rejected call or the end of the process |
  | `NextStage`, `TakePending`, `DeleteObject`, `StatFile`, `DeleteRow`, `SweepFails` | the four lists of `runMediaLifecycleCleanup`, each read when its turn comes |
  | `PassDay`, `PassWeek` | the clock; a timestamp is an age class |

- **`WebhookDelivery`** one event for one endpoint: `Dispatch`, the job, the HTTP attempt (`Resolve`,
  `Respond`, `Redirect`, `AddressFails`, `ReadBody`, `Abort`: `outbound-http/client.ts`) and the log
  (`Record`, `RecordFailure`, `Finish`). **`WorkerLifecycle`** a worker process: `Start`, `FinishStart`,
  `Ask` and `Answer` of a readiness request, `Signal`, `Throws`, the drain (`CloseServer`, `CloseCore`,
  `CloseRest`, `CloseQueues`), `Timeout`, `Kill`. **`WebhookWorker`** composes the two: a worker takes
  the job while `Taking`, its drain waits for the job it holds, its exit drops the delivery where it
  is, and a worker that runs finds the job of a dead one stalled. `OnItsOwn` and `WithRedis` divide the
  steps of a process by whether they need Redis.
- **`MC...`** the instances TLC checks. **`...Proofs`** the theorems.

## Runs

| run | instance | checks | result |
|---|---|---|---|
| `batch_safety` | 3 items, 3 invocations, chunks of 2, 2 attempts an item, queue or inline, lost locks, 2 faults | `TypeOK`, `ClaimsAreExclusive`, `CountersMatchItems`, `FaultFreeRunIsExact`, `CancelBoundsClaims`, `ImplementsLedger` | holds, 249 k states |
| `batch_liveness` | 2 items, 3 invocations, chunks of 2, lost locks, 1 fault | `DispatchedJobSettles` under `FairSpec` | holds, 344 k states |
| `batch_cancel` | 1 item, no fault | `CancelIsFinal` | violated |
| `batch_unfinished` | 1 item, 1 fault | `CompletedJobIsDone` | violated |
| `stripe_order` | 1 workspace, 1 customer, 4 events (two in one second, one without metadata, one without a customer), 3 handlers, queue and inline, lost locks, 1 fault | `TypeOK`, `EffectsAtMostOnce`, `LastCoversApplied`, `FaultFreeEventTakesEffect`, `ShownNeverRegresses`, `ImplementsLedger` | holds, 746 k states |
| `stripe_locks` | 1 workspace with 2 customers, 3 events, two of them of one customer, 2 checkouts, 3 inline handlers, a pool of 3 connections, 1 fault | `NoWaitCircle`; `HandlersFinish` under `FairSpec` | holds, 243 k states |
| `export_lifecycle` | 3 invocations, a table of one chunk and rows after it, files that fit or exceed the limit, queue and inline, lost locks, 2 faults | `TypeOK`, `DownloadServesItsFile`, `NotifiedStaysReady`, `CancelStopsChunks`, `FileOutlivesOnlyFailures`; `DispatchedExportSettles`, `ExpiredExportIsRemoved` under `FairSpec` | holds, 634 k states |
| `tag_cache` | 1 process and Redis, 2 readers, 2 writers, both kinds and modes, versions up to 2, 1 fault | `TypeOK`, `EntriesReflectInvalidations`, `AnswersReflectInvalidations`, `OneLoadPerProcess`; `OldValuesVanish` under `FairSpec` | holds, 1.26 M states |
| `avatars` | 2 assets, 3 requests of which 2 overlap, object store or local, 1 fault | `TypeOK`, `ShownAvatarIsServed`, `OneLiveAvatar`, `StrayObjectsAreExplained`; `DiscardedRowsVanish` under `FairSpec` | holds, 682 k states |
| `webhook_worker` | 2 worker processes and the server inline, 2 attempts, 1 stall, 1 redirect, 1 fault, 1 incident | `TypeOK`, `CompletedIsDelivered`, `FailedAttemptsAreLogged`, `DeliveredOnce`, `CleanExitLeavesNoJob`, `ReadinessFlipsFirst`; `DrainEnds`, `QueuedEventSettles` under `FairSpec` | holds, 407 k states |
| `stripe_lost` | 1 workspace with 2 customers, an event of each, 2 handlers of the queue, 1 fault | `CompletedEventTookEffect` | violated |
| `stripe_two_customers` | the same, queue or inline, no fault | `ShownNeverRegresses` | violated |

Bounds. `Workers` bounds the invocations, not the processes: each element runs once, so three
of them are a first run, one that overlaps or follows it, and one more. Two are needed for every
race found, the third lets a retry overlap a run that overlaps. Three items in chunks of two
give a full chunk, a short one, and a chunk that mixes completed and failed items. `MaxFaults`
counts crashes and rejected calls; in `batch_safety` two can hit the same invocation chain. A lost
reply of a result write (`AttemptFails`) is not counted as a fault, since the code handles it.
`Settle` whose reply is lost is left out: the retry would read a terminal status and return.
In `stripe_locks` the two events of one customer contend for its advisory lock, those of different
customers for the row of the workspace, and three connections are fewer than three transactions and
an audit row need. `CHECK_DEADLOCK FALSE` is set because the system may really stop: all invocations are used up.
In `export_lifecycle` a first run, one that overlaps it and a retry are three; `Stops` holds a chunk
(with the look at the mark) and a last write without one, so a cancel can come before and after
the last look. In `tag_cache` one process has both tiers, and two readers share its load; with two
writers and a limit of 2 the version counter starts over while a value is on its way. Two
processes differ from one in that their memories disagree, which is excused by the properties (a
memory entry carries no promise of another process's invalidation); the theorems hold for any
number. In `avatars` three requests are two uploads and a completion, or two completions that
overlap and a repetition. In `webhook_worker` one address and one redirect suffice: a second of
either returns to the same point of the loop. Two workers are the one that drains or dies and the one
that takes over.

Two constants state timing facts that the code relies on and does not enforce. `LockLapse`: the
BullMQ lock of a running invocation can run out (the event loop is blocked, Redis is away); it is
TRUE in the passing batch runs and in `stripe_order`. `LeaseLapse`: the 120 s lease of a chunk runs
out while its invocation still works on it; it is FALSE in the runs. The
safety theorems of `BatchJobs` assume less, of the behaviour and not of the constant:
`LeasesOutlastRuns`, no lease lapses under an invocation that still works on its chunk. Without it two invocations can process the same item, which
is what a lease without renewal means.

Fairness. An invocation goes on unless it crashes (`WF` of `Process(w)`: the event loop runs every
pending continuation, and the database grants locks that are free); an update of a checkout that
waits for its row gets it once it is free (`SaveCustomer`); waiting jobs are taken while there is an
idle worker; the stall checker runs for crashed holders. No fairness is assumed for
requests, enqueues, cancels, faults, lost locks, or lease expiry, and none for one item outcome
over another. Two liveness properties state what they need beyond this as a condition of their own,
because the code does not ensure it:

- `HandlersFinish`: it is again and again the case that every running handler could get a
  connection. Without it a pool of three hangs: one handler holds the lock and asks for a
  connection for its audit row, the others wait for the lock or the row and hold the rest.
- `DrainEnds`: what waits for Redis goes on in the end (`ConnectionsAnswer`, weak fairness of
  `WithRedis`). `FairSpec` has only `OnItsOwn`: the timer, and the close of the health server once
  no request is in progress. Readiness requests, `worker.close` and `quit` use connections with
  `maxRetriesPerRequest: null` (`queues.ts:91-93`, `worker-lifecycle.ts:47-50`,
  `worker-readiness.ts:96`), so while Redis is away they wait. A drain begun by a signal ends by its
  timer anyway; one begun by an exception has none (`index.ts:138-141`) and hangs. TLC finds that
  drain when the condition is left out.

`QueuedEventSettles` has no such condition: it speaks of a process that can settle the event, whether
or not a drain hangs. Of Redis it assumes that deliveries can be taken and found stalled, as every
property of a queue here does.

### Findings

1. `CancelIsFinal`: `updateBatchJobStatus` overwrites a cancel that commits between the status
   read and the write (`process.ts:24/34`, `:117/135`).
2. `CompletedJobIsDone`: a retry starts after 2 s, leases last 120 s. It finds nothing to claim and
   settles the job as completed; the items of the failed attempt stay in processing for ever.
3. `CompletedEventTookEffect`: the idempotency claim commits before the transaction that applies
   the event. After a fault in between the retry finds the event claimed and drops it.
4. `ShownNeverRegresses` with two customers: concurrent checkouts both create a customer, and
   the ordering guard, keyed by the customer the row has, lets the other one's older event through.

## Proofs

`BatchJobsProofs` (any items, invocations, chunk size, attempts, faults):

- `TypeCorrect`: `Spec => []TypeOK`. It needs `CurrentIsHeld`: the item being written is in `todo`.
- `LeasesOutlast`: `~LeaseLapse => (Spec => LeasesOutlastRuns)`, so what follows holds of the runs.
  With `LeaseLapse` it covers every behaviour whose leases lapse only once the chunk is let go.
- `Inductive`: `Spec /\ LeasesOutlastRuns => []IInv`, with `IInv` = `TypeOK`, `CurrentIsHeld`, and `Safe`:
  an item a running invocation holds is neither pending nor expired, so `Claim` of another cannot
  take it (`HeldIsNotClaimable`); the sets held are disjoint (`ClaimsAreExclusive`); what an
  invocation decided and has not counted yet is still decided that way and held by no one
  (`DecidedStands`), by one invocation and not in the counters (`DecidedOnce`); each counter is the
  cardinality of the set it includes (`CountersExact`). `CountersMatchItems` alone is not
  inductive: it says nothing of results decided and not yet counted, nor of who could rewrite
  the row of a decided item.
- From it: `ExclusiveClaims`, `CountersCorrect`, `ProgressBounded` (completed + failed never exceeds
  the items).
- `Refinement`: `Spec /\ LeasesOutlastRuns => ImplementsLedger`. The mapping hides an item's status
  while an invocation holds it, because `AttemptFails` may write "completed" and then rewrite the
  row; `OnlyCurrentDecided` says that the current item is the only held one that can be decided.

`BatchRunProofs` (the same component, on top of `IInv`):

- `FaultFreeExact`: `Spec /\ LeasesOutlastRuns => []FaultFreeRunIsExact`. `RunInv` adds that counts are owed
  only within a chunk (`OwesInChunk`) and, while there was no fault, that nobody lets a chunk go
  (`NoneAbandoned`), no decision goes missing between its row and its counter (`NoneForgotten`), and
  whoever claimed an empty chunk left nothing pending (`NonePending`).
- `CancelBounds`: `Spec => []CancelBoundsClaims`, without an assumption on leases: an invocation claims
  late at most once after the cancel mark (`LateOnce`).

`StripeWebhooksProofs` (any events, workspaces, customers, checkouts, handlers, faults):

- `TypeCorrect`: `Spec => []TypeOK`, by `WellFormed`, which adds that a running handler has an
  event, that past the claim the event is claimed and has a customer, and that a checkout saves or
  uses a customer that exists.
- `EffectsOnce`: `Spec => []EffectsAtMostOnce`. The invariant `Once` adds that an event is held
  past the claim by at most one handler (`ClaimedOnce`), that an event nobody claimed has had no
  effect, and that a handler before its commit finds its event not applied yet.
- `GuardCovers`: `Spec => [](OneCustomerPerOrg => LastCoversApplied)`, and `ShownOnlyAdvances`:
  `Spec /\ []OneCustomerPerOrg => ShownNeverRegresses`. `OneCustomerPerOrg` is a condition on states:
  of the customers created so far (`known`) no two are of one workspace. It is not asked of the
  constants, and a behaviour that breaks it is covered until it does. That rows and handlers agree
  on the customer (`Paired`) needs no condition. `OInv` adds, under it, that a row keeps its customer
  once a checkout has saved it (`AllSaved`), that one handler at a time is between the lock and the
  commit for a customer (`LocksExclusive`), and that what it has checked still precedes what it
  will write (`Ordered`).
- `EventsTakeEffect`: `Spec => [](OneCustomerPerOrg => FaultFreeEventTakesEffect)`. `EInv` adds to `OInv`
  and `Once` that the time of a row is that of an event of its workspace that was applied
  (`LastIsApplied`), so what a stale event yields to is one of its own customer, and that without
  faults what is claimed took effect or is in a handler's hands (`ClaimedIsSettled`).

The code does not ensure `OneCustomerPerOrg`: `ensureCustomer` reads the column, creates and saves in
separate steps, and run `stripe_two_customers` shows `ShownNeverRegresses` fail without it.

`StripeLedgerProofs` (the same component, on top of `WellFormed`, `Once`, `Paired` and `OInv`):

- `NoDeadlock`: `Spec => []NoWaitCircle`, with no condition on customers. A row has one writer
  (`RowsExclusive`), and a transaction takes its lock before its one row, so whoever has written a row
  waits for nothing (`WriterGoesOn`): a wait for a row ends at its writer, a wait for a lock at the
  holder of the lock or at the writer that holder waits for. This is the safety half of
  `HandlersFinish`, whose fairness part stays with TLC. It is about locks: a wait for a connection
  is no part of the circle, and the pool is what `HandlersFinish` makes its condition about.
- `BillingIsALedger`: `Spec /\ []OneCustomerPerOrg => ImplementsLedger`. `Audit` is `Record` or `Miss`, the
  claim of an event without a customer `TickOff`, `Commit` of an update `TakeEffect`, `SendEmail`
  `Mail`, and all else stutters. `LInv` adds that an open transaction has written its workspace's row
  just if the event carries a subscription, and that its audit row was written once or missed before
  it commits (`AllExact`). The theorem does not say that every update has its audit row, which
  `recordAudit` does not ensure; it says that none commits whose row was not tried, once;
  that the row an event targets is its customer's owner's, and no other, is `TargetsAreOwner`.
- `SerialCheckouts`: `Spec /\ []CheckoutsApart /\ CheckoutsSave => []OneCustomerPerOrg`, which traces
  the condition above to the code: it holds if no two checkouts of a workspace are between the read of
  a row without a customer and its save, and none fails between the two. `KInv` says that every
  customer is in its row or in the hands of a checkout (`KnownIsKept`), and that the row stays without
  one until then (`StillEmpty`). Either condition alone is not enough: TLC finds two customers without
  the one as without the other. `SerialCheckoutsSuffice`: with both, `ImplementsLedger`.

`DataExportsProofs` (any invocations, progress writes, stalls, faults; nothing is assumed of the
tables but that there is one write):

- `DownloadServed` (`DownloadServesItsFile`), `NotifiedStays` (`NotifiedStaysReady`), `CancelStops`
  (`CancelStopsChunks`), `FileOutlives` (`FileOutlivesOnlyFailures`) and `TypeCorrect`, all from
  `Inductive`: `Spec => []IInv`. The properties speak of a settled row; `IInv` adds what keeps it so.
  The clock and the sweep only meet an export nobody works on (`AgedIsUnworked`), so nobody
  deletes an object between its upload and its expiry (`FileIsThere`); without an overlap there is
  one invocation, the file is its own, and a request that is ready is not started again
  (`SoleRun`); once the mark is set, every run it was not too late for has a look at it ahead or
  has given up (`CanceledIsStopping`, an induction over the positions left in `Stops`); what fits
  fails only by a fault (`FailedByFault`), and past the object the sweep has only a failed run's
  file left (`SweptFile`).

`TagCacheProofs` (any finite sets of processes, readers and writers, any version limit, faults):

- `EntriesReflect`, `AnswersReflect`, `SingleFlight` and `TypeCorrect`. The invariant says of every
  entry that is `sure` that it is not ahead of the tag's version and, where it has that version,
  reflects what was invalidated (`SureIn`); the first half is what survives the next INCR. A reader
  that carries an entry from one await to the next carries the same promise about the store it
  read (`Fits`). The counter that is set back to 1 is covered: `ResetVersion` clears `sure`.

`MediaAssetsProofs` (any avatars, requests, faults, both storage modes):

- `ShownServed`, `SingleAvatar`, `StraysExplained` and `TypeCorrect`. While requests do not overlap and
  none runs during a cleanup, the invariant follows the one request step by step (`CalmWork`,
  `AloneWork`, `ReplaceShown`: between `SetImage` and `MarkOthersReplaced` the shown picture is the
  request's), and the cleanup holds only rows that are still as it listed them (`CalmSweep`). The
  three properties alone say nothing of a request half way.

`WebhookWorkerProofs` (any workers, attempts, stalls, redirects, addresses, faults, incidents):

- `NothingDropped` (`CompletedIsDelivered`), `AttemptsLogged` (`FailedAttemptsAreLogged`), `DeliveriesBounded`
  (`DeliveredOnce`), `CleanExits` (`CleanExitLeavesNoJob`), `ReadinessFirst` (`ReadinessFlipsFirst`),
  `TypeCorrect`. The invariant joins the two components: a delivery under way belongs to the
  worker that lives and holds the job, or to the server (`RunningIsOwned`); a request that ended
  well was answered, and what has ended is in the log (`OkIsAnswered`, `EndedIsLogged`); one
  delivery more than stalls and faults is possible only once the job has concluded
  (`DeliveredBound`); past the close of the workers no job is held (`DrainedIsFree`).

Only model-checked: the liveness properties (fairness and ENABLED are out of the prover's reach)
and the findings. Every invariant and action property a passing run checks is a theorem. No recursive definition is used.

## What the runs do not promise

Facts of the code that the properties exclude by name, for a reader who asks why a property is
not stronger:

- `FaultFreeEventTakesEffect`: an event yields to one of its customer with the same second or a later
  one. The first of two events of one second wins, also if it was an invoice, and the other is
  dropped: `stripe-webhook-ordering.test.ts:27` wants equal times to be stale.
- `EffectsAtMostOnce` and `ImplementsLedger` with the audit log: a failed insert leaves an update without
  its row, a rollback after it leaves a row without its update.
- `HandlersFinish` says nothing once the connections of a pool stay taken. A handler has the
  connection of its transaction and needs another for `recordAudit`, `getOrgOwner` and `planName`
  (`webhook-apply.ts:105`, `:132`), and handlers that wait for the lock of their customer hold theirs
  meanwhile: with the default of 10 connections ten inline posts for one customer can wait like that
  for good, with one connection a single subscription. The pool must be larger than the
  transactions that are open at once; with 4 connections the instance of `stripe_locks` needs no
  condition.
- `NotifiedStaysReady` and `DownloadServesItsFile` except overlapping runs: the status writes of an
  export have no condition and the key depends on the request only, so a second run puts a ready
  export back to processing, and rewrites its object while it is downloaded.
- `CancelStopsChunks`: after the last full chunk nobody looks at the cancel mark.
- `FileOutlivesOnlyFailures`: an object whose workspace was deleted, or whose run failed between the
  upload and its record, is never removed.
- `EntriesReflectInvalidations`, `AnswersReflectInvalidations`: a value on its way into a store when the
  tag is invalidated is stored under the new version and served until its time to live ends; so is
  what was stored before the version counter was set back to 1 (`sure` is false for both).
  `OldValuesVanish` is what remains true of them.
- `ShownAvatarIsServed`: an avatar completed again after it was replaced keeps its `replacedAt`, and the
  cleanup deletes it while it is shown; of two completions that overlap each can mark the other's
  picture replaced, and a request during a cleanup meets a list that is not looked at again: both
  can lose the shown object. `StrayObjectsAreExplained` excludes the latter too.
- `DeliveredOnce`: at least once; each stall or lost reply may deliver again. A 302 or 303 answer turns the
  POST into a GET without payload, whose 2xx is logged as delivered.
- `FaultFreeEventTakesEffect` with two customers of a workspace: `SaveCustomer` replaces the customer and
  leaves `lastStripeEventAt` of the other one, so an older event of the new customer is dropped.
- `CleanExitLeavesNoJob` is about code 0 at the end of a drain: a second signal also exits with 0, at
  once, and the job in progress is left to the stall checker.
- Seen and left out of the models: the download reads at most 50 MB although an export may
  have 200 MB; a media cleanup that throws keeps the export cleanup of the same job from running;
  rows of canceled exports are never purged.

## Not modelled

- Of the modelled components: an `invoice.payment_failed` without a customer that names its workspace in
  its metadata (Stripe's invoices have a customer); the runs of a batch job whose row is gone
  (`process.ts:25-28`, `:118`): it goes with its workspace or user, or months after its end
  (`retention-purge.ts`), and the run then returns; a webhook delivery whose worker
  lives and loses its lock: in `WebhookWorker` only the job of a dead process is found stalled, as with
  live ones the instance outgrows the run (the other queue models have `LockLapse`, and `DeliveredOnce`
  would count such a stall like any other). A process that runs several handlers dies in as many `Crash`
  steps, one per handler. A call that is applied and whose reply is lost is `Reject` after the step
  of the call.

- Rate limits: one Lua script, atomic in Redis, and a synchronous function: no interleaving.
- Auth and tenancy: users, sessions, members and invitations are rows of the better-auth library,
  whose statements are not in the repository; the races of the hooks (seats, provisioning) are
  with inserts we cannot read. They stay in the hazard list.
- The other purges of `retention-purge.ts` are single deletes by age. They delete
  what has been finished or unchanged for months, so no work under way meets them.
- MRR snapshots, analytics refresh, email and notification workers: one idempotent statement each.
- Routers that read or update one row, the web app (the larger part of the source: components,
  pages, messages, generated routes), logging, metrics, mail rendering, schemas and permissions: no
  state is shared between actors.
