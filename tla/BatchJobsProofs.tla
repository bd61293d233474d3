-------------------------- MODULE BatchJobsProofs --------------------------
(***************************************************************************)
(* Theorems about BatchJobs.                                               *)
(***************************************************************************)
EXTENDS BatchJobs, FiniteSetTheorems, TLAPS

----------------------------------------------------------------------------
(* Type correctness.                                                       *)

\* The item an attempt is about is one the invocation holds, and it holds items only
\* between the claim of a chunk and its last item.
CurrentIsHeld ==
  \A w \in Workers :
    /\ proc[w].pc \in {"write", "giveUp"} => proc[w].cur \in proc[w].todo
    /\ proc[w].todo # {} => proc[w].pc \in {"mark", "write", "giveUp"}

LEMMA LocalType ==
  ASSUME NEW pc \in Labels \cup {"idle", "ended", "crashed"}
  PROVE  Local(pc) \in Locals
  BY DEF Local, Locals, Results

LEMMA SubsetFinite ==
  ASSUME NEW S \in SUBSET Items
  PROVE  IsFiniteSet(S) /\ Cardinality(S) \in Nat
  BY BatchAssumption, FS_Subset, FS_CardinalityType

LEMMA TypeInit == Init => TypeOK
<1> SUFFICES ASSUME Init PROVE TypeOK
  OBVIOUS
<1>1. job \in JobRows
  BY DEF Init, JobRows, JobStatus
<1>2. Fresh \in ItemRows
  BY DEF Fresh, ItemRow, ItemRows, ItemStatus
<1>3. Local("idle") \in Locals
  BY LocalType
<1>4. bull \in BullJobs
  BY DEF Init, BullJobs, BullStates, NewBull
<1>5. QED
  BY <1>1, <1>2, <1>3, <1>4 DEF Init, TypeOK

\* How an invocation ends: processBatchJob returns.
LEMMA ReturnType ==
  ASSUME TypeOK, NEW w \in Workers, Return(w)
  PROVE  proc' \in [Workers -> Locals] /\ bull' \in BullJobs
<1>1. Local("ended") \in Locals
  BY LocalType
<1>2. [bull EXCEPT !.state = "completed"] \in BullJobs
  BY DEF TypeOK, BullJobs, BullStates
<1>3. QED
  BY <1>1, <1>2 DEF TypeOK, Return, Returned

LEMMA GotoType ==
  ASSUME TypeOK, NEW w \in Workers, NEW l \in Labels, Goto(w, l)
  PROVE  proc' \in [Workers -> Locals]
<1>1. [proc[w] EXCEPT !.pc = l] \in Locals
  BY DEF TypeOK, Locals
<1>2. QED
  BY <1>1 DEF TypeOK, Goto

LEMMA AfterItemType ==
  ASSUME TypeOK, NEW w \in Workers, NEW done \in SUBSET Items, NEW bad \in SUBSET Items,
         AfterItem(w, done, bad)
  PROVE  proc' \in [Workers -> Locals]
<1> DEFINE rest == proc[w].todo \ {proc[w].cur}
<1> DEFINE l == IF rest # {} THEN "mark" ELSE IF done # {} THEN "countDone" ELSE "countBad"
<1>1. proc[w] \in Locals /\ rest \in SUBSET Items /\ l \in Labels
  BY DEF TypeOK, Locals, Labels
<1>2. PICK q \in Locals : q = [proc[w] EXCEPT !.todo = rest, !.cur = NoItem, !.attempt = 0]
  <2> HIDE DEF rest
  <2> QED BY <1>1 DEF Locals
<1>3. [q EXCEPT !.done = done, !.bad = bad, !.pc = l] \in Locals
  <2> HIDE DEF l
  <2> QED BY <1>1 DEF Locals
<1>4. QED
  BY <1>2, <1>3 DEF TypeOK, AfterItem

LEMMA ProcessType ==
  ASSUME TypeOK, CurrentIsHeld, NEW w \in Workers, Process(w)
  PROVE  TypeOK'
<1> USE DEF At
<1>1. CASE ReadJob(w)
  BY <1>1, ReturnType, GotoType DEF ReadJob, Labels, TypeOK
<1>2. CASE StartJob(w)
  <2>1. job' \in JobRows
    BY <1>2 DEF StartJob, JobRows, JobStatus, TypeOK
  <2>2. QED
    BY <1>2, <2>1, GotoType DEF StartJob, Labels, TypeOK
<1>3. CASE CheckCanceled(w)
  BY <1>3, ReturnType, GotoType DEF CheckCanceled, Labels, TypeOK
<1>4. CASE ReleaseExpired(w)
  <2>1. Fresh \in ItemRows
    BY DEF Fresh, ItemRow, ItemRows, ItemStatus
  <2>2. item' \in [Items -> ItemRows]
    BY <1>4, <2>1 DEF ReleaseExpired, TypeOK
  <2>3. QED
    BY <1>4, <2>2, GotoType DEF ReleaseExpired, Labels, TypeOK
<1>5. CASE Claim(w)
  <2>1. PICK S \in Chunks :
          /\ item' = [i \in Items |-> IF i \in S THEN ItemRow("processing", "live", w)
                                                 ELSE item[i]]
          /\ proc' = [proc EXCEPT ![w] = IF S = {} THEN Local("recheck")
                                         ELSE [Local("mark") EXCEPT !.todo = S]]
          /\ lateClaims' = IF S # {} /\ job.status = "canceled"
                           THEN [lateClaims EXCEPT ![w] = @ + 1] ELSE lateClaims
    BY <1>5 DEF Claim
  <2>2. S \in SUBSET Items
    BY DEF Chunks
  <2>3. ItemRow("processing", "live", w) \in ItemRows
    BY DEF ItemRow, ItemRows, ItemStatus
  <2>4. item' \in [Items -> ItemRows]
    BY <2>1, <2>3 DEF TypeOK
  <2>5. /\ Local("recheck") \in Locals
        /\ Local("mark") \in Locals
    BY LocalType DEF Labels
  <2>6. [Local("mark") EXCEPT !.todo = S] \in Locals
    BY <2>2, <2>5 DEF Locals
  <2>7. proc' \in [Workers -> Locals]
    BY <2>1, <2>5, <2>6 DEF TypeOK
  <2>8. lateClaims' \in [Workers -> Nat]
    BY <2>1 DEF TypeOK
  <2>9. QED
    BY <1>5, <2>4, <2>7, <2>8 DEF Claim, TypeOK
<1>6. CASE MarkProcessing(w)
  <2>1. PICK i \in proc[w].todo :
          /\ item' = [item EXCEPT ![i].status = "processing"]
          /\ proc' = [proc EXCEPT ![w] = [proc[w] EXCEPT !.pc = "write", !.cur = i,
                                                         !.attempt = proc[w].attempt + 1]]
    BY <1>6 DEF MarkProcessing
  <2>2. i \in Items
    BY DEF TypeOK, Locals
  <2>3. item' \in [Items -> ItemRows]
    BY <2>1, <2>2 DEF TypeOK, ItemRows, ItemStatus
  <2>a. [proc[w] EXCEPT !.pc = "write", !.cur = i, !.attempt = proc[w].attempt + 1] \in Locals
    <3>1. proc[w] \in Locals /\ proc[w].attempt + 1 \in Nat /\ "write" \in Labels
      BY DEF TypeOK, Locals, Labels
    <3>2. QED
      BY <2>2, <3>1 DEF Locals
  <2>4. proc' \in [Workers -> Locals]
    BY <2>1, <2>a DEF TypeOK
  <2>5. QED
    BY <1>6, <2>3, <2>4 DEF MarkProcessing, TypeOK
<1>7. CASE CompleteItem(w)
  <2>1. item' \in [Items -> ItemRows]
    BY <1>7 DEF CompleteItem, TypeOK, ItemRow, ItemRows, ItemStatus
  <2>2. /\ proc[w].done \cup {proc[w].cur} \in SUBSET Items
        /\ proc[w].bad \in SUBSET Items
    BY <1>7 DEF CompleteItem, TypeOK, Locals, CurrentIsHeld
  <2>3. QED
    BY <1>7, <2>1, <2>2, AfterItemType DEF CompleteItem, TypeOK
<1>8. CASE AttemptFails(w)
  <2>1. ItemRow("completed", "none", NoWorker) \in ItemRows
    BY DEF ItemRow, ItemRows, ItemStatus
  <2>a. item' \in [Items -> ItemRows]
    BY <1>8, <2>1 DEF AttemptFails, TypeOK
  <2>2. QED
    BY <1>8, <2>a, GotoType DEF AttemptFails, TypeOK, Labels
<1>9. CASE FailItem(w)
  <2>1. item' \in [Items -> ItemRows]
    BY <1>9 DEF FailItem, TypeOK, ItemRow, ItemRows, ItemStatus
  <2>2. /\ proc[w].bad \cup {proc[w].cur} \in SUBSET Items
        /\ proc[w].done \in SUBSET Items
    BY <1>9 DEF FailItem, TypeOK, Locals, CurrentIsHeld
  <2>3. QED
    BY <1>9, <2>1, <2>2, AfterItemType DEF FailItem, TypeOK
<1>10. CASE CountCompleted(w)
  <2>1. proc[w].done \in SUBSET Items /\ Cardinality(proc[w].done) \in Nat
    BY SubsetFinite DEF TypeOK, Locals
  <2>2. job' \in JobRows
    BY <1>10, <2>1 DEF CountCompleted, TypeOK, JobRows
  <2>3. counted' \in [Results -> SUBSET Items]
    BY <1>10, <2>1 DEF CountCompleted, TypeOK
  <2>a. [proc[w] EXCEPT !.done = {}, !.pc = IF proc[w].bad # {} THEN "countBad" ELSE "check"]
          \in Locals
    BY DEF TypeOK, Locals, Labels
  <2>4. proc' \in [Workers -> Locals]
    BY <1>10, <2>a DEF CountCompleted, TypeOK
  <2>5. QED
    BY <1>10, <2>2, <2>3, <2>4 DEF CountCompleted, TypeOK
<1>11. CASE CountFailed(w)
  <2>1. proc[w].bad \in SUBSET Items /\ Cardinality(proc[w].bad) \in Nat
    BY SubsetFinite DEF TypeOK, Locals
  <2>2. job' \in JobRows
    BY <1>11, <2>1 DEF CountFailed, TypeOK, JobRows
  <2>3. counted' \in [Results -> SUBSET Items]
    BY <1>11, <2>1 DEF CountFailed, TypeOK
  <2>a. [proc[w] EXCEPT !.bad = {}, !.pc = "check"] \in Locals
    BY DEF TypeOK, Locals, Labels
  <2>4. proc' \in [Workers -> Locals]
    BY <1>11, <2>a DEF CountFailed, TypeOK
  <2>5. QED
    BY <1>11, <2>2, <2>3, <2>4 DEF CountFailed, TypeOK
<1>12. CASE RecheckCanceled(w)
  BY <1>12, ReturnType, GotoType DEF RecheckCanceled, Labels, TypeOK
<1>13. CASE ReadFinal(w)
  <2>1. Verdict \in Results
    BY DEF Verdict, Results
  <2>2. [proc[w] EXCEPT !.pc = "settle", !.verdict = Verdict] \in Locals
    BY <2>1 DEF TypeOK, Locals, Labels
  <2>3. QED
    BY <1>13, <2>2, ReturnType DEF ReadFinal, TypeOK
<1>14. CASE Settle(w)
  <2>1. job' \in JobRows
    BY <1>14 DEF Settle, TypeOK, JobRows, JobStatus, Locals, Results
  <2>2. QED
    BY <1>14, <2>1, ReturnType DEF Settle, TypeOK
<1>15. QED
  BY <1>1, <1>2, <1>3, <1>4, <1>5, <1>6, <1>7, <1>8, <1>9, <1>10, <1>11, <1>12,
     <1>13, <1>14 DEF Process

LEMMA TypeStep == TypeOK /\ CurrentIsHeld /\ [Next]_vars => TypeOK'
<1> SUFFICES ASSUME TypeOK, CurrentIsHeld, [Next]_vars PROVE TypeOK'
  OBVIOUS
<1>1. CASE Create
  BY <1>1 DEF Create, TypeOK, JobRows, JobStatus, BullJobs, Dispatches
<1>2. CASE Enqueue
  BY <1>2 DEF Enqueue, TypeOK, BullJobs, BullStates
<1>3. CASE EnqueueLost
  BY <1>3 DEF EnqueueLost, TypeOK, BullJobs, Dispatches
<1>4. CASE Cancel
  BY <1>4 DEF Cancel, TypeOK, JobRows, JobStatus
<1>5. CASE Stall
  <2>1. /\ bull \in BullJobs /\ bull.stalls + 1 \in Nat
        /\ "wait" \in BullStates /\ "failed" \in BullStates
    BY DEF TypeOK, BullJobs, BullStates
  <2>2. bull' \in BullJobs
    BY <1>5, <2>1 DEF Stall, Stalled, BullJobs
  <2>3. QED
    BY <1>5, <2>2 DEF Stall, TypeOK
<1>6. ASSUME NEW w \in Workers, RunInline(w) \/ Pick(w) PROVE TypeOK'
  <2>1. bull' \in BullJobs
    BY <1>6 DEF RunInline, Pick, Taken, TypeOK, BullJobs, BullStates, Dispatches
  <2>2. Local("read") \in Locals
    BY LocalType DEF Labels
  <2>3. QED
    BY <1>6, <2>1, <2>2 DEF RunInline, Pick, TypeOK
<1>7. ASSUME NEW w \in Workers, Reject(w) \/ Crash(w) PROVE TypeOK'
  <2>a. /\ bull \in BullJobs /\ bull.attemptsMade + 1 \in Nat
        /\ "wait" \in BullStates /\ "failed" \in BullStates
    BY DEF TypeOK, BullJobs, BullStates
  <2>1. bull' \in BullJobs
    BY <1>7, <2>a DEF Reject, Crash, Thrown, BullJobs
  <2>2. Local("ended") \in Locals /\ Local("crashed") \in Locals
    BY LocalType
  <2>3. QED
    BY <1>7, <2>1, <2>2 DEF Reject, Crash, TypeOK
<1>8. ASSUME NEW w \in Workers, ExpireLease(w) PROVE TypeOK'
  <2>1. \A i \in Items : [item[i] EXCEPT !.lease = "expired"] \in ItemRows
    BY DEF TypeOK, ItemRows
  <2>2. QED
    BY <1>8, <2>1 DEF ExpireLease, TypeOK
<1>9. CASE UNCHANGED vars
  BY <1>9 DEF vars, TypeOK
<1>10. QED
  BY <1>1, <1>2, <1>3, <1>4, <1>5, <1>6, <1>7, <1>8, <1>9, ProcessType DEF Next

\* proc only changes for the worker that takes the step, and in one of these ways.
LEMMA CurrentStep == TypeOK /\ CurrentIsHeld /\ [Next]_vars => CurrentIsHeld'
<1> SUFFICES ASSUME TypeOK, CurrentIsHeld, [Next]_vars PROVE CurrentIsHeld'
  OBVIOUS
<1>1. CASE proc' = proc
  BY <1>1 DEF CurrentIsHeld, Running
<1>2. ASSUME NEW w \in Workers, NEW l \in {"read", "recheck", "ended", "crashed"},
             proc' = [proc EXCEPT ![w] = Local(l)]
      PROVE  CurrentIsHeld'
  BY <1>2 DEF CurrentIsHeld, Running, Local, TypeOK
<1>3. ASSUME NEW w \in Workers, Process(w) PROVE CurrentIsHeld'
  <2> USE DEF At, CurrentIsHeld, Running, TypeOK, Labels
  <2>1. CASE ReadJob(w)
    <3>1. CASE Return(w)
      BY <1>2, <3>1 DEF Return
    <3>2. CASE Goto(w, "start")
      BY <2>1, <3>2 DEF Goto, ReadJob
    <3>3. QED
      BY <2>1, <3>1, <3>2 DEF ReadJob
  <2>2. CASE StartJob(w)
    BY <2>2 DEF StartJob, Goto
  <2>3. CASE CheckCanceled(w)
    <3>1. CASE Return(w)
      BY <1>2, <3>1 DEF Return
    <3>2. CASE Goto(w, "release")
      BY <2>3, <3>2 DEF Goto, CheckCanceled
    <3>3. QED
      BY <2>3, <3>1, <3>2 DEF CheckCanceled
  <2>4. CASE ReleaseExpired(w)
    BY <2>4 DEF ReleaseExpired, Goto
  <2>5. CASE Claim(w)
    BY <2>5 DEF Claim, Local
  <2>6. CASE MarkProcessing(w)
    BY <2>6 DEF MarkProcessing
  <2>7. CASE CompleteItem(w)
    BY <2>7 DEF CompleteItem, AfterItem
  <2>8. CASE AttemptFails(w)
    BY <2>8 DEF AttemptFails, Goto
  <2>9. CASE FailItem(w)
    BY <2>9 DEF FailItem, AfterItem
  <2>10. CASE CountCompleted(w)
    BY <2>10 DEF CountCompleted
  <2>11. CASE CountFailed(w)
    BY <2>11 DEF CountFailed
  <2>12. CASE RecheckCanceled(w)
    <3>1. CASE Return(w)
      BY <1>2, <3>1 DEF Return
    <3>2. CASE Goto(w, "final")
      BY <2>12, <3>2 DEF Goto, RecheckCanceled
    <3>3. QED
      BY <2>12, <3>1, <3>2 DEF RecheckCanceled
  <2>13. CASE ReadFinal(w)
    <3>1. CASE Return(w)
      BY <1>2, <3>1 DEF Return
    <3>2. CASE proc' = [proc EXCEPT ![w] = [proc[w] EXCEPT !.pc = "settle",
                                                           !.verdict = Verdict]]
      BY <2>13, <3>2 DEF ReadFinal
    <3>3. QED
      BY <2>13, <3>1, <3>2 DEF ReadFinal
  <2>14. CASE Settle(w)
    BY <1>2, <2>14 DEF Settle, Return
  <2>15. QED
    BY <1>3, <2>1, <2>2, <2>3, <2>4, <2>5, <2>6, <2>7, <2>8, <2>9, <2>10, <2>11, <2>12,
       <2>13, <2>14 DEF Process
<1>4. QED
  BY <1>1, <1>2, <1>3
  DEF Next, vars, Create, Enqueue, EnqueueLost, Cancel, Stall, RunInline, Pick, Reject,
      Crash, ExpireLease

LEMMA CurrentInit == Init => CurrentIsHeld
  BY DEF Init, CurrentIsHeld, Running, Local, Labels

\* Every variable keeps its type in every behaviour.
THEOREM TypeCorrect == Spec => []TypeOK
<1>1. TypeOK /\ CurrentIsHeld /\ [Next]_vars => (TypeOK /\ CurrentIsHeld)'
  BY TypeStep, CurrentStep
<1>2. QED
  BY <1>1, TypeInit, CurrentInit, PTL DEF Spec

----------------------------------------------------------------------------
(* The inductive invariant, for a deployment whose leases outlast the runs *)
(* that hold them.                                                         *)

\* A held item cannot be released or claimed: its lease, if it still has one, is a
\* live one of the holder.
HeldIsNotClaimable ==
  \A w \in Workers : \A i \in proc[w].todo :
    /\ item[i].status \in {"processing", "completed"}
    /\ \/ item[i].lease = "none"
       \/ item[i].lease = "live" /\ item[i].workerId = w

\* A decision that is still to be counted, or is counted, stands in the row, and
\* nobody holds the item any more.
Stands(i, r) == item[i].status = r /\ \A v \in Workers : i \notin proc[v].todo

DecidedStands ==
  /\ \A w \in Workers : \A i \in proc[w].done : Stands(i, "completed")
  /\ \A w \in Workers : \A i \in proc[w].bad : Stands(i, "failed")
  /\ \A r \in Results : \A i \in counted[r] : Stands(i, r)

\* No decision is to be counted twice.
DecidedOnce ==
  \A w \in Workers :
    /\ proc[w].done \cap counted["completed"] = {}
    /\ proc[w].bad \cap counted["failed"] = {}
    /\ \A v \in Workers : v # w => /\ proc[v].done \cap proc[w].done = {}
                                   /\ proc[v].bad \cap proc[w].bad = {}

CountersExact ==
  /\ job.completed = Cardinality(counted["completed"])
  /\ job.failed = Cardinality(counted["failed"])

Safe == /\ HeldIsNotClaimable
        /\ ClaimsAreExclusive
        /\ DecidedStands
        /\ DecidedOnce
        /\ CountersExact

IInv == TypeOK /\ CurrentIsHeld /\ Safe

LEMMA SafeInit == Init => Safe
  BY FS_EmptySet
  DEF Init, Safe, HeldIsNotClaimable, ClaimsAreExclusive, DecidedStands, DecidedOnce,
      CountersExact, Local, Results

\* A step that leaves the items and the counters alone and makes no invocation hold or
\* owe more than before.
LEMMA SafeShrink ==
  ASSUME Safe, TypeOK, UNCHANGED <<item, counted>>,
         job'.completed = job.completed, job'.failed = job.failed,
         \A v \in Workers : /\ proc'[v].todo \subseteq proc[v].todo
                           /\ proc'[v].done \subseteq proc[v].done
                           /\ proc'[v].bad \subseteq proc[v].bad
  PROVE  Safe'
<1>1. HeldIsNotClaimable'
  BY DEF Safe, HeldIsNotClaimable
<1>2. ClaimsAreExclusive'
  BY DEF Safe, ClaimsAreExclusive
<1>3. DecidedStands'
  BY DEF Safe, DecidedStands, Stands
<1>4. DecidedOnce'
  BY DEF Safe, DecidedOnce
<1>5. CountersExact'
  BY DEF Safe, CountersExact
<1>6. QED
  BY <1>1, <1>2, <1>3, <1>4, <1>5 DEF Safe

LEMMA SafeReset ==
  ASSUME Safe, TypeOK, UNCHANGED <<item, counted>>, NEW w \in Workers, NEW pc,
         job'.completed = job.completed, job'.failed = job.failed,
         proc' = [proc EXCEPT ![w] = Local(pc)]
  PROVE  Safe'
  BY SafeShrink DEF Local, TypeOK

LEMMA SafeGoto ==
  ASSUME Safe, TypeOK, UNCHANGED <<item, counted>>, NEW w \in Workers, NEW l,
         job'.completed = job.completed, job'.failed = job.failed,
         Goto(w, l)
  PROVE  Safe'
<1>1. \A v \in Workers : /\ proc'[v].todo = proc[v].todo
                         /\ proc'[v].done = proc[v].done
                         /\ proc'[v].bad = proc[v].bad
  BY DEF Goto, TypeOK, Locals
<1>2. QED
  BY <1>1, SafeShrink

\* A held item is not claimable, so neither a release nor a claim touches it.
LEMMA HeldNotClaimable ==
  ASSUME Safe, NEW w \in Workers, NEW i \in proc[w].todo
  PROVE  /\ ~Claimable(i)
         /\ ~(item[i].status = "processing" /\ item[i].lease = "expired")
  BY DEF Safe, HeldIsNotClaimable, Claimable

\* Nor is a decided one.
LEMMA DecidedNotClaimable ==
  ASSUME NEW i, item[i].status \in Results
  PROVE  ~Claimable(i) /\ item[i].status # "processing"
  BY DEF Claimable, Results

LEMMA SafeRelease ==
  ASSUME TypeOK, Safe, NEW w \in Workers, ReleaseExpired(w)
  PROVE  Safe'
<1>1. \A v \in Workers : /\ proc'[v].todo = proc[v].todo
                         /\ proc'[v].done = proc[v].done
                         /\ proc'[v].bad = proc[v].bad
  BY DEF ReleaseExpired, Goto, TypeOK, Locals
<1>2. \A v \in Workers : \A i \in proc[v].todo : i \in Items /\ item'[i] = item[i]
  BY HeldNotClaimable DEF ReleaseExpired, TypeOK, Locals
<1>3. \A i \in Items : item[i].status \in Results => item'[i] = item[i]
  BY DecidedNotClaimable DEF ReleaseExpired
<1>4. HeldIsNotClaimable'
  BY <1>1, <1>2 DEF Safe, HeldIsNotClaimable
<1>5. DecidedStands'
  BY <1>1, <1>3 DEF Safe, DecidedStands, Stands, Results, TypeOK, Locals, ReleaseExpired
<1>6. ClaimsAreExclusive' /\ DecidedOnce' /\ CountersExact'
  BY <1>1 DEF Safe, ClaimsAreExclusive, DecidedOnce, CountersExact, ReleaseExpired
<1>7. QED
  BY <1>4, <1>5, <1>6 DEF Safe

LEMMA SafeClaim ==
  ASSUME TypeOK, Safe, NEW w \in Workers, Claim(w)
  PROVE  Safe'
<1>1. PICK S \in Chunks :
        /\ item' = [i \in Items |-> IF i \in S THEN ItemRow("processing", "live", w)
                                               ELSE item[i]]
        /\ proc' = [proc EXCEPT ![w] = IF S = {} THEN Local("recheck")
                                       ELSE [Local("mark") EXCEPT !.todo = S]]
  BY DEF Claim
<1>2. \A i \in S : i \in Items /\ Claimable(i)
  BY DEF Chunks
<1>3. /\ proc'[w].todo = S /\ proc'[w].done = {} /\ proc'[w].bad = {}
      /\ \A v \in Workers \ {w} : proc'[v] = proc[v]
  BY <1>1 DEF Local, TypeOK
<1>4. \A v \in Workers : \A i \in proc[v].todo : i \in Items /\ i \notin S
  BY <1>2, HeldNotClaimable DEF TypeOK, Locals
<1>5. \A i \in Items : item[i].status \in Results => i \notin S
  BY <1>2, DecidedNotClaimable
<1>6. HeldIsNotClaimable'
  <2>1. \A i \in S : /\ item'[i].status = "processing" /\ item'[i].lease = "live"
                     /\ item'[i].workerId = w
    BY <1>1, <1>2 DEF ItemRow
  <2>2. \A v \in Workers \ {w} : \A i \in proc[v].todo : item'[i] = item[i]
    BY <1>1, <1>4
  <2>3. QED
    BY <1>3, <2>1, <2>2 DEF Safe, HeldIsNotClaimable
<1>7. ClaimsAreExclusive'
  BY <1>3, <1>4 DEF Safe, ClaimsAreExclusive
<1>8. \A i \in Items, r \in Results : Stands(i, r) => Stands(i, r)'
  BY <1>1, <1>3, <1>5 DEF Stands
<1>9. DecidedStands'
  BY <1>3, <1>8 DEF Safe, DecidedStands, Results, TypeOK, Locals, Claim
<1>10. DecidedOnce' /\ CountersExact'
  BY <1>3 DEF Safe, DecidedOnce, CountersExact, Claim
<1>11. QED
  BY <1>6, <1>7, <1>9, <1>10 DEF Safe

\* Only the row of a held item changes, and it stays held: marking it, or an attempt
\* whose result did not come back.
LEMMA SafeTouch ==
  ASSUME TypeOK, Safe, NEW w \in Workers, NEW c \in proc[w].todo,
         \A i \in Items : i # c => item'[i] = item[i],
         item'[c].status \in {"processing", "completed"},
         item'[c].lease = "none" \/ (item'[c].lease = item[c].lease
                                     /\ item'[c].workerId = item[c].workerId),
         \A v \in Workers : /\ proc'[v].todo = proc[v].todo
                           /\ proc'[v].done = proc[v].done
                           /\ proc'[v].bad = proc[v].bad,
         UNCHANGED <<job, counted>>
  PROVE  Safe'
<1>1. \A v \in Workers : v # w => c \notin proc[v].todo
  BY DEF Safe, ClaimsAreExclusive
<1>2. HeldIsNotClaimable'
  BY <1>1 DEF Safe, HeldIsNotClaimable, TypeOK, Locals
<1>3. \A i \in Items, r \in Results : Stands(i, r) => Stands(i, r)'
  BY DEF Stands
<1>4. DecidedStands'
  BY <1>3 DEF Safe, DecidedStands, Results, TypeOK, Locals
<1>5. ClaimsAreExclusive' /\ DecidedOnce' /\ CountersExact'
  BY DEF Safe, ClaimsAreExclusive, DecidedOnce, CountersExact
<1>6. QED
  BY <1>2, <1>4, <1>5 DEF Safe

LEMMA SafeMark ==
  ASSUME TypeOK, Safe, NEW w \in Workers, MarkProcessing(w)
  PROVE  Safe'
<1>1. PICK c \in proc[w].todo :
        /\ item' = [item EXCEPT ![c].status = "processing"]
        /\ proc' = [proc EXCEPT ![w] = [proc[w] EXCEPT !.pc = "write", !.cur = c,
                                                       !.attempt = proc[w].attempt + 1]]
  BY DEF MarkProcessing
<1>2. c \in Items
  BY DEF TypeOK, Locals
<1>3. /\ item'[c].status = "processing"
      /\ item'[c].lease = item[c].lease /\ item'[c].workerId = item[c].workerId
      /\ \A i \in Items : i # c => item'[i] = item[i]
  BY <1>1, <1>2 DEF TypeOK, ItemRows
<1>4. \A v \in Workers : /\ proc'[v].todo = proc[v].todo
                         /\ proc'[v].done = proc[v].done
                         /\ proc'[v].bad = proc[v].bad
  BY <1>1 DEF TypeOK, Locals
<1>5. QED
  BY <1>3, <1>4, SafeTouch DEF MarkProcessing

LEMMA SafeAttemptFails ==
  ASSUME TypeOK, Safe, CurrentIsHeld, NEW w \in Workers, AttemptFails(w)
  PROVE  Safe'
<1> DEFINE c == proc[w].cur
<1>1. c \in proc[w].todo /\ c \in Items
  BY DEF AttemptFails, At, CurrentIsHeld, TypeOK, Locals
<1>2. \A v \in Workers : /\ proc'[v].todo = proc[v].todo
                         /\ proc'[v].done = proc[v].done
                         /\ proc'[v].bad = proc[v].bad
  BY DEF AttemptFails, Goto, TypeOK, Locals
<1>3. CASE item' = item
  BY <1>1, <1>2, <1>3, SafeTouch DEF AttemptFails, Safe, HeldIsNotClaimable
<1>4. CASE item' = [item EXCEPT ![c] = ItemRow("completed", "none", NoWorker)]
  <2>1. /\ item'[c].status = "completed" /\ item'[c].lease = "none"
        /\ \A i \in Items : i # c => item'[i] = item[i]
    BY <1>1, <1>4 DEF ItemRow, TypeOK
  <2>2. QED
    BY <1>1, <1>2, <2>1, SafeTouch DEF AttemptFails
<1>5. QED
  BY <1>3, <1>4 DEF AttemptFails

\* An item is decided: its row, its holder and the debt of the holder change together.
LEMMA SafeDecide ==
  ASSUME TypeOK, Safe, NEW w \in Workers, NEW c \in proc[w].todo, NEW r \in Results,
         item'[c].status = r,
         \A i \in Items : i # c => item'[i] = item[i],
         proc'[w].todo = proc[w].todo \ {c},
         proc'[w].done = IF r = "completed" THEN proc[w].done \cup {c} ELSE proc[w].done,
         proc'[w].bad = IF r = "failed" THEN proc[w].bad \cup {c} ELSE proc[w].bad,
         \A v \in Workers \ {w} : proc'[v] = proc[v],
         UNCHANGED <<job, counted>>
  PROVE  Safe'
<1>1. \A v \in Workers : v # w => c \notin proc[v].todo
  BY DEF Safe, ClaimsAreExclusive
<1>2. /\ \A v \in Workers : c \notin proc[v].done /\ c \notin proc[v].bad
      /\ \A q \in Results : c \notin counted[q]
  BY DEF Safe, DecidedStands, Stands
<1>3. \A v \in Workers : proc'[v].todo \subseteq proc[v].todo /\ c \notin proc'[v].todo
  BY <1>1
<1>4. HeldIsNotClaimable'
  BY <1>3 DEF Safe, HeldIsNotClaimable, TypeOK, Locals
<1>5. ClaimsAreExclusive'
  BY <1>3 DEF Safe, ClaimsAreExclusive
<1>6. DecidedStands'
  <2>1. Stands(c, r)'
    BY <1>3 DEF Stands
  <2>2. \A i \in Items, q \in Results : Stands(i, q) => Stands(i, q)'
    BY <1>3 DEF Stands
  <2>3. \A v \in Workers : /\ \A i \in proc'[v].done : Stands(i, "completed")'
                           /\ \A i \in proc'[v].bad : Stands(i, "failed")'
    BY <2>1, <2>2 DEF Safe, DecidedStands, TypeOK, Locals, Results
  <2>4. \A q \in Results : \A i \in counted[q] : Stands(i, q)'
    BY <2>2 DEF Safe, DecidedStands, TypeOK
  <2>5. QED
    BY <2>3, <2>4 DEF DecidedStands
<1>7. DecidedOnce'
  BY <1>2 DEF Safe, DecidedOnce, Results
<1>8. CountersExact'
  BY DEF Safe, CountersExact
<1>9. QED
  BY <1>4, <1>5, <1>6, <1>7, <1>8 DEF Safe

\* What AfterItem leaves the invocation with.
LEMMA AfterItemEffect ==
  ASSUME TypeOK, NEW w \in Workers, NEW done, NEW bad, AfterItem(w, done, bad)
  PROVE  /\ proc'[w].todo = proc[w].todo \ {proc[w].cur}
         /\ proc'[w].done = done /\ proc'[w].bad = bad
         /\ \A v \in Workers \ {w} : proc'[v] = proc[v]
  BY DEF AfterItem, TypeOK, Locals

LEMMA SafeComplete ==
  ASSUME TypeOK, Safe, CurrentIsHeld, NEW w \in Workers, CompleteItem(w)
  PROVE  Safe'
<1> DEFINE c == proc[w].cur
<1>1. c \in proc[w].todo /\ c \in Items
  BY DEF CompleteItem, At, CurrentIsHeld, TypeOK, Locals
<1>2. /\ item'[c].status = "completed"
      /\ \A i \in Items : i # c => item'[i] = item[i]
  BY <1>1 DEF CompleteItem, ItemRow, TypeOK
<1>3. /\ proc'[w].todo = proc[w].todo \ {c}
      /\ proc'[w].done = proc[w].done \cup {c} /\ proc'[w].bad = proc[w].bad
      /\ \A v \in Workers \ {w} : proc'[v] = proc[v]
  BY AfterItemEffect DEF CompleteItem
<1>4. QED
  BY <1>1, <1>2, <1>3, SafeDecide DEF CompleteItem, Results

LEMMA SafeFail ==
  ASSUME TypeOK, Safe, CurrentIsHeld, NEW w \in Workers, FailItem(w)
  PROVE  Safe'
<1> DEFINE c == proc[w].cur
<1>1. c \in proc[w].todo /\ c \in Items
  BY DEF FailItem, At, CurrentIsHeld, TypeOK, Locals
<1>2. /\ item'[c].status = "failed"
      /\ \A i \in Items : i # c => item'[i] = item[i]
  BY <1>1 DEF FailItem, ItemRow, TypeOK
<1>3. /\ proc'[w].todo = proc[w].todo \ {c}
      /\ proc'[w].done = proc[w].done /\ proc'[w].bad = proc[w].bad \cup {c}
      /\ \A v \in Workers \ {w} : proc'[v] = proc[v]
  BY AfterItemEffect DEF FailItem
<1>4. QED
  BY <1>1, <1>2, <1>3, SafeDecide DEF FailItem, Results

\* Disjoint sets of items are counted one after the other.
LEMMA DisjointUnion ==
  ASSUME NEW S \in SUBSET Items, NEW T \in SUBSET Items, S \cap T = {}
  PROVE  Cardinality(S \cup T) = Cardinality(S) + Cardinality(T)
<1>1. IsFiniteSet(S) /\ IsFiniteSet(T) /\ Cardinality(S) \in Nat /\ Cardinality(T) \in Nat
  BY SubsetFinite
<1>2. Cardinality(S \cup T) = Cardinality(S) + Cardinality(T) - Cardinality(S \cap T)
  BY <1>1, FS_Union
<1>3. Cardinality(S \cap T) = 0
  BY FS_EmptySet
<1>4. QED
  BY <1>1, <1>2, <1>3

LEMMA SafeCountCompleted ==
  ASSUME TypeOK, Safe, NEW w \in Workers, CountCompleted(w)
  PROVE  Safe'
<1>1. /\ proc'[w].todo = proc[w].todo /\ proc'[w].done = {} /\ proc'[w].bad = proc[w].bad
      /\ \A v \in Workers \ {w} : proc'[v] = proc[v]
  BY DEF CountCompleted, TypeOK, Locals
<1>2. /\ counted'["completed"] = counted["completed"] \cup proc[w].done
      /\ counted'["failed"] = counted["failed"]
  BY DEF CountCompleted, TypeOK, Results
<1>3. /\ job'.completed = job.completed + Cardinality(proc[w].done)
      /\ job'.failed = job.failed
  BY DEF CountCompleted, TypeOK, JobRows
<1>4. HeldIsNotClaimable' /\ ClaimsAreExclusive'
  BY <1>1 DEF Safe, HeldIsNotClaimable, ClaimsAreExclusive, CountCompleted
<1>5. DecidedStands'
  <2>1. \A i \in Items, q \in Results : Stands(i, q) => Stands(i, q)'
    BY <1>1 DEF Stands, CountCompleted
  <2>2. \A v \in Workers : /\ \A i \in proc'[v].done : Stands(i, "completed")'
                           /\ \A i \in proc'[v].bad : Stands(i, "failed")'
    BY <1>1, <2>1 DEF Safe, DecidedStands, TypeOK, Locals, Results
  <2>3. \A i \in counted'["completed"] : Stands(i, "completed")'
    BY <1>2, <2>1 DEF Safe, DecidedStands, TypeOK, Locals, Results
  <2>4. \A i \in counted'["failed"] : Stands(i, "failed")'
    BY <1>2, <2>1 DEF Safe, DecidedStands, TypeOK, Locals, Results
  <2>5. QED
    BY <2>2, <2>3, <2>4 DEF DecidedStands, Results
<1>6. DecidedOnce'
  BY <1>1, <1>2 DEF Safe, DecidedOnce
<1>7. CountersExact'
  <2>1. /\ counted["completed"] \in SUBSET Items /\ proc[w].done \in SUBSET Items
        /\ counted["completed"] \cap proc[w].done = {}
    BY DEF TypeOK, Locals, Results, Safe, DecidedOnce
  <2>2. Cardinality(counted'["completed"])
          = Cardinality(counted["completed"]) + Cardinality(proc[w].done)
    BY <1>2, <2>1, DisjointUnion
  <2>3. QED
    BY <1>2, <1>3, <2>2 DEF Safe, CountersExact
<1>8. QED
  BY <1>4, <1>5, <1>6, <1>7 DEF Safe

LEMMA SafeCountFailed ==
  ASSUME TypeOK, Safe, NEW w \in Workers, CountFailed(w)
  PROVE  Safe'
<1>1. /\ proc'[w].todo = proc[w].todo /\ proc'[w].done = proc[w].done /\ proc'[w].bad = {}
      /\ \A v \in Workers \ {w} : proc'[v] = proc[v]
  BY DEF CountFailed, TypeOK, Locals
<1>2. /\ counted'["failed"] = counted["failed"] \cup proc[w].bad
      /\ counted'["completed"] = counted["completed"]
  BY DEF CountFailed, TypeOK, Results
<1>3. /\ job'.failed = job.failed + Cardinality(proc[w].bad)
      /\ job'.completed = job.completed
  BY DEF CountFailed, TypeOK, JobRows
<1>4. HeldIsNotClaimable' /\ ClaimsAreExclusive'
  BY <1>1 DEF Safe, HeldIsNotClaimable, ClaimsAreExclusive, CountFailed
<1>5. DecidedStands'
  <2>1. \A i \in Items, q \in Results : Stands(i, q) => Stands(i, q)'
    BY <1>1 DEF Stands, CountFailed
  <2>2. \A v \in Workers : /\ \A i \in proc'[v].done : Stands(i, "completed")'
                           /\ \A i \in proc'[v].bad : Stands(i, "failed")'
    BY <1>1, <2>1 DEF Safe, DecidedStands, TypeOK, Locals, Results
  <2>3. \A i \in counted'["failed"] : Stands(i, "failed")'
    BY <1>2, <2>1 DEF Safe, DecidedStands, TypeOK, Locals, Results
  <2>4. \A i \in counted'["completed"] : Stands(i, "completed")'
    BY <1>2, <2>1 DEF Safe, DecidedStands, TypeOK, Locals, Results
  <2>5. QED
    BY <2>2, <2>3, <2>4 DEF DecidedStands, Results
<1>6. DecidedOnce'
  BY <1>1, <1>2 DEF Safe, DecidedOnce
<1>7. CountersExact'
  <2>1. /\ counted["failed"] \in SUBSET Items /\ proc[w].bad \in SUBSET Items
        /\ counted["failed"] \cap proc[w].bad = {}
    BY DEF TypeOK, Locals, Results, Safe, DecidedOnce
  <2>2. Cardinality(counted'["failed"])
          = Cardinality(counted["failed"]) + Cardinality(proc[w].bad)
    BY <1>2, <2>1, DisjointUnion
  <2>3. QED
    BY <1>2, <1>3, <2>2 DEF Safe, CountersExact
<1>8. QED
  BY <1>4, <1>5, <1>6, <1>7 DEF Safe

\* When the clock passes the lease of an invocation, it has no item of the chunk left.
LeaseOutlasts == \A w \in Workers : ExpireLease(w) => proc[w].todo = {}

\* The timing assumption of the claim: 120 s suffice for every chunk of the behavior.  It
\* speaks of the clock only, whatever LeaseLapse allows it.
LeasesOutlastRuns == [][LeaseOutlasts]_vars

\* The one place where the assumption about leases is used.
LEMMA SafeExpire ==
  ASSUME TypeOK, Safe, CurrentIsHeld, LeaseOutlasts, NEW o \in Workers, ExpireLease(o)
  PROVE  Safe'
<1>1. proc[o].todo = {}
  BY DEF LeaseOutlasts
<1>2. \A v \in Workers : \A i \in proc[v].todo : i \in Items /\ item'[i] = item[i]
  <2> SUFFICES ASSUME NEW v \in Workers, NEW i \in proc[v].todo
               PROVE  i \in Items /\ item'[i] = item[i]
    OBVIOUS
  <2>1. i \in Items /\ v # o
    BY <1>1 DEF TypeOK, Locals
  <2>2. ~(item[i].lease = "live" /\ item[i].workerId = o)
    BY <2>1 DEF Safe, HeldIsNotClaimable
  <2>3. QED
    BY <2>1, <2>2 DEF ExpireLease
<1>3. \A i \in Items : item'[i].status = item[i].status
  BY DEF ExpireLease, TypeOK, ItemRows
<1>a. proc' = proc
  BY DEF ExpireLease
<1>4. HeldIsNotClaimable'
  BY <1>2, <1>a DEF Safe, HeldIsNotClaimable
<1>5. \A i \in Items, q \in Results : Stands(i, q) => Stands(i, q)'
  BY <1>3 DEF Stands, ExpireLease
<1>6. DecidedStands'
  BY <1>5 DEF Safe, DecidedStands, TypeOK, Locals, Results, ExpireLease
<1>7. ClaimsAreExclusive' /\ DecidedOnce' /\ CountersExact'
  BY DEF Safe, ClaimsAreExclusive, DecidedOnce, CountersExact, ExpireLease
<1>8. QED
  BY <1>4, <1>6, <1>7 DEF Safe

LEMMA SafeProcess ==
  ASSUME TypeOK, Safe, CurrentIsHeld, NEW w \in Workers, Process(w)
  PROVE  Safe'
<1>1. CASE ReadJob(w)
  <2>1. CASE Return(w)
    BY <1>1, <2>1, SafeReset DEF ReadJob, Return
  <2>2. CASE Goto(w, "start")
    BY <1>1, <2>2, SafeGoto DEF ReadJob
  <2>3. QED
    BY <1>1, <2>1, <2>2 DEF ReadJob
<1>2. CASE StartJob(w)
  <2>1. job'.completed = job.completed /\ job'.failed = job.failed
    BY <1>2 DEF StartJob, TypeOK, JobRows
  <2>2. QED
    BY <1>2, <2>1, SafeGoto DEF StartJob
<1>3. CASE CheckCanceled(w)
  <2>1. CASE Return(w)
    BY <1>3, <2>1, SafeReset DEF CheckCanceled, Return
  <2>2. CASE Goto(w, "release")
    BY <1>3, <2>2, SafeGoto DEF CheckCanceled
  <2>3. QED
    BY <1>3, <2>1, <2>2 DEF CheckCanceled
<1>4. CASE RecheckCanceled(w)
  <2>1. CASE Return(w)
    BY <1>4, <2>1, SafeReset DEF RecheckCanceled, Return
  <2>2. CASE Goto(w, "final")
    BY <1>4, <2>2, SafeGoto DEF RecheckCanceled
  <2>3. QED
    BY <1>4, <2>1, <2>2 DEF RecheckCanceled
<1>5. CASE ReadFinal(w)
  <2>1. CASE Return(w)
    BY <1>5, <2>1, SafeReset DEF ReadFinal, Return
  <2>2. CASE proc' = [proc EXCEPT ![w] = [proc[w] EXCEPT !.pc = "settle",
                                                         !.verdict = Verdict]]
    <3>1. \A v \in Workers : /\ proc'[v].todo = proc[v].todo
                             /\ proc'[v].done = proc[v].done
                             /\ proc'[v].bad = proc[v].bad
      BY <2>2 DEF TypeOK, Locals
    <3>2. QED
      BY <1>5, <3>1, SafeShrink DEF ReadFinal
  <2>3. QED
    BY <1>5, <2>1, <2>2 DEF ReadFinal
<1>6. CASE Settle(w)
  <2>1. job'.completed = job.completed /\ job'.failed = job.failed
    BY <1>6 DEF Settle, TypeOK, JobRows
  <2>2. QED
    BY <1>6, <2>1, SafeReset DEF Settle, Return
<1>7. QED
  BY <1>1, <1>2, <1>3, <1>4, <1>5, <1>6, SafeRelease, SafeClaim, SafeMark, SafeComplete,
     SafeAttemptFails, SafeFail, SafeCountCompleted, SafeCountFailed DEF Process

LEMMA SafeStep ==
  ASSUME TypeOK, Safe, CurrentIsHeld, [Next]_vars, [LeaseOutlasts]_vars
  PROVE  Safe'
<1>1. CASE /\ UNCHANGED <<item, counted, proc>>
           /\ job'.completed = job.completed /\ job'.failed = job.failed
  BY <1>1, SafeShrink
<1>2. CASE Create \/ Enqueue \/ EnqueueLost \/ Cancel \/ Stall
  <2>1. job'.completed = job.completed /\ job'.failed = job.failed
    BY <1>2 DEF Create, Enqueue, EnqueueLost, Cancel, Stall, TypeOK, JobRows
  <2>2. QED
    BY <1>1, <1>2, <2>1 DEF Create, Enqueue, EnqueueLost, Cancel, Stall
<1>3. ASSUME NEW w \in Workers, RunInline(w) \/ Pick(w) \/ Reject(w) \/ Crash(w)
      PROVE  Safe'
  <2>1. PICK pc \in {"read", "ended", "crashed"} : proc' = [proc EXCEPT ![w] = Local(pc)]
    BY <1>3 DEF RunInline, Pick, Reject, Crash
  <2>2. UNCHANGED <<item, counted, job>>
    BY <1>3 DEF RunInline, Pick, Reject, Crash
  <2>3. QED
    BY <2>1, <2>2, SafeReset
<1>4. CASE UNCHANGED vars
  BY <1>1, <1>4 DEF vars
<1>5. CASE Next /\ ~UNCHANGED vars
  BY <1>2, <1>3, <1>5, SafeProcess, SafeExpire DEF Next
<1>6. QED
  BY <1>4, <1>5

\* The strengthening that makes exclusive claims and exact counters inductive, when every
\* lease outlasts the work on its chunk.
THEOREM Inductive == Spec /\ LeasesOutlastRuns => []IInv
<1>1. Init => IInv
  BY TypeInit, CurrentInit, SafeInit DEF IInv
<1>2. IInv /\ [Next]_vars /\ [LeaseOutlasts]_vars => IInv'
  BY TypeStep, CurrentStep, SafeStep DEF IInv
<1>3. QED
  BY <1>1, <1>2, PTL DEF Spec, LeasesOutlastRuns

\* The assumption holds of every behavior in which only the leases of invocations that no
\* longer run lapse, those that crashed and those whose call rejected.
THEOREM LeasesOutlast == ~LeaseLapse => (Spec => LeasesOutlastRuns)
<1> SUFFICES ASSUME ~LeaseLapse PROVE Spec => LeasesOutlastRuns
  OBVIOUS
<1>1. Init => TypeOK /\ CurrentIsHeld
  BY TypeInit, CurrentInit
<1>2. TypeOK /\ CurrentIsHeld /\ [Next]_vars => (TypeOK /\ CurrentIsHeld)'
  BY TypeStep, CurrentStep
<1>3. CurrentIsHeld => LeaseOutlasts
  BY DEF LeaseOutlasts, ExpireLease, CurrentIsHeld, Running, Labels
<1>4. QED
  BY <1>1, <1>2, <1>3, PTL DEF Spec, LeasesOutlastRuns

\* Leases that outlast the runs make claims exclusive, for any number of invocations,
\* items, retries, crashes and lost locks.
THEOREM ExclusiveClaims == Spec /\ LeasesOutlastRuns => []ClaimsAreExclusive
<1>1. IInv => ClaimsAreExclusive
  BY DEF IInv, Safe
<1>2. QED
  BY <1>1, Inductive, PTL

\* Under the same assumption the progress counters are exactly the decided items they
\* include, whatever was retried or lost on the way.
THEOREM CountersCorrect == Spec /\ LeasesOutlastRuns => []CountersMatchItems
<1>1. IInv => CountersMatchItems
  <2> SUFFICES ASSUME IInv, NEW r \in Results
               PROVE  /\ job[r] = Cardinality(counted[r])
                      /\ counted[r] \subseteq {i \in Items : item[i].status = r}
    BY DEF CountersMatchItems
  <2>1. job[r] = Cardinality(counted[r])
    BY DEF IInv, Safe, CountersExact, Results
  <2>2. counted[r] \subseteq {i \in Items : item[i].status = r}
    BY DEF IInv, TypeOK, Safe, DecidedStands, Stands
  <2>3. QED
    BY <2>1, <2>2
<1>2. QED
  BY <1>1, Inductive, PTL

\* The progress bar never exceeds the size of the job: the cap that
\* toConsoleBatchJobRow puts on it is never needed.
ProgressIsBounded == job.completed + job.failed <= Cardinality(Items)

THEOREM ProgressBounded == Spec /\ LeasesOutlastRuns => []ProgressIsBounded
<1>1. IInv => ProgressIsBounded
  <2> SUFFICES ASSUME IInv PROVE ProgressIsBounded
    OBVIOUS
  <2> DEFINE C == counted["completed"]
             F == counted["failed"]
  <2>1. C \in SUBSET Items /\ F \in SUBSET Items
    BY DEF IInv, TypeOK, Results
  <2>2. C \cap F = {}
    BY DEF IInv, Safe, DecidedStands, Stands, Results
  <2>3. Cardinality(C \cup F) = Cardinality(C) + Cardinality(F)
    BY <2>1, <2>2, DisjointUnion
  <2>4. Cardinality(C \cup F) <= Cardinality(Items)
    BY <2>1, BatchAssumption, FS_Subset
  <2>5. QED
    BY <2>3, <2>4 DEF IInv, Safe, CountersExact, ProgressIsBounded
<1>2. QED
  BY <1>1, Inductive, PTL

----------------------------------------------------------------------------
(* The refinement of BatchLedger.                                          *)

\* Of the items an invocation holds only the current one may be decided already, by a
\* write whose reply was lost.
OnlyCurrentDecided ==
  \A w \in Workers : \A i \in proc[w].todo :
    i # proc[w].cur => item[i].status = "processing"

\* A step that changes the status of no held item and makes no invocation hold more.
LEMMA OnlyShrink ==
  ASSUME OnlyCurrentDecided,
         \A v \in Workers : \A i \in proc'[v].todo : /\ i \in proc[v].todo
                                                    /\ proc'[v].cur = proc[v].cur
                                                    /\ item'[i].status = item[i].status
  PROVE  OnlyCurrentDecided'
  BY DEF OnlyCurrentDecided

LEMMA OnlyReset ==
  ASSUME TypeOK, OnlyCurrentDecided, NEW w \in Workers, NEW pc, item' = item,
         proc' = [proc EXCEPT ![w] = Local(pc)]
  PROVE  OnlyCurrentDecided'
  BY OnlyShrink DEF TypeOK, Local

LEMMA OnlyGoto ==
  ASSUME TypeOK, OnlyCurrentDecided, NEW w \in Workers, NEW l, item' = item, Goto(w, l)
  PROVE  OnlyCurrentDecided'
<1>1. \A v \in Workers : proc'[v].todo = proc[v].todo /\ proc'[v].cur = proc[v].cur
  BY DEF Goto, TypeOK, Locals
<1>2. QED
  BY <1>1, OnlyShrink

\* The item is decided and let go: the rest of the chunk is as it was.
LEMMA OnlyDecide ==
  ASSUME TypeOK, Safe, OnlyCurrentDecided, NEW w \in Workers, NEW done, NEW bad,
         proc[w].cur \in proc[w].todo,
         \A i \in Items : i # proc[w].cur => item'[i] = item[i],
         AfterItem(w, done, bad)
  PROVE  OnlyCurrentDecided'
<1>1. /\ proc'[w].todo = proc[w].todo \ {proc[w].cur}
      /\ \A v \in Workers \ {w} : proc'[v] = proc[v]
  BY AfterItemEffect
<1>2. \A v \in Workers \ {w} : proc[w].cur \notin proc[v].todo
  BY DEF Safe, ClaimsAreExclusive
<1>3. \A v \in Workers : \A i \in proc[v].todo : i \in Items
  BY DEF TypeOK, Locals
<1>4. QED
  BY <1>1, <1>2, <1>3 DEF OnlyCurrentDecided

LEMMA OnlyProcess ==
  ASSUME TypeOK, Safe, CurrentIsHeld, OnlyCurrentDecided, NEW w \in Workers, Process(w)
  PROVE  OnlyCurrentDecided'
<1>1. CASE ReadJob(w) \/ CheckCanceled(w) \/ RecheckCanceled(w)
  <2>1. CASE Return(w)
    BY <1>1, <2>1, OnlyReset DEF Return, ReadJob, CheckCanceled, RecheckCanceled
  <2>2. ASSUME NEW l \in Labels, Goto(w, l) PROVE OnlyCurrentDecided'
    BY <1>1, <2>2, OnlyGoto DEF ReadJob, CheckCanceled, RecheckCanceled
  <2>3. QED
    BY <1>1, <2>1, <2>2 DEF ReadJob, CheckCanceled, RecheckCanceled, Labels
<1>2. CASE StartJob(w)
  BY <1>2, OnlyGoto DEF StartJob
<1>3. CASE ReleaseExpired(w)
  <2>1. \A v \in Workers : proc'[v].todo = proc[v].todo /\ proc'[v].cur = proc[v].cur
    BY <1>3 DEF ReleaseExpired, Goto, TypeOK, Locals
  <2>2. \A v \in Workers : \A i \in proc[v].todo : i \in Items /\ item'[i] = item[i]
    BY <1>3, HeldNotClaimable DEF ReleaseExpired, TypeOK, Locals
  <2>3. QED
    BY <2>1, <2>2, OnlyShrink
<1>4. CASE Claim(w)
  <2>1. PICK S \in Chunks :
          /\ item' = [i \in Items |-> IF i \in S THEN ItemRow("processing", "live", w)
                                                 ELSE item[i]]
          /\ proc' = [proc EXCEPT ![w] = IF S = {} THEN Local("recheck")
                                         ELSE [Local("mark") EXCEPT !.todo = S]]
    BY <1>4 DEF Claim
  <2>2. \A i \in S : i \in Items /\ Claimable(i) /\ item'[i].status = "processing"
    BY <2>1 DEF Chunks, ItemRow
  <2>3. \A v \in Workers : \A i \in proc[v].todo : i \in Items /\ item'[i] = item[i]
    BY <2>1, <2>2, HeldNotClaimable DEF TypeOK, Locals
  <2>4. proc'[w].todo = S /\ \A v \in Workers \ {w} : proc'[v] = proc[v]
    BY <2>1 DEF Local, TypeOK
  <2>5. QED
    BY <2>2, <2>3, <2>4 DEF OnlyCurrentDecided
<1>5. CASE MarkProcessing(w)
  <2>1. PICK c \in proc[w].todo :
          /\ proc[w].cur \in {c, NoItem}
          /\ item' = [item EXCEPT ![c].status = "processing"]
          /\ proc' = [proc EXCEPT ![w] = [proc[w] EXCEPT !.pc = "write", !.cur = c,
                                                         !.attempt = proc[w].attempt + 1]]
    BY <1>5 DEF MarkProcessing
  <2>2. /\ proc'[w].todo = proc[w].todo /\ proc'[w].cur = c
        /\ \A v \in Workers \ {w} : proc'[v] = proc[v]
    BY <2>1 DEF TypeOK, Locals
  <2>3. \A i \in Items : i # c => item'[i] = item[i]
    BY <2>1 DEF TypeOK
  <2>4. \A v \in Workers \ {w} : c \notin proc[v].todo
    BY DEF Safe, ClaimsAreExclusive
  <2>5. \A v \in Workers : \A i \in proc[v].todo : i \in Items /\ i # NoItem
    BY BatchAssumption DEF TypeOK, Locals
  <2>6. QED
    BY <2>1, <2>2, <2>3, <2>4, <2>5 DEF OnlyCurrentDecided
<1>6. CASE CompleteItem(w)
  <2>1. proc[w].cur \in proc[w].todo
    BY <1>6 DEF CompleteItem, At, CurrentIsHeld
  <2>2. \A i \in Items : i # proc[w].cur => item'[i] = item[i]
    BY <1>6 DEF CompleteItem, TypeOK
  <2>3. QED
    BY <1>6, <2>1, <2>2, OnlyDecide DEF CompleteItem
<1>7. CASE FailItem(w)
  <2>1. proc[w].cur \in proc[w].todo
    BY <1>7 DEF FailItem, At, CurrentIsHeld
  <2>2. \A i \in Items : i # proc[w].cur => item'[i] = item[i]
    BY <1>7 DEF FailItem, TypeOK
  <2>3. QED
    BY <1>7, <2>1, <2>2, OnlyDecide DEF FailItem
<1>8. CASE AttemptFails(w)
  <2>1. \A v \in Workers : proc'[v].todo = proc[v].todo /\ proc'[v].cur = proc[v].cur
    BY <1>8 DEF AttemptFails, Goto, TypeOK, Locals
  <2>2. \A i \in Items : i # proc[w].cur => item'[i] = item[i]
    BY <1>8 DEF AttemptFails, TypeOK
  <2>3. proc[w].cur \in proc[w].todo
    BY <1>8 DEF AttemptFails, At, CurrentIsHeld
  <2>4. \A v \in Workers \ {w} : proc[w].cur \notin proc[v].todo
    BY <2>3 DEF Safe, ClaimsAreExclusive
  <2>5. \A v \in Workers : \A i \in proc[v].todo : i \in Items
    BY DEF TypeOK, Locals
  <2>6. QED
    BY <2>1, <2>2, <2>4, <2>5 DEF OnlyCurrentDecided
<1>9. CASE CountCompleted(w) \/ CountFailed(w)
  <2>a. proc[w] \in Locals /\ \A v \in Workers \ {w} : proc'[v] = proc[v]
    BY <1>9 DEF CountCompleted, CountFailed, TypeOK
  <2>1. \A v \in Workers : proc'[v].todo = proc[v].todo /\ proc'[v].cur = proc[v].cur
    <3>1. proc'[w].todo = proc[w].todo /\ proc'[w].cur = proc[w].cur
      <4>1. CASE CountCompleted(w)
        BY <2>a, <4>1 DEF CountCompleted, TypeOK, Locals
      <4>2. CASE CountFailed(w)
        BY <2>a, <4>2 DEF CountFailed, TypeOK, Locals
      <4>3. QED
        BY <1>9, <4>1, <4>2
    <3>2. QED
      BY <2>a, <3>1
  <2>2. QED
    BY <1>9, <2>1, OnlyShrink DEF CountCompleted, CountFailed
<1>10. CASE ReadFinal(w)
  <2>1. CASE Return(w)
    BY <1>10, <2>1, OnlyReset DEF Return, ReadFinal
  <2>2. CASE proc' = [proc EXCEPT ![w] = [proc[w] EXCEPT !.pc = "settle",
                                                         !.verdict = Verdict]]
    <3>1. \A v \in Workers : proc'[v].todo = proc[v].todo /\ proc'[v].cur = proc[v].cur
      BY <2>2 DEF TypeOK, Locals
    <3>2. QED
      BY <1>10, <3>1, OnlyShrink DEF ReadFinal
  <2>3. QED
    BY <1>10, <2>1, <2>2 DEF ReadFinal
<1>11. CASE Settle(w)
  BY <1>11, OnlyReset DEF Settle, Return
<1>12. QED
  BY <1>1, <1>2, <1>3, <1>4, <1>5, <1>6, <1>7, <1>8, <1>9, <1>10, <1>11 DEF Process

LEMMA OnlyStep ==
  ASSUME IInv, OnlyCurrentDecided, [Next]_vars
  PROVE  OnlyCurrentDecided'
<1> USE DEF IInv
<1>1. CASE UNCHANGED <<item, proc>>
  BY <1>1, OnlyShrink
<1>2. ASSUME NEW w \in Workers, RunInline(w) \/ Pick(w) \/ Reject(w) \/ Crash(w)
      PROVE  OnlyCurrentDecided'
  <2>1. PICK pc \in {"read", "ended", "crashed"} : proc' = [proc EXCEPT ![w] = Local(pc)]
    BY <1>2 DEF RunInline, Pick, Reject, Crash
  <2>2. QED
    BY <1>2, <2>1, OnlyReset DEF RunInline, Pick, Reject, Crash
<1>3. ASSUME NEW w \in Workers, ExpireLease(w) PROVE OnlyCurrentDecided'
  <2>1. \A i \in Items : item'[i].status = item[i].status
    BY <1>3 DEF ExpireLease, TypeOK, ItemRows
  <2>2. \A v \in Workers : \A i \in proc[v].todo : i \in Items
    BY DEF TypeOK, Locals
  <2>3. proc' = proc
    BY <1>3 DEF ExpireLease
  <2>4. QED
    BY <2>1, <2>2, <2>3, OnlyShrink
<1>4. QED
  BY <1>1, <1>2, <1>3, OnlyProcess
  DEF Next, vars, Create, Enqueue, EnqueueLost, Cancel, Stall

\* The ledger does not see a step that leaves the decisions and the counters alone.
LEMMA LedgerStutters ==
  ASSUME Outcome' = Outcome, counted' = counted,
         job'.completed = job.completed, job'.failed = job.failed
  PROVE  UNCHANGED Ledger!ledgerVars
<1>1. [r \in Results |-> job[r]]' = [r \in Results |-> job[r]]
  BY DEF Results
<1>2. QED
  BY <1>1 DEF Ledger!ledgerVars

\* An item keeps its outcome when its status stays and it is held as before, when it is
\* undecided in both states, or when it is held in both.
LEMMA SameOutcome ==
  ASSUME \A i \in Items :
           \/ /\ item'[i].status = item[i].status
              /\ \A v \in Workers : i \in proc'[v].todo <=> i \in proc[v].todo
           \/ item[i].status \notin Results /\ item'[i].status \notin Results
           \/ /\ \E v \in Workers : i \in proc[v].todo
              /\ \E v \in Workers : i \in proc'[v].todo
  PROVE  Outcome' = Outcome
<1>1. \A i \in Items :
        (item'[i].status \in Results /\ \A v \in Workers : i \notin proc'[v].todo)
          <=> (item[i].status \in Results /\ \A v \in Workers : i \notin proc[v].todo)
  OBVIOUS
<1>2. \A i \in Items :
        (item[i].status \in Results /\ \A v \in Workers : i \notin proc[v].todo)
          => item'[i].status = item[i].status
  OBVIOUS
<1>3. QED
  BY <1>1, <1>2 DEF Outcome

\* The counters, as the ledger sees them.
Tally == [r \in Results |-> job[r]]

\* One held item is let go with a result, everything else keeps its outcome.
LEMMA LedgerDecides ==
  ASSUME TypeOK, NEW w \in Workers, NEW c \in proc[w].todo, NEW r \in Results,
         item'[c].status = r,
         \A v \in Workers : c \notin proc'[v].todo,
         \A i \in Items : i # c =>
           \/ /\ item'[i].status = item[i].status
              /\ \A v \in Workers : i \in proc'[v].todo <=> i \in proc[v].todo
           \/ item[i].status \notin Results /\ item'[i].status \notin Results,
         UNCHANGED <<job, counted>>
  PROVE  Ledger!Next
<1>1. c \in Items
  BY DEF TypeOK, Locals
<1>2. Outcome[c] = "open" /\ Outcome'[c] = r
  BY <1>1 DEF Outcome
<1>3. \A i \in Items : i # c => Outcome'[i] = Outcome[i]
  <2> SUFFICES ASSUME NEW i \in Items, i # c PROVE Outcome'[i] = Outcome[i]
    OBVIOUS
  <2>1. CASE /\ item'[i].status = item[i].status
             /\ \A v \in Workers : i \in proc'[v].todo <=> i \in proc[v].todo
    BY <2>1 DEF Outcome
  <2>2. CASE item[i].status \notin Results /\ item'[i].status \notin Results
    BY <2>2 DEF Outcome
  <2>3. QED
    BY <2>1, <2>2
<1>4. Outcome' = [Outcome EXCEPT ![c] = r]
  <2>1. /\ Outcome = [i \in Items |-> Outcome[i]]
        /\ Outcome' = [i \in Items |-> Outcome'[i]]
    BY DEF Outcome
  <2>2. QED
    BY <1>1, <1>2, <1>3, <2>1
<1>5. Tally' = Tally
  BY DEF Tally
<1>6. Ledger!Decide(c, r)
  BY <1>2, <1>4, <1>5 DEF Ledger!Decide, Tally
<1>7. QED
  BY <1>1, <1>6 DEF Ledger!Next, Ledger!Results, Results

\* The counters add a chunk that is decided and not yet counted.
LEMMA LedgerCounts ==
  ASSUME TypeOK, NEW r \in Results, NEW S \in SUBSET Items,
         S \cap counted[r] = {}, \A i \in S : Stands(i, r),
         Outcome' = Outcome,
         counted' = [counted EXCEPT ![r] = @ \cup S],
         job' = [job EXCEPT ![r] = @ + Cardinality(S)]
  PROVE  Ledger!Next
<1>1. \A i \in S : Outcome[i] = r
  BY DEF Outcome, Stands
<1>2. Tally' = [Tally EXCEPT ![r] = @ + Cardinality(S)]
  BY DEF Tally, TypeOK, JobRows, Results
<1>3. Ledger!Count(S, r)
  BY <1>1, <1>2 DEF Ledger!Count, Tally, Ledger!Cardinality, Cardinality
<1>4. QED
  BY <1>3 DEF Ledger!Next, Ledger!Results, Results

\* An invocation that dies, or whose call rejects, lets its chunk go.  If the write of
\* the current item was applied and only its reply lost, that is its decision.
LEMMA LedgerLetsGo ==
  ASSUME TypeOK, Safe, OnlyCurrentDecided, NEW w \in Workers, NEW pc,
         UNCHANGED <<item, job, counted>>, proc' = [proc EXCEPT ![w] = Local(pc)]
  PROVE  Ledger!Next \/ UNCHANGED Ledger!ledgerVars
<1> DEFINE c == proc[w].cur
<1>1. proc'[w].todo = {} /\ \A v \in Workers \ {w} : proc'[v] = proc[v]
  BY DEF Local, TypeOK
<1>2. \A v \in Workers \ {w} : proc[v].todo \cap proc[w].todo = {}
  BY DEF Safe, ClaimsAreExclusive
<1>3. \A i \in Items \ proc[w].todo :
        \A v \in Workers : i \in proc'[v].todo <=> i \in proc[v].todo
  BY <1>1
<1>4. \A i \in proc[w].todo : i # c => item[i].status \notin Results
  BY DEF OnlyCurrentDecided, Results
<1>5. CASE c \in proc[w].todo /\ item[c].status \in Results
  <2>1. item[c].status = "completed"
    BY <1>5 DEF Safe, HeldIsNotClaimable, Results
  <2>2. \A v \in Workers : c \notin proc'[v].todo
    BY <1>1, <1>2, <1>5
  <2>3. \A i \in Items : i # c =>
          \/ /\ item'[i].status = item[i].status
             /\ \A v \in Workers : i \in proc'[v].todo <=> i \in proc[v].todo
          \/ item[i].status \notin Results /\ item'[i].status \notin Results
    BY <1>3, <1>4
  <2>4. Ledger!Next
    BY <1>5, <2>1, <2>2, <2>3, LedgerDecides DEF Results
  <2>5. QED
    BY <2>4
<1>6. CASE ~(c \in proc[w].todo /\ item[c].status \in Results)
  <2>1. \A i \in Items :
          \/ /\ item'[i].status = item[i].status
             /\ \A v \in Workers : i \in proc'[v].todo <=> i \in proc[v].todo
          \/ item[i].status \notin Results /\ item'[i].status \notin Results
    BY <1>3, <1>4, <1>6
  <2>2. QED
    BY <2>1, SameOutcome, LedgerStutters
<1>7. QED
  BY <1>5, <1>6

\* A step that touches neither the items nor what the invocations hold.
LEMMA LedgerIdles ==
  ASSUME UNCHANGED <<item, counted>>,
         job'.completed = job.completed, job'.failed = job.failed,
         \A v \in Workers : proc'[v].todo = proc[v].todo
  PROVE  UNCHANGED Ledger!ledgerVars
  BY SameOutcome, LedgerStutters

LEMMA LedgerProcess ==
  ASSUME TypeOK, Safe, CurrentIsHeld, OnlyCurrentDecided, NEW w \in Workers, Process(w)
  PROVE  Ledger!Next \/ UNCHANGED Ledger!ledgerVars
<1>1. CASE ReadJob(w) \/ CheckCanceled(w) \/ RecheckCanceled(w) \/ ReadFinal(w)
  <2>1. CASE Return(w)
    BY <1>1, <2>1, LedgerLetsGo
    DEF Return, ReadJob, CheckCanceled, RecheckCanceled, ReadFinal
  <2>2. ASSUME NEW l \in Labels, Goto(w, l) PROVE UNCHANGED Ledger!ledgerVars
    <3>1. \A v \in Workers : proc'[v].todo = proc[v].todo
      BY <2>2 DEF Goto, TypeOK, Locals
    <3>2. QED
      BY <1>1, <3>1, LedgerIdles DEF ReadJob, CheckCanceled, RecheckCanceled, ReadFinal
  <2>3. CASE proc' = [proc EXCEPT ![w] = [proc[w] EXCEPT !.pc = "settle",
                                                         !.verdict = Verdict]]
    <3>1. \A v \in Workers : proc'[v].todo = proc[v].todo
      BY <2>3 DEF TypeOK, Locals
    <3>2. QED
      BY <1>1, <3>1, LedgerIdles DEF ReadJob, CheckCanceled, RecheckCanceled, ReadFinal
  <2>4. QED
    BY <1>1, <2>1, <2>2, <2>3 DEF ReadJob, CheckCanceled, RecheckCanceled, ReadFinal, Labels
<1>2. CASE StartJob(w)
  <2>1. job'.completed = job.completed /\ job'.failed = job.failed
    BY <1>2 DEF StartJob, TypeOK, JobRows
  <2>2. \A v \in Workers : proc'[v].todo = proc[v].todo
    BY <1>2 DEF StartJob, Goto, TypeOK, Locals
  <2>3. QED
    BY <1>2, <2>1, <2>2, LedgerIdles DEF StartJob
<1>3. CASE Settle(w)
  <2>1. job'.completed = job.completed /\ job'.failed = job.failed
    BY <1>3 DEF Settle, TypeOK, JobRows
  <2>2. proc[w].todo = {} /\ proc'[w].todo = {}
    BY <1>3 DEF Settle, At, CurrentIsHeld, Return, Local, TypeOK
  <2>3. \A v \in Workers : proc'[v].todo = proc[v].todo
    BY <1>3, <2>2 DEF Settle, Return, TypeOK
  <2>4. QED
    BY <1>3, <2>1, <2>3, LedgerIdles DEF Settle
<1>4. CASE ReleaseExpired(w)
  <2>1. \A v \in Workers : proc'[v].todo = proc[v].todo
    BY <1>4 DEF ReleaseExpired, Goto, TypeOK, Locals
  <2>2. \A i \in Items :
          \/ item'[i].status = item[i].status
          \/ item[i].status \notin Results /\ item'[i].status \notin Results
    BY <1>4 DEF ReleaseExpired, Fresh, ItemRow, Results
  <2>3. QED
    BY <1>4, <2>1, <2>2, SameOutcome, LedgerStutters DEF ReleaseExpired
<1>5. CASE Claim(w)
  <2>1. PICK S \in Chunks :
          /\ item' = [i \in Items |-> IF i \in S THEN ItemRow("processing", "live", w)
                                                 ELSE item[i]]
          /\ proc' = [proc EXCEPT ![w] = IF S = {} THEN Local("recheck")
                                         ELSE [Local("mark") EXCEPT !.todo = S]]
    BY <1>5 DEF Claim
  <2>2. proc'[w].todo = S /\ proc[w].todo = {} /\ \A v \in Workers \ {w} : proc'[v] = proc[v]
    BY <1>5, <2>1 DEF Claim, At, CurrentIsHeld, Local, TypeOK
  <2>3. \A i \in S : item[i].status \notin Results /\ item'[i].status \notin Results
    BY <2>1 DEF Chunks, Claimable, ItemRow, Results
  <2>4. \A i \in Items \ S : item'[i] = item[i]
    BY <2>1
  <2>5. QED
    BY <1>5, <2>2, <2>3, <2>4, SameOutcome, LedgerStutters DEF Claim
<1>6. CASE MarkProcessing(w) \/ AttemptFails(w)
  <2>1. \A v \in Workers : proc'[v].todo = proc[v].todo
    <3>1. CASE MarkProcessing(w)
      BY <3>1 DEF MarkProcessing, TypeOK, Locals
    <3>2. CASE AttemptFails(w)
      BY <3>2 DEF AttemptFails, Goto, TypeOK, Locals
    <3>3. QED
      BY <1>6, <3>1, <3>2
  <2>2. PICK c \in proc[w].todo : \A i \in Items : i # c => item'[i] = item[i]
    <3>1. CASE MarkProcessing(w)
      BY <3>1 DEF MarkProcessing, TypeOK
    <3>2. CASE AttemptFails(w)
      BY <3>2 DEF AttemptFails, At, CurrentIsHeld, TypeOK
    <3>3. QED
      BY <1>6, <3>1, <3>2
  <2>3. UNCHANGED <<job, counted>>
    BY <1>6 DEF MarkProcessing, AttemptFails
  <2>4. QED
    BY <2>1, <2>2, <2>3, SameOutcome, LedgerStutters
<1>7. ASSUME NEW r \in Results, NEW done, NEW bad, At(w, "write") \/ At(w, "giveUp"),
             item' = [item EXCEPT ![proc[w].cur] = ItemRow(r, "none", NoWorker)],
             AfterItem(w, done, bad), UNCHANGED <<job, counted>>
      PROVE  Ledger!Next
  <2> DEFINE c == proc[w].cur
  <2>1. c \in proc[w].todo /\ c \in Items
    BY <1>7 DEF At, CurrentIsHeld, TypeOK, Locals
  <2>2. item'[c].status = r /\ \A i \in Items : i # c => item'[i] = item[i]
    BY <1>7, <2>1 DEF ItemRow, TypeOK
  <2>3. /\ proc'[w].todo = proc[w].todo \ {c}
        /\ \A v \in Workers \ {w} : proc'[v] = proc[v]
    BY <1>7, AfterItemEffect
  <2>4. \A v \in Workers : c \notin proc'[v].todo
    BY <2>1, <2>3 DEF Safe, ClaimsAreExclusive
  <2>5. QED
    BY <1>7, <2>1, <2>2, <2>3, <2>4, LedgerDecides
<1>8. CASE CompleteItem(w) \/ FailItem(w)
  BY <1>7, <1>8 DEF CompleteItem, FailItem, Results
<1>9. CASE CountCompleted(w)
  <2>1. proc'[w].todo = proc[w].todo /\ \A v \in Workers \ {w} : proc'[v] = proc[v]
    BY <1>9 DEF CountCompleted, TypeOK, Locals
  <2>2. Outcome' = Outcome
    BY <1>9, <2>1, SameOutcome DEF CountCompleted
  <2>3. /\ proc[w].done \in SUBSET Items
        /\ proc[w].done \cap counted["completed"] = {}
        /\ \A i \in proc[w].done : Stands(i, "completed")
    BY DEF TypeOK, Locals, Safe, DecidedStands, DecidedOnce
  <2>4. QED
    BY <1>9, <2>2, <2>3, LedgerCounts DEF CountCompleted, Results
<1>10. CASE CountFailed(w)
  <2>1. proc'[w].todo = proc[w].todo /\ \A v \in Workers \ {w} : proc'[v] = proc[v]
    BY <1>10 DEF CountFailed, TypeOK, Locals
  <2>2. Outcome' = Outcome
    BY <1>10, <2>1, SameOutcome DEF CountFailed
  <2>3. /\ proc[w].bad \in SUBSET Items
        /\ proc[w].bad \cap counted["failed"] = {}
        /\ \A i \in proc[w].bad : Stands(i, "failed")
    BY DEF TypeOK, Locals, Safe, DecidedStands, DecidedOnce
  <2>4. QED
    BY <1>10, <2>2, <2>3, LedgerCounts DEF CountFailed, Results
<1>11. QED
  BY <1>1, <1>2, <1>3, <1>4, <1>5, <1>6, <1>8, <1>9, <1>10 DEF Process

LEMMA LedgerStep ==
  ASSUME IInv, OnlyCurrentDecided, [Next]_vars
  PROVE  [Ledger!Next]_(Ledger!ledgerVars)
<1> USE DEF IInv
<1>1. CASE Create \/ Enqueue \/ EnqueueLost \/ Cancel \/ Stall
  <2>1. job'.completed = job.completed /\ job'.failed = job.failed
    BY <1>1 DEF Create, Enqueue, EnqueueLost, Cancel, Stall, TypeOK, JobRows
  <2>2. QED
    BY <1>1, <2>1, LedgerIdles DEF Create, Enqueue, EnqueueLost, Cancel, Stall
<1>2. ASSUME NEW w \in Workers, RunInline(w) \/ Pick(w) \/ Reject(w) \/ Crash(w)
      PROVE  Ledger!Next \/ UNCHANGED Ledger!ledgerVars
  <2>1. PICK pc \in {"read", "ended", "crashed"} : proc' = [proc EXCEPT ![w] = Local(pc)]
    BY <1>2 DEF RunInline, Pick, Reject, Crash
  <2>2. QED
    BY <1>2, <2>1, LedgerLetsGo DEF RunInline, Pick, Reject, Crash
<1>3. ASSUME NEW w \in Workers, ExpireLease(w) PROVE UNCHANGED Ledger!ledgerVars
  <2>1. \A i \in Items : item'[i].status = item[i].status
    BY <1>3 DEF ExpireLease, TypeOK, ItemRows
  <2>2. QED
    BY <1>3, <2>1, SameOutcome, LedgerStutters DEF ExpireLease
<1>4. CASE UNCHANGED vars
  BY <1>4, LedgerIdles DEF vars
<1>5. QED
  BY <1>1, <1>2, <1>3, <1>4, LedgerProcess DEF Next

LEMMA LedgerInit == Init => Ledger!Init
<1> SUFFICES ASSUME Init PROVE Ledger!Init
  OBVIOUS
<1>1. Outcome = [i \in Items |-> "open"]
  BY DEF Init, Outcome, Fresh, ItemRow, Results
<1>2. Tally = [r \in Results |-> 0]
  BY DEF Init, Tally, Results
<1>3. QED
  BY <1>1, <1>2 DEF Init, Ledger!Init, Tally, Ledger!Results, Results

\* BatchJobs implements BatchLedger when leases outlast the runs that hold them: every
\* step of the workers, the queue, the clock or a fault decides at most one item, counts
\* decided items once, or is invisible to the ledger.
THEOREM Refinement == Spec /\ LeasesOutlastRuns => ImplementsLedger
<1>1. Init => OnlyCurrentDecided
  BY DEF Init, OnlyCurrentDecided, Local
<1>2. IInv /\ OnlyCurrentDecided /\ [Next]_vars => OnlyCurrentDecided'
  BY OnlyStep
<1>3. Spec /\ LeasesOutlastRuns => []OnlyCurrentDecided
  BY <1>1, <1>2, Inductive, PTL DEF Spec
<1>4. IInv /\ OnlyCurrentDecided /\ [Next]_vars => [Ledger!Next]_(Ledger!ledgerVars)
  BY LedgerStep
<1>5. QED
  BY <1>3, <1>4, LedgerInit, Inductive, PTL DEF Spec, ImplementsLedger, Ledger!Spec

============================================================================
