--------------------------- MODULE BatchRunProofs ---------------------------
(***************************************************************************)
(* More theorems about BatchJobs: what a run without faults leaves behind, *)
(* and how long a canceled one goes on.                                    *)
(***************************************************************************)
EXTENDS BatchJobsProofs

----------------------------------------------------------------------------
(* The invariant of a run without faults, beside that of BatchJobsProofs.  *)

\* An invocation owes counts only between the first item of a chunk and the last
\* counter of it, and CountCompleted comes before CountFailed.
OwesInChunk ==
  \A w \in Workers :
    /\ proc[w].pc \notin {"mark", "write", "giveUp", "countDone", "countBad"} =>
         proc[w].done = {} /\ proc[w].bad = {}
    /\ proc[w].pc = "countBad" => proc[w].done = {}

\* Nobody lets a chunk go: a lease is live as long as it is one, and whatever is in
\* processing is in somebody's hands.
NoneAbandoned ==
  \A i \in Items :
    /\ item[i].lease # "expired"
    /\ item[i].lease = "live" =>
         item[i].workerId \in Workers /\ i \in proc[item[i].workerId].todo
    /\ item[i].status = "processing" => \E w \in Workers : i \in proc[w].todo

\* Nor does a decision go missing: it is counted, owed, or the item still in hand.
NoneForgotten ==
  \A i \in Items :
    /\ item[i].status = "completed" =>
         \/ i \in counted["completed"]
         \/ \E w \in Workers : i \in proc[w].todo \/ i \in proc[w].done
    /\ item[i].status = "failed" =>
         \/ i \in counted["failed"]
         \/ \E w \in Workers : i \in proc[w].todo \/ i \in proc[w].bad

\* Who has claimed an empty chunk, or settled the job after it, left nothing pending.
Exhausted ==
  job.status \in Results \/ \E w \in Workers : proc[w].pc \in {"recheck", "final", "settle"}

NonePending == Exhausted => \A i \in Items : item[i].status # "pending"

Whole == NoneAbandoned /\ NoneForgotten /\ NonePending

\* The inductive invariant.
RunInv == IInv /\ OwesInChunk /\ (faults = 0 => Whole)

\* What invocation v holds and owes stays.
SameHands(v) ==
  proc'[v].todo = proc[v].todo /\ proc'[v].done = proc[v].done /\ proc'[v].bad = proc[v].bad

\* The only invocation that moves, and where it goes.
Steps(w, l) == proc'[w].pc = l /\ \A v \in Workers \ {w} : proc'[v] = proc[v]

LEMMA GotoSteps ==
  ASSUME TypeOK, NEW w \in Workers, NEW l, Goto(w, l)
  PROVE  Steps(w, l) /\ SameHands(w)
  BY DEF Goto, Steps, SameHands, TypeOK, Locals

LEMMA ResetSteps ==
  ASSUME TypeOK, NEW w \in Workers, NEW l, proc' = [proc EXCEPT ![w] = Local(l)]
  PROVE  /\ Steps(w, l)
         /\ proc'[w].todo = {} /\ proc'[w].done = {} /\ proc'[w].bad = {}
  BY DEF Steps, Local, TypeOK

LEMMA MarkSteps ==
  ASSUME TypeOK, NEW w \in Workers, MarkProcessing(w)
  PROVE  Steps(w, "write") /\ SameHands(w)
  BY DEF MarkProcessing, Steps, SameHands, TypeOK, Locals

LEMMA AfterItemSteps ==
  ASSUME TypeOK, NEW w \in Workers, NEW done, NEW bad, AfterItem(w, done, bad)
  PROVE  \/ Steps(w, "mark")
         \/ Steps(w, "countDone")
         \/ Steps(w, "countBad") /\ done = {}
  BY DEF AfterItem, Steps, TypeOK, Locals

LEMMA CountSteps ==
  ASSUME TypeOK, NEW w \in Workers
  PROVE  /\ CountCompleted(w) =>
              /\ Steps(w, IF proc[w].bad # {} THEN "countBad" ELSE "check")
              /\ proc'[w].todo = proc[w].todo /\ proc'[w].done = {}
              /\ proc'[w].bad = proc[w].bad
         /\ CountFailed(w) =>
              /\ Steps(w, "check")
              /\ proc'[w].todo = proc[w].todo /\ proc'[w].done = proc[w].done
              /\ proc'[w].bad = {}
<1>1. ASSUME CountCompleted(w)
      PROVE  /\ Steps(w, IF proc[w].bad # {} THEN "countBad" ELSE "check")
             /\ proc'[w].todo = proc[w].todo /\ proc'[w].done = {}
             /\ proc'[w].bad = proc[w].bad
  <2>1. PICK l : l = IF proc[w].bad # {} THEN "countBad" ELSE "check"
    OBVIOUS
  <2>2. proc' = [proc EXCEPT ![w] = [proc[w] EXCEPT !.done = {}, !.pc = l]]
    BY <1>1, <2>1 DEF CountCompleted
  <2>3. QED
    BY <2>1, <2>2 DEF Steps, TypeOK, Locals
<1>2. ASSUME CountFailed(w)
      PROVE  /\ Steps(w, "check")
             /\ proc'[w].todo = proc[w].todo /\ proc'[w].done = proc[w].done
             /\ proc'[w].bad = {}
  BY <1>2 DEF CountFailed, Steps, TypeOK, Locals
<1>3. QED
  BY <1>1, <1>2

LEMMA FinalSteps ==
  ASSUME TypeOK, NEW w \in Workers, ReadFinal(w)
  PROVE  Return(w) \/ (Steps(w, "settle") /\ SameHands(w))
<1>1. PICK v : v = Verdict
  OBVIOUS
<1>2. CASE proc' = [proc EXCEPT ![w] = [proc[w] EXCEPT !.pc = "settle", !.verdict = v]]
  BY <1>2 DEF Steps, SameHands, TypeOK, Locals
<1>3. QED
  BY <1>1, <1>2 DEF ReadFinal

LEMMA ClaimSteps ==
  ASSUME TypeOK, NEW w \in Workers, Claim(w)
  PROVE  \E S \in Chunks :
           /\ item' = [i \in Items |-> IF i \in S THEN ItemRow("processing", "live", w)
                                                  ELSE item[i]]
           /\ Steps(w, IF S = {} THEN "recheck" ELSE "mark")
           /\ proc'[w].todo = S /\ proc'[w].done = {} /\ proc'[w].bad = {}
           /\ lateClaims' = IF S # {} /\ job.status = "canceled"
                            THEN [lateClaims EXCEPT ![w] = @ + 1] ELSE lateClaims
<1>1. PICK S \in Chunks :
        /\ item' = [i \in Items |-> IF i \in S THEN ItemRow("processing", "live", w)
                                               ELSE item[i]]
        /\ proc' = [proc EXCEPT ![w] = IF S = {} THEN Local("recheck")
                                       ELSE [Local("mark") EXCEPT !.todo = S]]
        /\ lateClaims' = IF S # {} /\ job.status = "canceled"
                         THEN [lateClaims EXCEPT ![w] = @ + 1] ELSE lateClaims
  BY DEF Claim
<1>2. /\ Steps(w, IF S = {} THEN "recheck" ELSE "mark")
      /\ proc'[w].todo = S /\ proc'[w].done = {} /\ proc'[w].bad = {}
  BY <1>1 DEF Local, Steps, TypeOK
<1>3. QED
  BY <1>1, <1>2

----------------------------------------------------------------------------
(* Debts.                                                                  *)

\* One invocation moves, and owes only where it may.
LEMMA OwesMoves ==
  ASSUME OwesInChunk, NEW w \in Workers, NEW l, Steps(w, l),
         l \notin {"mark", "write", "giveUp", "countDone", "countBad"} =>
           proc'[w].done = {} /\ proc'[w].bad = {},
         l = "countBad" => proc'[w].done = {}
  PROVE  OwesInChunk'
  BY DEF OwesInChunk, Steps

LEMMA OwesReset ==
  ASSUME TypeOK, OwesInChunk, NEW w \in Workers, NEW l, proc' = [proc EXCEPT ![w] = Local(l)]
  PROVE  OwesInChunk'
<1>1. /\ Steps(w, l)
      /\ proc'[w].todo = {} /\ proc'[w].done = {} /\ proc'[w].bad = {}
  BY ResetSteps
<1>2. QED
  BY <1>1, OwesMoves

LEMMA OwesGoto ==
  ASSUME TypeOK, OwesInChunk, NEW w \in Workers, NEW l, Steps(w, l), SameHands(w),
         proc[w].pc \notin {"mark", "write", "giveUp", "countDone", "countBad"}
  PROVE  OwesInChunk'
<1>1. proc'[w].done = {} /\ proc'[w].bad = {}
  BY DEF OwesInChunk, SameHands
<1>2. QED
  BY <1>1, OwesMoves

LEMMA OwesProcess ==
  ASSUME TypeOK, OwesInChunk, NEW w \in Workers, Process(w)
  PROVE  OwesInChunk'
<1> USE DEF At
<1>1. CASE ReadJob(w)
  BY <1>1, OwesReset, OwesGoto, GotoSteps DEF ReadJob, Return
<1>2. CASE StartJob(w)
  BY <1>2, OwesGoto, GotoSteps DEF StartJob
<1>3. CASE CheckCanceled(w)
  BY <1>3, OwesReset, OwesGoto, GotoSteps DEF CheckCanceled, Return
<1>4. CASE ReleaseExpired(w)
  BY <1>4, OwesGoto, GotoSteps DEF ReleaseExpired
<1>5. CASE Claim(w)
  <2>1. PICK l : Steps(w, l) /\ l \in {"recheck", "mark"}
                 /\ proc'[w].done = {} /\ proc'[w].bad = {}
    BY <1>5, ClaimSteps
  <2>2. QED
    BY <2>1, OwesMoves
<1>6. CASE MarkProcessing(w)
  BY <1>6, MarkSteps, OwesMoves
<1>7. CASE CompleteItem(w)
  <2>1. PICK l \in {"mark", "countDone"} : Steps(w, l)
    <3>1. proc[w].done \cup {proc[w].cur} # {}
      OBVIOUS
    <3>2. QED
      BY <1>7, <3>1, AfterItemSteps DEF CompleteItem
  <2>2. QED
    BY <2>1, OwesMoves
<1>8. CASE AttemptFails(w)
  <2>1. PICK l \in {"mark", "giveUp"} : Steps(w, l)
    BY <1>8, GotoSteps DEF AttemptFails
  <2>2. QED
    BY <2>1, OwesMoves
<1>9. CASE FailItem(w)
  <2>1. proc'[w].done = proc[w].done
    BY <1>9, AfterItemEffect DEF FailItem
  <2>2. PICK l \in {"mark", "countDone", "countBad"} :
          Steps(w, l) /\ (l = "countBad" => proc[w].done = {})
    BY <1>9, AfterItemSteps DEF FailItem
  <2>3. QED
    BY <2>1, <2>2, OwesMoves
<1>10. CASE CountCompleted(w)
  <2>1. CASE proc[w].bad # {}
    BY <1>10, <2>1, CountSteps, OwesMoves
  <2>2. CASE proc[w].bad = {}
    BY <1>10, <2>2, CountSteps, OwesMoves
  <2>3. QED
    BY <2>1, <2>2
<1>11. CASE CountFailed(w)
  <2>1. proc[w].done = {}
    BY <1>11 DEF CountFailed, OwesInChunk
  <2>2. QED
    BY <1>11, <2>1, CountSteps, OwesMoves
<1>12. CASE RecheckCanceled(w)
  BY <1>12, OwesReset, OwesGoto, GotoSteps DEF RecheckCanceled, Return
<1>13. CASE ReadFinal(w)
  BY <1>13, OwesReset, OwesGoto, FinalSteps DEF ReadFinal, Return
<1>14. CASE Settle(w)
  BY <1>14, OwesReset DEF Settle, Return
<1>15. QED
  BY <1>1, <1>2, <1>3, <1>4, <1>5, <1>6, <1>7, <1>8, <1>9, <1>10, <1>11, <1>12, <1>13,
     <1>14 DEF Process

LEMMA OwesStep == TypeOK /\ OwesInChunk /\ [Next]_vars => OwesInChunk'
<1> SUFFICES ASSUME TypeOK, OwesInChunk, [Next]_vars PROVE OwesInChunk'
  OBVIOUS
<1>1. CASE proc' = proc
  BY <1>1 DEF OwesInChunk
<1>2. ASSUME NEW w \in Workers, RunInline(w) \/ Pick(w) \/ Reject(w) \/ Crash(w)
      PROVE  OwesInChunk'
  BY <1>2, OwesReset DEF RunInline, Pick, Reject, Crash
<1>3. QED
  BY <1>1, <1>2, OwesProcess
  DEF Next, vars, Create, Enqueue, EnqueueLost, Cancel, Stall, ExpireLease

----------------------------------------------------------------------------
(* Without faults.                                                         *)

\* A step that leaves the items, the hands and the counters alone and exhausts nothing.
LEMMA WholeIdles ==
  ASSUME Whole, item' = item, counted' = counted, \A v \in Workers : SameHands(v),
         Exhausted' => Exhausted
  PROVE  Whole'
<1>1. NoneAbandoned'
  BY DEF Whole, NoneAbandoned, SameHands
<1>2. NoneForgotten'
  BY DEF Whole, NoneForgotten, SameHands
<1>3. NonePending'
  BY DEF Whole, NonePending
<1>4. QED
  BY <1>1, <1>2, <1>3 DEF Whole

\* One invocation with empty hands goes from one such place to another.
LEMMA WholeWalks ==
  ASSUME IInv, OwesInChunk, Whole, item' = item, counted' = counted,
         NEW w \in Workers, NEW l, Steps(w, l),
         \/ SameHands(w)
         \/ /\ proc'[w].todo = {} /\ proc'[w].done = {} /\ proc'[w].bad = {}
            /\ proc[w].pc \notin {"mark", "write", "giveUp", "countDone", "countBad"},
         l \in {"recheck", "final", "settle"} => Exhausted,
         job'.status \in Results => Exhausted
  PROVE  Whole'
<1>1. SameHands(w)
  BY DEF SameHands, IInv, CurrentIsHeld, OwesInChunk
<1>2. \A v \in Workers : SameHands(v)
  BY <1>1 DEF Steps, SameHands
<1>3. Exhausted' => Exhausted
  BY DEF Exhausted, Steps
<1>4. QED
  BY <1>2, <1>3, WholeIdles

\* An item in hand changes, and stays in hand.
LEMMA WholeTouches ==
  ASSUME IInv, Whole, NEW w \in Workers, NEW c \in proc[w].todo,
         \A i \in Items : i # c => item'[i] = item[i],
         item'[c].status # "pending",
         item'[c].lease = "none" \/ (item'[c].lease = item[c].lease
                                     /\ item'[c].workerId = item[c].workerId),
         SameHands(w), NEW l \in {"mark", "write", "giveUp"}, Steps(w, l),
         UNCHANGED <<job, counted>>
  PROVE  Whole'
<1>1. \A v \in Workers : SameHands(v)
  BY DEF Steps, SameHands
<1>2. Exhausted' => Exhausted
  BY DEF Exhausted, Steps
<1>3. c \in Items
  BY DEF IInv, TypeOK, Locals
<1>4. NoneAbandoned'
  <2> SUFFICES ASSUME NEW i \in Items
               PROVE  /\ item'[i].lease # "expired"
                      /\ item'[i].lease = "live" =>
                           /\ item'[i].workerId \in Workers
                           /\ i \in proc'[item'[i].workerId].todo
                      /\ item'[i].status = "processing" =>
                           \E v \in Workers : i \in proc'[v].todo
    BY DEF NoneAbandoned
  <2>1. CASE i # c
    BY <1>1, <2>1 DEF Whole, NoneAbandoned, SameHands
  <2>2. CASE i = c
    <3>1. /\ item[c].lease # "expired"
          /\ item[c].lease = "live" =>
               item[c].workerId \in Workers /\ c \in proc[item[c].workerId].todo
      BY <1>3 DEF Whole, NoneAbandoned
    <3>2. QED
      BY <1>1, <2>2, <3>1 DEF SameHands
  <2>3. QED
    BY <2>1, <2>2
<1>5. NoneForgotten'
  <2>1. \E v \in Workers : c \in proc'[v].todo
    BY <1>1 DEF SameHands
  <2>2. QED
    BY <1>1, <2>1 DEF Whole, NoneForgotten, SameHands
<1>6. NonePending'
  BY <1>2 DEF Whole, NonePending
<1>7. QED
  BY <1>4, <1>5, <1>6 DEF Whole

\* An item in hand is decided.
LEMMA WholeDecides ==
  ASSUME IInv, Whole, NEW w \in Workers, NEW c \in proc[w].todo, NEW r \in Results,
         item' = [item EXCEPT ![c] = ItemRow(r, "none", NoWorker)],
         proc'[w].todo = proc[w].todo \ {c},
         proc'[w].done = IF r = "completed" THEN proc[w].done \cup {c} ELSE proc[w].done,
         proc'[w].bad = IF r = "failed" THEN proc[w].bad \cup {c} ELSE proc[w].bad,
         NEW l \in {"mark", "countDone", "countBad"}, Steps(w, l),
         UNCHANGED <<job, counted>>
  PROVE  Whole'
<1>1. c \in Items
  BY DEF IInv, TypeOK, Locals
<1>2. /\ item'[c].status = r /\ item'[c].lease = "none"
      /\ \A i \in Items : i # c => item'[i] = item[i]
  BY <1>1 DEF IInv, TypeOK, ItemRow
<1>3. \A i \in Items, v \in Workers : i # c => (i \in proc'[v].todo <=> i \in proc[v].todo)
  BY DEF Steps
<1>4. \A v \in Workers : /\ proc[v].done \subseteq proc'[v].done
                         /\ proc[v].bad \subseteq proc'[v].bad
  BY DEF Steps, Results
<1>5. NoneAbandoned'
  BY <1>2, <1>3 DEF Whole, NoneAbandoned, Results
<1>6. NoneForgotten'
  <2> SUFFICES ASSUME NEW i \in Items
               PROVE  /\ item'[i].status = "completed" =>
                           \/ i \in counted["completed"]
                           \/ \E v \in Workers : i \in proc'[v].todo \/ i \in proc'[v].done
                      /\ item'[i].status = "failed" =>
                           \/ i \in counted["failed"]
                           \/ \E v \in Workers : i \in proc'[v].todo \/ i \in proc'[v].bad
    BY DEF NoneForgotten
  <2>1. CASE i = c
    BY <1>2, <2>1 DEF Results
  <2>2. CASE i # c
    <3>1. item'[i] = item[i]
      BY <1>2, <2>2
    <3>2. \A v \in Workers : /\ i \in proc[v].todo => i \in proc'[v].todo
                             /\ i \in proc[v].done => i \in proc'[v].done
                             /\ i \in proc[v].bad => i \in proc'[v].bad
      <4> TAKE v \in Workers
      <4>1. i \in proc[v].todo => i \in proc'[v].todo
        BY <1>3, <2>2
      <4>2. QED
        BY <1>4, <4>1
    <3>3. /\ item[i].status = "completed" =>
               \/ i \in counted["completed"]
               \/ \E v \in Workers : i \in proc[v].todo \/ i \in proc[v].done
          /\ item[i].status = "failed" =>
               \/ i \in counted["failed"]
               \/ \E v \in Workers : i \in proc[v].todo \/ i \in proc[v].bad
      BY DEF Whole, NoneForgotten
    <3>4. QED
      BY <3>1, <3>2, <3>3
  <2>3. QED
    BY <2>1, <2>2
<1>7. NonePending'
  <2>1. Exhausted' => Exhausted
    BY DEF Exhausted, Steps
  <2>2. QED
    BY <1>2, <2>1 DEF Whole, NonePending, Results
<1>8. QED
  BY <1>5, <1>6, <1>7 DEF Whole

LEMMA EmptyChunk ==
  ASSUME TypeOK, {} \in Chunks
  PROVE  \A i \in Items : item[i].status # "pending"
<1>1. Cardinality({}) = 0
  BY FS_EmptySet
<1>2. {i \in Items : Claimable(i)} = {}
  BY <1>1, BatchAssumption DEF Chunks
<1>3. QED
  BY <1>2 DEF Claimable

LEMMA WholeClaim ==
  ASSUME IInv, OwesInChunk, Whole, NEW w \in Workers, Claim(w)
  PROVE  Whole'
<1>1. PICK S \in Chunks :
        /\ item' = [i \in Items |-> IF i \in S THEN ItemRow("processing", "live", w)
                                               ELSE item[i]]
        /\ Steps(w, IF S = {} THEN "recheck" ELSE "mark")
        /\ proc'[w].todo = S /\ proc'[w].done = {} /\ proc'[w].bad = {}
  BY ClaimSteps DEF IInv
<1>2. \A i \in S : i \in Items /\ Claimable(i)
  BY DEF Chunks
<1>3. proc[w].todo = {} /\ proc[w].done = {} /\ proc[w].bad = {}
  BY DEF Claim, At, IInv, CurrentIsHeld, OwesInChunk
<1>4. \A i \in Items : /\ i \in S => /\ item'[i].status = "processing"
                                     /\ item'[i].lease = "live" /\ item'[i].workerId = w
                       /\ i \notin S => item'[i] = item[i]
  BY <1>1 DEF ItemRow
<1>5. \A v \in Workers : /\ \A i : i \in proc[v].todo => i \in proc'[v].todo
                         /\ \A i : i \in proc[v].done => i \in proc'[v].done
                         /\ \A i : i \in proc[v].bad => i \in proc'[v].bad
  BY <1>1, <1>3 DEF Steps
<1>6. NoneAbandoned'
  <2> SUFFICES ASSUME NEW i \in Items
               PROVE  /\ item'[i].lease # "expired"
                      /\ item'[i].lease = "live" =>
                           /\ item'[i].workerId \in Workers
                           /\ i \in proc'[item'[i].workerId].todo
                      /\ item'[i].status = "processing" =>
                           \E v \in Workers : i \in proc'[v].todo
    BY DEF NoneAbandoned
  <2>1. CASE i \in S
    BY <1>1, <1>4, <2>1
  <2>2. CASE i \notin S
    BY <1>4, <1>5, <2>2 DEF Whole, NoneAbandoned
  <2>3. QED
    BY <2>1, <2>2
<1>7. NoneForgotten'
  <2>1. \A i \in Items : item'[i].status \in Results => item'[i] = item[i]
    BY <1>4 DEF Results
  <2>2. counted' = counted
    BY DEF Claim
  <2>3. QED
    BY <1>5, <2>1, <2>2 DEF Whole, NoneForgotten, Results
<1>8. NonePending'
  <2>1. CASE S = {}
    BY <1>4, <2>1, EmptyChunk DEF IInv, NonePending
  <2>2. CASE S # {}
    <3>1. Exhausted' => Exhausted
      BY <1>1, <2>2 DEF Exhausted, Steps, Claim
    <3>2. QED
      BY <1>4, <3>1 DEF Whole, NonePending
  <2>3. QED
    BY <2>1, <2>2
<1>9. QED
  BY <1>6, <1>7, <1>8 DEF Whole

LEMMA WholeCounts ==
  ASSUME IInv, Whole, NEW w \in Workers, CountCompleted(w) \/ CountFailed(w)
  PROVE  Whole'
<1>1. PICK l \in {"countBad", "check"} : Steps(w, l)
  BY CountSteps DEF IInv
<1>2. \A v \in Workers : proc'[v].todo = proc[v].todo
  BY CountSteps DEF IInv, Steps
<1>3. item' = item /\ job'.status = job.status
  BY DEF CountCompleted, CountFailed, IInv, TypeOK, JobRows
<1>4. /\ \A i \in counted["completed"] : i \in counted'["completed"]
      /\ \A i \in counted["failed"] : i \in counted'["failed"]
      /\ \A v \in Workers : /\ \A i \in proc[v].done : i \in proc'[v].done
                                                       \/ i \in counted'["completed"]
                            /\ \A i \in proc[v].bad : i \in proc'[v].bad
                                                      \/ i \in counted'["failed"]
  <2>1. CASE CountCompleted(w)
    BY <2>1, CountSteps DEF CountCompleted, IInv, TypeOK, Results, Steps
  <2>2. CASE CountFailed(w)
    BY <2>2, CountSteps DEF CountFailed, IInv, TypeOK, Results, Steps
  <2>3. QED
    BY <2>1, <2>2
<1>5. NoneAbandoned'
  BY <1>2, <1>3 DEF Whole, NoneAbandoned
<1>6. NoneForgotten'
  BY <1>2, <1>3, <1>4 DEF Whole, NoneForgotten
<1>7. NonePending'
  BY <1>1, <1>3 DEF Whole, NonePending, Exhausted, Steps
<1>8. QED
  BY <1>5, <1>6, <1>7 DEF Whole

LEMMA WholeProcess ==
  ASSUME IInv, OwesInChunk, Whole, NEW w \in Workers, Process(w)
  PROVE  Whole'
<1> USE DEF At
<1>t. TypeOK /\ CurrentIsHeld
  BY DEF IInv
<1>x. proc[w].pc \in {"recheck", "final", "settle"} => Exhausted
  BY DEF Exhausted
<1>y. job'.status = job.status /\ job.status \in Results => Exhausted
  BY DEF Exhausted
<1>1. CASE ReadJob(w)
  <2>1. item' = item /\ counted' = counted /\ job' = job
    BY <1>1 DEF ReadJob
  <2>2. CASE Return(w)
    BY <1>1, <1>t, <1>y, <2>1, <2>2, ResetSteps, WholeWalks DEF ReadJob, Return
  <2>3. CASE Goto(w, "start")
    BY <1>1, <1>t, <1>y, <2>1, <2>3, GotoSteps, WholeWalks
  <2>4. QED
    BY <1>1, <2>2, <2>3 DEF ReadJob
<1>2. CASE StartJob(w)
  <2>1. job'.status = "processing"
    BY <1>2, <1>t DEF StartJob, TypeOK, JobRows
  <2>2. QED
    BY <1>2, <1>t, <2>1, GotoSteps, WholeWalks DEF StartJob, Results
<1>3. CASE CheckCanceled(w)
  <2>1. item' = item /\ counted' = counted /\ job' = job
    BY <1>3 DEF CheckCanceled
  <2>2. CASE Return(w)
    BY <1>3, <1>t, <1>y, <2>1, <2>2, ResetSteps, WholeWalks DEF CheckCanceled, Return
  <2>3. CASE Goto(w, "release")
    BY <1>3, <1>t, <1>y, <2>1, <2>3, GotoSteps, WholeWalks
  <2>4. QED
    BY <1>3, <2>2, <2>3 DEF CheckCanceled
<1>4. CASE ReleaseExpired(w)
  <2>1. item' = [i \in Items |-> item[i]]
    BY <1>4 DEF ReleaseExpired, Whole, NoneAbandoned
  <2>2. item' = item
    BY <1>t, <2>1 DEF TypeOK
  <2>3. QED
    BY <1>4, <1>t, <1>y, <2>2, GotoSteps, WholeWalks DEF ReleaseExpired
<1>5. CASE Claim(w)
  BY <1>5, WholeClaim
<1>6. CASE MarkProcessing(w)
  <2>1. PICK c \in proc[w].todo : item' = [item EXCEPT ![c].status = "processing"]
    BY <1>6 DEF MarkProcessing
  <2>2. /\ item'[c].status = "processing" /\ item'[c].lease = item[c].lease
        /\ item'[c].workerId = item[c].workerId
        /\ \A i \in Items : i # c => item'[i] = item[i]
    BY <1>t, <2>1 DEF TypeOK, ItemRows, Locals
  <2>3. QED
    BY <1>6, <1>t, <2>2, MarkSteps, WholeTouches DEF MarkProcessing
<1>7. CASE CompleteItem(w)
  <2>1. proc[w].cur \in proc[w].todo
    BY <1>7, <1>t DEF CompleteItem, CurrentIsHeld
  <2>2. PICK l \in {"mark", "countDone", "countBad"} : Steps(w, l)
    BY <1>7, <1>t, AfterItemSteps DEF CompleteItem
  <2>3. /\ proc'[w].todo = proc[w].todo \ {proc[w].cur}
        /\ proc'[w].done = proc[w].done \cup {proc[w].cur} /\ proc'[w].bad = proc[w].bad
    BY <1>7, <1>t, AfterItemEffect DEF CompleteItem
  <2>4. QED
    BY <1>7, <2>1, <2>2, <2>3, WholeDecides DEF CompleteItem, Results
<1>8. CASE AttemptFails(w)
  <2>1. proc[w].cur \in proc[w].todo /\ proc[w].cur \in Items
    BY <1>8, <1>t DEF AttemptFails, CurrentIsHeld, TypeOK, Locals
  <2>2. PICK l \in {"mark", "giveUp"} : Steps(w, l) /\ SameHands(w)
    BY <1>8, <1>t, GotoSteps DEF AttemptFails
  <2>3. CASE item' = item
    <3>1. item[proc[w].cur].status # "pending"
      BY <2>1 DEF IInv, Safe, HeldIsNotClaimable
    <3>2. QED
      BY <1>8, <2>1, <2>2, <2>3, <3>1, WholeTouches DEF AttemptFails
  <2>4. CASE item' = [item EXCEPT ![proc[w].cur] = ItemRow("completed", "none", NoWorker)]
    <3>1. /\ item'[proc[w].cur].status = "completed" /\ item'[proc[w].cur].lease = "none"
          /\ \A i \in Items : i # proc[w].cur => item'[i] = item[i]
      BY <1>t, <2>1, <2>4 DEF TypeOK, ItemRow
    <3>2. QED
      BY <1>8, <2>1, <2>2, <3>1, WholeTouches DEF AttemptFails
  <2>5. QED
    BY <1>8, <2>3, <2>4 DEF AttemptFails
<1>9. CASE FailItem(w)
  <2>1. proc[w].cur \in proc[w].todo
    BY <1>9, <1>t DEF FailItem, CurrentIsHeld
  <2>2. PICK l \in {"mark", "countDone", "countBad"} : Steps(w, l)
    BY <1>9, <1>t, AfterItemSteps DEF FailItem
  <2>3. /\ proc'[w].todo = proc[w].todo \ {proc[w].cur}
        /\ proc'[w].done = proc[w].done /\ proc'[w].bad = proc[w].bad \cup {proc[w].cur}
    BY <1>9, <1>t, AfterItemEffect DEF FailItem
  <2>4. QED
    BY <1>9, <2>1, <2>2, <2>3, WholeDecides DEF FailItem, Results
<1>10. CASE CountCompleted(w) \/ CountFailed(w)
  BY <1>10, WholeCounts
<1>11. CASE RecheckCanceled(w)
  <2>1. item' = item /\ counted' = counted /\ job' = job
    BY <1>11 DEF RecheckCanceled
  <2>2. CASE Return(w)
    BY <1>11, <1>t, <1>y, <2>1, <2>2, ResetSteps, WholeWalks DEF RecheckCanceled, Return
  <2>3. CASE Goto(w, "final")
    BY <1>11, <1>t, <1>x, <1>y, <2>1, <2>3, GotoSteps, WholeWalks DEF RecheckCanceled
  <2>4. QED
    BY <1>11, <2>2, <2>3 DEF RecheckCanceled
<1>12. CASE ReadFinal(w)
  <2>1. item' = item /\ counted' = counted /\ job' = job
    BY <1>12 DEF ReadFinal
  <2>2. CASE Return(w)
    BY <1>12, <1>t, <1>y, <2>1, <2>2, ResetSteps, WholeWalks DEF ReadFinal, Return
  <2>3. CASE Steps(w, "settle") /\ SameHands(w)
    BY <1>12, <1>t, <1>x, <1>y, <2>1, <2>3, WholeWalks DEF ReadFinal
  <2>4. QED
    BY <1>12, <1>t, <2>2, <2>3, FinalSteps
<1>13. CASE Settle(w)
  BY <1>13, <1>t, <1>x, ResetSteps, WholeWalks DEF Settle, Return
<1>14. QED
  BY <1>1, <1>2, <1>3, <1>4, <1>5, <1>6, <1>7, <1>8, <1>9, <1>10, <1>11, <1>12, <1>13
  DEF Process

LEMMA WholeStep ==
  ASSUME IInv, OwesInChunk, Whole, [Next]_vars, [LeaseOutlasts]_vars, faults' = 0
  PROVE  Whole'
<1>t. TypeOK /\ CurrentIsHeld
  BY DEF IInv
<1>1. CASE Create \/ Enqueue \/ EnqueueLost \/ Cancel \/ Stall \/ UNCHANGED vars
  <2>1. /\ UNCHANGED <<item, counted, proc>>
        /\ job'.status \in Results => job'.status = job.status
    BY <1>1, <1>t DEF Create, Enqueue, EnqueueLost, Cancel, Stall, vars, Results, TypeOK, JobRows
  <2>2. QED
    BY <2>1, WholeIdles DEF SameHands, Exhausted
<1>2. ASSUME NEW w \in Workers, RunInline(w) \/ Pick(w) PROVE Whole'
  <2>1. /\ UNCHANGED <<item, counted, job>> /\ proc[w].pc = "idle"
        /\ proc' = [proc EXCEPT ![w] = Local("read")]
    BY <1>2 DEF RunInline, Pick
  <2>2. QED
    BY <1>t, <2>1, ResetSteps, WholeWalks DEF Exhausted
<1>3. ASSUME NEW w \in Workers, Reject(w) \/ Crash(w) PROVE Whole'
  BY <1>3, <1>t DEF Reject, Crash, TypeOK
<1>4. ASSUME NEW w \in Workers, ExpireLease(w), LeaseOutlasts PROVE Whole'
  <2>1. PICK i \in Items : item[i].lease = "live" /\ item[i].workerId = w
    BY <1>4 DEF ExpireLease
  <2>2. i \in proc[w].todo
    BY <2>1 DEF Whole, NoneAbandoned
  <2>3. QED
    BY <1>4, <2>2 DEF LeaseOutlasts
<1>5. QED
  BY <1>1, <1>2, <1>3, <1>4, WholeProcess DEF Next

LEMMA FaultsGrow == TypeOK /\ [Next]_vars /\ faults' = 0 => faults = 0
<1>1. ASSUME NEW w \in Workers, Process(w) PROVE faults' = faults
  BY <1>1 DEF Process, ReadJob, StartJob, CheckCanceled, ReleaseExpired, Claim, MarkProcessing,
     CompleteItem, AttemptFails, FailItem, CountCompleted, CountFailed, RecheckCanceled,
     ReadFinal, Settle
<1>2. ASSUME TypeOK, NEW w \in Workers, Reject(w) \/ Crash(w) PROVE faults' # 0
  BY <1>2 DEF TypeOK, Reject, Crash
<1>3. QED
  BY <1>1, <1>2 DEF Next, vars, Create, Enqueue, EnqueueLost, Cancel, Stall, RunInline, Pick,
     ExpireLease

LEMMA RunInit == Init => OwesInChunk /\ Whole
  BY DEF Init, OwesInChunk, Whole, NoneAbandoned, NoneForgotten, NonePending, Exhausted, Local,
     Fresh, ItemRow, Results

\* A run without faults leaves every item decided and every decision counted, for any
\* number of items and however many invocations overlap.
LEMMA WholeIsExact ==
  ASSUME IInv, OwesInChunk, Whole, job.status \in Results, \A w \in Workers : ~Running(w)
  PROVE  /\ \A i \in Items : item[i].status \in Results
         /\ job.completed + job.failed = Cardinality(Items)
<1> DEFINE C == counted["completed"]
           F == counted["failed"]
<1>1. \A w \in Workers : proc[w].todo = {} /\ proc[w].done = {} /\ proc[w].bad = {}
  BY DEF IInv, CurrentIsHeld, OwesInChunk, Running, Labels
<1>2. \A i \in Items : item[i].status \in Results
  BY <1>1 DEF Whole, NoneAbandoned, NonePending, Exhausted, IInv, TypeOK, ItemRows, ItemStatus,
     Results
<1>3. C \in SUBSET Items /\ F \in SUBSET Items
  BY DEF IInv, TypeOK, Results
<1>4. Items = C \cup F
  BY <1>1, <1>2, <1>3 DEF Whole, NoneForgotten, Results
<1>5. C \cap F = {}
  BY DEF IInv, Safe, DecidedStands, Stands, Results
<1>6. Cardinality(Items) = Cardinality(C) + Cardinality(F)
  BY <1>3, <1>4, <1>5, DisjointUnion
<1>7. QED
  BY <1>2, <1>6 DEF IInv, Safe, CountersExact

LEMMA RunStep == RunInv /\ [Next]_vars /\ [LeaseOutlasts]_vars => RunInv'
<1> SUFFICES ASSUME RunInv, [Next]_vars, [LeaseOutlasts]_vars PROVE RunInv'
  OBVIOUS
<1>1. IInv'
  BY TypeStep, CurrentStep, SafeStep DEF RunInv, IInv
<1>2. OwesInChunk'
  BY OwesStep DEF RunInv, IInv
<1>3. faults' = 0 => Whole'
  BY FaultsGrow, WholeStep DEF RunInv, IInv
<1>4. QED
  BY <1>1, <1>2, <1>3 DEF RunInv

\* processBatchJob without faults: leases that outlast the runs are enough for an exact
\* end, for any items, chunk size, lost locks and overlapping invocations.
THEOREM FaultFreeExact == Spec /\ LeasesOutlastRuns => []FaultFreeRunIsExact
<1>1. Init => RunInv
  BY TypeInit, CurrentInit, SafeInit, RunInit DEF IInv, RunInv
<1>2. RunInv /\ [Next]_vars /\ [LeaseOutlasts]_vars => RunInv'
  BY RunStep
<1>3. RunInv => FaultFreeRunIsExact
  BY WholeIsExact DEF RunInv, FaultFreeRunIsExact, Results
<1>4. QED
  BY <1>1, <1>2, <1>3, PTL DEF Spec, LeasesOutlastRuns

----------------------------------------------------------------------------
(* Cancels.                                                                *)

\* Once it has claimed a chunk of a canceled job, an invocation has the check ahead.
LateOnce ==
  \A w \in Workers :
    /\ lateClaims[w] <= 1
    /\ job.status = "canceled" /\ lateClaims[w] = 1 => proc[w].pc \notin {"release", "claim"}

\* One invocation moves, and not to the claim, unless it saw the job uncanceled.
LEMMA LateMoves ==
  ASSUME LateOnce, lateClaims' = lateClaims, job'.status = "canceled" => job.status = "canceled",
         NEW w \in Workers, NEW l, Steps(w, l),
         \/ l \notin {"release", "claim"}
         \/ job'.status # "canceled"
         \/ proc[w].pc \in {"release", "claim"}
  PROVE  LateOnce'
  BY DEF LateOnce, Steps

LEMMA LateClaim ==
  ASSUME TypeOK, LateOnce, NEW w \in Workers, Claim(w)
  PROVE  LateOnce'
<1>1. PICK late \in BOOLEAN, l \in {"recheck", "mark"} :
        /\ Steps(w, l)
        /\ late => job.status = "canceled"
        /\ lateClaims' = IF late THEN [lateClaims EXCEPT ![w] = @ + 1] ELSE lateClaims
  BY ClaimSteps
<1>2. job' = job /\ lateClaims[w] \in Nat
  BY DEF Claim, TypeOK
<1>3. CASE late
  <2>1. lateClaims[w] = 0
    BY <1>1, <1>2, <1>3 DEF LateOnce, Claim, At
  <2>2. lateClaims'[w] = 1 /\ \A v \in Workers \ {w} : lateClaims'[v] = lateClaims[v]
    BY <1>1, <1>3, <2>1 DEF TypeOK
  <2>3. QED
    BY <1>1, <1>2, <2>2 DEF LateOnce, Steps
<1>4. CASE ~late
  BY <1>1, <1>2, <1>4, LateMoves
<1>5. QED
  BY <1>3, <1>4

LEMMA LateProcess ==
  ASSUME TypeOK, LateOnce, NEW w \in Workers, Process(w)
  PROVE  LateOnce'
<1> USE DEF At
<1>1. CASE ReadJob(w)
  BY <1>1, ResetSteps, GotoSteps, LateMoves DEF ReadJob, Return
<1>2. CASE StartJob(w)
  <2>1. job'.status = "processing"
    BY <1>2 DEF StartJob, TypeOK, JobRows
  <2>2. QED
    BY <1>2, <2>1, GotoSteps, LateMoves DEF StartJob
<1>3. CASE CheckCanceled(w)
  BY <1>3, ResetSteps, GotoSteps, LateMoves DEF CheckCanceled, Return
<1>4. CASE ReleaseExpired(w)
  BY <1>4, GotoSteps, LateMoves DEF ReleaseExpired
<1>5. CASE Claim(w)
  BY <1>5, LateClaim
<1>6. CASE MarkProcessing(w)
  BY <1>6, MarkSteps, LateMoves DEF MarkProcessing
<1>7. CASE CompleteItem(w) \/ FailItem(w)
  <2>1. PICK l \in {"mark", "countDone", "countBad"} : Steps(w, l)
    BY <1>7, AfterItemSteps DEF CompleteItem, FailItem
  <2>2. QED
    BY <1>7, <2>1, LateMoves DEF CompleteItem, FailItem
<1>8. CASE AttemptFails(w)
  <2>1. PICK l \in {"mark", "giveUp"} : Steps(w, l)
    BY <1>8, GotoSteps DEF AttemptFails
  <2>2. QED
    BY <1>8, <2>1, LateMoves DEF AttemptFails
<1>9. CASE CountCompleted(w) \/ CountFailed(w)
  <2>1. PICK l \in {"countBad", "check"} : Steps(w, l)
    BY <1>9, CountSteps
  <2>2. job'.status = job.status /\ lateClaims' = lateClaims
    BY <1>9 DEF CountCompleted, CountFailed, TypeOK, JobRows
  <2>3. QED
    BY <2>1, <2>2, LateMoves
<1>10. CASE RecheckCanceled(w)
  BY <1>10, ResetSteps, GotoSteps, LateMoves DEF RecheckCanceled, Return
<1>11. CASE ReadFinal(w)
  BY <1>11, ResetSteps, FinalSteps, LateMoves DEF ReadFinal, Return
<1>12. CASE Settle(w)
  <2>1. job'.status \in Results
    BY <1>12 DEF Settle, TypeOK, JobRows, Locals
  <2>2. QED
    BY <1>12, <2>1, ResetSteps, LateMoves DEF Settle, Return, Results
<1>13. QED
  BY <1>1, <1>2, <1>3, <1>4, <1>5, <1>6, <1>7, <1>8, <1>9, <1>10, <1>11, <1>12 DEF Process

LEMMA LateStep == TypeOK /\ LateOnce /\ [Next]_vars => LateOnce'
<1> SUFFICES ASSUME TypeOK, LateOnce, [Next]_vars PROVE LateOnce'
  OBVIOUS
<1>1. CASE Create \/ Enqueue \/ EnqueueLost \/ Stall \/ UNCHANGED vars
  <2>1. /\ UNCHANGED <<proc, lateClaims>>
        /\ job'.status = "canceled" => job.status = "canceled"
    BY <1>1 DEF Create, Enqueue, EnqueueLost, Stall, vars, TypeOK, JobRows
  <2>2. QED
    BY <2>1 DEF LateOnce
<1>2. CASE Cancel
  BY <1>2 DEF Cancel, LateOnce
<1>3. ASSUME NEW w \in Workers, RunInline(w) \/ Pick(w) \/ Reject(w) \/ Crash(w)
      PROVE  LateOnce'
  <2>1. PICK l \in {"read", "ended", "crashed"} : proc' = [proc EXCEPT ![w] = Local(l)]
    BY <1>3 DEF RunInline, Pick, Reject, Crash
  <2>2. job' = job /\ lateClaims' = lateClaims
    BY <1>3 DEF RunInline, Pick, Reject, Crash
  <2>3. QED
    BY <2>1, <2>2, ResetSteps, LateMoves
<1>4. ASSUME NEW w \in Workers, ExpireLease(w) PROVE LateOnce'
  BY <1>4 DEF ExpireLease, LateOnce
<1>5. QED
  BY <1>1, <1>2, <1>3, <1>4, LateProcess DEF Next

\* cancelBatchJob: while the cancel stands no invocation claims a second chunk.  Neither
\* leases nor locks matter for it.
THEOREM CancelBounds == Spec => []CancelBoundsClaims
<1>1. Init => LateOnce
  BY DEF Init, LateOnce
<1>2. TypeOK /\ CurrentIsHeld /\ LateOnce /\ [Next]_vars
        => (TypeOK /\ CurrentIsHeld /\ LateOnce)'
  BY TypeStep, CurrentStep, LateStep
<1>3. LateOnce => CancelBoundsClaims
  BY DEF LateOnce, CancelBoundsClaims
<1>4. QED
  BY <1>1, <1>2, <1>3, TypeInit, CurrentInit, PTL DEF Spec

=============================================================================
