------------------------- MODULE StripeLedgerProofs -------------------------
(***************************************************************************)
(* Theorems about billing as a whole: waiting for locks never closes a     *)
(* circle; while no workspace has two customers, the handlers implement    *)
(* SubscriptionLedger; and when a workspace has only one customer.         *)
(***************************************************************************)
EXTENDS StripeWebhooksProofs

----------------------------------------------------------------------------
(* Whose rows are locked.                                                  *)

\* Only an open transaction has written rows, and no row is written by two.
RowsExclusive ==
  /\ \A w \in Workers : proc[w].wrote # {} => proc[w].pc \in {"audit", "commit"}
  /\ \A v, w \in Workers : v # w => proc[v].wrote \cap proc[w].wrote = {}

LEMMA RowsKept ==
  ASSUME RowsExclusive, NEW w \in Workers,
         \A v \in Workers \ {w} : proc'[v] = proc[v],
         proc'[w].wrote # {} => proc'[w].pc \in {"audit", "commit"},
         \A v \in Workers \ {w} : proc'[w].wrote \cap proc[v].wrote = {}
  PROVE  RowsExclusive'
<1>1. \A v \in Workers : proc'[v].wrote # {} => proc'[v].pc \in {"audit", "commit"}
  BY DEF RowsExclusive
<1>2. ASSUME NEW u \in Workers, NEW v \in Workers, u # v
      PROVE  proc'[u].wrote \cap proc'[v].wrote = {}
  <2>1. CASE u = w
    BY <2>1, <1>2
  <2>2. CASE v = w
    BY <2>2, <1>2
  <2>3. CASE u # w /\ v # w
    BY <2>3, <1>2 DEF RowsExclusive
  <2>4. QED
    BY <2>1, <2>2, <2>3
<1>3. QED
  BY <1>1, <1>2 DEF RowsExclusive

\* The handler w has written nothing when the step is over.
LEMMA RowsLeft ==
  ASSUME RowsExclusive, NEW w \in Workers,
         \A v \in Workers \ {w} : proc'[v] = proc[v], proc'[w].wrote = {}
  PROVE  RowsExclusive'
  BY RowsKept

LEMMA RowsProcess ==
  ASSUME TypeOK, RowsExclusive, NEW w \in Workers, Process(w)
  PROVE  RowsExclusive'
<1>1. ASSUME Return(w) PROVE RowsExclusive'
  <2>1. proc'[w] = Rest("ended") /\ \A v \in Workers \ {w} : proc'[v] = proc[v]
    BY <1>1, ReturnEffect
  <2>2. proc'[w].wrote = {}
    BY <2>1 DEF Rest
  <2>3. QED
    BY <2>1, <2>2, RowsLeft
<1>2. ASSUME NEW l \in {"begin", "lock", "read", "apply"}, Goto(w, l),
             proc[w].pc \notin {"audit", "commit"}
      PROVE  RowsExclusive'
  <2>1. l \in Labels
    BY DEF Labels
  <2>2. proc'[w].wrote = proc[w].wrote /\ \A v \in Workers \ {w} : proc'[v] = proc[v]
    BY <1>2, <2>1, GotoEffect
  <2>3. proc'[w].wrote = {}
    BY <1>2, <2>2 DEF RowsExclusive
  <2>4. QED
    BY <2>2, <2>3, RowsLeft
<1>p. PICK p \in Handlers : p = proc[w]
  BY DEF TypeOK
<1>3. CASE Apply(w)
  <2>1. PICK targets : targets = IF IsSubscription(proc[w].event) THEN Targets(proc[w].event)
                                 ELSE {}
    OBVIOUS
  <2>2. /\ proc' = [proc EXCEPT ![w] = [p EXCEPT !.pc = "audit", !.wrote = targets]]
        /\ \A o \in targets : RowFree(o, w)
    BY <1>3, <1>p, <2>1 DEF Apply
  <2>3. /\ proc'[w].pc = "audit" /\ proc'[w].wrote = targets
        /\ \A v \in Workers \ {w} : proc'[v] = proc[v]
    BY <2>2, <1>p DEF TypeOK, Handlers
  <2>4. \A v \in Workers \ {w} : targets \cap proc[v].wrote = {}
    BY <2>2 DEF RowFree
  <2>5. QED
    BY <2>3, <2>4, RowsKept
<1>4. CASE Audit(w)
  <2>1. PICK found : found = (Targets(proc[w].event) # {})
    OBVIOUS
  <2>2. proc' = [proc EXCEPT ![w] = [p EXCEPT !.pc = "commit", !.found = found]]
    BY <1>4, <1>p, <2>1 DEF Audit
  <2>3. /\ proc'[w].pc = "commit" /\ proc'[w].wrote = proc[w].wrote
        /\ \A v \in Workers \ {w} : proc'[v] = proc[v]
    BY <2>2, <1>p DEF TypeOK, Handlers
  <2>4. \A v \in Workers \ {w} : proc[w].wrote \cap proc[v].wrote = {}
    BY DEF RowsExclusive
  <2>5. QED
    BY <2>3, <2>4, RowsKept
<1>5. ASSUME proc' = [proc EXCEPT ![w] = [proc[w] EXCEPT !.pc = "email", !.wrote = {}]]
      PROVE  RowsExclusive'
  <2>1. proc'[w].wrote = {} /\ \A v \in Workers \ {w} : proc'[v] = proc[v]
    BY <1>5, <1>p DEF TypeOK, Handlers
  <2>2. QED
    BY <2>1, RowsLeft
<1>6. QED
  BY <1>1, <1>2, <1>3, <1>4, <1>5
     DEF Process, Claim, BeginTransaction, Lock, CheckOrder, Commit, SendEmail, At

LEMMA RowsStep == WellFormed /\ RowsExclusive /\ [Next]_vars => RowsExclusive'
<1> SUFFICES ASSUME WellFormed, RowsExclusive, [Next]_vars PROVE RowsExclusive'
  OBVIOUS
<1>a. TypeOK
  BY DEF WellFormed
<1>b. ASSUME UNCHANGED proc PROVE RowsExclusive'
  BY <1>b DEF RowsExclusive
<1>1. CASE UNCHANGED vars
  BY <1>1, <1>b DEF vars
<1>2. ASSUME NEW k \in Checkouts, Checkout(k) PROVE RowsExclusive'
  BY <1>2, <1>b DEF Checkout, OpenCheckout, CreateCustomer, BeginSave, SaveCustomer,
                    CreateSession, CreatePortal, CheckoutFails
<1>3. ASSUME NEW e \in Events, Enqueue(e) \/ Stall(e) PROVE RowsExclusive'
  BY <1>3, <1>b DEF Enqueue, Stall
<1>4. ASSUME NEW w \in Workers, NEW e \in Events, PostInline(w, e) \/ Pick(w, e)
      PROVE  RowsExclusive'
  <2>1. PICK posted \in BOOLEAN : Begin(w, e, posted) /\ UNCHANGED claimed
    BY <1>4 DEF PostInline, Pick, rows
  <2>2. proc'[w].wrote = {} /\ \A v \in Workers \ {w} : proc'[v] = proc[v]
    BY <2>1, BeginEffect
  <2>3. QED
    BY <2>2, RowsLeft
<1>5. ASSUME NEW w \in Workers, Reject(w) \/ Crash(w) PROVE RowsExclusive'
  <2>1. PICK pc \in {"ended", "crashed"} : proc' = [proc EXCEPT ![w] = Rest(pc)]
    BY <1>5 DEF Reject, Crash
  <2>2. Rest(pc) \in Handlers
    BY RestType
  <2>3. proc'[w] = Rest(pc) /\ \A v \in Workers \ {w} : proc'[v] = proc[v]
    BY <2>1, <2>2, <1>a, ProcEffect
  <2>4. proc'[w].wrote = {}
    BY <2>3 DEF Rest
  <2>5. QED
    BY <2>3, <2>4, RowsLeft
<1>6. ASSUME NEW w \in Workers, Process(w) PROVE RowsExclusive'
  BY <1>6, <1>a, RowsProcess
<1>7. QED
  BY <1>1, <1>2, <1>3, <1>4, <1>5, <1>6 DEF Next

LEMMA AlwaysRows == Spec => []RowsExclusive
<1>1. Init => RowsExclusive
  BY DEF Init, RowsExclusive, Rest
<1>2. QED
  BY <1>1, RowsStep, AlwaysWellFormed, PTL DEF Spec

\* Who has written a row has every row it still needs.
LEMMA WriterGoesOn ==
  ASSUME WellFormed, Paired, RowsExclusive, NEW u \in Workers, proc[u].wrote # {}
  PROVE  HoldsLock(u, CustomerOf[proc[u].event]) /\ ~Waits(u)
<1>1. proc[u].pc \in {"audit", "commit"}
  BY DEF RowsExclusive
<1>2. proc[u].wrote = {OwnerAt(u)}
  BY <1>1 DEF Paired, HandlersPaired
<1>3. CustomerOf[proc[u].event] \in Customers
  BY <1>1 DEF WellFormed, HandlersWellFormed, PastClaim
<1>4. Matching(CustomerOf[proc[u].event]) \subseteq {OwnerAt(u)}
  BY <1>3 DEF Matching, OwnerAt, Paired, CustomersPaired
<1>5. NeedsRows(u) \subseteq {OwnerAt(u)}
  BY <1>1, <1>2, <1>4 DEF NeedsRows, At
<1>6. RowFree(OwnerAt(u), u)
  BY <1>2 DEF RowFree, RowsExclusive
<1>7. QED
  BY <1>1, <1>5, <1>6 DEF HoldsLock, Waits, At

\* Whoever waits for a row or for the lock of a customer waits for somebody, and one of
\* those goes on: the handler that has written the row, or the one that holds the lock.
\* No assumption on customers, events, workers or faults is needed.
THEOREM NoDeadlock == Spec => []NoWaitCircle
<1>1. ASSUME WellFormed, Paired, RowsExclusive PROVE NoWaitCircle
  <2>1. ASSUME NEW o, NEW x, ~RowFree(o, x)
        PROVE  \E v \in Workers : HoldsLock(v, CustomerOf[proc[v].event]) /\ ~Waits(v)
    <3>1. PICK u \in Workers : proc[u].wrote # {}
      BY <2>1 DEF RowFree
    <3>2. QED
      BY <3>1, <1>1, WriterGoesOn
  <2>2. ASSUME NEW w \in Workers, Waits(w)
        PROVE  \E v \in Workers : HoldsLock(v, CustomerOf[proc[v].event]) /\ ~Waits(v)
    <3>1. CASE \E o \in NeedsRows(w) : ~RowFree(o, w)
      BY <3>1, <2>1
    <3>2. CASE At(w, "lock") /\ \E v \in Workers : HoldsLock(v, CustomerOf[proc[w].event])
      <4>1. PICK v \in Workers : HoldsLock(v, CustomerOf[proc[v].event]) /\ ~At(v, "lock")
        BY <3>2 DEF HoldsLock, At
      <4>2. CASE ~Waits(v)
        BY <4>1, <4>2
      <4>3. CASE Waits(v)
        BY <4>1, <4>3, <2>1 DEF Waits
      <4>4. QED
        BY <4>2, <4>3
    <3>3. QED
      BY <2>2, <3>1, <3>2 DEF Waits
  <2>3. ASSUME NEW k \in Checkouts, CheckoutWaits(k)
        PROVE  \E v \in Workers : HoldsLock(v, CustomerOf[proc[v].event]) /\ ~Waits(v)
    BY <2>1, <2>3 DEF CheckoutWaits
  <2>4. QED
    BY <2>2, <2>3 DEF NoWaitCircle
<1>2. QED
  BY <1>1, AlwaysWellFormed, AlwaysPaired, AlwaysRows, PTL

----------------------------------------------------------------------------
(* The refinement of SubscriptionLedger.                                   *)

\* A transaction has written what its event calls for, its audit row is tried before it
\* commits, and an email is about a created subscription.
Exact(w) ==
  /\ proc[w].pc \in {"audit", "commit"} =>
       proc[w].wrote = IF IsSubscription(proc[w].event) THEN {OwnerAt(w)} ELSE {}
  /\ proc[w].pc = "commit" => \/ audits[proc[w].event] = 1
                              \/ proc[w].event \in unaudited
  /\ proc[w].pc = "email" => KindOf[proc[w].event] = "created"

AllExact == \A w \in Workers : Exact(w)

\* The row an event is written to is that of its workspace, with or without metadata.
LEMMA TargetsAreOwner ==
  ASSUME WellFormed, Paired, AllSaved, NEW w \in Workers, PastClaim(w)
  PROVE  /\ proc[w].event \in Events /\ CustomerOf[proc[w].event] \in Customers
         /\ OwnerAt(w) \in Orgs
         /\ Targets(proc[w].event) = {OwnerAt(w)}
<1>1. /\ proc[w].event \in Events /\ CustomerOf[proc[w].event] \in Customers
      /\ Sent(proc[w].event)
  BY DEF WellFormed, HandlersWellFormed, Paired, HandlersPaired, PastClaim, Running, Labels
<1>2. OwnerAt(w) \in Orgs /\ CustomerOf[proc[w].event] \in sessions
  BY <1>1, StripeAssumption DEF OwnerAt, Sent
<1>3. org[OwnerAt(w)].customer = CustomerOf[proc[w].event]
  BY <1>2 DEF AllSaved, Saved, OwnerAt
<1>4. \A o \in Orgs : org[o].customer = CustomerOf[proc[w].event] => o = OwnerAt(w)
  BY <1>1 DEF Paired, CustomersPaired, OwnerAt
<1>5. Matching(CustomerOf[proc[w].event]) = {OwnerAt(w)}
  BY <1>2, <1>3, <1>4 DEF Matching
<1>6. QED
  BY <1>1, <1>2, <1>5 DEF Targets, OwnerAt

\* The handlers other than w keep their place, and so does what was audited of their events.
LEMMA ExactKept ==
  ASSUME AllExact, NEW w \in Workers, \A v \in Workers \ {w} : proc'[v] = proc[v],
         \A v \in Workers \ {w} :
           proc[v].pc = "commit" => audits'[proc[v].event] = audits[proc[v].event],
         unaudited \subseteq unaudited',
         Exact(w)'
  PROVE  AllExact'
  BY DEF AllExact, Exact, OwnerAt

\* A handler that is not in a transaction and sends no email.
LEMMA ExactElsewhere ==
  ASSUME AllExact, NEW w \in Workers, \A v \in Workers \ {w} : proc'[v] = proc[v],
         UNCHANGED <<audits, unaudited>>, proc'[w].pc \notin {"audit", "commit", "email"}
  PROVE  AllExact'
<1>1. Exact(w)'
  BY DEF Exact
<1>2. QED
  BY <1>1, ExactKept

LEMMA ExactProcess ==
  ASSUME WellFormed, Paired, AllSaved, Once, AllExact, NEW w \in Workers, Process(w)
  PROVE  AllExact'
<1>a. TypeOK /\ Exact(w)
  BY DEF WellFormed, AllExact
<1>p. PICK p \in Handlers : p = proc[w]
  BY <1>a DEF TypeOK
<1>e. PICK e : e = proc[w].event
  OBVIOUS
<1>1. ASSUME Return(w), UNCHANGED <<audits, unaudited>> PROVE AllExact'
  <2>1. proc'[w] = Rest("ended") /\ \A v \in Workers \ {w} : proc'[v] = proc[v]
    BY <1>1, <1>a, ReturnEffect
  <2>2. proc'[w].pc = "ended"
    BY <2>1 DEF Rest
  <2>3. QED
    BY <1>1, <2>1, <2>2, ExactElsewhere
<1>2. ASSUME NEW l \in {"begin", "lock", "read", "apply"}, Goto(w, l),
             UNCHANGED <<audits, unaudited>>
      PROVE  AllExact'
  <2>1. l \in Labels
    BY DEF Labels
  <2>2. proc'[w].pc = l /\ \A v \in Workers \ {w} : proc'[v] = proc[v]
    BY <1>2, <2>1, <1>a, GotoEffect
  <2>3. QED
    BY <1>2, <2>2, ExactElsewhere
<1>3. CASE Apply(w)
  <2>1. PICK targets : targets = IF IsSubscription(e) THEN Targets(e) ELSE {}
    OBVIOUS
  <2>2. /\ proc' = [proc EXCEPT ![w] = [p EXCEPT !.pc = "audit", !.wrote = targets]]
        /\ UNCHANGED <<audits, unaudited>> /\ PastClaim(w)
    BY <1>3, <1>p, <1>e, <2>1 DEF Apply, effects, At, PastClaim
  <2>3. /\ proc'[w].pc = "audit" /\ proc'[w].wrote = targets /\ proc'[w].event = e
        /\ \A v \in Workers \ {w} : proc'[v] = proc[v]
    BY <2>2, <1>p, <1>e, <1>a DEF TypeOK, Handlers
  <2>4. targets = IF IsSubscription(e) THEN {OwnerOf[CustomerOf[e]]} ELSE {}
    BY <2>1, <2>2, <1>e, TargetsAreOwner DEF OwnerAt
  <2>5. Exact(w)'
    BY <2>3, <2>4 DEF Exact, OwnerAt, IsSubscription
  <2>6. QED
    BY <2>2, <2>3, <2>5, ExactKept
<1>4. CASE Audit(w)
  <2>1. PICK found : found = (Targets(proc[w].event) # {})
    OBVIOUS
  <2>2. /\ proc' = [proc EXCEPT ![w] = [p EXCEPT !.pc = "commit", !.found = found]]
        /\ At(w, "audit") /\ PastClaim(w)
    BY <1>4, <1>p, <2>1 DEF Audit, At, PastClaim
  <2>3. /\ proc'[w].pc = "commit" /\ proc'[w].wrote = proc[w].wrote /\ proc'[w].event = e
        /\ \A v \in Workers \ {w} : proc'[v] = proc[v]
    BY <2>2, <1>p, <1>e, <1>a DEF TypeOK, Handlers
  <2>4. e \in Events /\ Record(e)
    BY <2>2, <1>4, <1>e, TargetsAreOwner DEF Audit
  <2>5. audits[e] = 0
    BY <2>2, <1>e DEF Once, NotYet, At
  <2>6. /\ audits'[e] = 1 \/ e \in unaudited'
        /\ unaudited \subseteq unaudited'
        /\ \A d \in Events \ {e} : audits'[d] = audits[d]
    BY <2>4, <2>5, <1>a DEF Record, TypeOK
  <2>7. \A v \in Workers \ {w} :
          proc[v].pc = "commit" => audits'[proc[v].event] = audits[proc[v].event]
    BY <2>2, <2>6, <1>e DEF Once, ClaimedOnce, PastClaim, WellFormed, HandlersWellFormed,
                            Running, Labels
  <2>8. Exact(w)'
    BY <2>2, <2>3, <2>6, <1>a, <1>e DEF Exact, OwnerAt, IsSubscription, At
  <2>9. QED
    BY <2>3, <2>6, <2>7, <2>8, ExactKept
<1>5. ASSUME proc' = [proc EXCEPT ![w] = [proc[w] EXCEPT !.pc = "email", !.wrote = {}]],
             KindOf[proc[w].event] = "created", UNCHANGED <<audits, unaudited>>
      PROVE  AllExact'
  <2>1. /\ proc'[w].pc = "email" /\ proc'[w].event = e
        /\ \A v \in Workers \ {w} : proc'[v] = proc[v]
    BY <1>5, <1>p, <1>e, <1>a DEF TypeOK, Handlers
  <2>2. Exact(w)'
    BY <2>1, <1>5, <1>e DEF Exact
  <2>3. QED
    BY <2>1, <2>2, <1>5, ExactKept
<1>6. CASE Commit(w)
  BY <1>6, <1>1, <1>5 DEF Commit, OwesEmail
<1>7. QED
  BY <1>1, <1>2, <1>3, <1>4, <1>6
     DEF Process, Claim, BeginTransaction, Lock, CheckOrder, SendEmail, effects

LEMMA ExactStep ==
  ASSUME WellFormed, Paired, AllSaved, Once, AllExact, [Next]_vars
  PROVE  AllExact'
<1>a. TypeOK
  BY DEF WellFormed
<1>b. ASSUME UNCHANGED <<proc, audits, unaudited>> PROVE AllExact'
  BY <1>b DEF AllExact, Exact, OwnerAt
<1>1. CASE UNCHANGED vars
  BY <1>1, <1>b DEF vars, effects
<1>2. ASSUME NEW k \in Checkouts, Checkout(k) PROVE AllExact'
  BY <1>2, <1>b DEF Checkout, OpenCheckout, CreateCustomer, BeginSave, SaveCustomer,
                    CreateSession, CreatePortal, CheckoutFails, effects
<1>3. ASSUME NEW e \in Events, Enqueue(e) \/ Stall(e) PROVE AllExact'
  BY <1>3, <1>b DEF Enqueue, Stall, effects
<1>4. ASSUME NEW w \in Workers, NEW e \in Events, PostInline(w, e) \/ Pick(w, e)
      PROVE  AllExact'
  <2>1. PICK posted \in BOOLEAN : /\ Begin(w, e, posted) /\ UNCHANGED claimed
                                 /\ UNCHANGED <<audits, unaudited>>
    BY <1>4 DEF PostInline, Pick, rows, effects
  <2>2. proc'[w].pc = "claim" /\ \A v \in Workers \ {w} : proc'[v] = proc[v]
    BY <2>1, BeginEffect
  <2>3. QED
    BY <2>1, <2>2, ExactElsewhere
<1>5. ASSUME NEW w \in Workers, Reject(w) \/ Crash(w) PROVE AllExact'
  <2>1. PICK pc \in {"ended", "crashed"} : proc' = [proc EXCEPT ![w] = Rest(pc)]
    BY <1>5 DEF Reject, Crash
  <2>2. Rest(pc) \in Handlers /\ Rest(pc).pc = pc
    BY RestType
  <2>3. proc'[w].pc = pc /\ \A v \in Workers \ {w} : proc'[v] = proc[v]
    BY <2>1, <2>2, <1>a, ProcEffect
  <2>4. UNCHANGED <<audits, unaudited>>
    BY <1>5 DEF Reject, Crash, effects
  <2>5. QED
    BY <2>3, <2>4, ExactElsewhere
<1>6. ASSUME NEW w \in Workers, Process(w) PROVE AllExact'
  BY <1>6, ExactProcess
<1>7. QED
  BY <1>1, <1>2, <1>3, <1>4, <1>5, <1>6 DEF Next

LInv == OInv /\ Once /\ AllExact

LEMMA AlwaysExact == Spec => [](OneCustomerPerOrg => LInv)
<1>1. Init => OInv /\ Once /\ AllExact
  BY InitOrderedInv, InitOnce DEF Init, AllExact, Exact, Rest
<1>2. [Next]_vars /\ OneCustomerPerOrg' => OneCustomerPerOrg
  BY KnownGrows DEF OneCustomerPerOrg
<1>3. OInv /\ Once /\ AllExact /\ [Next]_vars => AllExact'
  BY ExactStep DEF OInv
<1>4. OInv => WellFormed
  BY DEF OInv
<1>5. LInv <=> OInv /\ Once /\ AllExact
  BY DEF LInv
<1>6. QED
  BY <1>1, <1>2, <1>3, <1>4, <1>5, OrderedStep, OnceStep, PTL DEF Spec

----------------------------------------------------------------------------

LEMMA LedgerStutters ==
  ASSUME UNCHANGED effects,
         \A o \in Orgs : org'[o].lastAt = org[o].lastAt /\ org'[o].shown = org[o].shown
  PROVE  UNCHANGED Ledger!ledgerVars
<1>1. /\ [o \in Orgs |-> org'[o].lastAt] = [o \in Orgs |-> org[o].lastAt]
      /\ [o \in Orgs |-> org'[o].shown] = [o \in Orgs |-> org[o].shown]
  OBVIOUS
<1>2. QED
  BY <1>1 DEF Ledger!ledgerVars, effects

LEMMA LedgerRecords ==
  ASSUME NEW e \in Events, audits[e] = 0, applied[e] = 0, e \notin unaudited,
         audits' = [audits EXCEPT ![e] = 1], UNCHANGED <<org, applied, unaudited, emails>>
  PROVE  Ledger!Next
<1>1. Ledger!Record(e)
  BY DEF Ledger!Record, Ledger!Untried
<1>2. QED
  BY <1>1 DEF Ledger!Next

LEMMA LedgerMisses ==
  ASSUME NEW e \in Events, audits[e] = 0, applied[e] = 0, e \notin unaudited,
         unaudited' = unaudited \cup {e}, UNCHANGED <<org, applied, audits, emails>>
  PROVE  Ledger!Next
<1>1. Ledger!Miss(e)
  BY DEF Ledger!Miss, Ledger!Untried
<1>2. QED
  BY <1>1 DEF Ledger!Next

LEMMA LedgerTicksOff ==
  ASSUME NEW e \in Events, CustomerOf[e] = NoCustomer, applied[e] = 0,
         applied' = [applied EXCEPT ![e] = 1], UNCHANGED <<org, audits, unaudited, emails>>
  PROVE  Ledger!Next
<1>1. Ledger!TickOff(e)
  BY DEF Ledger!TickOff
<1>2. QED
  BY <1>1 DEF Ledger!Next

LEMMA LedgerMails ==
  ASSUME NEW e \in Events, KindOf[e] = "created", applied[e] = 1, emails[e] = 0,
         emails' = [emails EXCEPT ![e] = 1], UNCHANGED <<org, applied, audits, unaudited>>
  PROVE  Ledger!Next
<1>1. Ledger!Mail(e)
  BY DEF Ledger!Mail
<1>2. QED
  BY <1>1 DEF Ledger!Next

LEMMA LedgerTakesEffect ==
  ASSUME NEW e \in Events, NEW o \in Orgs,
         CustomerOf[e] \in Customers, OwnerOf[CustomerOf[e]] = o,
         audits[e] = 1 \/ e \in unaudited, applied[e] = 0, CreatedAt[e] > org[o].lastAt,
         applied' = [applied EXCEPT ![e] = 1], UNCHANGED <<audits, unaudited, emails>>,
         \A p \in Orgs \ {o} : org'[p] = org[p],
         org'[o].lastAt = CreatedAt[e],
         org'[o].shown = IF IsSubscription(e) THEN e ELSE org[o].shown
  PROVE  Ledger!Next
<1>1. CustomerOf[e] # NoCustomer /\ o # NoOrg
  BY StripeAssumption
<1>2. [p \in Orgs |-> org'[p].lastAt] =
        [[p \in Orgs |-> org[p].lastAt] EXCEPT ![o] = CreatedAt[e]]
  OBVIOUS
<1>3. [p \in Orgs |-> org'[p].shown] =
        [[p \in Orgs |-> org[p].shown] EXCEPT ![o] = IF IsSubscription(e) THEN e
                                                     ELSE org[o].shown]
  OBVIOUS
<1>4. Ledger!TakeEffect(e)
  BY <1>1, <1>2, <1>3 DEF Ledger!TakeEffect
<1>5. QED
  BY <1>4 DEF Ledger!Next

LEMMA LedgerProcess ==
  ASSUME LInv, NEW w \in Workers, Process(w)
  PROVE  Ledger!Next \/ UNCHANGED Ledger!ledgerVars
<1>a. /\ WellFormed /\ TypeOK /\ Paired /\ CustomersPaired /\ HandlersPaired /\ AllSaved
      /\ Once /\ Ordered /\ Exact(w)
  BY DEF LInv, OInv, WellFormed, Paired, AllExact
<1>e. PICK e : e = proc[w].event
  OBVIOUS
<1>b. /\ applied \in [Events -> Nat] /\ audits \in [Events -> Nat]
      /\ emails \in [Events -> Nat]
      /\ PastClaim(w) => NotYet(w)
  BY <1>a DEF TypeOK, Once
<1>c. ASSUME UNCHANGED <<org, effects>> PROVE UNCHANGED Ledger!ledgerVars
  BY <1>c, LedgerStutters
<1>1. CASE Claim(w)
  <2>1. /\ At(w, "claim") /\ UNCHANGED <<org, audits, unaudited, emails>>
        /\ applied' = IF e \notin claimed /\ CustomerOf[e] = NoCustomer
                      THEN [applied EXCEPT ![e] = @ + 1] ELSE applied
    BY <1>1, <1>e DEF Claim
  <2>2. e \in Events
    BY <2>1, <1>a, <1>e DEF WellFormed, HandlersWellFormed, Running, At, Labels
  <2>3. CASE e \notin claimed /\ CustomerOf[e] = NoCustomer
    <3>1. applied[e] = 0
      BY <2>2, <2>3, <1>a DEF Once, Untouched
    <3>2. applied' = [applied EXCEPT ![e] = 1]
      BY <2>1, <2>3, <3>1
    <3>3. QED
      BY <2>1, <2>2, <2>3, <3>1, <3>2, LedgerTicksOff
  <2>4. CASE ~(e \notin claimed /\ CustomerOf[e] = NoCustomer)
    BY <2>1, <2>4, <1>c DEF effects
  <2>5. QED
    BY <2>3, <2>4
<1>2. CASE BeginTransaction(w) \/ Lock(w) \/ CheckOrder(w) \/ Apply(w)
  BY <1>2, <1>c DEF BeginTransaction, Lock, CheckOrder, Apply, rows
<1>3. CASE Audit(w)
  <2>1. At(w, "audit") /\ PastClaim(w) /\ UNCHANGED <<org, applied, emails>>
    BY <1>3 DEF Audit, At, PastClaim, rows
  <2>2. e \in Events /\ Record(e)
    BY <2>1, <1>3, <1>a, <1>e, TargetsAreOwner DEF Audit
  <2>3. audits[e] = 0 /\ applied[e] = 0 /\ e \notin unaudited
    BY <2>1, <1>b, <1>e DEF NotYet, At
  <2>4. CASE UNCHANGED unaudited /\ audits' = [audits EXCEPT ![e] = @ + 1]
    <3>1. audits' = [audits EXCEPT ![e] = 1]
      BY <2>3, <2>4
    <3>2. QED
      BY <2>1, <2>2, <2>3, <2>4, <3>1, LedgerRecords
  <2>5. CASE unaudited' = unaudited \cup {e} /\ UNCHANGED audits
    BY <2>1, <2>2, <2>3, <2>5, LedgerMisses
  <2>6. QED
    BY <2>2, <2>4, <2>5 DEF Record
<1>4. CASE Commit(w)
  <2>1. /\ At(w, "commit") /\ PastClaim(w) /\ Fresh(w)
        /\ UNCHANGED <<audits, unaudited, emails>>
        /\ applied' = [applied EXCEPT ![e] = @ + 1]
    BY <1>4, <1>e DEF Commit, At, PastClaim, Fresh
  <2>2. PICK o : o = OwnerAt(w)
    OBVIOUS
  <2>3. /\ e \in Events /\ CustomerOf[e] \in Customers /\ o \in Orgs
        /\ OwnerOf[CustomerOf[e]] = o
        /\ \A p \in Orgs \ {o} : org'[p] = org[p]
        /\ org'[o].lastAt = CreatedAt[e]
        /\ org'[o].shown = IF o \in proc[w].wrote THEN e ELSE org[o].shown
    BY <1>4, <1>a, <1>e, <2>2, CommitEffect DEF OwnerAt
  <2>4. o \in proc[w].wrote <=> IsSubscription(e)
    BY <2>1, <2>2, <1>a, <1>e DEF Exact, At
  <2>5. (audits[e] = 1 \/ e \in unaudited) /\ applied[e] = 0
    BY <2>1, <1>a, <1>b, <1>e DEF Exact, NotYet, At
  <2>6. CreatedAt[e] > org[o].lastAt
    <3>1. org[o].lastAt < CreatedAt[e]
      BY <2>1, <2>2, <1>a, <1>e DEF Ordered
    <3>2. QED
      BY <3>1, <2>3, <1>a, StripeAssumption DEF TypeOK, OrgRows
  <2>7. applied' = [applied EXCEPT ![e] = 1]
    BY <2>1, <2>5, <1>b
  <2>8. QED
    BY <2>1, <2>3, <2>4, <2>5, <2>6, <2>7, LedgerTakesEffect
<1>5. CASE SendEmail(w)
  <2>1. /\ At(w, "email") /\ PastClaim(w) /\ UNCHANGED <<org, applied, audits, unaudited>>
        /\ \/ emails' = [emails EXCEPT ![e] = @ + 1]
           \/ UNCHANGED emails
    BY <1>5, <1>e DEF SendEmail, At, PastClaim, rows
  <2>2. e \in Events /\ KindOf[e] = "created" /\ applied[e] = 1 /\ emails[e] = 0
    BY <2>1, <1>a, <1>b, <1>e, TargetsAreOwner DEF Exact, NotYet, At
  <2>3. CASE emails' = [emails EXCEPT ![e] = @ + 1]
    <3>1. emails' = [emails EXCEPT ![e] = 1]
      BY <2>2, <2>3
    <3>2. QED
      BY <2>1, <2>2, <3>1, LedgerMails
  <2>4. CASE UNCHANGED emails
    BY <2>1, <2>4, <1>c DEF effects
  <2>5. QED
    BY <2>1, <2>3, <2>4
<1>6. QED
  BY <1>1, <1>2, <1>3, <1>4, <1>5 DEF Process

LEMMA LedgerStep ==
  ASSUME LInv, [Next]_vars
  PROVE  [Ledger!Next]_(Ledger!ledgerVars)
<1>1. CASE UNCHANGED vars
  BY <1>1, LedgerStutters DEF vars, rows
<1>2. ASSUME NEW k \in Checkouts, Checkout(k) PROVE UNCHANGED Ledger!ledgerVars
  <2>1. /\ UNCHANGED effects
        /\ org' = org \/ org' = [org EXCEPT ![shop[k].org].customer = shop[k].customer]
    BY <1>2 DEF Checkout, OpenCheckout, CreateCustomer, BeginSave, SaveCustomer,
                CreateSession, CreatePortal, CheckoutFails, rows
  <2>2. \A o \in Orgs : org'[o].lastAt = org[o].lastAt /\ org'[o].shown = org[o].shown
    BY <2>1 DEF LInv, OInv, WellFormed, TypeOK, OrgRows
  <2>3. QED
    BY <2>1, <2>2, LedgerStutters
<1>3. CASE \/ \E e \in Events : Enqueue(e) \/ Stall(e)
           \/ \E w \in Workers : \/ \E e \in Events : PostInline(w, e) \/ Pick(w, e)
                                 \/ Reject(w) \/ Crash(w)
  <2>1. UNCHANGED <<org, effects>>
    BY <1>3 DEF Enqueue, Stall, PostInline, Pick, Reject, Crash, rows
  <2>2. QED
    BY <2>1, LedgerStutters
<1>4. QED
  BY <1>1, <1>2, <1>3, LedgerProcess DEF Next

LEMMA LedgerInit == Init => Ledger!Init
<1> SUFFICES ASSUME Init PROVE Ledger!Init
  OBVIOUS
<1>1. /\ [o \in Orgs |-> org[o].lastAt] = [o \in Orgs |-> 0]
      /\ [o \in Orgs |-> org[o].shown] = [o \in Orgs |-> NoEvent]
  BY DEF Init
<1>2. QED
  BY <1>1 DEF Init, Ledger!Init

\* While no workspace gets a second customer, the handlers, whatever is posted twice, stalls,
\* crashes, waits or is retried, implement SubscriptionLedger: each step of them puts
\* an event in the audit log or finds that it cannot, ticks it off, makes it take effect or
\* mails it, or the ledger does not see it.
THEOREM BillingIsALedger == Spec /\ []OneCustomerPerOrg => ImplementsLedger
<1>1. LInv /\ [Next]_vars => [Ledger!Next]_(Ledger!ledgerVars)
  BY LedgerStep
<1>2. QED
  BY <1>1, LedgerInit, AlwaysExact, PTL DEF Spec, ImplementsLedger, Ledger!Spec

-----------------------------------------------------------------------------
(* When a workspace has one customer: ensureCustomer reads the column, creates and saves   *)
(* without a lock, so it takes checkouts that keep apart and save what they create.        *)

\* Between the creation of a customer and its save.
Saving(k) == shop[k].pc \in {"save", "update"}

\* Between its read of a row without a customer and its save.
Pending(k) == shop[k].pc = "create" \/ Saving(k)

\* No two first checkouts of a workspace are under way at once.
CheckoutsApart ==
  \A j, k \in Checkouts : j # k /\ Pending(j) /\ Pending(k) => shop[j].org # shop[k].org

\* No checkout fails between the creation of a customer and its save.
CreatedIsSaved == \A k \in Checkouts : CheckoutFails(k) => ~Saving(k)

CheckoutsSave == [][CreatedIsSaved]_vars

\* Every customer is in its row or on the way into it.
Kept(c) == Saved(c) \/ \E k \in Checkouts : Saving(k) /\ shop[k].customer = c

KnownIsKept == \A c \in known : Kept(c)

\* Meanwhile the row of a first checkout stays without a customer.
StillEmpty ==
  \A k \in Checkouts : Pending(k) => /\ shop[k].org \in Orgs
                                     /\ org[shop[k].org].customer = NoCustomer

KInv == WellFormed /\ Paired /\ AllSaved /\ KnownIsKept /\ StillEmpty

LEMMA KeptIsSingle ==
  WellFormed /\ Paired /\ KnownIsKept /\ StillEmpty /\ CheckoutsApart => OneCustomerPerOrg
<1> SUFFICES ASSUME WellFormed, Paired, KnownIsKept, StillEmpty, CheckoutsApart,
                    NEW c \in known, NEW d \in known, OwnerOf[c] = OwnerOf[d], c # d
             PROVE  FALSE
  BY DEF OneCustomerPerOrg
<1>1. c \in Customers /\ d \in Customers /\ NoCustomer \notin Customers
  BY StripeAssumption DEF WellFormed, TypeOK
<1>2. ~(Saved(c) /\ Saved(d))
  BY DEF Saved
<1>3. ASSUME NEW x \in known, NEW y \in known, OwnerOf[x] = OwnerOf[y], x \in Customers,
             Saved(x), NEW k \in Checkouts, Saving(k), shop[k].customer = y
      PROVE  FALSE
  <2>1. OwnerOf[y] = shop[k].org
    BY <1>3 DEF Paired, CustomersPaired, Saving
  <2>2. org[shop[k].org].customer = NoCustomer
    BY <1>3 DEF StillEmpty, Pending, Saving
  <2>3. QED
    BY <1>1, <1>3, <2>1, <2>2 DEF Saved
<1>4. ASSUME NEW j \in Checkouts, Saving(j), shop[j].customer = c,
             NEW k \in Checkouts, Saving(k), shop[k].customer = d
      PROVE  FALSE
  <2>1. OwnerOf[c] = shop[j].org /\ OwnerOf[d] = shop[k].org
    BY <1>4 DEF Paired, CustomersPaired, Saving
  <2>2. QED
    BY <1>4, <2>1 DEF CheckoutsApart, Pending, Saving
<1>5. QED
  BY <1>1, <1>2, <1>3, <1>4 DEF KnownIsKept, Kept

LEMMA CheckoutKept ==
  ASSUME KInv, CheckoutsApart, CheckoutsApart', CreatedIsSaved,
         NEW k \in Checkouts, Checkout(k)
  PROVE  KnownIsKept' /\ StillEmpty'
<1>a. /\ shop \in [Checkouts -> Shops] /\ org \in [Orgs -> OrgRows]
      /\ known \subseteq Customers /\ CustomersPaired /\ KnownIsKept /\ StillEmpty
  BY DEF KInv, WellFormed, TypeOK, Paired
<1>b. PICK s \in Shops : s = shop[k]
  BY <1>a
<1>1. ASSUME NEW o \in Orgs, OpenCheckout(k, o) PROVE KnownIsKept' /\ StillEmpty'
  <2>1. UNCHANGED <<org, known>> /\ shop[k].pc = "idle"
    BY <1>1 DEF OpenCheckout, rows
  <2>2. \A j \in Checkouts \ {k} : shop'[j] = shop[j]
    BY <1>1, <1>a DEF OpenCheckout
  <2>3. /\ shop'[k].org = o
        /\ shop'[k].pc \in {"create", "session"}
        /\ shop'[k].pc = "create" => org[o].customer = NoCustomer
    BY <1>1, <1>a DEF OpenCheckout
  <2>4. KnownIsKept'
    BY <1>a, <2>1, <2>2 DEF KnownIsKept, Kept, Saved, Saving
  <2>5. StillEmpty'
    BY <1>a, <2>1, <2>2, <2>3 DEF StillEmpty, Pending, Saving
  <2>6. QED
    BY <2>4, <2>5
<1>2. ASSUME NEW c \in Customers, CreateCustomer(k, c) PROVE KnownIsKept' /\ StillEmpty'
  <2>1. /\ UNCHANGED org /\ known' = known \cup {c} /\ shop[k].pc = "create"
    BY <1>2 DEF CreateCustomer, rows
  <2>2. \A j \in Checkouts \ {k} : shop'[j] = shop[j]
    BY <1>2, <1>a DEF CreateCustomer
  <2>3. shop'[k].pc = "save" /\ shop'[k].customer = c /\ shop'[k].org = shop[k].org
    BY <1>2, <1>a, <1>b DEF CreateCustomer, Shops
  <2>4. KnownIsKept'
    BY <1>a, <2>1, <2>2, <2>3 DEF KnownIsKept, Kept, Saved, Saving
  <2>5. StillEmpty'
    BY <1>a, <2>1, <2>2, <2>3 DEF StillEmpty, Pending, Saving
  <2>6. QED
    BY <2>4, <2>5
<1>3. ASSUME SaveCustomer(k) PROVE KnownIsKept' /\ StillEmpty'
  <2>1. UNCHANGED known /\ s.pc = "update" /\ Pending(k)
    BY <1>3, <1>b DEF SaveCustomer, Pending, Saving
  <2>2. \A j \in Checkouts \ {k} : shop'[j] = shop[j]
    BY <1>3, <1>a DEF SaveCustomer
  <2>3. shop'[k].pc = "session"
    BY <1>3, <1>a, <1>b DEF SaveCustomer, Shops
  <2>4. /\ s.org \in Orgs /\ org[s.org].customer = NoCustomer
        /\ OwnerOf[s.customer] = s.org
    BY <1>a, <1>b, <2>1 DEF StillEmpty, CustomersPaired, Saving
  <2>5. /\ \A o \in Orgs \ {s.org} : org'[o] = org[o]
        /\ org'[s.org].customer = s.customer
    BY <1>3, <1>a, <1>b, <2>4 DEF SaveCustomer, OrgRows
  <2>6. ASSUME NEW c \in known PROVE Kept(c)'
    <3>1. CASE Saved(c)
      <4>1. OwnerOf[c] # s.org /\ OwnerOf[c] \in Orgs
        BY <3>1, <2>4, <1>a, StripeAssumption DEF Saved
      <4>2. QED
        BY <3>1, <4>1, <2>5 DEF Kept, Saved, Saving
    <3>2. CASE \E j \in Checkouts : Saving(j) /\ shop[j].customer = c
      <4>1. PICK j \in Checkouts : Saving(j) /\ shop[j].customer = c
        BY <3>2
      <4>2. CASE j = k
        BY <4>1, <4>2, <1>b, <2>4, <2>5 DEF Kept, Saved, Saving
      <4>3. CASE j # k
        BY <4>1, <4>3, <2>2 DEF Kept, Saving
      <4>4. QED
        BY <4>2, <4>3
    <3>3. QED
      BY <3>1, <3>2, <1>a DEF KnownIsKept, Kept
  <2>7. StillEmpty'
    <3> SUFFICES ASSUME NEW j \in Checkouts, Pending(j)'
                 PROVE  shop'[j].org \in Orgs /\ org'[shop'[j].org].customer = NoCustomer
      BY DEF StillEmpty
    <3>1. j # k /\ Pending(j) /\ shop'[j] = shop[j]
      BY <2>2, <2>3 DEF Pending, Saving
    <3>2. shop[j].org # s.org /\ shop[j].org \in Orgs
      BY <3>1, <2>1, <1>a, <1>b DEF CheckoutsApart, StillEmpty
    <3>3. QED
      BY <3>1, <3>2, <2>5, <1>a DEF StillEmpty
  <2>8. QED
    BY <2>1, <2>6, <2>7 DEF KnownIsKept
<1>s. ASSUME BeginSave(k) PROVE KnownIsKept' /\ StillEmpty'
  <2>1. UNCHANGED <<org, known>> /\ s.pc = "save"
    BY <1>s, <1>b DEF BeginSave, rows
  <2>2. \A j \in Checkouts \ {k} : shop'[j] = shop[j]
    BY <1>s, <1>a DEF BeginSave
  <2>3. shop'[k].pc = "update" /\ shop'[k].customer = s.customer /\ shop'[k].org = s.org
    BY <1>s, <1>a, <1>b DEF BeginSave, Shops
  <2>4. KnownIsKept'
    BY <1>a, <1>b, <2>1, <2>2, <2>3 DEF KnownIsKept, Kept, Saved, Saving
  <2>5. StillEmpty'
    BY <1>a, <1>b, <2>1, <2>2, <2>3 DEF StillEmpty, Pending, Saving
  <2>6. QED
    BY <2>4, <2>5
<1>4. ASSUME CreateSession(k) \/ CreatePortal(k) \/ CheckoutFails(k)
      PROVE  KnownIsKept' /\ StillEmpty'
  <2>1. UNCHANGED <<org, known>> /\ ~Saving(k)
    BY <1>4 DEF CreateSession, CreatePortal, CheckoutFails, CreatedIsSaved, Saving, rows
  <2>2. \A j \in Checkouts \ {k} : shop'[j] = shop[j]
    BY <1>4, <1>a DEF CreateSession, CreatePortal, CheckoutFails
  <2>3. shop'[k].pc = "ended"
    BY <1>4, <1>a, <1>b DEF CreateSession, CreatePortal, CheckoutFails, Shops
  <2>4. KnownIsKept'
    BY <1>a, <2>1, <2>2 DEF KnownIsKept, Kept, Saved, Saving
  <2>5. StillEmpty'
    BY <1>a, <2>1, <2>2, <2>3 DEF StillEmpty, Pending, Saving
  <2>6. QED
    BY <2>4, <2>5
<1>5. QED
  BY <1>1, <1>2, <1>s, <1>3, <1>4 DEF Checkout

\* A handler writes a customer to a row that has it already.
LEMMA HandlersKeep ==
  ASSUME KInv, NEW w \in Workers, Process(w)
  PROVE  /\ UNCHANGED checkout
         /\ \A o \in Orgs : org'[o].customer = org[o].customer
<1>1. CASE Commit(w)
  <2>1. /\ CustomerOf[proc[w].event] \in sessions
        /\ \A o \in Orgs : \/ org'[o].customer = org[o].customer
                           \/ /\ o = OwnerAt(w)
                              /\ org'[o].customer = CustomerOf[proc[w].event]
    BY <1>1, CommitCustomers DEF KInv, Paired
  <2>2. org[OwnerAt(w)].customer = CustomerOf[proc[w].event]
    BY <2>1 DEF KInv, AllSaved, Saved, OwnerAt
  <2>3. UNCHANGED checkout
    BY <1>1 DEF Commit
  <2>4. QED
    BY <2>1, <2>2, <2>3
<1>2. CASE ~Commit(w)
  BY <1>2 DEF Process, Claim, BeginTransaction, Lock, CheckOrder, Apply, Audit, SendEmail, rows
<1>3. QED
  BY <1>1, <1>2

LEMMA KeptStep ==
  ASSUME KInv, CheckoutsApart, CheckoutsApart', [CreatedIsSaved]_vars, [Next]_vars
  PROVE  KInv' /\ OneCustomerPerOrg'
<1>1. WellFormed' /\ Paired'
  BY StepWellFormed, PairedStep DEF KInv
<1>2. ASSUME UNCHANGED checkout, \A o \in Orgs : org'[o].customer = org[o].customer
      PROVE  KnownIsKept' /\ StillEmpty'
  <2>1. UNCHANGED <<shop, known>> /\ known \subseteq Customers
    BY <1>2 DEF checkout, KInv, WellFormed, TypeOK
  <2>2. QED
    BY <1>2, <2>1, StripeAssumption DEF KInv, KnownIsKept, Kept, StillEmpty, Saved, Pending, Saving
<1>3. KnownIsKept' /\ StillEmpty'
  <2>1. CASE UNCHANGED vars
    BY <2>1, <1>2 DEF vars, rows
  <2>2. ASSUME NEW k \in Checkouts, Checkout(k) PROVE KnownIsKept' /\ StillEmpty'
    <3>1. CASE UNCHANGED vars
      BY <3>1, <1>2 DEF vars, rows
    <3>2. CASE CreatedIsSaved
      BY <2>2, <3>2, CheckoutKept
    <3>3. QED
      BY <3>1, <3>2
  <2>3. ASSUME NEW w \in Workers, Process(w) PROVE KnownIsKept' /\ StillEmpty'
    BY <2>3, <1>2, HandlersKeep
  <2>4. QED
    BY <2>1, <2>2, <2>3, <1>2
       DEF Next, Enqueue, Stall, PostInline, Pick, Reject, Crash, rows
<1>4. OneCustomerPerOrg'
  BY <1>1, <1>3, KeptIsSingle, PTL
<1>5. AllSaved'
  BY <1>4, SavedStep DEF KInv
<1>6. QED
  BY <1>1, <1>3, <1>4, <1>5 DEF KInv

LEMMA InitKept == Init => KInv /\ OneCustomerPerOrg
  BY InitPaired, InitWellFormed
     DEF Init, KInv, Paired, AllSaved, KnownIsKept, StillEmpty, Pending, Saving, OneCustomerPerOrg

\* As long as no two checkouts create the first customer of a workspace at once, and none
\* fails between its creation and its save, no workspace has two customers, whatever the
\* handlers of events write to the same column meanwhile.
THEOREM SerialCheckouts ==
  Spec /\ []CheckoutsApart /\ CheckoutsSave => []OneCustomerPerOrg
<1>1. /\ KInv /\ CheckoutsApart /\ CheckoutsApart' /\ [CreatedIsSaved]_vars /\ [Next]_vars
        => KInv' /\ OneCustomerPerOrg'
  BY KeptStep
<1>2. QED
  BY <1>1, InitKept, PTL DEF Spec, CheckoutsSave

\* So with such checkouts billing is a ledger, without a condition on customers.
THEOREM SerialCheckoutsSuffice ==
  Spec /\ []CheckoutsApart /\ CheckoutsSave => ImplementsLedger
  BY SerialCheckouts, BillingIsALedger, PTL

============================================================================
