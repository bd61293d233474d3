------------------------ MODULE StripeWebhooksProofs ------------------------
(***************************************************************************)
(* Theorems about StripeWebhooks.                                          *)
(***************************************************************************)
EXTENDS StripeWebhooks, TLAPS

----------------------------------------------------------------------------
(* Type correctness.                                                       *)

\* The handler inserted the claim of its event itself, and goes on.
PastClaim(w) == proc[w].pc \in {"begin", "lock", "read", "apply", "audit", "commit", "email"}

HandlersWellFormed ==
  \A w \in Workers :
    /\ Running(w) => proc[w].event \in Events
    /\ PastClaim(w) => /\ proc[w].event \in claimed
                       /\ CustomerOf[proc[w].event] \in Customers

ShopsWellFormed ==
  \A k \in Checkouts : shop[k].pc \in {"save", "update", "session"} => shop[k].customer \in Customers

WellFormed == TypeOK /\ HandlersWellFormed /\ ShopsWellFormed

LEMMA RestType ==
  ASSUME NEW pc \in Labels \cup {"idle", "ended", "crashed"}
  PROVE  Rest(pc) \in Handlers /\ Rest(pc).pc = pc
  BY DEF Rest, Handlers

LEMMA InitWellFormed == Init => WellFormed
<1> SUFFICES ASSUME Init PROVE WellFormed
  OBVIOUS
<1>1. Rest("idle") \in Handlers
  BY RestType
<1>2. NewBull("none") \in BullJobs
  BY DEF NewBull, BullJobs, BullStates
<1>3. \A o \in Orgs : org[o] \in OrgRows
  BY DEF Init, OrgRows
<1>4. \A k \in Checkouts : shop[k] \in Shops
  BY DEF Init, Shops
<1>5. TypeOK
  BY <1>1, <1>2, <1>3, <1>4 DEF Init, TypeOK
<1>6. HandlersWellFormed
  BY DEF Init, HandlersWellFormed, Running, PastClaim, Labels, Rest
<1>7. ShopsWellFormed
  BY DEF Init, ShopsWellFormed
<1>8. QED
  BY <1>5, <1>6, <1>7 DEF WellFormed

LEMMA StalledType ==
  ASSUME NEW b \in BullJobs
  PROVE  Stalled(b) \in BullJobs
<1>a. /\ b.stalls \in Nat
      /\ "wait" \in BullStates /\ "failed" \in BullStates
  BY DEF BullJobs, BullStates
<1> DEFINE n == b.stalls + 1
<1>b. n \in Nat
  BY <1>a
<1> HIDE DEF n
<1>1. [b EXCEPT !.state = "wait", !.holder = NoWorker, !.stalls = n] \in BullJobs
  BY <1>a, <1>b DEF BullJobs
<1>2. [b EXCEPT !.state = "failed", !.holder = NoWorker] \in BullJobs
  BY <1>a DEF BullJobs
<1>3. QED
  BY <1>1, <1>2 DEF Stalled, n

\* Whatever the queue does with a job, the job stays one.
LEMMA BullType ==
  ASSUME NEW b \in BullJobs, NEW w \in Workers
  PROVE  /\ Taken(b, w) \in BullJobs
         /\ Returned(b, w) \in BullJobs
         /\ Thrown(b, w) \in BullJobs
         /\ Stalled(b) \in BullJobs
<1>a. /\ b.attemptsMade \in Nat /\ b.stalls \in Nat
      /\ "wait" \in BullStates /\ "failed" \in BullStates
  BY DEF BullJobs, BullStates
<1>1. Taken(b, w) \in BullJobs
  BY DEF Taken, BullJobs, BullStates
<1>2. Returned(b, w) \in BullJobs
  BY DEF Returned, BullJobs, BullStates
<1>3. Thrown(b, w) \in BullJobs
  <2> DEFINE st == IF b.attemptsMade + 1 < QueueAttempts THEN "wait" ELSE "failed"
  <2>1. st \in BullStates /\ b.attemptsMade + 1 \in Nat
    BY <1>a
  <2>2. [b EXCEPT !.state = st, !.attemptsMade = b.attemptsMade + 1, !.holder = NoWorker]
          \in BullJobs
    BY <2>1 DEF BullJobs
  <2>3. QED
    BY <2>2 DEF Thrown
<1>4. Stalled(b) \in BullJobs
  BY StalledType
<1>5. QED
  BY <1>1, <1>2, <1>3, <1>4

\* What a handler that returns leaves behind.
LEMMA ReturnEffect ==
  ASSUME TypeOK, NEW w \in Workers, Return(w)
  PROVE  /\ proc' \in [Workers -> Handlers]
         /\ bull' \in [Events -> BullJobs]
         /\ proc'[w] = Rest("ended")
         /\ \A v \in Workers \ {w} : proc'[v] = proc[v]
<1>1. Rest("ended") \in Handlers
  BY RestType
<1>2. proc' \in [Workers -> Handlers]
  BY <1>1 DEF Return, TypeOK
<1>3. bull' \in [Events -> BullJobs]
  BY BullType DEF Return, TypeOK
<1>4. QED
  BY <1>2, <1>3 DEF Return, TypeOK

LEMMA GotoEffect ==
  ASSUME TypeOK, NEW w \in Workers, NEW l \in Labels, Goto(w, l)
  PROVE  /\ proc' \in [Workers -> Handlers]
         /\ proc'[w].pc = l
         /\ proc'[w].event = proc[w].event
         /\ proc'[w].wrote = proc[w].wrote
         /\ \A v \in Workers \ {w} : proc'[v] = proc[v]
<1>1. PICK p \in Handlers : p = proc[w]
  BY DEF TypeOK
<1>2. [p EXCEPT !.pc = l] \in Handlers
  BY <1>1 DEF Handlers
<1>3. proc' = [proc EXCEPT ![w] = [p EXCEPT !.pc = l]]
  BY <1>1 DEF Goto, TypeOK
<1>4. QED
  BY <1>1, <1>2, <1>3 DEF TypeOK, Handlers

\* The handler w is replaced by q, which is a handler.
LEMMA ProcEffect ==
  ASSUME TypeOK, NEW w \in Workers, NEW q \in Handlers, proc' = [proc EXCEPT ![w] = q]
  PROVE  /\ proc' \in [Workers -> Handlers]
         /\ proc'[w] = q
         /\ \A v \in Workers \ {w} : proc'[v] = proc[v]
  BY DEF TypeOK

\* Nothing claimed is given up, and the handlers other than w stay: the handlers are
\* well-formed if w is.
LEMMA OthersWellFormed ==
  ASSUME HandlersWellFormed, NEW w \in Workers, claimed \subseteq claimed',
         \A v \in Workers \ {w} : proc'[v] = proc[v],
         Running(w)' => proc'[w].event \in Events,
         PastClaim(w)' => /\ proc'[w].event \in claimed'
                          /\ CustomerOf[proc'[w].event] \in Customers
  PROVE  HandlersWellFormed'
  BY DEF HandlersWellFormed, Running, PastClaim

LEMMA RestWellFormed ==
  ASSUME HandlersWellFormed, NEW w \in Workers, claimed \subseteq claimed',
         NEW pc \in {"idle", "ended", "crashed"}, proc'[w] = Rest(pc),
         \A v \in Workers \ {w} : proc'[v] = proc[v]
  PROVE  HandlersWellFormed'
<1>1. ~Running(w)' /\ ~PastClaim(w)'
  BY DEF Running, PastClaim, Labels, Rest
<1>2. QED
  BY <1>1, OthersWellFormed

\* A handler past the claim that goes on with the same event stays well-formed.
LEMMA AdvanceWellFormed ==
  ASSUME HandlersWellFormed, NEW w \in Workers, claimed \subseteq claimed',
         PastClaim(w), proc'[w].event = proc[w].event,
         \A v \in Workers \ {w} : proc'[v] = proc[v]
  PROVE  HandlersWellFormed'
<1>1. /\ proc[w].event \in claimed /\ CustomerOf[proc[w].event] \in Customers
      /\ proc[w].event \in Events
  BY DEF HandlersWellFormed, Running, PastClaim, Labels
<1>2. QED
  BY <1>1, OthersWellFormed

LEMMA SameHandlers ==
  ASSUME HandlersWellFormed, UNCHANGED <<proc, claimed>>
  PROVE  HandlersWellFormed'
  BY DEF HandlersWellFormed, Running, PastClaim

\* A handler that begins with e.
LEMMA BeginEffect ==
  ASSUME WellFormed, NEW w \in Workers, NEW e \in Events, NEW posted \in BOOLEAN,
         Begin(w, e, posted), UNCHANGED claimed
  PROVE  /\ proc' \in [Workers -> Handlers]
         /\ proc'[w].pc = "claim" /\ proc'[w].event = e /\ proc'[w].wrote = {}
         /\ \A v \in Workers \ {w} : proc'[v] = proc[v]
         /\ HandlersWellFormed'
<1> DEFINE q == [Rest("claim") EXCEPT !.event = e, !.posted = posted]
<1>1. q \in Handlers /\ q.pc = "claim" /\ q.event = e /\ q.wrote = {}
  BY DEF Rest, Handlers, Labels
<1>2. proc' = [proc EXCEPT ![w] = q]
  BY DEF Begin
<1>3. /\ proc' \in [Workers -> Handlers] /\ proc'[w] = q
      /\ \A v \in Workers \ {w} : proc'[v] = proc[v]
  BY <1>1, <1>2, ProcEffect DEF WellFormed
<1>4. ~PastClaim(w)' /\ proc'[w].event \in Events
  BY <1>1, <1>3 DEF PastClaim
<1>5. QED
  BY <1>1, <1>3, <1>4, OthersWellFormed DEF WellFormed

LEMMA CheckoutWellFormed ==
  ASSUME WellFormed, NEW k \in Checkouts, Checkout(k)
  PROVE  WellFormed'
<1>a. PICK s \in Shops : s = shop[k]
  BY DEF WellFormed, TypeOK
<1>b. /\ s.pc \in {"idle", "create", "save", "update", "session", "ended"}
      /\ s.customer \in Customers \cup {NoCustomer}
      /\ s.pc \in {"save", "update", "session"} => s.customer \in Customers
      /\ \A o \in Orgs : org[o].customer \in Customers \cup {NoCustomer}
  BY <1>a DEF Shops, WellFormed, ShopsWellFormed, TypeOK, OrgRows
<1>1. ASSUME NEW o \in Orgs, OpenCheckout(k, o) PROVE WellFormed'
  <2> DEFINE t == [pc |-> IF org[o].customer = NoCustomer THEN "create" ELSE "session",
                   org |-> o, customer |-> org[o].customer]
  <2>1. t \in Shops /\ (t.pc \in {"save", "update", "session"} => t.customer \in Customers)
    BY <1>b DEF Shops
  <2>2. shop' = [shop EXCEPT ![k] = t] /\ UNCHANGED <<rows, bull, proc, known, sessions, faults, effects>>
    BY <1>1 DEF OpenCheckout
  <2> HIDE DEF t
  <2>3. TypeOK' /\ ShopsWellFormed'
    BY <2>1, <2>2 DEF WellFormed, TypeOK, ShopsWellFormed, rows, effects
  <2>4. QED
    BY <2>2, <2>3, SameHandlers DEF WellFormed, rows
<1>2. ASSUME NEW c \in Customers, CreateCustomer(k, c) PROVE WellFormed'
  <2> DEFINE t == [s EXCEPT !.pc = "save", !.customer = c]
  <2>1. t \in Shops /\ t.customer \in Customers
    BY DEF Shops
  <2>2. shop' = [shop EXCEPT ![k] = t] /\ UNCHANGED <<rows, bull, proc, sessions, faults, effects>>
    BY <1>2, <1>a DEF CreateCustomer
  <2>3. known' \in SUBSET Customers
    BY <1>2 DEF CreateCustomer, WellFormed, TypeOK
  <2> HIDE DEF t
  <2>4. TypeOK' /\ ShopsWellFormed'
    BY <2>1, <2>2, <2>3 DEF WellFormed, TypeOK, ShopsWellFormed, rows, effects
  <2>5. QED
    BY <2>2, <2>4, SameHandlers DEF WellFormed, rows
<1>s. ASSUME BeginSave(k) PROVE WellFormed'
  <2> DEFINE t == [s EXCEPT !.pc = "update"]
  <2>1. t \in Shops /\ t.customer \in Customers
    BY <1>s, <1>a, <1>b DEF Shops, BeginSave
  <2>2. shop' = [shop EXCEPT ![k] = t] /\ UNCHANGED <<rows, bull, proc, known, sessions, faults, effects>>
    BY <1>s, <1>a DEF BeginSave
  <2> HIDE DEF t
  <2>3. TypeOK' /\ ShopsWellFormed'
    BY <2>1, <2>2 DEF WellFormed, TypeOK, ShopsWellFormed, rows, effects
  <2>4. QED
    BY <2>2, <2>3, SameHandlers DEF WellFormed, rows
<1>3. ASSUME SaveCustomer(k) PROVE WellFormed'
  <2> DEFINE t == [s EXCEPT !.pc = "session"]
  <2>1. t \in Shops /\ t.customer \in Customers
    BY <1>3, <1>a, <1>b DEF Shops, SaveCustomer
  <2>2. shop' = [shop EXCEPT ![k] = t] /\ UNCHANGED <<claimed, bull, proc, known, sessions, faults, effects>>
    BY <1>3, <1>a DEF SaveCustomer
  <2>3. org' \in [Orgs -> OrgRows]
    <3>1. \A o \in Orgs : [org[o] EXCEPT !.customer = s.customer] \in OrgRows
      BY <1>b DEF WellFormed, TypeOK, OrgRows
    <3>2. \A o \in Orgs : org'[o] \in OrgRows
      BY <1>3, <1>a, <3>1 DEF SaveCustomer, WellFormed, TypeOK
    <3>3. QED
      BY <1>3, <3>2 DEF SaveCustomer, WellFormed, TypeOK
  <2> HIDE DEF t
  <2>4. TypeOK' /\ ShopsWellFormed'
    BY <2>1, <2>2, <2>3 DEF WellFormed, TypeOK, ShopsWellFormed, effects
  <2>5. QED
    BY <2>2, <2>4, SameHandlers DEF WellFormed
<1>4. ASSUME CreateSession(k) \/ CreatePortal(k) \/ CheckoutFails(k) PROVE WellFormed'
  <2> DEFINE t == [s EXCEPT !.pc = "ended"]
  <2>1. t \in Shops /\ t.pc = "ended"
    BY DEF Shops
  <2>2. shop' = [shop EXCEPT ![k] = t] /\ UNCHANGED <<rows, bull, proc, known, effects>>
    BY <1>4, <1>a DEF CreateSession, CreatePortal, CheckoutFails
  <2>3. sessions' \in SUBSET Customers /\ faults' \in Nat
    BY <1>4, <1>a, <1>b DEF CreateSession, CreatePortal, CheckoutFails, WellFormed, TypeOK
  <2> HIDE DEF t
  <2>4. TypeOK' /\ ShopsWellFormed'
    BY <2>1, <2>2, <2>3 DEF WellFormed, TypeOK, ShopsWellFormed, rows, effects
  <2>5. QED
    BY <2>2, <2>4, SameHandlers DEF WellFormed, rows
<1>5. QED
  BY <1>1, <1>2, <1>s, <1>3, <1>4 DEF Checkout

----------------------------------------------------------------------------

LEMMA Increment ==
  ASSUME NEW f \in [Events -> Nat], NEW e \in Events
  PROVE  [f EXCEPT ![e] = @ + 1] \in [Events -> Nat]
  OBVIOUS

LEMMA QueueWellFormed ==
  ASSUME WellFormed,
         \/ \E e \in Events : Enqueue(e) \/ Stall(e)
         \/ \E w \in Workers : \/ \E e \in Events : PostInline(w, e) \/ Pick(w, e)
                               \/ Reject(w) \/ Crash(w)
  PROVE  WellFormed'
<1>1. ASSUME NEW e \in Events, Enqueue(e) \/ Stall(e) PROVE WellFormed'
  <2>1. [bull[e] EXCEPT !.state = "wait"] \in BullJobs
    BY DEF WellFormed, TypeOK, BullJobs, BullStates
  <2>2. Stalled(bull[e]) \in BullJobs
    BY StalledType DEF WellFormed, TypeOK
  <2>3. bull' \in [Events -> BullJobs]
    BY <1>1, <2>1, <2>2 DEF Enqueue, Stall, WellFormed, TypeOK
  <2>4. UNCHANGED <<rows, proc, checkout, faults, effects>>
    BY <1>1 DEF Enqueue, Stall
  <2>5. QED
    BY <2>3, <2>4, SameHandlers
       DEF WellFormed, TypeOK, ShopsWellFormed, rows, checkout, effects
<1>2. ASSUME NEW w \in Workers, NEW e \in Events, PostInline(w, e) \/ Pick(w, e)
      PROVE  WellFormed'
  <2>1. PICK posted \in BOOLEAN : Begin(w, e, posted) /\ UNCHANGED <<rows, checkout, faults, effects>>
    BY <1>2 DEF PostInline, Pick
  <2>2. proc' \in [Workers -> Handlers] /\ HandlersWellFormed'
    BY <2>1, BeginEffect DEF rows
  <2>3. Taken(bull[e], w) \in BullJobs
    BY BullType DEF WellFormed, TypeOK
  <2>4. bull' \in [Events -> BullJobs]
    BY <1>2, <2>3 DEF PostInline, Pick, WellFormed, TypeOK
  <2>5. QED
    BY <2>1, <2>2, <2>4 DEF WellFormed, TypeOK, ShopsWellFormed, rows, checkout, effects
<1>3. ASSUME NEW w \in Workers, Reject(w) \/ Crash(w) PROVE WellFormed'
  <2>1. PICK pc \in {"ended", "crashed"} : proc' = [proc EXCEPT ![w] = Rest(pc)]
    BY <1>3 DEF Reject, Crash
  <2>2. Rest(pc) \in Handlers
    BY RestType
  <2>3. /\ proc' \in [Workers -> Handlers] /\ proc'[w] = Rest(pc)
        /\ \A v \in Workers \ {w} : proc'[v] = proc[v]
    BY <2>1, <2>2, ProcEffect DEF WellFormed
  <2>4. UNCHANGED <<rows, checkout, effects>> /\ faults' \in Nat
    BY <1>3 DEF Reject, Crash, WellFormed, TypeOK
  <2>5. HandlersWellFormed'
    BY <2>3, <2>4, RestWellFormed DEF WellFormed, rows
  <2>6. bull' \in [Events -> BullJobs]
    <3>1. bull' = bull \/ bull' = [e \in Events |-> Thrown(bull[e], w)]
      BY <1>3 DEF Reject, Crash
    <3>2. bull \in [Events -> BullJobs]
      BY DEF WellFormed, TypeOK
    <3>3. \A e \in Events : Thrown(bull[e], w) \in BullJobs
      BY <3>2, BullType
    <3>4. QED
      BY <3>1, <3>2, <3>3
  <2>7. QED
    BY <2>3, <2>4, <2>5, <2>6 DEF WellFormed, TypeOK, ShopsWellFormed, rows, checkout, effects
<1>4. QED
  BY <1>1, <1>2, <1>3

LEMMA ProcessWellFormed ==
  ASSUME WellFormed, NEW w \in Workers, Process(w)
  PROVE  WellFormed'
<1> DEFINE e == proc[w].event
<1>a. TypeOK /\ HandlersWellFormed
  BY DEF WellFormed
<1>b. /\ Running(w) => e \in Events
      /\ PastClaim(w) => e \in claimed /\ CustomerOf[e] \in Customers
  BY <1>a DEF HandlersWellFormed
<1>c. ASSUME UNCHANGED <<rows, checkout>>, proc' \in [Workers -> Handlers],
             bull' \in [Events -> BullJobs], faults' \in Nat, HandlersWellFormed',
             applied' \in [Events -> Nat], audits' \in [Events -> Nat],
             unaudited' \in SUBSET Events, emails' \in [Events -> Nat]
      PROVE  WellFormed'
  BY <1>a, <1>c DEF WellFormed, TypeOK, ShopsWellFormed, rows, checkout
<1>d. /\ faults \in Nat /\ applied \in [Events -> Nat] /\ audits \in [Events -> Nat]
      /\ emails \in [Events -> Nat] /\ bull \in [Events -> BullJobs]
      /\ unaudited \in SUBSET Events
      /\ org \in [Orgs -> OrgRows] /\ claimed \in SUBSET Events
  BY <1>a DEF TypeOK
<1>1. CASE Claim(w)
  <2>1. /\ At(w, "claim") /\ claimed' = claimed \cup {e}
        /\ UNCHANGED <<org, checkout, faults, audits, unaudited, emails>>
    BY <1>1 DEF Claim
  <2>2. e \in Events
    BY <1>b, <2>1 DEF At, Running, Labels
  <2>3. applied' \in [Events -> Nat]
    <3>1. [applied EXCEPT ![e] = @ + 1] \in [Events -> Nat]
      BY <1>d, <2>2, Increment
    <3>2. applied' \in {applied, [applied EXCEPT ![e] = @ + 1]}
      BY <1>1 DEF Claim
    <3>3. QED
      BY <1>d, <3>1, <3>2
  <2>4. /\ proc' \in [Workers -> Handlers] /\ bull' \in [Events -> BullJobs]
        /\ HandlersWellFormed'
    <3>1. CASE Return(w)
      BY <3>1, <2>1, <1>a, ReturnEffect, RestWellFormed
    <3>2. CASE Goto(w, "begin") /\ UNCHANGED bull /\ CustomerOf[e] # NoCustomer
      <4>1. "begin" \in Labels
        BY DEF Labels
      <4>2. /\ proc' \in [Workers -> Handlers] /\ proc'[w].event = e
            /\ \A v \in Workers \ {w} : proc'[v] = proc[v]
        BY <3>2, <4>1, <1>a, GotoEffect
      <4>3. CustomerOf[e] \in Customers
        BY <3>2, <2>2, StripeAssumption
      <4>4. HandlersWellFormed'
        BY <4>2, <4>3, <2>1, <2>2, <1>a, OthersWellFormed
      <4>5. QED
        BY <4>2, <4>4, <3>2, <1>d
    <3>3. QED
      BY <1>1, <3>1, <3>2 DEF Claim
  <2>5. claimed' \in SUBSET Events
    BY <2>1, <2>2, <1>d
  <2>6. QED
    BY <2>1, <2>3, <2>4, <2>5, <1>a DEF WellFormed, TypeOK, ShopsWellFormed, checkout
<1>2. ASSUME PastClaim(w), UNCHANGED claimed,
             Return(w) \/ \E l \in Labels : Goto(w, l) /\ UNCHANGED bull
      PROVE  /\ proc' \in [Workers -> Handlers] /\ bull' \in [Events -> BullJobs]
             /\ HandlersWellFormed'
  <2>1. CASE Return(w)
    BY <2>1, <1>2, <1>a, ReturnEffect, RestWellFormed
  <2>2. ASSUME NEW l \in Labels, Goto(w, l), UNCHANGED bull
        PROVE  /\ proc' \in [Workers -> Handlers] /\ bull' \in [Events -> BullJobs]
               /\ HandlersWellFormed'
    BY <2>2, <1>2, <1>a, <1>d, GotoEffect, AdvanceWellFormed
  <2>3. QED
    BY <2>1, <2>2, <1>2
<1>b2. CASE BeginTransaction(w)
  <2>1. PastClaim(w) /\ "lock" \in Labels
    BY <1>b2 DEF BeginTransaction, At, PastClaim, Labels
  <2>2. /\ UNCHANGED <<rows, checkout, faults, effects>>
        /\ Goto(w, "lock") /\ UNCHANGED bull
    BY <1>b2 DEF BeginTransaction
  <2>3. QED
    BY <1>2, <1>c, <1>d, <2>1, <2>2 DEF rows, effects
<1>3. CASE Lock(w)
  <2>1. PastClaim(w) /\ "read" \in Labels
    BY <1>3 DEF Lock, At, PastClaim, Labels
  <2>2. /\ UNCHANGED <<rows, checkout, faults, effects>>
        /\ Goto(w, "read") /\ UNCHANGED bull
    BY <1>3 DEF Lock
  <2>3. QED
    BY <1>2, <1>c, <1>d, <2>1, <2>2 DEF rows, effects
<1>4. CASE CheckOrder(w)
  <2>1. PastClaim(w) /\ "apply" \in Labels
    BY <1>4 DEF CheckOrder, At, PastClaim, Labels
  <2>2. /\ UNCHANGED <<rows, checkout, faults, effects>>
        /\ \/ Return(w)
           \/ Goto(w, "apply") /\ UNCHANGED bull
    BY <1>4 DEF CheckOrder
  <2>3. QED
    BY <1>2, <1>c, <1>d, <2>1, <2>2 DEF rows, effects
<1>5. CASE Apply(w)
  <2> DEFINE targets == IF IsSubscription(e) THEN Targets(e) ELSE {}
             q == [proc[w] EXCEPT !.pc = "audit", !.wrote = targets]
  <2>1. PastClaim(w)
    BY <1>5 DEF Apply, At, PastClaim
  <2>2. CustomerOf[e] \in Customers
    BY <1>b, <2>1
  <2>3. targets \in SUBSET Orgs
    BY <2>2, StripeAssumption DEF Targets, Matching
  <2>4. /\ UNCHANGED <<rows, bull, checkout, faults, effects>>
        /\ proc' = [proc EXCEPT ![w] = q]
    BY <1>5 DEF Apply
  <2> HIDE DEF targets
  <2>5. q \in Handlers /\ q.event = e
    BY <2>3, <1>a DEF TypeOK, Handlers, Labels
  <2> HIDE DEF q
  <2>6. proc' \in [Workers -> Handlers] /\ HandlersWellFormed'
    BY <2>1, <2>4, <2>5, <1>a, ProcEffect, AdvanceWellFormed DEF rows
  <2>7. QED
    BY <1>c, <1>d, <2>4, <2>6 DEF effects
<1>6. CASE Audit(w)
  <2> DEFINE found == Targets(e) # {}
             q == [proc[w] EXCEPT !.pc = "commit", !.found = found]
  <2>1. PastClaim(w)
    BY <1>6 DEF Audit, At, PastClaim
  <2>2. /\ UNCHANGED <<rows, bull, checkout, applied, emails>>
        /\ proc' = [proc EXCEPT ![w] = q]
        /\ audits' \in {audits, [audits EXCEPT ![e] = @ + 1]}
        /\ unaudited' \in {unaudited, unaudited \cup {e}}
        /\ faults' \in {faults, faults + 1}
    BY <1>6 DEF Audit, Record
  <2>3. found \in BOOLEAN
    OBVIOUS
  <2> HIDE DEF found
  <2>4. q \in Handlers /\ q.event = e
    BY <2>3, <1>a DEF TypeOK, Handlers, Labels
  <2> HIDE DEF q
  <2>5. proc' \in [Workers -> Handlers] /\ HandlersWellFormed'
    BY <2>1, <2>2, <2>4, <1>a, ProcEffect, AdvanceWellFormed DEF rows
  <2>a. e \in Events
    BY <2>1, <1>b, <1>d
  <2>6. audits' \in [Events -> Nat] /\ unaudited' \in SUBSET Events /\ faults' \in Nat
    BY <2>2, <2>a, <1>d, Increment
  <2>7. QED
    BY <1>c, <1>d, <2>2, <2>5, <2>6
<1>7. CASE Commit(w)
  <2>1. PastClaim(w)
    BY <1>7 DEF Commit, At, PastClaim
  <2>2. e \in Events /\ CustomerOf[e] \in Customers /\ CreatedAt[e] \in Nat
    BY <1>b, <1>d, <2>1, StripeAssumption
  <2>3. /\ proc' \in [Workers -> Handlers] /\ bull' \in [Events -> BullJobs]
        /\ HandlersWellFormed'
    <3> DEFINE q == [proc[w] EXCEPT !.pc = "email", !.wrote = {}]
    <3>1. CASE Return(w)
      BY <3>1, <1>7, <1>a, ReturnEffect, RestWellFormed DEF Commit
    <3>2. CASE proc' = [proc EXCEPT ![w] = q] /\ UNCHANGED bull
      <4>1. q \in Handlers /\ q.event = e
        BY <1>a DEF TypeOK, Handlers, Labels
      <4>2. UNCHANGED claimed
        BY <1>7 DEF Commit
      <4> HIDE DEF q
      <4>3. QED
        BY <3>2, <4>1, <4>2, <2>1, <1>a, <1>d, ProcEffect, AdvanceWellFormed
    <3>3. QED
      BY <1>7, <3>1, <3>2 DEF Commit
  <2>4. org' \in [Orgs -> OrgRows]
    <3> DEFINE written == [o \in Orgs |->
                 IF o \in proc[w].wrote
                 THEN [org[o] EXCEPT !.customer = CustomerOf[e], !.shown = e] ELSE org[o]]
    <3>1. \A o \in Orgs : written[o] \in OrgRows
      BY <1>d, <2>2 DEF OrgRows
    <3>2. \A o \in Orgs : [written[o] EXCEPT !.lastAt = CreatedAt[e]] \in OrgRows
      BY <3>1, <2>2 DEF OrgRows
    <3>3. org' = [o \in Orgs |-> IF o \in {p \in Orgs : written[p].customer = CustomerOf[e]}
                                THEN [written[o] EXCEPT !.lastAt = CreatedAt[e]]
                                ELSE written[o]]
      BY <1>7 DEF Commit
    <3> HIDE DEF written
    <3>4. QED
      BY <3>1, <3>2, <3>3
  <2>5. /\ UNCHANGED <<claimed, checkout, faults, audits, unaudited, emails>>
        /\ applied' = [applied EXCEPT ![e] = @ + 1]
    BY <1>7 DEF Commit
  <2>a. applied' \in [Events -> Nat]
    BY <2>2, <2>5, <1>d, Increment
  <2>6. QED
    BY <2>3, <2>4, <2>5, <2>a, <1>a DEF WellFormed, TypeOK, ShopsWellFormed, checkout
<1>8. CASE SendEmail(w)
  <2>1. PastClaim(w)
    BY <1>8 DEF SendEmail, At, PastClaim
  <2>2. Return(w) /\ UNCHANGED <<rows, checkout, applied, audits, unaudited>>
    BY <1>8 DEF SendEmail
  <2>3. emails' \in [Events -> Nat] /\ faults' \in Nat
    BY <1>8, <1>d DEF SendEmail
  <2>4. QED
    BY <1>2, <1>c, <1>d, <2>1, <2>2, <2>3 DEF rows
<1>9. QED
  BY <1>1, <1>b2, <1>3, <1>4, <1>5, <1>6, <1>7, <1>8 DEF Process

LEMMA StepWellFormed == WellFormed /\ [Next]_vars => WellFormed'
<1> SUFFICES ASSUME WellFormed, [Next]_vars PROVE WellFormed'
  OBVIOUS
<1>1. CASE UNCHANGED vars
  BY <1>1, SameHandlers
     DEF WellFormed, TypeOK, ShopsWellFormed, vars, rows, checkout, effects
<1>2. ASSUME NEW k \in Checkouts, Checkout(k) PROVE WellFormed'
  BY <1>2, CheckoutWellFormed
<1>3. ASSUME NEW w \in Workers, Process(w) PROVE WellFormed'
  BY <1>3, ProcessWellFormed
<1>4. QED
  BY <1>1, <1>2, <1>3, QueueWellFormed DEF Next

LEMMA AlwaysWellFormed == Spec => []WellFormed
<1>1. QED
  BY InitWellFormed, StepWellFormed, PTL DEF Spec

\* Every variable of the billing model keeps its type: no event is ever applied without a
\* customer, and no session is opened for a customer that does not exist.
THEOREM TypeCorrect == Spec => []TypeOK
<1>1. WellFormed => TypeOK
  BY DEF WellFormed
<1>2. QED
  BY <1>1, AlwaysWellFormed, PTL

----------------------------------------------------------------------------
(* Effects happen at most once.  The claim lets one handler per event past *)
(* it, ever, and each effect has one step of that handler.                 *)

ClaimedOnce ==
  \A v, w \in Workers :
    v # w /\ PastClaim(v) /\ PastClaim(w) => proc[v].event # proc[w].event

Untouched(e) == applied[e] = 0 /\ audits[e] = 0 /\ e \notin unaudited /\ emails[e] = 0

NotYet(w) ==
  LET e == proc[w].event
  IN  /\ emails[e] = 0
      /\ proc[w].pc # "email" => applied[e] = 0
      /\ proc[w].pc = "email" => applied[e] = 1
      /\ proc[w].pc \notin {"commit", "email"} => audits[e] = 0 /\ e \notin unaudited

Once == /\ ClaimedOnce
        /\ \A e \in Events \ claimed : Untouched(e)
        /\ \A w \in Workers : PastClaim(w) => NotYet(w)
        /\ EffectsAtMostOnce

LEMMA InitOnce == Init => Once
  BY DEF Init, Once, ClaimedOnce, PastClaim, Untouched, NotYet, EffectsAtMostOnce, Rest

\* Steps that have no effect and let no other handler past the claim.
LEMMA OnceKept ==
  ASSUME Once, UNCHANGED <<claimed, effects>>,
         \A v \in Workers :
           PastClaim(v)' => /\ PastClaim(v)
                            /\ proc'[v].event = proc[v].event
                            /\ \/ proc'[v].pc = proc[v].pc
                               \/ {proc[v].pc, proc'[v].pc} \subseteq {"begin", "lock", "read", "apply", "audit"}
  PROVE  Once'
<1>1. ClaimedOnce'
  BY DEF Once, ClaimedOnce
<1>2. \A e \in Events \ claimed' : Untouched(e)'
  BY DEF Once, Untouched, effects
<1>3. EffectsAtMostOnce'
  BY DEF Once, EffectsAtMostOnce, effects
<1>4. ASSUME NEW w \in Workers, PastClaim(w)' PROVE NotYet(w)'
  <2>1. PastClaim(w) /\ NotYet(w) /\ proc'[w].event = proc[w].event
    BY <1>4 DEF Once
  <2>2. /\ proc'[w].pc = "email" <=> proc[w].pc = "email"
        /\ proc'[w].pc = "commit" <=> proc[w].pc = "commit"
    BY <1>4
  <2>3. QED
    BY <2>1, <2>2 DEF NotYet, effects
<1>5. QED
  BY <1>1, <1>2, <1>3, <1>4 DEF Once

LEMMA OnceQueue ==
  ASSUME WellFormed, Once,
         \/ \E e \in Events : Enqueue(e) \/ Stall(e)
         \/ \E w \in Workers : \/ \E e \in Events : PostInline(w, e) \/ Pick(w, e)
                               \/ Reject(w) \/ Crash(w)
         \/ \E k \in Checkouts : Checkout(k)
  PROVE  Once'
<1>1. ASSUME UNCHANGED proc, UNCHANGED <<claimed, effects>> PROVE Once'
  BY <1>1, OnceKept DEF PastClaim
<1>2. ASSUME NEW k \in Checkouts, Checkout(k) PROVE Once'
  BY <1>1, <1>2 DEF Checkout, OpenCheckout, CreateCustomer, BeginSave, SaveCustomer, CreateSession, CreatePortal,
                    CheckoutFails, rows
<1>3. ASSUME NEW e \in Events, Enqueue(e) \/ Stall(e) PROVE Once'
  BY <1>1, <1>3 DEF Enqueue, Stall, rows
<1>4. ASSUME NEW w \in Workers, NEW e \in Events, PostInline(w, e) \/ Pick(w, e)
      PROVE  Once'
  <2>1. PICK posted \in BOOLEAN : Begin(w, e, posted) /\ UNCHANGED <<claimed, effects>>
    BY <1>4 DEF PostInline, Pick, rows
  <2>2. proc'[w].pc = "claim" /\ \A v \in Workers \ {w} : proc'[v] = proc[v]
    BY <2>1, BeginEffect
  <2>3. QED
    BY <2>1, <2>2, OnceKept DEF PastClaim
<1>5. ASSUME NEW w \in Workers, Reject(w) \/ Crash(w) PROVE Once'
  <2>1. PICK pc \in {"ended", "crashed"} : proc' = [proc EXCEPT ![w] = Rest(pc)]
    BY <1>5 DEF Reject, Crash
  <2>2. Rest(pc) \in Handlers /\ Rest(pc).pc = pc
    BY RestType
  <2>3. proc'[w].pc = pc /\ \A v \in Workers \ {w} : proc'[v] = proc[v]
    BY <2>1, <2>2, ProcEffect DEF WellFormed
  <2>4. UNCHANGED <<claimed, effects>>
    BY <1>5 DEF Reject, Crash, rows
  <2>5. QED
    BY <2>3, <2>4, OnceKept DEF PastClaim
<1>6. QED
  BY <1>2, <1>3, <1>4, <1>5

LEMMA OnceProcess ==
  ASSUME WellFormed, Once, NEW w \in Workers, Process(w)
  PROVE  Once'
<1> DEFINE e == proc[w].event
<1>a. /\ TypeOK /\ HandlersWellFormed
      /\ applied \in [Events -> Nat] /\ audits \in [Events -> Nat]
      /\ emails \in [Events -> Nat]
  BY DEF WellFormed, TypeOK
<1>b. /\ Running(w) => e \in Events
      /\ PastClaim(w) => e \in claimed /\ e \in Events /\ NotYet(w)
  BY <1>a DEF HandlersWellFormed, Once, TypeOK
<1>c. ASSUME NEW v \in Workers, PastClaim(v)
      PROVE  proc[v].event \in claimed /\ proc[v].event \in Events
  BY <1>a, <1>c DEF HandlersWellFormed, TypeOK
<1>1. CASE Claim(w)
  <2>1. /\ At(w, "claim") /\ claimed' = claimed \cup {e} /\ UNCHANGED <<audits, unaudited, emails>>
    BY <1>1 DEF Claim
  <2>2. e \in Events /\ ~PastClaim(w)
    BY <1>b, <2>1 DEF At, Running, Labels, PastClaim
  <2>3. \/ /\ proc'[w] = Rest("ended")
            /\ \A v \in Workers \ {w} : proc'[v] = proc[v]
            /\ \/ UNCHANGED applied
               \/ e \notin claimed /\ applied' = [applied EXCEPT ![e] = @ + 1]
        \/ /\ e \notin claimed /\ UNCHANGED applied
           /\ proc'[w].pc = "begin" /\ proc'[w].event = e
           /\ \A v \in Workers \ {w} : proc'[v] = proc[v]
    <3>1. "begin" \in Labels
      BY DEF Labels
    <3>2. CASE e \in claimed \/ CustomerOf[e] = NoCustomer
      BY <1>1, <3>2, <1>a, ReturnEffect DEF Claim
    <3>3. CASE ~(e \in claimed \/ CustomerOf[e] = NoCustomer)
      BY <1>1, <3>1, <3>3, <1>a, GotoEffect DEF Claim
    <3>4. QED
      BY <3>2, <3>3
  <2>a. /\ applied' = applied \/ applied' = [applied EXCEPT ![e] = @ + 1]
        /\ e \in claimed => applied' = applied
    BY <1>1 DEF Claim
  <2>4. \A d \in Events \ {e} : applied'[d] = applied[d]
    BY <2>a, <1>a
  <2>5. \A v \in Workers \ {w} : PastClaim(v)' => PastClaim(v) /\ proc'[v] = proc[v]
    BY <2>3 DEF PastClaim
  <2>6. PastClaim(w)' => e \notin claimed /\ UNCHANGED applied /\ proc'[w].event = e /\ proc'[w].pc = "begin"
    BY <2>3 DEF PastClaim, Rest
  <2>7. ClaimedOnce'
    BY <2>5, <2>6, <1>c DEF Once, ClaimedOnce
  <2>8. \A d \in Events \ claimed' : Untouched(d)'
    BY <2>1, <2>4 DEF Once, Untouched
  <2>9. ASSUME NEW v \in Workers, PastClaim(v)' PROVE NotYet(v)'
    <3>1. CASE v = w
      <4>1. Untouched(e)
        BY <2>2, <2>6, <2>9, <3>1 DEF Once
      <4>2. QED
        BY <4>1, <2>1, <2>6, <2>9, <3>1 DEF NotYet, Untouched
    <3>2. CASE v # w
      <4>1. PastClaim(v) /\ proc'[v] = proc[v] /\ NotYet(v)
        BY <2>5, <2>9, <3>2 DEF Once
      <4>2. proc[v].event = e => UNCHANGED applied
        BY <4>1, <1>c, <2>a
      <4>3. applied'[proc[v].event] = applied[proc[v].event]
        BY <4>1, <4>2, <1>c, <2>4
      <4>4. QED
        BY <4>1, <4>3, <2>1 DEF NotYet
    <3>3. QED
      BY <3>1, <3>2
  <2>10. EffectsAtMostOnce'
    <3>1. applied'[e] = applied[e] \/ (e \notin claimed /\ applied'[e] = applied[e] + 1)
      BY <2>2, <2>a, <1>a
    <3>2. e \notin claimed => applied[e] = 0 /\ emails[e] = 0
      BY <2>2 DEF Once, Untouched
    <3>3. QED
      BY <3>1, <3>2, <2>1, <2>4, <1>a DEF Once, EffectsAtMostOnce
  <2>11. QED
    BY <2>7, <2>8, <2>9, <2>10 DEF Once
<1>b2. CASE BeginTransaction(w)
  <2>1. "lock" \in Labels
    BY DEF Labels
  <2>2. At(w, "begin") /\ Goto(w, "lock") /\ UNCHANGED <<claimed, effects>>
    BY <1>b2 DEF BeginTransaction, rows
  <2>3. /\ proc'[w].pc = "lock" /\ proc'[w].event = e
        /\ \A v \in Workers \ {w} : proc'[v] = proc[v]
    BY <2>1, <2>2, <1>a, GotoEffect
  <2>4. QED
    BY <2>2, <2>3, OnceKept DEF PastClaim, At
<1>2. CASE Lock(w)
  <2>1. "read" \in Labels
    BY DEF Labels
  <2>2. At(w, "lock") /\ Goto(w, "read") /\ UNCHANGED <<claimed, effects>>
    BY <1>2 DEF Lock, rows
  <2>3. /\ proc'[w].pc = "read" /\ proc'[w].event = e
        /\ \A v \in Workers \ {w} : proc'[v] = proc[v]
    BY <2>1, <2>2, <1>a, GotoEffect
  <2>4. QED
    BY <2>2, <2>3, OnceKept DEF PastClaim, At
<1>3. CASE CheckOrder(w)
  <2>1. "apply" \in Labels
    BY DEF Labels
  <2>2. At(w, "read") /\ UNCHANGED <<claimed, effects>>
    BY <1>3 DEF CheckOrder, rows
  <2>3. CASE Return(w)
    <3>1. proc'[w] = Rest("ended") /\ \A v \in Workers \ {w} : proc'[v] = proc[v]
      BY <2>3, <1>a, ReturnEffect
    <3>2. QED
      BY <2>2, <3>1, OnceKept DEF PastClaim, Rest
  <2>4. CASE Goto(w, "apply")
    <3>1. /\ proc'[w].pc = "apply" /\ proc'[w].event = e
          /\ \A v \in Workers \ {w} : proc'[v] = proc[v]
      BY <2>1, <2>4, <1>a, GotoEffect
    <3>2. QED
      BY <2>2, <3>1, OnceKept DEF PastClaim, At
  <2>5. QED
    BY <1>3, <2>3, <2>4 DEF CheckOrder
<1>4. CASE Apply(w)
  <2>1. At(w, "apply") /\ UNCHANGED <<claimed, effects>>
    BY <1>4 DEF Apply, rows
  <2>2. /\ proc'[w].pc = "audit" /\ proc'[w].event = e
        /\ \A v \in Workers \ {w} : proc'[v] = proc[v]
    BY <1>4, <1>a DEF Apply, TypeOK, Handlers
  <2>3. QED
    BY <2>1, <2>2, OnceKept DEF PastClaim, At
<1>5. CASE Audit(w)
  <2>1. /\ At(w, "audit") /\ UNCHANGED <<claimed, applied, emails>>
        /\ audits' \in {audits, [audits EXCEPT ![e] = @ + 1]}
        /\ unaudited' \in {unaudited, unaudited \cup {e}}
    BY <1>5 DEF Audit, Record, rows
  <2>2. /\ proc'[w].pc = "commit" /\ proc'[w].event = e
        /\ \A v \in Workers \ {w} : proc'[v] = proc[v]
    BY <1>5, <1>a DEF Audit, TypeOK, Handlers
  <2>3. PastClaim(w) /\ e \in claimed /\ e \in Events /\ NotYet(w)
    BY <2>1, <1>b DEF PastClaim, At
  <2>4. applied[e] = 0 /\ audits[e] = 0 /\ emails[e] = 0
    BY <2>1, <2>3 DEF NotYet, At
  <2>5. /\ \A d \in Events \ {e} : /\ audits'[d] = audits[d]
                                   /\ d \in unaudited' <=> d \in unaudited
        /\ audits'[e] <= 1
    BY <2>1, <2>3, <2>4, <1>a
  <2>6. ClaimedOnce'
    BY <2>2, <2>3 DEF Once, ClaimedOnce, PastClaim
  <2>7. \A d \in Events \ claimed' : Untouched(d)'
    BY <2>1, <2>3, <2>5 DEF Once, Untouched
  <2>8. ASSUME NEW v \in Workers, PastClaim(v)' PROVE NotYet(v)'
    <3>1. CASE v = w
      BY <3>1, <2>1, <2>2, <2>4 DEF NotYet
    <3>2. CASE v # w
      <4>1. PastClaim(v) /\ proc'[v] = proc[v] /\ NotYet(v)
        BY <2>2, <2>8, <3>2 DEF Once, PastClaim
      <4>2. proc[v].event # e /\ proc[v].event \in Events
        BY <4>1, <3>2, <2>3, <1>c DEF Once, ClaimedOnce
      <4>3. QED
        BY <4>1, <4>2, <2>1, <2>5 DEF NotYet
    <3>3. QED
      BY <3>1, <3>2
  <2>9. EffectsAtMostOnce'
    BY <2>1, <2>5 DEF Once, EffectsAtMostOnce
  <2>10. QED
    BY <2>6, <2>7, <2>8, <2>9 DEF Once
<1>6. CASE Commit(w)
  <2>1. /\ At(w, "commit") /\ UNCHANGED <<claimed, audits, unaudited, emails>>
        /\ applied' = [applied EXCEPT ![e] = @ + 1]
    BY <1>6 DEF Commit
  <2>2. /\ \A v \in Workers \ {w} : proc'[v] = proc[v]
        /\ PastClaim(w)' => proc'[w].pc = "email" /\ proc'[w].event = e
    <3>1. CASE Return(w)
      BY <3>1, <1>a, ReturnEffect DEF PastClaim, Rest
    <3>2. CASE proc' = [proc EXCEPT ![w] = [proc[w] EXCEPT !.pc = "email", !.wrote = {}]]
      BY <3>2, <1>a DEF TypeOK, Handlers
    <3>3. QED
      BY <1>6, <3>1, <3>2 DEF Commit
  <2>3. PastClaim(w) /\ e \in claimed /\ e \in Events /\ NotYet(w)
    BY <2>1, <1>b DEF PastClaim, At
  <2>4. applied[e] = 0 /\ emails[e] = 0
    BY <2>1, <2>3 DEF NotYet, At
  <2>5. /\ \A d \in Events \ {e} : applied'[d] = applied[d]
        /\ applied'[e] = 1
    BY <2>1, <2>3, <2>4, <1>a
  <2>6. ClaimedOnce'
    BY <2>2, <2>3 DEF Once, ClaimedOnce, PastClaim
  <2>7. \A d \in Events \ claimed' : Untouched(d)'
    BY <2>1, <2>3, <2>5 DEF Once, Untouched
  <2>8. ASSUME NEW v \in Workers, PastClaim(v)' PROVE NotYet(v)'
    <3>1. CASE v = w
      BY <3>1, <2>1, <2>2, <2>4, <2>5, <2>8 DEF NotYet
    <3>2. CASE v # w
      <4>1. PastClaim(v) /\ proc'[v] = proc[v] /\ NotYet(v)
        BY <2>2, <2>8, <3>2 DEF Once, PastClaim
      <4>2. proc[v].event # e /\ proc[v].event \in Events
        BY <4>1, <3>2, <2>3, <1>c DEF Once, ClaimedOnce
      <4>3. QED
        BY <4>1, <4>2, <2>1, <2>5 DEF NotYet
    <3>3. QED
      BY <3>1, <3>2
  <2>9. EffectsAtMostOnce'
    BY <2>1, <2>3, <2>4, <2>5 DEF Once, EffectsAtMostOnce
  <2>10. QED
    BY <2>6, <2>7, <2>8, <2>9 DEF Once
<1>7. CASE SendEmail(w)
  <2>1. /\ At(w, "email") /\ Return(w) /\ UNCHANGED <<claimed, applied, audits, unaudited>>
        /\ emails' \in {emails, [emails EXCEPT ![e] = @ + 1]}
    BY <1>7 DEF SendEmail, rows
  <2>2. proc'[w] = Rest("ended") /\ \A v \in Workers \ {w} : proc'[v] = proc[v]
    BY <2>1, <1>a, ReturnEffect
  <2>3. PastClaim(w) /\ e \in claimed /\ e \in Events /\ NotYet(w)
    BY <2>1, <1>b DEF PastClaim, At
  <2>4. applied[e] = 1 /\ emails[e] = 0
    BY <2>1, <2>3 DEF NotYet, At
  <2>5. /\ \A d \in Events \ {e} : emails'[d] = emails[d]
        /\ emails'[e] <= 1
    BY <2>1, <2>3, <2>4, <1>a
  <2>6. ~PastClaim(w)'
    BY <2>2 DEF PastClaim, Rest
  <2>7. ClaimedOnce'
    BY <2>2, <2>6 DEF Once, ClaimedOnce, PastClaim
  <2>8. \A d \in Events \ claimed' : Untouched(d)'
    BY <2>1, <2>3, <2>5 DEF Once, Untouched
  <2>9. ASSUME NEW v \in Workers, PastClaim(v)' PROVE NotYet(v)'
    <3>1. v # w /\ PastClaim(v) /\ proc'[v] = proc[v] /\ NotYet(v)
      BY <2>2, <2>6, <2>9 DEF Once, PastClaim
    <3>2. proc[v].event # e /\ proc[v].event \in Events
      BY <3>1, <2>3, <1>c DEF Once, ClaimedOnce
    <3>3. QED
      BY <3>1, <3>2, <2>1, <2>5 DEF NotYet
  <2>10. EffectsAtMostOnce'
    BY <2>1, <2>4, <2>5 DEF Once, EffectsAtMostOnce
  <2>11. QED
    BY <2>7, <2>8, <2>9, <2>10 DEF Once
<1>8. QED
  BY <1>1, <1>b2, <1>2, <1>3, <1>4, <1>5, <1>6, <1>7 DEF Process

LEMMA OnceStep == WellFormed /\ Once /\ [Next]_vars => Once'
<1> SUFFICES ASSUME WellFormed, Once, [Next]_vars PROVE Once'
  OBVIOUS
<1>1. CASE UNCHANGED vars
  BY <1>1, OnceKept DEF vars, rows, PastClaim
<1>2. ASSUME NEW w \in Workers, Process(w) PROVE Once'
  BY <1>2, OnceProcess
<1>3. QED
  BY <1>1, <1>2, OnceQueue DEF Next

LEMMA AlwaysOnce == Spec => []Once
  BY InitOnce, OnceStep, AlwaysWellFormed, PTL DEF Spec

\* However often an event is posted, queued, retried or run by two handlers at once, its
\* update commits once, is audited once, and is mailed at most once.
THEOREM EffectsOnce == Spec => []EffectsAtMostOnce
<1>1. Once => EffectsAtMostOnce
  BY DEF Once
<1>2. QED
  BY <1>1, AlwaysOnce, PTL

----------------------------------------------------------------------------
(* Rows, checkouts and handlers agree on whose a customer is.              *)

\* A customer is only ever used by the workspace it was created for.
CustomersPaired ==
  /\ \A o \in Orgs : org[o].customer \in Customers =>
       OwnerOf[org[o].customer] = o /\ org[o].customer \in known
  /\ \A k \in Checkouts : shop[k].pc \in {"save", "update"} => OwnerOf[shop[k].customer] = shop[k].org
  /\ \A k \in Checkouts : shop[k].pc \in {"save", "update", "session"} => shop[k].customer \in known
  /\ sessions \subseteq known

OwnerAt(w) == OwnerOf[CustomerOf[proc[w].event]]

\* Work is under way only for events Stripe could send, and a transaction writes only the
\* row of its own workspace.
HandlersPaired ==
  /\ \A e \in Events : bull[e].state # "none" => Sent(e)
  /\ \A w \in Workers : Running(w) => Sent(proc[w].event)
  /\ \A w \in Workers : proc[w].pc \in {"audit", "commit"} => proc[w].wrote \subseteq {OwnerAt(w)}

LEMMA InitPaired == Init => CustomersPaired /\ HandlersPaired
<1> SUFFICES ASSUME Init PROVE CustomersPaired /\ HandlersPaired
  OBVIOUS
<1>1. CustomersPaired
  BY StripeAssumption DEF Init, CustomersPaired
<1>2. HandlersPaired
  BY DEF Init, HandlersPaired, Running, Labels, Rest, NewBull
<1>3. QED
  BY <1>1, <1>2

LEMMA CheckoutPaired ==
  ASSUME WellFormed, CustomersPaired, HandlersPaired, NEW k \in Checkouts, Checkout(k)
  PROVE  CustomersPaired' /\ HandlersPaired'
<1>a. PICK s \in Shops : s = shop[k]
  BY DEF WellFormed, TypeOK
<1>b. /\ shop \in [Checkouts -> Shops] /\ org \in [Orgs -> OrgRows]
      /\ s.pc \in {"save", "update", "session"} => s.customer \in known
  BY <1>a DEF WellFormed, TypeOK, CustomersPaired
<1>c. ASSUME UNCHANGED <<bull, proc>>, sessions \subseteq sessions' PROVE HandlersPaired'
  BY <1>c DEF HandlersPaired, Sent, Running, OwnerAt
<1>1. ASSUME NEW o \in Orgs, OpenCheckout(k, o)
      PROVE  CustomersPaired' /\ HandlersPaired'
  <2>1. UNCHANGED <<org, bull, proc, known, sessions>>
    BY <1>1 DEF OpenCheckout, rows
  <2>2. \A j \in Checkouts \ {k} : shop'[j] = shop[j]
    BY <1>1, <1>b DEF OpenCheckout
  <2>3. /\ shop'[k].pc \notin {"save", "update"}
        /\ shop'[k].pc = "session" => org[o].customer # NoCustomer
        /\ shop'[k].customer = org[o].customer
    BY <1>1, <1>b DEF OpenCheckout
  <2>4. shop'[k].pc = "session" => shop'[k].customer \in known
    BY <2>3, <1>b DEF CustomersPaired, OrgRows
  <2>5. CustomersPaired'
    BY <2>1, <2>2, <2>3, <2>4 DEF CustomersPaired
  <2>6. QED
    BY <2>1, <2>5, <1>c
<1>2. ASSUME NEW c \in Customers, CreateCustomer(k, c)
      PROVE  CustomersPaired' /\ HandlersPaired'
  <2>1. /\ UNCHANGED <<org, bull, proc, sessions>> /\ OwnerOf[c] = s.org
        /\ known' = known \cup {c}
    BY <1>2, <1>a DEF CreateCustomer, rows
  <2>2. \A j \in Checkouts \ {k} : shop'[j] = shop[j]
    BY <1>2, <1>b DEF CreateCustomer
  <2>3. shop'[k].pc = "save" /\ shop'[k].customer = c /\ shop'[k].org = s.org
    BY <1>2, <1>a, <1>b DEF CreateCustomer, Shops
  <2>4. CustomersPaired'
    BY <2>1, <2>2, <2>3 DEF CustomersPaired
  <2>5. QED
    BY <2>1, <2>4, <1>c
<1>s. ASSUME BeginSave(k) PROVE CustomersPaired' /\ HandlersPaired'
  <2>1. UNCHANGED <<org, bull, proc, known, sessions>>
    BY <1>s DEF BeginSave, rows
  <2>2. \A j \in Checkouts \ {k} : shop'[j] = shop[j]
    BY <1>s, <1>b DEF BeginSave
  <2>3. /\ s.pc = "save" /\ s.customer \in known /\ OwnerOf[s.customer] = s.org
        /\ shop'[k].pc = "update" /\ shop'[k].customer = s.customer /\ shop'[k].org = s.org
    BY <1>s, <1>a, <1>b DEF BeginSave, CustomersPaired, Shops
  <2>4. CustomersPaired'
    BY <2>1, <2>2, <2>3 DEF CustomersPaired
  <2>5. QED
    BY <2>1, <2>4, <1>c
<1>3. ASSUME SaveCustomer(k) PROVE CustomersPaired' /\ HandlersPaired'
  <2>1. UNCHANGED <<bull, proc, known, sessions>>
    BY <1>3 DEF SaveCustomer
  <2>2. \A j \in Checkouts \ {k} : shop'[j] = shop[j]
    BY <1>3, <1>b DEF SaveCustomer
  <2>3. /\ s.customer \in known /\ OwnerOf[s.customer] = s.org
        /\ shop'[k].pc = "session" /\ shop'[k].customer = s.customer
    BY <1>3, <1>a, <1>b DEF SaveCustomer, CustomersPaired, Shops
  <2>4. \A o \in Orgs : \/ org'[o].customer = org[o].customer
                        \/ o = s.org /\ org'[o].customer = s.customer
    BY <1>3, <1>a, <1>b DEF SaveCustomer, OrgRows
  <2>5. CustomersPaired'
    BY <2>1, <2>2, <2>3, <2>4 DEF CustomersPaired
  <2>6. QED
    BY <2>1, <2>5, <1>c
<1>4. ASSUME CreateSession(k) \/ CreatePortal(k) \/ CheckoutFails(k)
      PROVE  CustomersPaired' /\ HandlersPaired'
  <2>1. UNCHANGED <<org, bull, proc, known>>
    BY <1>4 DEF CreateSession, CreatePortal, CheckoutFails, rows
  <2>2. \A j \in Checkouts \ {k} : shop'[j] = shop[j]
    BY <1>4, <1>b DEF CreateSession, CreatePortal, CheckoutFails
  <2>3. shop'[k].pc = "ended"
    BY <1>4, <1>b DEF CreateSession, CreatePortal, CheckoutFails, Shops
  <2>4. sessions \subseteq sessions' /\ sessions' \subseteq known
    BY <1>4, <1>a, <1>b DEF CreateSession, CreatePortal, CheckoutFails, CustomersPaired
  <2>5. CustomersPaired'
    BY <2>1, <2>2, <2>3, <2>4 DEF CustomersPaired
  <2>6. QED
    BY <2>1, <2>4, <2>5, <1>c
<1>5. QED
  BY <1>1, <1>2, <1>s, <1>3, <1>4 DEF Checkout

\* A commit writes its customer to the rows the transaction updated, all of its workspace.
LEMMA CommitCustomers ==
  ASSUME WellFormed, CustomersPaired, HandlersPaired, NEW w \in Workers, Commit(w)
  PROVE  /\ proc[w].event \in Events /\ CustomerOf[proc[w].event] \in sessions
         /\ OwnerAt(w) \in Orgs
         /\ \A o \in Orgs : \/ org'[o].customer = org[o].customer
                            \/ /\ o = OwnerAt(w)
                               /\ org'[o].customer = CustomerOf[proc[w].event]
<1> DEFINE e == proc[w].event
           c == CustomerOf[e]
<1>w. PICK written : written = [o \in Orgs |-> IF o \in proc[w].wrote
                                              THEN [org[o] EXCEPT !.customer = c, !.shown = e]
                                              ELSE org[o]]
  OBVIOUS
<1>1. /\ At(w, "commit")
      /\ org' = [o \in Orgs |-> IF o \in {p \in Orgs : written[p].customer = c}
                               THEN [written[o] EXCEPT !.lastAt = CreatedAt[e]]
                               ELSE written[o]]
  BY <1>w DEF Commit
<1>2. e \in Events /\ c \in Customers /\ Sent(e) /\ proc[w].wrote \subseteq {OwnerAt(w)}
  BY <1>1 DEF At, WellFormed, HandlersWellFormed, HandlersPaired, Running, PastClaim, Labels
<1>3. OwnerAt(w) \in Orgs /\ c \in sessions
  BY <1>2, StripeAssumption DEF OwnerAt, Sent
<1>4. \A o \in Orgs : org[o] \in OrgRows
  BY DEF WellFormed, TypeOK
<1>5. \A o \in Orgs : /\ written[o] \in OrgRows
                      /\ \/ written[o].customer = org[o].customer
                         \/ o = OwnerAt(w) /\ written[o].customer = c
  BY <1>w, <1>2, <1>4 DEF OrgRows
<1>6. \A o \in Orgs : org'[o].customer = written[o].customer
  BY <1>1, <1>5 DEF OrgRows
<1>7. QED
  BY <1>2, <1>3, <1>5, <1>6

LEMMA QueuePaired ==
  ASSUME WellFormed, CustomersPaired, HandlersPaired,
         \/ \E e \in Events : Enqueue(e) \/ Stall(e)
         \/ \E w \in Workers : \/ \E e \in Events : PostInline(w, e) \/ Pick(w, e)
                               \/ Reject(w) \/ Crash(w)
  PROVE  CustomersPaired' /\ HandlersPaired'
<1>a. UNCHANGED <<org, checkout>>
  BY DEF Enqueue, Stall, PostInline, Pick, Reject, Crash, rows
<1>b. CustomersPaired'
  BY <1>a DEF CustomersPaired, checkout
<1>c. \A e \in Events : Sent(e)' = Sent(e)
  BY <1>a DEF Sent, checkout
<1>d. bull \in [Events -> BullJobs] /\ TypeOK
  BY DEF WellFormed, TypeOK
<1>1. ASSUME NEW e \in Events, Enqueue(e) \/ Stall(e) PROVE HandlersPaired'
  <2>1. UNCHANGED proc
    BY <1>1 DEF Enqueue, Stall
  <2>2. Sent(e) /\ \A d \in Events \ {e} : bull'[d] = bull[d]
    BY <1>1, <1>d DEF Enqueue, Stall, HandlersPaired
  <2>3. QED
    BY <2>1, <2>2, <1>a DEF HandlersPaired, Sent, Running, OwnerAt, checkout
<1>2. ASSUME NEW w \in Workers, NEW e \in Events, PostInline(w, e) \/ Pick(w, e)
      PROVE  HandlersPaired'
  <2>1. PICK posted \in BOOLEAN : Sent(e) /\ Begin(w, e, posted) /\ UNCHANGED claimed
    BY <1>2 DEF PostInline, Pick, HandlersPaired, rows
  <2>2. /\ proc'[w].pc = "claim" /\ proc'[w].event = e
        /\ \A v \in Workers \ {w} : proc'[v] = proc[v]
    BY <2>1, BeginEffect
  <2>3. \A d \in Events \ {e} : bull'[d] = bull[d]
    BY <1>2, <1>d DEF PostInline, Pick
  <2>4. QED
    BY <2>1, <2>2, <2>3, <1>a DEF HandlersPaired, Sent, Running, OwnerAt, checkout
<1>3. ASSUME NEW w \in Workers, Reject(w) \/ Crash(w) PROVE HandlersPaired'
  <2>1. PICK pc \in {"ended", "crashed"} : proc' = [proc EXCEPT ![w] = Rest(pc)]
    BY <1>3 DEF Reject, Crash
  <2>2. Rest(pc) \in Handlers /\ Rest(pc).pc = pc
    BY RestType
  <2>3. proc'[w].pc = pc /\ \A v \in Workers \ {w} : proc'[v] = proc[v]
    BY <2>1, <2>2, <1>d, ProcEffect
  <2>4. \A e \in Events : bull'[e].state # "none" => bull[e].state # "none"
    BY <1>3, <1>d DEF Reject, Crash, Thrown, HeldBy
  <2>5. QED
    BY <2>3, <2>4, <1>a DEF HandlersPaired, Sent, Running, OwnerAt, Labels, checkout
<1>4. QED
  BY <1>b, <1>1, <1>2, <1>3

LEMMA ProcessPaired ==
  ASSUME WellFormed, CustomersPaired, HandlersPaired, NEW w \in Workers, Process(w)
  PROVE  CustomersPaired' /\ HandlersPaired'
<1> DEFINE e == proc[w].event
<1>a. TypeOK /\ UNCHANGED checkout
  BY DEF WellFormed, Process, Claim, BeginTransaction, Lock, CheckOrder, Apply, Audit, Commit, SendEmail
<1>b. CustomersPaired'
  <2>1. CASE UNCHANGED org
    BY <2>1, <1>a DEF CustomersPaired, checkout
  <2>2. CASE Commit(w)
    <3>1. CustomerOf[e] \in known
      BY <2>2, CommitCustomers DEF CustomersPaired
    <3>2. \A o \in Orgs : \/ org'[o].customer = org[o].customer
                          \/ o = OwnerOf[CustomerOf[e]] /\ org'[o].customer = CustomerOf[e]
      BY <2>2, CommitCustomers DEF OwnerAt
    <3>3. QED
      BY <3>1, <3>2, <1>a DEF CustomersPaired, checkout
  <2>3. QED
    BY <2>1, <2>2 DEF Process, Claim, BeginTransaction, Lock, CheckOrder, Apply, Audit, SendEmail, rows
<1>c. ASSUME \A d \in Events : bull'[d].state # "none" => bull[d].state # "none",
             \A v \in Workers \ {w} : proc'[v] = proc[v],
             Running(w)' => /\ Running(w) /\ proc'[w].event = e,
             proc'[w].pc \in {"audit", "commit"} => proc'[w].wrote \subseteq {OwnerAt(w)}
      PROVE  HandlersPaired'
  <2>1. \A d : Sent(d)' = Sent(d)
    BY <1>a DEF Sent, checkout
  <2>2. \A v \in Workers \ {w} : OwnerAt(v)' = OwnerAt(v)
    BY <1>c DEF OwnerAt
  <2>3. proc'[w].pc \in {"audit", "commit"} => OwnerAt(w)' = OwnerAt(w)
    BY <1>c DEF OwnerAt, Running, Labels
  <2>4. \A d \in Events : bull'[d].state # "none" => Sent(d)'
    BY <1>c, <2>1 DEF HandlersPaired
  <2>a. sessions' = sessions
    BY <1>a DEF checkout
  <2>5. \A v \in Workers : Running(v)' => Sent(proc[v].event)'
    <3> SUFFICES ASSUME NEW v \in Workers, Running(v)' PROVE Sent(proc[v].event)'
      OBVIOUS
    <3>1. Running(v) /\ proc'[v].event = proc[v].event
      BY <1>c DEF Running
    <3>2. QED
      BY <3>1, <2>a DEF HandlersPaired, Sent
  <2>6. \A v \in Workers : proc'[v].pc \in {"audit", "commit"} => proc'[v].wrote \subseteq {OwnerAt(v)'}
    BY <1>c, <2>2, <2>3 DEF HandlersPaired
  <2>7. QED
    BY <2>4, <2>5, <2>6 DEF HandlersPaired, Sent
<1>d. Running(w)
  BY DEF Process, Claim, BeginTransaction, Lock, CheckOrder, Apply, Audit, Commit, SendEmail, At, Running, Labels
<1>1. ASSUME Return(w) PROVE HandlersPaired'
  <2>1. proc'[w] = Rest("ended") /\ \A v \in Workers \ {w} : proc'[v] = proc[v]
    BY <1>1, <1>a, ReturnEffect
  <2>2. ~Running(w)' /\ proc'[w].pc \notin {"audit", "commit"}
    BY <2>1 DEF Running, Labels, Rest
  <2>3. \A d \in Events : bull'[d].state # "none" => bull[d].state # "none"
    BY <1>1, <1>a DEF Return, Returned, HeldBy, TypeOK
  <2>4. QED
    BY <2>1, <2>2, <2>3, <1>c
<1>2. ASSUME NEW l \in {"begin", "lock", "read", "apply"}, Goto(w, l), UNCHANGED bull
      PROVE  HandlersPaired'
  <2>1. l \in Labels
    BY DEF Labels
  <2>2. /\ proc'[w].pc = l /\ proc'[w].event = e
        /\ \A v \in Workers \ {w} : proc'[v] = proc[v]
    BY <1>2, <2>1, <1>a, GotoEffect
  <2>3. QED
    BY <1>2, <2>2, <1>c, <1>d
<1>3. CASE Apply(w)
  <2> DEFINE targets == IF IsSubscription(e) THEN Targets(e) ELSE {}
  <2>1. At(w, "apply") /\ UNCHANGED bull
    BY <1>3 DEF Apply
  <2>2. /\ proc'[w].pc = "audit" /\ proc'[w].event = e /\ proc'[w].wrote = targets
        /\ \A v \in Workers \ {w} : proc'[v] = proc[v]
    BY <1>3, <1>a DEF Apply, TypeOK, Handlers
  <2>3. CustomerOf[e] \in Customers
    BY <2>1 DEF WellFormed, HandlersWellFormed, PastClaim, At
  <2>4. targets \subseteq {OwnerAt(w)}
    BY <2>3 DEF Targets, Matching, OwnerAt, CustomersPaired
  <2>5. QED
    <3>1. Running(w)' => Running(w) /\ proc'[w].event = e
      BY <2>2, <1>d
    <3>2. proc'[w].wrote \subseteq {OwnerAt(w)}
      BY <2>2, <2>4
    <3>3. \A d \in Events : bull'[d].state # "none" => bull[d].state # "none"
      BY <2>1
    <3>4. QED
      BY <3>1, <3>2, <3>3, <2>2, <1>b, <1>c
<1>4. CASE Audit(w)
  <2>1. At(w, "audit") /\ UNCHANGED bull
    BY <1>4 DEF Audit
  <2>2. /\ proc'[w].event = e /\ proc'[w].wrote = proc[w].wrote
        /\ \A v \in Workers \ {w} : proc'[v] = proc[v]
    BY <1>4, <1>a DEF Audit, TypeOK, Handlers
  <2>3. proc[w].wrote \subseteq {OwnerAt(w)}
    BY <2>1 DEF HandlersPaired, At
  <2>4. QED
    <3>1. Running(w)' => Running(w) /\ proc'[w].event = e
      BY <2>2, <1>d
    <3>2. proc'[w].wrote \subseteq {OwnerAt(w)}
      BY <2>2, <2>3
    <3>3. \A d \in Events : bull'[d].state # "none" => bull[d].state # "none"
      BY <2>1
    <3>4. QED
      BY <3>1, <3>2, <3>3, <2>2, <1>b, <1>c
<1>5. ASSUME proc' = [proc EXCEPT ![w] = [proc[w] EXCEPT !.pc = "email", !.wrote = {}]],
             UNCHANGED bull
      PROVE  HandlersPaired'
  <2>1. /\ proc'[w].event = e /\ proc'[w].pc = "email"
        /\ \A v \in Workers \ {w} : proc'[v] = proc[v]
    BY <1>5, <1>a DEF TypeOK, Handlers
  <2>2. QED
    BY <1>5, <2>1, <1>c, <1>d
<1>6. QED
  <2>1. CASE Claim(w)
    BY <2>1, <1>b, <1>1, <1>2 DEF Claim
  <2>b. CASE BeginTransaction(w)
    BY <2>b, <1>b, <1>1, <1>2 DEF BeginTransaction
  <2>2. CASE Lock(w)
    BY <2>2, <1>b, <1>1, <1>2 DEF Lock
  <2>3. CASE CheckOrder(w)
    BY <2>3, <1>b, <1>1, <1>2 DEF CheckOrder
  <2>4. CASE Commit(w)
    BY <2>4, <1>b, <1>1, <1>5 DEF Commit
  <2>5. CASE SendEmail(w)
    BY <2>5, <1>b, <1>1 DEF SendEmail
  <2>6. QED
    BY <2>1, <2>b, <2>2, <2>3, <2>4, <2>5, <1>b, <1>3, <1>4 DEF Process

Paired == CustomersPaired /\ HandlersPaired

LEMMA PairedStep == WellFormed /\ Paired /\ [Next]_vars => Paired'
<1> SUFFICES ASSUME WellFormed, Paired, [Next]_vars PROVE Paired'
  OBVIOUS
<1>a. CustomersPaired /\ HandlersPaired
  BY DEF Paired
<1>1. CASE UNCHANGED vars
  BY <1>1, <1>a DEF CustomersPaired, HandlersPaired, Paired, Sent, Running, OwnerAt, vars,
                    rows, checkout
<1>2. ASSUME NEW k \in Checkouts, Checkout(k) PROVE Paired'
  BY <1>2, <1>a, CheckoutPaired DEF Paired
<1>3. ASSUME NEW w \in Workers, Process(w) PROVE Paired'
  BY <1>3, <1>a, ProcessPaired DEF Paired
<1>4. QED
  BY <1>1, <1>2, <1>3, <1>a, QueuePaired DEF Next, Paired

LEMMA AlwaysPaired == Spec => []Paired
<1>1. Init => Paired
  BY InitPaired DEF Paired
<1>2. QED
  BY <1>1, PairedStep, AlwaysWellFormed, PTL DEF Spec

----------------------------------------------------------------------------
(* The order of events, for workspaces that have one Stripe customer.      *)

\* No two checkouts have created a customer for the same workspace.
OneCustomerPerOrg ==
  \A c, d \in known : OwnerOf[c] = OwnerOf[d] => c = d

\* Stripe never forgets a customer.
LEMMA KnownGrows == [Next]_vars => known \subseteq known'
<1> SUFFICES ASSUME [Next]_vars PROVE known \subseteq known'
  OBVIOUS
<1>1. CASE UNCHANGED vars
  BY <1>1 DEF vars, checkout
<1>2. ASSUME NEW k \in Checkouts, Checkout(k) PROVE known \subseteq known'
  BY <1>2 DEF Checkout, OpenCheckout, CreateCustomer, BeginSave, SaveCustomer, CreateSession, CreatePortal, CheckoutFails
<1>3. ASSUME NEW w \in Workers, Process(w) PROVE known \subseteq known'
  BY <1>3 DEF Process, Claim, BeginTransaction, Lock, CheckOrder, Apply, Audit, Commit, SendEmail, checkout
<1>4. QED
  BY <1>1, <1>2, <1>3 DEF Next, Enqueue, Stall, PostInline, Pick, Reject, Crash, checkout

\* The row of the workspace carries its customer.
Saved(c) == org[OwnerOf[c]].customer = c

\* A customer stays in the row once a checkout has saved it.
AllSaved ==
  /\ \A k \in Checkouts : shop[k].pc = "session" => Saved(shop[k].customer)
  /\ \A c \in sessions : Saved(c)

LEMMA CheckoutSaved ==
  ASSUME OneCustomerPerOrg', WellFormed, CustomersPaired, AllSaved,
         NEW k \in Checkouts, Checkout(k)
  PROVE  AllSaved'
<1>a. PICK s \in Shops : s = shop[k]
  BY DEF WellFormed, TypeOK
<1>b. /\ shop \in [Checkouts -> Shops] /\ org \in [Orgs -> OrgRows]
      /\ known \in SUBSET Customers
  BY DEF WellFormed, TypeOK
<1>1. ASSUME NEW o \in Orgs, OpenCheckout(k, o) PROVE AllSaved'
  <2>1. UNCHANGED <<org, sessions>>
    BY <1>1 DEF OpenCheckout, rows
  <2>2. \A j \in Checkouts \ {k} : shop'[j] = shop[j]
    BY <1>1, <1>b DEF OpenCheckout
  <2>3. /\ shop'[k].pc = "session" => org[o].customer # NoCustomer
        /\ shop'[k].customer = org[o].customer
    BY <1>1, <1>b DEF OpenCheckout
  <2>4. shop'[k].pc = "session" => Saved(shop'[k].customer)
    BY <2>3, <1>b DEF CustomersPaired, Saved, OrgRows
  <2>5. QED
    BY <2>1, <2>2, <2>3, <2>4 DEF AllSaved, Saved
<1>2. ASSUME NEW c \in Customers, CreateCustomer(k, c) PROVE AllSaved'
  <2>1. UNCHANGED <<org, sessions>>
    BY <1>2 DEF CreateCustomer, rows
  <2>2. \A j \in Checkouts \ {k} : shop'[j] = shop[j]
    BY <1>2, <1>b DEF CreateCustomer
  <2>3. shop'[k].pc = "save"
    BY <1>2, <1>a, <1>b DEF CreateCustomer, Shops
  <2>4. QED
    BY <2>1, <2>2, <2>3 DEF AllSaved, Saved
<1>s. ASSUME BeginSave(k) PROVE AllSaved'
  <2>1. UNCHANGED <<org, sessions>>
    BY <1>s DEF BeginSave, rows
  <2>2. \A j \in Checkouts \ {k} : shop'[j] = shop[j]
    BY <1>s, <1>b DEF BeginSave
  <2>3. shop'[k].pc = "update"
    BY <1>s, <1>a, <1>b DEF BeginSave, Shops
  <2>4. QED
    BY <2>1, <2>2, <2>3 DEF AllSaved, Saved
<1>3. ASSUME SaveCustomer(k) PROVE AllSaved'
  <2>1. UNCHANGED <<known, sessions>>
    BY <1>3 DEF SaveCustomer
  <2>2. \A j \in Checkouts \ {k} : shop'[j] = shop[j]
    BY <1>3, <1>b DEF SaveCustomer
  <2>3. /\ s.customer \in known /\ OwnerOf[s.customer] = s.org /\ s.org \in Orgs
    BY <1>3, <1>a, <1>b, StripeAssumption DEF SaveCustomer, CustomersPaired
  <2>4. shop'[k].pc = "session" /\ shop'[k].customer = s.customer
    BY <1>3, <1>a, <1>b DEF SaveCustomer, Shops
  <2>5. /\ \A o \in Orgs \ {s.org} : org'[o] = org[o]
        /\ org'[s.org].customer = s.customer
    BY <1>3, <1>a, <1>b, <2>3 DEF SaveCustomer, OrgRows
  <2>6. \A c \in known : Saved(c) => Saved(c)'
    BY <2>1, <2>3, <2>5, <1>b, StripeAssumption DEF Saved, OneCustomerPerOrg
  <2>7. Saved(s.customer)'
    BY <2>3, <2>5 DEF Saved
  <2>8. \A j \in Checkouts : shop'[j].pc = "session" => Saved(shop[j].customer)'
    <3> SUFFICES ASSUME NEW j \in Checkouts, shop'[j].pc = "session"
                 PROVE  Saved(shop[j].customer)'
      OBVIOUS
    <3>1. CASE j = k
      BY <3>1, <2>4, <2>7 DEF Saved
    <3>2. CASE j # k
      <4>1. shop[j].pc = "session" /\ shop'[j].customer = shop[j].customer
        BY <3>2, <2>2
      <4>2. shop[j].customer \in known /\ Saved(shop[j].customer)
        BY <4>1 DEF CustomersPaired, AllSaved
      <4>3. QED
        BY <4>1, <4>2, <2>6 DEF Saved
    <3>3. QED
      BY <3>1, <3>2
  <2>9. \A c \in sessions : Saved(c)'
    BY <2>6 DEF CustomersPaired, AllSaved
  <2>10. QED
    BY <2>1, <2>8, <2>9 DEF AllSaved
<1>4. ASSUME CreateSession(k) \/ CreatePortal(k) \/ CheckoutFails(k) PROVE AllSaved'
  <2>1. UNCHANGED org
    BY <1>4 DEF CreateSession, CreatePortal, CheckoutFails, rows
  <2>2. \A j \in Checkouts \ {k} : shop'[j] = shop[j]
    BY <1>4, <1>b DEF CreateSession, CreatePortal, CheckoutFails
  <2>3. shop'[k].pc = "ended"
    BY <1>4, <1>b DEF CreateSession, CreatePortal, CheckoutFails, Shops
  <2>4. \A c \in sessions' : Saved(c)
    BY <1>4 DEF CreateSession, CreatePortal, CheckoutFails, AllSaved
  <2>5. QED
    BY <2>1, <2>2, <2>3, <2>4 DEF AllSaved, Saved
<1>5. QED
  BY <1>1, <1>2, <1>s, <1>3, <1>4 DEF Checkout

\* What a commit does to the rows: they carry the customer already, and only the row of
\* the workspace gets the event and its time.
LEMMA CommitEffect ==
  ASSUME WellFormed, CustomersPaired, HandlersPaired, AllSaved, NEW w \in Workers, Commit(w)
  PROVE  /\ proc[w].event \in Events /\ CustomerOf[proc[w].event] \in Customers
         /\ OwnerAt(w) \in Orgs
         /\ \A o \in Orgs : org'[o].customer = org[o].customer
         /\ \A o \in Orgs \ {OwnerAt(w)} : org'[o] = org[o]
         /\ org'[OwnerAt(w)].lastAt = CreatedAt[proc[w].event]
         /\ org'[OwnerAt(w)].shown = IF OwnerAt(w) \in proc[w].wrote
                                    THEN proc[w].event ELSE org[OwnerAt(w)].shown
         /\ org'[OwnerAt(w)].shown \in {org[OwnerAt(w)].shown, proc[w].event}
<1> DEFINE e == proc[w].event
           c == CustomerOf[e]
<1>w. PICK written : written = [o \in Orgs |-> IF o \in proc[w].wrote
                                              THEN [org[o] EXCEPT !.customer = c, !.shown = e]
                                              ELSE org[o]]
  OBVIOUS
<1>1. /\ At(w, "commit")
      /\ org' = [o \in Orgs |-> IF o \in {p \in Orgs : written[p].customer = c}
                               THEN [written[o] EXCEPT !.lastAt = CreatedAt[e]]
                               ELSE written[o]]
  BY <1>w DEF Commit
<1>2. e \in Events /\ c \in Customers /\ Sent(e) /\ proc[w].wrote \subseteq {OwnerAt(w)}
  BY <1>1 DEF At, WellFormed, HandlersWellFormed, HandlersPaired, Running, PastClaim, Labels
<1>3. OwnerAt(w) \in Orgs /\ OwnerAt(w) = OwnerOf[c]
  BY <1>2, StripeAssumption DEF OwnerAt
<1>4. org[OwnerAt(w)].customer = c
  BY <1>2, <1>3, StripeAssumption DEF Sent, AllSaved, Saved
<1>5. \A o \in Orgs \ {OwnerAt(w)} : org[o].customer # c
  BY <1>2, <1>3 DEF CustomersPaired
<1>6. \A o \in Orgs : org[o] \in OrgRows
  BY DEF WellFormed, TypeOK
<1>7. \A o \in Orgs :
        /\ written[o].customer = org[o].customer
        /\ written[o].lastAt = org[o].lastAt
        /\ o # OwnerAt(w) => written[o] = org[o]
        /\ written[o].shown = IF o \in proc[w].wrote THEN e ELSE org[o].shown
        /\ written[o] \in OrgRows
  BY <1>w, <1>2, <1>4, <1>6 DEF OrgRows
<1>8. \A o \in Orgs : org'[o] = IF o = OwnerAt(w)
                               THEN [written[o] EXCEPT !.lastAt = CreatedAt[e]]
                               ELSE written[o]
  <2>a. \A p \in Orgs : written[p].customer = c <=> p = OwnerAt(w)
    BY <1>4, <1>5, <1>7
  <2>1. {p \in Orgs : written[p].customer = c} = {OwnerAt(w)}
    BY <2>a, <1>3
  <2>2. QED
    BY <1>1, <2>1
<1>9. /\ org'[OwnerAt(w)].lastAt = CreatedAt[e]
      /\ org'[OwnerAt(w)].shown = written[OwnerAt(w)].shown
      /\ org'[OwnerAt(w)].customer = written[OwnerAt(w)].customer
  <2>1. PICK q \in OrgRows : q = written[OwnerAt(w)]
    BY <1>3, <1>7
  <2>2. org'[OwnerAt(w)] = [q EXCEPT !.lastAt = CreatedAt[e]]
    BY <2>1, <1>3, <1>8
  <2>3. QED
    BY <2>1, <2>2 DEF OrgRows
<1>a. \A o \in Orgs \ {OwnerAt(w)} : org'[o] = org[o]
  BY <1>7, <1>8
<1>b. \A o \in Orgs : org'[o].customer = org[o].customer
  BY <1>3, <1>7, <1>9, <1>a
<1>c. org'[OwnerAt(w)].shown = IF OwnerAt(w) \in proc[w].wrote THEN e
                               ELSE org[OwnerAt(w)].shown
  BY <1>3, <1>7, <1>9
<1>10. QED
  BY <1>2, <1>3, <1>9, <1>a, <1>b, <1>c

LEMMA SavedStep ==
  ASSUME OneCustomerPerOrg', WellFormed, Paired, AllSaved, [Next]_vars
  PROVE  AllSaved'
<1>a. CustomersPaired /\ HandlersPaired /\ known \in SUBSET Customers
  BY DEF Paired, WellFormed, TypeOK
<1>b. ASSUME UNCHANGED checkout, \A o \in Orgs : org'[o].customer = org[o].customer
      PROVE  AllSaved'
  <2>1. shop' = shop /\ sessions' = sessions
    BY <1>b DEF checkout
  <2>2. \A c \in known : Saved(c) => Saved(c)'
    BY <1>a, <1>b, StripeAssumption DEF Saved
  <2>3. \A c \in sessions : Saved(c)'
    BY <2>2, <1>a DEF CustomersPaired, AllSaved
  <2>4. \A k \in Checkouts : shop[k].pc = "session" => Saved(shop[k].customer)'
    <3> SUFFICES ASSUME NEW k \in Checkouts, shop[k].pc = "session"
                 PROVE  Saved(shop[k].customer)'
      OBVIOUS
    <3>1. shop[k].customer \in known /\ Saved(shop[k].customer)
      BY <1>a DEF CustomersPaired, AllSaved
    <3>2. QED
      BY <3>1, <2>1, <2>2 DEF Saved
  <2>5. QED
    BY <2>1, <2>3, <2>4 DEF AllSaved
<1>1. CASE UNCHANGED vars
  BY <1>1, <1>b DEF vars, rows
<1>2. ASSUME NEW k \in Checkouts, Checkout(k) PROVE AllSaved'
  BY <1>2, <1>a, CheckoutSaved
<1>3. ASSUME NEW w \in Workers, Process(w) PROVE AllSaved'
  <2>1. CASE Commit(w)
    <3>1. \A o \in Orgs : org'[o].customer = org[o].customer
      BY <2>1, <1>a, CommitEffect
    <3>2. QED
      BY <2>1, <3>1, <1>b DEF Commit
  <2>2. CASE ~Commit(w)
    BY <1>3, <2>2, <1>b DEF Process, Claim, BeginTransaction, Lock, CheckOrder, Apply, Audit, SendEmail, rows
  <2>3. QED
    BY <2>1, <2>2
<1>4. QED
  BY <1>1, <1>2, <1>3, <1>b DEF Next, Enqueue, Stall, PostInline, Pick, Reject, Crash, rows

----------------------------------------------------------------------------

\* The transaction of w holds the advisory lock of its customer.
Holding(w) == proc[w].pc \in {"read", "apply", "audit", "commit"}

LocksExclusive ==
  \A v, w \in Workers :
    v # w /\ Holding(v) /\ Holding(w) => CustomerOf[proc[v].event] # CustomerOf[proc[w].event]

Fresh(w) == proc[w].pc \in {"apply", "audit", "commit"}

\* The time of a row covers what was applied to it; a handler the guard let through is
\* newer than it; and the subscription it shows is one that was applied.
Ordered ==
  /\ \A e \in Events : applied[e] > 0 /\ CustomerOf[e] \in Customers
                         => CreatedAt[e] <= org[OwnerOf[CustomerOf[e]]].lastAt
  /\ \A w \in Workers : Fresh(w) => org[OwnerAt(w)].lastAt < CreatedAt[proc[w].event]
  /\ \A o \in Orgs : org[o].shown # NoEvent
                       => /\ applied[org[o].shown] > 0
                          /\ CustomerOf[org[o].shown] \in Customers
                          /\ OwnerOf[CustomerOf[org[o].shown]] = o

LEMMA InitOrdered == Init => LocksExclusive /\ Ordered
  BY DEF Init, LocksExclusive, Holding, Ordered, Fresh, Rest

\* A step that begins no transaction keeps the locks exclusive.
LEMMA LocksKept ==
  ASSUME LocksExclusive,
         \A v \in Workers : Holding(v)' => Holding(v) /\ proc'[v].event = proc[v].event
  PROVE  LocksExclusive'
  BY DEF LocksExclusive

\* A step that commits nothing keeps the order if the guard lets no handler through.
LEMMA OrderKept ==
  ASSUME WellFormed, Ordered, UNCHANGED applied,
         \A o \in Orgs : org'[o].lastAt = org[o].lastAt /\ org'[o].shown = org[o].shown,
         \A v \in Workers : Fresh(v)' => Fresh(v) /\ proc'[v].event = proc[v].event
  PROVE  Ordered'
<1>1. \A e \in Events : applied'[e] > 0 /\ CustomerOf[e] \in Customers
                          => CreatedAt[e] <= org'[OwnerOf[CustomerOf[e]]].lastAt
  BY StripeAssumption DEF Ordered
<1>2. ASSUME NEW v \in Workers, Fresh(v)'
      PROVE  org'[OwnerOf[CustomerOf[proc'[v].event]]].lastAt < CreatedAt[proc'[v].event]
  <2>1. Fresh(v) /\ proc'[v].event = proc[v].event
    BY <1>2
  <2>2. OwnerAt(v) \in Orgs
    BY <2>1, StripeAssumption DEF WellFormed, HandlersWellFormed, PastClaim, Fresh, OwnerAt
  <2>3. QED
    BY <2>1, <2>2 DEF Ordered, OwnerAt
<1>3. \A o \in Orgs : org'[o].shown # NoEvent
                        => /\ applied'[org'[o].shown] > 0
                           /\ CustomerOf[org'[o].shown] \in Customers
                           /\ OwnerOf[CustomerOf[org'[o].shown]] = o
  BY DEF Ordered
<1>4. QED
  BY <1>1, <1>2, <1>3 DEF Ordered, OwnerAt

LEMMA OtherOrdered ==
  ASSUME WellFormed, LocksExclusive, Ordered,
         \/ \E e \in Events : Enqueue(e) \/ Stall(e)
         \/ \E w \in Workers : \/ \E e \in Events : PostInline(w, e) \/ Pick(w, e)
                               \/ Reject(w) \/ Crash(w)
         \/ \E k \in Checkouts : Checkout(k)
  PROVE  LocksExclusive' /\ Ordered'
<1>a. org \in [Orgs -> OrgRows] /\ TypeOK
  BY DEF WellFormed, TypeOK
<1>1. ASSUME NEW k \in Checkouts, Checkout(k) PROVE LocksExclusive' /\ Ordered'
  <2>1. UNCHANGED <<proc, applied>>
    BY <1>1 DEF Checkout, OpenCheckout, CreateCustomer, BeginSave, SaveCustomer, CreateSession, CreatePortal,
                CheckoutFails, effects
  <2>2. org' = org \/ org' = [org EXCEPT ![shop[k].org].customer = shop[k].customer]
    BY <1>1 DEF Checkout, OpenCheckout, CreateCustomer, BeginSave, SaveCustomer, CreateSession, CreatePortal,
                CheckoutFails, rows
  <2>3. \A o \in Orgs : org'[o].lastAt = org[o].lastAt /\ org'[o].shown = org[o].shown
    BY <2>2, <1>a DEF OrgRows
  <2>4. QED
    BY <2>1, <2>3, LocksKept, OrderKept DEF Holding, Fresh
<1>2. ASSUME NEW e \in Events, Enqueue(e) \/ Stall(e) PROVE LocksExclusive' /\ Ordered'
  <2>1. UNCHANGED <<proc, applied, org>>
    BY <1>2 DEF Enqueue, Stall, effects, rows
  <2>2. QED
    BY <2>1, LocksKept, OrderKept DEF Holding, Fresh
<1>3. ASSUME NEW w \in Workers,
             (\E e \in Events : PostInline(w, e) \/ Pick(w, e)) \/ Reject(w) \/ Crash(w)
      PROVE  LocksExclusive' /\ Ordered'
  <2>1. UNCHANGED <<applied, org, claimed>>
    BY <1>3 DEF PostInline, Pick, Reject, Crash, effects, rows
  <2>2. /\ \A v \in Workers \ {w} : proc'[v] = proc[v]
        /\ ~Holding(w)' /\ ~Fresh(w)'
    <3>1. ASSUME NEW e \in Events, NEW posted \in BOOLEAN, Begin(w, e, posted)
          PROVE  proc'[w].pc = "claim" /\ \A v \in Workers \ {w} : proc'[v] = proc[v]
      BY <2>1, <3>1, BeginEffect
    <3>2. ASSUME NEW pc \in {"ended", "crashed"}, proc' = [proc EXCEPT ![w] = Rest(pc)]
          PROVE  proc'[w].pc = pc /\ \A v \in Workers \ {w} : proc'[v] = proc[v]
      BY <3>2, <1>a, RestType, ProcEffect
    <3>3. CASE Reject(w) \/ Crash(w)
      BY <3>3, <3>2 DEF Reject, Crash, Holding, Fresh
    <3>4. CASE \E e \in Events : PostInline(w, e) \/ Pick(w, e)
      BY <3>4, <3>1 DEF PostInline, Pick, Holding, Fresh
    <3>5. QED
      BY <1>3, <3>3, <3>4
  <2>3. QED
    BY <2>1, <2>2, LocksKept, OrderKept DEF Holding, Fresh
<1>4. QED
  BY <1>1, <1>2, <1>3

LEMMA ProcessOrdered ==
  ASSUME OneCustomerPerOrg, WellFormed, Paired, AllSaved, LocksExclusive, Ordered,
         NEW w \in Workers, Process(w)
  PROVE  LocksExclusive' /\ Ordered'
<1> DEFINE e == proc[w].event
<1>a. TypeOK /\ HandlersWellFormed /\ CustomersPaired /\ HandlersPaired
  BY DEF WellFormed, Paired
<1>b. ASSUME NEW v \in Workers, PastClaim(v)
      PROVE  /\ proc[v].event \in Events /\ CustomerOf[proc[v].event] \in Customers
             /\ OwnerAt(v) \in Orgs
             /\ CreatedAt[proc[v].event] \in Nat \ {0}
             /\ CustomerOf[proc[v].event] \in known
             /\ org[OwnerAt(v)].customer = CustomerOf[proc[v].event]
             /\ org[OwnerAt(v)].lastAt \in Nat
  <2>1. /\ proc[v].event \in Events /\ CustomerOf[proc[v].event] \in Customers
        /\ Sent(proc[v].event)
    BY <1>a, <1>b DEF HandlersWellFormed, HandlersPaired, PastClaim, Running, Labels
  <2>2. /\ OwnerAt(v) \in Orgs /\ CreatedAt[proc[v].event] \in Nat \ {0}
        /\ OwnerAt(v) = OwnerOf[CustomerOf[proc[v].event]]
    BY <2>1, StripeAssumption DEF OwnerAt
  <2>3. CustomerOf[proc[v].event] \in sessions /\ CustomerOf[proc[v].event] \in known
    BY <2>1, <1>a, StripeAssumption DEF Sent, CustomersPaired
  <2>4. org[OwnerAt(v)].customer = CustomerOf[proc[v].event]
    BY <2>2, <2>3 DEF AllSaved, Saved
  <2>5. org[OwnerAt(v)].lastAt \in Nat
    BY <2>2, <1>a DEF TypeOK, OrgRows
  <2>6. QED
    BY <2>1, <2>2, <2>3, <2>4, <2>5
<1>1. ASSUME \A v \in Workers \ {w} : proc'[v] = proc[v],
             Holding(w)' => Holding(w) /\ proc'[w].event = e
      PROVE  LocksExclusive'
  BY <1>1, LocksKept DEF Holding
<1>2. ASSUME \A v \in Workers \ {w} : proc'[v] = proc[v], UNCHANGED <<org, applied>>,
             Fresh(w)' => Fresh(w) /\ proc'[w].event = e
      PROVE  Ordered'
  BY <1>2, OrderKept DEF Fresh
<1>3. ASSUME Return(w), UNCHANGED <<org, applied>>
      PROVE  LocksExclusive' /\ Ordered'
  <2>1. proc'[w] = Rest("ended") /\ \A v \in Workers \ {w} : proc'[v] = proc[v]
    BY <1>3, <1>a, ReturnEffect
  <2>2. ~Holding(w)' /\ ~Fresh(w)'
    BY <2>1 DEF Holding, Fresh, Rest
  <2>3. QED
    BY <2>1, <2>2, <1>1, <1>2, <1>3
<1>4. CASE Claim(w)
  <2>1. "begin" \in Labels /\ At(w, "claim") /\ UNCHANGED org
    BY <1>4 DEF Labels, Claim
  <2>2. e \in Events
    BY <2>1, <1>a DEF HandlersWellFormed, Running, At, Labels
  <2>3. CASE Return(w) /\ CustomerOf[e] = NoCustomer /\ e \notin claimed
    <3>1. applied' = [applied EXCEPT ![e] = @ + 1]
      BY <1>4, <2>3 DEF Claim
    <3>2. proc'[w] = Rest("ended") /\ \A v \in Workers \ {w} : proc'[v] = proc[v]
      BY <2>3, <1>a, ReturnEffect
    <3>3. ~Holding(w)' /\ ~Fresh(w)'
      BY <3>2 DEF Holding, Fresh, Rest
    <3>4. CustomerOf[e] \notin Customers
      BY <2>3, StripeAssumption
    <3>5. \A d \in Events : /\ applied[d] \in Nat /\ applied'[d] \in Nat
                            /\ applied'[d] >= applied[d]
                            /\ d # e => applied'[d] = applied[d]
      BY <3>1, <2>2, <1>a DEF TypeOK
    <3>6. \A d \in Events : applied'[d] > 0 /\ CustomerOf[d] \in Customers
                              => CreatedAt[d] <= org'[OwnerOf[CustomerOf[d]]].lastAt
      BY <3>4, <3>5, <2>1 DEF Ordered
    <3>7. \A v \in Workers : Fresh(v)' => org'[OwnerAt(v)'].lastAt < CreatedAt[proc'[v].event]
      BY <3>2, <3>3, <2>1 DEF Ordered, Fresh, OwnerAt
    <3>8. \A o \in Orgs : org[o].shown \in Events \cup {NoEvent}
      BY <1>a DEF TypeOK, OrgRows
    <3>9. \A o \in Orgs : org'[o].shown # NoEvent
                            => /\ applied'[org'[o].shown] > 0
                               /\ CustomerOf[org'[o].shown] \in Customers
                               /\ OwnerOf[CustomerOf[org'[o].shown]] = o
      BY <3>5, <3>8, <2>1 DEF Ordered
    <3>10. QED
      BY <3>2, <3>3, <3>6, <3>7, <3>9, <1>1 DEF Ordered, OwnerAt
  <2>4. CASE Return(w) /\ ~(CustomerOf[e] = NoCustomer /\ e \notin claimed)
    BY <2>1, <2>4, <1>3, <1>4 DEF Claim
  <2>5. CASE Goto(w, "begin") /\ UNCHANGED applied
    <3>1. proc'[w].pc = "begin" /\ \A v \in Workers \ {w} : proc'[v] = proc[v]
      BY <2>1, <2>5, <1>a, GotoEffect
    <3>2. QED
      BY <2>1, <2>5, <3>1, <1>1, <1>2 DEF Holding, Fresh
  <2>6. QED
    BY <1>4, <2>3, <2>4, <2>5 DEF Claim
<1>l. CASE BeginTransaction(w)
  <2>1. "lock" \in Labels /\ Goto(w, "lock") /\ UNCHANGED <<org, applied>>
    BY <1>l DEF Labels, BeginTransaction, rows, effects
  <2>2. proc'[w].pc = "lock" /\ \A v \in Workers \ {w} : proc'[v] = proc[v]
    BY <2>1, <1>a, GotoEffect
  <2>3. QED
    BY <2>1, <2>2, <1>1, <1>2 DEF Holding, Fresh
<1>5. CASE Lock(w)
  <2>1. "read" \in Labels /\ At(w, "lock") /\ Goto(w, "read") /\ UNCHANGED <<org, applied>>
    BY <1>5 DEF Labels, Lock, rows, effects
  <2>2. /\ proc'[w].pc = "read" /\ proc'[w].event = e
        /\ \A v \in Workers \ {w} : proc'[v] = proc[v]
    BY <2>1, <1>a, GotoEffect
  <2>3. \A v \in Workers : Holding(v) => CustomerOf[proc[v].event] # CustomerOf[e]
    BY <1>5 DEF Lock, HoldsLock, Holding
  <2>4. LocksExclusive'
    BY <2>2, <2>3 DEF LocksExclusive, Holding
  <2>5. Ordered'
    BY <2>1, <2>2, <1>2 DEF Fresh
  <2>6. QED
    BY <2>4, <2>5
<1>6. CASE CheckOrder(w)
  <2>1. "apply" \in Labels /\ At(w, "read") /\ UNCHANGED <<org, applied>>
    BY <1>6 DEF Labels, CheckOrder, rows, effects
  <2>2. CASE Return(w)
    BY <2>1, <2>2, <1>3
  <2>3. CASE ~Stale(e) /\ Goto(w, "apply")
    <3>1. /\ proc'[w].pc = "apply" /\ proc'[w].event = e
          /\ \A v \in Workers \ {w} : proc'[v] = proc[v]
      BY <2>1, <2>3, <1>a, GotoEffect
    <3>2. LocksExclusive'
      BY <3>1, <2>1, <1>1 DEF Holding, At
    <3>3. PastClaim(w)
      BY <2>1 DEF At, PastClaim
    <3>4. /\ OwnerAt(w) \in Matching(CustomerOf[e])
          /\ org[OwnerAt(w)].lastAt \in Nat /\ CreatedAt[e] \in Nat \ {0}
      BY <3>3, <1>b DEF Matching
    <3>5. org[OwnerAt(w)].lastAt < CreatedAt[e]
      BY <3>4, <2>3 DEF Stale
    <3>6. \A v \in Workers : Fresh(v)' => org'[OwnerAt(v)'].lastAt < CreatedAt[proc'[v].event]
      BY <3>1, <3>5, <2>1 DEF Ordered, Fresh, OwnerAt
    <3>7. Ordered'
      BY <3>6, <2>1 DEF Ordered, OwnerAt
    <3>8. QED
      BY <3>2, <3>7
  <2>4. QED
    BY <1>6, <2>2, <2>3 DEF CheckOrder
<1>7. CASE Apply(w) \/ Audit(w)
  <2>1. UNCHANGED <<org, applied>> /\ Fresh(w) /\ Holding(w)
    BY <1>7 DEF Apply, Audit, rows, effects, At, Fresh, Holding
  <2>2. proc'[w].event = e /\ \A v \in Workers \ {w} : proc'[v] = proc[v]
    BY <1>7, <1>a DEF Apply, Audit, TypeOK, Handlers
  <2>3. QED
    BY <2>1, <2>2, <1>1, <1>2
<1>8. CASE Commit(w)
  <2>1. /\ At(w, "commit") /\ applied' = [applied EXCEPT ![e] = @ + 1]
    BY <1>8 DEF Commit
  <2>2. /\ \A v \in Workers \ {w} : proc'[v] = proc[v]
        /\ ~Holding(w)' /\ ~Fresh(w)'
    <3>1. CASE Return(w)
      BY <3>1, <1>a, ReturnEffect DEF Holding, Fresh, Rest
    <3>2. CASE proc' = [proc EXCEPT ![w] = [proc[w] EXCEPT !.pc = "email", !.wrote = {}]]
      <4>1. proc'[w].pc = "email" /\ \A v \in Workers \ {w} : proc'[v] = proc[v]
        BY <3>2, <1>a DEF TypeOK, Handlers
      <4>2. QED
        BY <4>1 DEF Holding, Fresh
    <3>3. QED
      BY <1>8, <3>1, <3>2 DEF Commit
  <2>3. LocksExclusive'
    BY <2>2, <1>1
  <2>4. PastClaim(w) /\ Holding(w) /\ Fresh(w)
    BY <2>1 DEF At, PastClaim, Holding, Fresh
  <2>5. /\ e \in Events /\ CustomerOf[e] \in Customers /\ OwnerAt(w) \in Orgs
        /\ \A o \in Orgs \ {OwnerAt(w)} : org'[o] = org[o]
        /\ org'[OwnerAt(w)].lastAt = CreatedAt[e]
        /\ org'[OwnerAt(w)].shown \in {org[OwnerAt(w)].shown, e}
    BY <1>8, <1>a, CommitEffect
  <2>6. /\ org[OwnerAt(w)].lastAt < CreatedAt[e]
        /\ org[OwnerAt(w)].lastAt \in Nat /\ CreatedAt[e] \in Nat
    BY <2>4, <1>b DEF Ordered
  <2>7. \A d \in Events : /\ applied[d] \in Nat
                          /\ d # e => applied'[d] = applied[d]
                          /\ d = e => applied'[d] = applied[d] + 1
    BY <2>1, <2>5, <1>a DEF TypeOK
  <2>8. ASSUME NEW d \in Events, applied'[d] > 0, CustomerOf[d] \in Customers
        PROVE  CreatedAt[d] <= org'[OwnerOf[CustomerOf[d]]].lastAt
    <3> DEFINE o == OwnerOf[CustomerOf[d]]
    <3>1. o \in Orgs /\ CreatedAt[d] \in Nat
      BY <2>8, StripeAssumption
    <3>2. CASE d = e
      BY <3>2, <2>5, <2>6 DEF OwnerAt
    <3>3. CASE d # e
      <4>1. CreatedAt[d] <= org[o].lastAt
        BY <3>3, <2>7, <2>8 DEF Ordered
      <4>2. CASE o = OwnerAt(w)
        BY <4>1, <4>2, <2>5, <2>6, <3>1
      <4>3. CASE o # OwnerAt(w)
        BY <4>1, <4>3, <2>5, <3>1
      <4>4. QED
        BY <4>2, <4>3
    <3>4. QED
      BY <3>2, <3>3
  <2>9. ASSUME NEW v \in Workers, Fresh(v)'
        PROVE  org'[OwnerAt(v)'].lastAt < CreatedAt[proc'[v].event]
    <3>1. v # w /\ proc'[v] = proc[v] /\ Fresh(v) /\ Holding(v) /\ PastClaim(v)
      BY <2>2, <2>9 DEF Fresh, Holding, PastClaim
    <3>2. CustomerOf[proc[v].event] # CustomerOf[e]
      BY <3>1, <2>4 DEF LocksExclusive
    <3>3. OwnerAt(v) # OwnerAt(w) /\ OwnerAt(v) \in Orgs
      BY <3>1, <3>2, <2>4, <2>5, <1>b DEF OneCustomerPerOrg, OwnerAt
    <3>4. OwnerAt(v)' = OwnerAt(v)
      BY <3>1 DEF OwnerAt
    <3>5. QED
      BY <3>1, <3>3, <3>4, <2>5 DEF Ordered
  <2>10. ASSUME NEW o \in Orgs, org'[o].shown # NoEvent
         PROVE  /\ applied'[org'[o].shown] > 0
                /\ CustomerOf[org'[o].shown] \in Customers
                /\ OwnerOf[CustomerOf[org'[o].shown]] = o
    <3>1. CASE org'[o].shown = org[o].shown
      <4>1. org[o].shown \in Events
        BY <3>1, <2>10, <1>a DEF TypeOK, OrgRows
      <4>2. QED
        BY <3>1, <4>1, <2>7, <2>10 DEF Ordered
    <3>2. CASE org'[o].shown # org[o].shown
      <4>1. o = OwnerAt(w) /\ org'[o].shown = e
        BY <3>2, <2>5
      <4>2. QED
        BY <4>1, <2>5, <2>7 DEF OwnerAt
    <3>3. QED
      BY <3>1, <3>2
  <2>11. Ordered'
    BY <2>8, <2>9, <2>10 DEF Ordered, OwnerAt
  <2>12. QED
    BY <2>3, <2>11
<1>9. CASE SendEmail(w)
  BY <1>9, <1>3 DEF SendEmail, rows
<1>10. QED
  BY <1>4, <1>l, <1>5, <1>6, <1>7, <1>8, <1>9 DEF Process

OInv == WellFormed /\ Paired /\ AllSaved /\ LocksExclusive /\ Ordered

LEMMA OrderedStep == OneCustomerPerOrg' /\ OInv /\ [Next]_vars => OInv'
<1> SUFFICES ASSUME OneCustomerPerOrg', OInv, [Next]_vars PROVE OInv'
  OBVIOUS
<1>a. WellFormed /\ Paired /\ AllSaved /\ LocksExclusive /\ Ordered
  BY DEF OInv
<1>o. OneCustomerPerOrg
  BY KnownGrows DEF OneCustomerPerOrg
<1>b. WellFormed' /\ Paired' /\ AllSaved'
  BY <1>a, StepWellFormed, PairedStep, SavedStep
<1>1. CASE UNCHANGED vars
  <2>1. UNCHANGED <<org, proc, applied>>
    BY <1>1 DEF vars, rows, effects
  <2>2. QED
    BY <2>1, <1>a, <1>b, LocksKept, OrderKept DEF OInv, Holding, Fresh
<1>2. ASSUME NEW w \in Workers, Process(w) PROVE OInv'
  BY <1>2, <1>a, <1>b, <1>o, ProcessOrdered DEF OInv
<1>3. QED
  BY <1>1, <1>2, <1>a, <1>b, OtherOrdered DEF Next, OInv

LEMMA InitOrderedInv == Init => OInv
<1> SUFFICES ASSUME Init PROVE OInv
  OBVIOUS
<1>1. WellFormed /\ Paired /\ LocksExclusive /\ Ordered
  BY InitWellFormed, InitPaired, InitOrdered DEF Paired
<1>2. AllSaved
  BY DEF Init, AllSaved
<1>3. QED
  BY <1>1, <1>2 DEF OInv

\* Customers only ever come to be: as long as no workspace has two, it never had.
LEMMA AlwaysOrdered == Spec => [](OneCustomerPerOrg => OInv)
<1>1. [Next]_vars /\ OneCustomerPerOrg' => OneCustomerPerOrg
  BY KnownGrows DEF OneCustomerPerOrg
<1>2. QED
  BY <1>1, InitOrderedInv, OrderedStep, PTL DEF Spec

\* As long as no workspace has a second customer, the time the ordering guard compares with
\* is never behind an event that was applied.
THEOREM GuardCovers == Spec => [](OneCustomerPerOrg => LastCoversApplied)
<1>1. OInv => LastCoversApplied
  <2> SUFFICES ASSUME OInv, NEW e \in Events, NEW o \in Orgs, applied[e] > 0,
                      CustomerOf[e] \in Customers, org[o].customer = CustomerOf[e]
               PROVE  CreatedAt[e] <= org[o].lastAt
    BY DEF LastCoversApplied
  <2>1. OwnerOf[CustomerOf[e]] = o
    BY DEF OInv, Paired, CustomersPaired
  <2>2. QED
    BY <2>1 DEF OInv, Ordered
<1>2. QED
  BY <1>1, AlwaysOrdered, PTL

\* If no workspace ever gets a second customer, the subscription it is shown is only ever
\* replaced by a newer one, in whatever order events are posted, retried and handled.
THEOREM ShownOnlyAdvances == Spec /\ []OneCustomerPerOrg => ShownNeverRegresses
<1> DEFINE Advances == \A o \in Orgs : org'[o].shown # org[o].shown /\ org[o].shown # NoEvent
                         => CreatedAt[org'[o].shown] > CreatedAt[org[o].shown]
<1>1. ASSUME OInv, [Next]_vars PROVE [Advances]_vars
  <2>a. /\ WellFormed /\ Paired /\ Ordered /\ TypeOK /\ CustomersPaired /\ HandlersPaired
        /\ AllSaved
    BY <1>1 DEF OInv, WellFormed, Paired
  <2>1. ASSUME NEW w \in Workers, Commit(w) PROVE Advances
    <3> SUFFICES ASSUME NEW o \in Orgs, org'[o].shown # org[o].shown, org[o].shown # NoEvent
                 PROVE  CreatedAt[org'[o].shown] > CreatedAt[org[o].shown]
      OBVIOUS
    <3>1. o = OwnerAt(w) /\ org'[o].shown = proc[w].event /\ proc[w].event \in Events
      BY <2>1, <2>a, CommitEffect
    <3>2. Fresh(w)
      BY <2>1 DEF Commit, At, Fresh
    <3>3. org[o].lastAt < CreatedAt[proc[w].event]
      BY <3>1, <3>2, <2>a DEF Ordered
    <3>4. org[o].shown \in Events /\ org[o].lastAt \in Nat
      BY <2>a DEF TypeOK, OrgRows
    <3>5. CreatedAt[org[o].shown] <= org[o].lastAt
      BY <3>4, <2>a DEF Ordered
    <3>6. CreatedAt[org[o].shown] \in Nat /\ CreatedAt[proc[w].event] \in Nat
      BY <3>1, <3>4, StripeAssumption
    <3>7. QED
      BY <3>1, <3>3, <3>4, <3>5, <3>6
  <2>2. ASSUME \A o \in Orgs : org'[o].shown = org[o].shown PROVE Advances
    BY <2>2
  <2>3. ASSUME NEW w \in Workers, Process(w) PROVE Advances
    BY <2>1, <2>2, <2>3 DEF Process, Claim, BeginTransaction, Lock, CheckOrder, Apply, Audit, SendEmail, rows
  <2>4. ASSUME NEW k \in Checkouts, Checkout(k) PROVE Advances
    <3>1. org' = org \/ org' = [org EXCEPT ![shop[k].org].customer = shop[k].customer]
      BY <2>4 DEF Checkout, OpenCheckout, CreateCustomer, BeginSave, SaveCustomer, CreateSession, CreatePortal,
                  CheckoutFails, rows
    <3>2. \A o \in Orgs : org'[o].shown = org[o].shown
      BY <3>1, <2>a DEF TypeOK, OrgRows
    <3>3. QED
      BY <3>2, <2>2
  <2>5. CASE \/ \E e \in Events : Enqueue(e) \/ Stall(e)
             \/ \E w \in Workers : \/ \E e \in Events : PostInline(w, e) \/ Pick(w, e)
                                   \/ Reject(w) \/ Crash(w)
    <3>1. UNCHANGED org
      BY <2>5 DEF Enqueue, Stall, PostInline, Pick, Reject, Crash, rows
    <3>2. QED
      BY <3>1, <2>2
  <2>6. QED
    BY <1>1, <2>3, <2>4, <2>5 DEF Next
<1>2. [][Advances]_vars => ShownNeverRegresses
  BY DEF ShownNeverRegresses
<1> HIDE DEF Advances
<1>3. Spec /\ []OneCustomerPerOrg => [][Advances]_vars
  BY <1>1, AlwaysOrdered, PTL DEF Spec
<1>4. QED
  BY <1>2, <1>3, PTL

----------------------------------------------------------------------------
(* An event that was claimed takes effect.                                 *)

\* Some handler is past the claim of e.
Attended(e) == \E w \in Workers : PastClaim(w) /\ proc[w].event = e

\* The time of a row is that of an event of its workspace that was applied.
LastIsApplied ==
  \A o \in Orgs : org[o].lastAt # 0 =>
    \E d \in Events : /\ applied[d] > 0
                      /\ CustomerOf[d] \in known /\ OwnerOf[CustomerOf[d]] = o
                      /\ CreatedAt[d] = org[o].lastAt

ClaimedIsSettled == \A e \in claimed : TookEffect(e) \/ Attended(e)

EInv == OInv /\ Once /\ LastIsApplied /\ (faults = 0 => ClaimedIsSettled)

\* No step takes an effect back.
AppliedGrows == \A d \in Events : applied'[d] >= applied[d]

LEMMA EffectStays ==
  ASSUME TypeOK, TypeOK', AppliedGrows, NEW e \in Events, TookEffect(e)
  PROVE  TookEffect(e)'
  BY DEF TookEffect, AppliedGrows, TypeOK

LEMMA LastStays ==
  ASSUME TypeOK, TypeOK', AppliedGrows, LastIsApplied, known \subseteq known',
         \A o \in Orgs : org'[o].lastAt = org[o].lastAt
  PROVE  LastIsApplied'
  BY DEF LastIsApplied, AppliedGrows, TypeOK

\* Nobody gives up an event, and what is newly claimed is settled.
LEMMA SettledStays ==
  ASSUME WellFormed, WellFormed', AppliedGrows, ClaimedIsSettled,
         \A e \in claimed' \ claimed : TookEffect(e)' \/ Attended(e)',
         \A w \in Workers, e \in Events :
           PastClaim(w) /\ proc[w].event = e
             => TookEffect(e)' \/ (PastClaim(w)' /\ proc'[w].event = e)
  PROVE  ClaimedIsSettled'
<1> SUFFICES ASSUME NEW e \in claimed' PROVE TookEffect(e)' \/ Attended(e)'
  BY DEF ClaimedIsSettled
<1>1. CASE e \notin claimed
  BY <1>1
<1>2. CASE e \in claimed /\ TookEffect(e)
  BY <1>2, EffectStays DEF WellFormed, TypeOK
<1>3. CASE e \in claimed /\ Attended(e)
  <2>1. PICK w \in Workers : PastClaim(w) /\ proc[w].event = e
    BY <1>3 DEF Attended
  <2>2. TookEffect(e)' \/ (PastClaim(w)' /\ proc'[w].event = e)
    BY <2>1, <1>3 DEF WellFormed, TypeOK
  <2>3. QED
    BY <2>2 DEF Attended
<1>4. QED
  BY <1>1, <1>2, <1>3 DEF ClaimedIsSettled

\* Steps outside the handlers commit nothing, and only a fault ends a handler.
LEMMA EffectOther ==
  ASSUME WellFormed, WellFormed', LastIsApplied, known \subseteq known',
         faults = 0 => ClaimedIsSettled,
         \/ \E e \in Events : Enqueue(e) \/ Stall(e)
         \/ \E w \in Workers : \/ \E e \in Events : PostInline(w, e) \/ Pick(w, e)
                               \/ Reject(w) \/ Crash(w)
         \/ \E k \in Checkouts : Checkout(k)
  PROVE  LastIsApplied' /\ (faults' = 0 => ClaimedIsSettled')
<1>a. TypeOK /\ TypeOK' /\ faults \in Nat
  BY DEF WellFormed, TypeOK
<1>b. ASSUME UNCHANGED <<claimed, applied>>, \A o \in Orgs : org'[o].lastAt = org[o].lastAt,
             faults' = 0 => /\ faults = 0
                            /\ \A w \in Workers : PastClaim(w) => proc'[w] = proc[w]
      PROVE  LastIsApplied' /\ (faults' = 0 => ClaimedIsSettled')
  <2>1. AppliedGrows
    BY <1>a, <1>b DEF AppliedGrows, TypeOK
  <2>2. LastIsApplied'
    BY <1>a, <1>b, <2>1, LastStays
  <2>3. ASSUME faults' = 0 PROVE ClaimedIsSettled'
    <3>1. \A w \in Workers, e \in Events :
            PastClaim(w) /\ proc[w].event = e => PastClaim(w)' /\ proc'[w].event = e
      BY <1>b, <2>3 DEF PastClaim
    <3>2. QED
      BY <3>1, <1>b, <2>1, <2>3, SettledStays
  <2>4. QED
    BY <2>2, <2>3
<1>1. ASSUME NEW k \in Checkouts, Checkout(k)
      PROVE  LastIsApplied' /\ (faults' = 0 => ClaimedIsSettled')
  <2>1. /\ UNCHANGED <<proc, claimed, applied>>
        /\ faults' = faults \/ faults' = faults + 1
        /\ org' = org \/ org' = [org EXCEPT ![shop[k].org].customer = shop[k].customer]
    BY <1>1 DEF Checkout, OpenCheckout, CreateCustomer, BeginSave, SaveCustomer, CreateSession, CreatePortal,
                CheckoutFails, rows, effects
  <2>2. \A o \in Orgs : org'[o].lastAt = org[o].lastAt
    BY <2>1, <1>a DEF TypeOK, OrgRows
  <2>3. QED
    BY <2>1, <2>2, <1>a, <1>b
<1>2. ASSUME NEW e \in Events, Enqueue(e) \/ Stall(e)
      PROVE  LastIsApplied' /\ (faults' = 0 => ClaimedIsSettled')
  BY <1>2, <1>b DEF Enqueue, Stall, rows, effects
<1>3. ASSUME NEW w \in Workers, NEW e \in Events, PostInline(w, e) \/ Pick(w, e)
      PROVE  LastIsApplied' /\ (faults' = 0 => ClaimedIsSettled')
  <2>1. PICK posted \in BOOLEAN : /\ UNCHANGED <<rows, applied, faults>>
                               /\ proc[w].pc = "idle" /\ Begin(w, e, posted)
    BY <1>3 DEF PostInline, Pick, effects
  <2>2. \A v \in Workers : PastClaim(v) => proc'[v] = proc[v]
    BY <2>1, BeginEffect DEF rows, PastClaim
  <2>3. QED
    BY <2>1, <2>2, <1>b DEF rows
<1>4. ASSUME NEW w \in Workers, Reject(w) \/ Crash(w)
      PROVE  LastIsApplied' /\ (faults' = 0 => ClaimedIsSettled')
  <2>1. UNCHANGED <<rows, applied>> /\ faults' = faults + 1
    BY <1>4 DEF Reject, Crash, effects
  <2>2. QED
    BY <2>1, <1>a, <1>b DEF rows
<1>5. QED
  BY <1>1, <1>2, <1>3, <1>4

\* A stale event has one of its customer that was applied and is at least as new.
LEMMA StaleTookEffect ==
  ASSUME OneCustomerPerOrg, OInv, LastIsApplied, NEW e \in Events,
         CustomerOf[e] \in Customers, Stale(e)
  PROVE  TookEffect(e)
<1>1. PICK o \in Orgs : /\ org[o].customer = CustomerOf[e]
                       /\ org[o].lastAt # 0 /\ CreatedAt[e] <= org[o].lastAt
  BY DEF Stale, Matching
<1>2. OwnerOf[CustomerOf[e]] = o /\ CustomerOf[e] \in known
  BY <1>1 DEF OInv, Paired, CustomersPaired
<1>3. PICK d \in Events : /\ applied[d] > 0
                         /\ CustomerOf[d] \in known /\ OwnerOf[CustomerOf[d]] = o
                         /\ CreatedAt[d] = org[o].lastAt
  BY <1>1 DEF LastIsApplied
<1>4. CustomerOf[d] = CustomerOf[e]
  BY <1>2, <1>3 DEF OneCustomerPerOrg
<1>5. CreatedAt[d] >= CreatedAt[e]
  BY <1>1, <1>3, StripeAssumption
<1>6. QED
  BY <1>3, <1>4, <1>5 DEF TookEffect

LEMMA EffectProcess ==
  ASSUME OneCustomerPerOrg, EInv, OInv', known \subseteq known', NEW w \in Workers, Process(w)
  PROVE  LastIsApplied' /\ (faults' = 0 => ClaimedIsSettled')
<1>a. /\ WellFormed /\ TypeOK /\ HandlersWellFormed /\ Once /\ OInv /\ LastIsApplied
      /\ WellFormed' /\ TypeOK' /\ CustomersPaired /\ HandlersPaired /\ AllSaved
      /\ faults = 0 => ClaimedIsSettled
  BY DEF EInv, OInv, WellFormed, Paired
<1>e. PICK e : e = proc[w].event
  OBVIOUS
<1>b. /\ e \in Events
      /\ PastClaim(w) => CustomerOf[e] \in Customers
      /\ PastClaim(w) /\ At(w, "email") => applied[e] = 1
  <2>1. Running(w)
    BY DEF Process, Claim, BeginTransaction, Lock, CheckOrder, Apply, Audit, Commit, SendEmail, At, Running, Labels
  <2>2. QED
    BY <2>1, <1>a, <1>e DEF HandlersWellFormed, Once, NotYet, At
<1>f. faults \in Nat /\ (faults' = 0 => faults = 0)
  <2>1. faults' = faults \/ faults' = faults + 1
    BY DEF Process, Claim, BeginTransaction, Lock, CheckOrder, Apply, Audit, Record, Commit, SendEmail
  <2>2. QED
    BY <2>1, <1>a DEF TypeOK
\* What is left to show of a step that keeps the times of the rows.
<1>c. ASSUME AppliedGrows, \A v \in Workers \ {w} : proc'[v] = proc[v],
             claimed' \subseteq claimed \cup {e},
             e \in claimed' \ claimed => TookEffect(e)' \/ Attended(e)',
             PastClaim(w) => TookEffect(e)' \/ (PastClaim(w)' /\ proc'[w].event = e)
      PROVE  faults' = 0 => ClaimedIsSettled'
  <2>1. \A v \in Workers, d \in Events :
          PastClaim(v) /\ proc[v].event = d
            => TookEffect(d)' \/ (PastClaim(v)' /\ proc'[v].event = d)
    <3> SUFFICES ASSUME NEW v \in Workers, NEW d \in Events, PastClaim(v), proc[v].event = d
                 PROVE  TookEffect(d)' \/ (PastClaim(v)' /\ proc'[v].event = d)
      OBVIOUS
    <3>1. CASE v = w
      BY <3>1, <1>c, <1>e
    <3>2. CASE v # w
      BY <3>2, <1>c DEF PastClaim
    <3>3. QED
      BY <3>1, <3>2
  <2>2. \A d \in claimed' \ claimed : TookEffect(d)' \/ Attended(d)'
    BY <1>c
  <2>3. QED
    BY <2>1, <2>2, <1>a, <1>c, <1>f, SettledStays
<1>d. ASSUME UNCHANGED applied PROVE AppliedGrows
  BY <1>a, <1>d DEF AppliedGrows, TypeOK
<1>1. CASE Claim(w)
  <2>1. /\ At(w, "claim") /\ claimed' = claimed \cup {e} /\ UNCHANGED org
        /\ applied' = IF e \notin claimed /\ CustomerOf[e] = NoCustomer
                      THEN [applied EXCEPT ![e] = @ + 1] ELSE applied
        /\ IF e \in claimed \/ CustomerOf[e] = NoCustomer
           THEN Return(w) ELSE Goto(w, "begin") /\ UNCHANGED bull
    BY <1>1, <1>e DEF Claim
  <2>2. AppliedGrows
    BY <2>1, <1>a, <1>b DEF AppliedGrows, TypeOK
  <2>3. ~PastClaim(w) /\ "begin" \in Labels
    BY <2>1 DEF At, PastClaim, Labels
  <2>4. \A v \in Workers \ {w} : proc'[v] = proc[v]
    BY <2>1, <2>3, <1>a, ReturnEffect, GotoEffect
  <2>5. ASSUME e \notin claimed PROVE TookEffect(e)' \/ Attended(e)'
    <3>1. CASE CustomerOf[e] = NoCustomer
      <4>1. applied'[e] > 0
        BY <3>1, <2>1, <2>5, <1>a, <1>b DEF TypeOK
      <4>2. QED
        BY <4>1 DEF TookEffect
    <3>2. CASE CustomerOf[e] # NoCustomer
      <4>1. proc'[w].pc = "begin" /\ proc'[w].event = e
        BY <3>2, <2>1, <2>3, <2>5, <1>a, <1>e, GotoEffect
      <4>2. QED
        BY <4>1 DEF Attended, PastClaim
    <3>3. QED
      BY <3>1, <3>2
  <2>6. LastIsApplied'
    BY <2>1, <2>2, <1>a, LastStays
  <2>7. QED
    BY <2>1, <2>2, <2>3, <2>4, <2>5, <2>6, <1>c
<1>2. ASSUME PastClaim(w), UNCHANGED <<rows, applied>>,
             \A v \in Workers \ {w} : proc'[v] = proc[v],
             TookEffect(e) \/ (PastClaim(w)' /\ proc'[w].event = e)
      PROVE  LastIsApplied' /\ (faults' = 0 => ClaimedIsSettled')
  <2>1. AppliedGrows
    BY <1>2, <1>d
  <2>2. LastIsApplied'
    BY <2>1, <1>2, <1>a, LastStays DEF rows
  <2>3. TookEffect(e) => TookEffect(e)'
    BY <2>1, <1>a, <1>b, EffectStays
  <2>4. QED
    BY <2>1, <2>2, <2>3, <1>2, <1>c DEF rows
<1>l. CASE BeginTransaction(w)
  <2>1. /\ "lock" \in Labels /\ PastClaim(w)
        /\ Goto(w, "lock") /\ UNCHANGED <<rows, applied>>
    BY <1>l DEF BeginTransaction, Labels, At, PastClaim, effects
  <2>2. /\ proc'[w].pc = "lock" /\ proc'[w].event = e
        /\ \A v \in Workers \ {w} : proc'[v] = proc[v]
    BY <2>1, <1>a, <1>e, GotoEffect
  <2>3. QED
    BY <2>1, <2>2, <1>2 DEF PastClaim
<1>3. CASE Lock(w)
  <2>1. "read" \in Labels /\ PastClaim(w) /\ Goto(w, "read") /\ UNCHANGED <<rows, applied>>
    BY <1>3 DEF Lock, Labels, At, PastClaim, effects
  <2>2. /\ proc'[w].pc = "read" /\ proc'[w].event = e
        /\ \A v \in Workers \ {w} : proc'[v] = proc[v]
    BY <2>1, <1>a, <1>e, GotoEffect
  <2>3. QED
    BY <2>1, <2>2, <1>2 DEF PastClaim
<1>4. CASE CheckOrder(w)
  <2>1. "apply" \in Labels /\ PastClaim(w) /\ UNCHANGED <<rows, applied>>
    BY <1>4 DEF CheckOrder, Labels, At, PastClaim, effects
  <2>2. CASE Stale(e) /\ Return(w)
    <3>1. \A v \in Workers \ {w} : proc'[v] = proc[v]
      BY <2>2, <1>a, ReturnEffect
    <3>2. TookEffect(e)
      BY <2>1, <2>2, <1>a, <1>b, StaleTookEffect
    <3>3. QED
      BY <2>1, <3>1, <3>2, <1>2
  <2>3. CASE Goto(w, "apply")
    <3>1. /\ proc'[w].pc = "apply" /\ proc'[w].event = e
          /\ \A v \in Workers \ {w} : proc'[v] = proc[v]
      BY <2>1, <2>3, <1>a, <1>e, GotoEffect
    <3>2. QED
      BY <2>1, <3>1, <1>2 DEF PastClaim
  <2>4. QED
    BY <1>4, <1>e, <2>2, <2>3 DEF CheckOrder
<1>5. CASE Apply(w) \/ Audit(w)
  <2>1. PastClaim(w) /\ UNCHANGED <<rows, applied>>
    BY <1>5 DEF Apply, Audit, At, PastClaim, effects
  <2>2. /\ proc'[w].pc \in {"audit", "commit"} /\ proc'[w].event = e
        /\ \A v \in Workers \ {w} : proc'[v] = proc[v]
    <3>1. PICK p \in Handlers : p = proc[w]
      BY <1>a DEF TypeOK
    <3>2. CASE Apply(w)
      BY <3>1, <3>2, <1>a, <1>e DEF Apply, TypeOK, Handlers
    <3>3. CASE Audit(w)
      BY <3>1, <3>3, <1>a, <1>e DEF Audit, TypeOK, Handlers
    <3>4. QED
      BY <1>5, <3>2, <3>3
  <2>3. QED
    BY <2>1, <2>2, <1>2 DEF PastClaim
<1>6. CASE SendEmail(w)
  <2>1. /\ PastClaim(w) /\ UNCHANGED <<rows, applied>> /\ At(w, "email") /\ Return(w)
    BY <1>6 DEF SendEmail, At, PastClaim
  <2>2. TookEffect(e)
    BY <2>1, <1>b DEF TookEffect
  <2>3. \A v \in Workers \ {w} : proc'[v] = proc[v]
    BY <2>1, <1>a, ReturnEffect
  <2>4. QED
    BY <2>1, <2>2, <2>3, <1>2
<1>7. CASE Commit(w)
  <2>1. PastClaim(w) /\ UNCHANGED claimed /\ applied' = [applied EXCEPT ![e] = @ + 1]
    BY <1>7, <1>e DEF Commit, At, PastClaim
  <2>2. \A v \in Workers \ {w} : proc'[v] = proc[v]
    <3>1. Return(w) \/ proc' = [proc EXCEPT ![w] = [proc[w] EXCEPT !.pc = "email", !.wrote = {}]]
      BY <1>7 DEF Commit
    <3>2. QED
      BY <3>1, <1>a, ReturnEffect DEF TypeOK
  <2>3. AppliedGrows /\ applied'[e] > 0
    BY <2>1, <1>a, <1>b DEF AppliedGrows, TypeOK
  <2>4. TookEffect(e)'
    BY <2>3 DEF TookEffect
  <2>a. CustomerOf[e] \in known'
    BY <1>7, <1>a, <1>e, CommitCustomers DEF CustomersPaired
  <2>5. /\ CustomerOf[e] \in Customers
        /\ \A o \in Orgs \ {OwnerOf[CustomerOf[e]]} : org'[o] = org[o]
        /\ org'[OwnerOf[CustomerOf[e]]].lastAt = CreatedAt[e]
    BY <1>7, <1>a, <1>e, CommitEffect DEF OwnerAt
  <2>6. LastIsApplied'
    <3> SUFFICES ASSUME NEW o \in Orgs, org'[o].lastAt # 0
                 PROVE  \E d \in Events :
                          /\ applied'[d] > 0
                          /\ CustomerOf[d] \in known' /\ OwnerOf[CustomerOf[d]] = o
                          /\ CreatedAt[d] = org'[o].lastAt
      BY DEF LastIsApplied
    <3>1. CASE o = OwnerOf[CustomerOf[e]]
      BY <3>1, <2>3, <2>a, <2>5, <1>b
    <3>2. CASE o # OwnerOf[CustomerOf[e]]
      <4>1. org'[o] = org[o]
        BY <3>2, <2>5
      <4>2. PICK d \in Events : /\ applied[d] > 0
                               /\ CustomerOf[d] \in known' /\ OwnerOf[CustomerOf[d]] = o
                               /\ CreatedAt[d] = org[o].lastAt
        BY <4>1, <1>a DEF LastIsApplied
      <4>3. applied'[d] > 0
        BY <4>2, <2>3, <1>a DEF AppliedGrows, TypeOK
      <4>4. QED
        BY <4>1, <4>2, <4>3
    <3>3. QED
      BY <3>1, <3>2
  <2>7. claimed' \subseteq claimed \cup {e} /\ e \notin claimed' \ claimed
    BY <2>1
  <2>8. faults' = 0 => ClaimedIsSettled'
    BY <2>2, <2>3, <2>4, <2>7, <1>c
  <2>9. QED
    BY <2>6, <2>8
<1>8. QED
  BY <1>1, <1>l, <1>3, <1>4, <1>5, <1>6, <1>7 DEF Process

LEMMA EffectStep == OneCustomerPerOrg' /\ EInv /\ [Next]_vars => EInv'
<1> SUFFICES ASSUME OneCustomerPerOrg', EInv, [Next]_vars PROVE EInv'
  OBVIOUS
<1>a. OInv /\ WellFormed /\ LocksExclusive /\ Once /\ LastIsApplied
  BY DEF EInv, OInv
<1>o. known \subseteq known' /\ OneCustomerPerOrg
  BY KnownGrows DEF OneCustomerPerOrg
<1>b. OInv' /\ Once' /\ WellFormed'
  BY <1>a, OrderedStep, OnceStep DEF OInv
<1>1. CASE UNCHANGED vars
  BY <1>1, <1>b DEF EInv, LastIsApplied, ClaimedIsSettled, TookEffect, Attended, PastClaim, vars,
                    rows, checkout, effects
<1>2. ASSUME NEW w \in Workers, Process(w) PROVE EInv'
  BY <1>2, <1>b, <1>o, EffectProcess DEF EInv
<1>3. QED
  BY <1>1, <1>2, <1>a, <1>b, <1>o, EffectOther DEF Next, EInv

\* As long as no workspace has a second customer and nothing fails, an event that was claimed
\* takes effect, or one of its customer at least as new did.
THEOREM EventsTakeEffect == Spec => [](OneCustomerPerOrg => FaultFreeEventTakesEffect)
<1>1. Init => EInv
  <2> SUFFICES ASSUME Init PROVE EInv
    OBVIOUS
  <2>1. OInv /\ Once
    BY InitOrderedInv, InitOnce
  <2>2. QED
    BY <2>1 DEF Init, EInv, LastIsApplied, ClaimedIsSettled
<1>2. [Next]_vars /\ OneCustomerPerOrg' => OneCustomerPerOrg
  BY KnownGrows DEF OneCustomerPerOrg
<1>3. EInv => FaultFreeEventTakesEffect
  BY DEF EInv, ClaimedIsSettled, Attended, Unattended, FaultFreeEventTakesEffect
<1>4. QED
  BY <1>1, <1>2, <1>3, EffectStep, PTL DEF Spec

============================================================================
