---------------------------- MODULE BatchLedger ----------------------------
(***************************************************************************)
(* What a batch job promises its workspace, without leases, workers, the   *)
(* queue or the database: every item is decided at most once, and the      *)
(* progress counters of the job only ever add items that are decided, each *)
(* of them once.  BatchJobs implements it as long as no lease runs out     *)
(* under a worker that is still running.                                   *)
(***************************************************************************)
EXTENDS Integers, FiniteSets

CONSTANT Items

VARIABLES
  outcome,   \* per item: undecided, or how it was decided
  counted,   \* per result: the items the counter of that result includes
  tally      \* per result: the progress counter the workspace is shown

ledgerVars == <<outcome, counted, tally>>

Results == {"completed", "failed"}

Init ==
  /\ outcome = [i \in Items |-> "open"]
  /\ counted = [r \in Results |-> {}]
  /\ tally   = [r \in Results |-> 0]

Decide(i, r) ==
  /\ outcome[i] = "open"
  /\ outcome' = [outcome EXCEPT ![i] = r]
  /\ UNCHANGED <<counted, tally>>

Count(S, r) ==
  /\ S \cap counted[r] = {}
  /\ \A i \in S : outcome[i] = r
  /\ counted' = [counted EXCEPT ![r] = @ \cup S]
  /\ tally'   = [tally EXCEPT ![r] = @ + Cardinality(S)]
  /\ UNCHANGED outcome

Next ==
  \/ \E i \in Items, r \in Results : Decide(i, r)
  \/ \E S \in SUBSET Items, r \in Results : Count(S, r)

Spec == Init /\ [][Next]_ledgerVars

============================================================================
