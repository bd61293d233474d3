------------------------- MODULE SubscriptionLedger -------------------------
(***************************************************************************)
(* What billing promises a workspace, without deliveries, retries, claims, *)
(* locks or transactions: the events of a workspace take effect one after  *)
(* the other, each at most once and only if it is newer than the one       *)
(* before; the subscription it is shown is that of the last one that       *)
(* carried a subscription; before an event takes effect it is in the audit *)
(* log, or the one attempt to put it there has failed; and an email is     *)
(* sent once, about an event that took effect.                             *)
(* StripeWebhooks implements it while no workspace has two customers.      *)
(***************************************************************************)
EXTENDS Naturals

CONSTANTS
  Events,
  Orgs,
  NoEvent,
  NoOrg,
  WorkspaceOf,    \* the workspace an event is about, or NoOrg
  TimeOf,
  Subscriptions,  \* the events that carry a subscription
  Welcomes        \* the events an email is sent about

VARIABLES
  audited,  \* per event: how often it was recorded
  missed,   \* the events that could not be recorded
  taken,    \* per event: how often it took effect
  mailed,   \* per event: how often an email was sent
  last,     \* per workspace: the time of the last event that took effect
  shown     \* per workspace: the event whose subscription it is shown

ledgerVars == <<audited, missed, taken, mailed, last, shown>>

Init ==
  /\ audited = [e \in Events |-> 0]
  /\ missed = {}
  /\ taken = [e \in Events |-> 0]
  /\ mailed = [e \in Events |-> 0]
  /\ last = [o \in Orgs |-> 0]
  /\ shown = [o \in Orgs |-> NoEvent]

Untried(e) == audited[e] = 0 /\ e \notin missed /\ taken[e] = 0

Record(e) ==
  /\ Untried(e)
  /\ audited' = [audited EXCEPT ![e] = 1]
  /\ UNCHANGED <<missed, taken, mailed, last, shown>>

\* The audit log cannot be written, which stops nothing.
Miss(e) ==
  /\ Untried(e)
  /\ missed' = missed \cup {e}
  /\ UNCHANGED <<audited, taken, mailed, last, shown>>

\* An event of no workspace is only ticked off.
TickOff(e) ==
  /\ WorkspaceOf[e] = NoOrg
  /\ taken[e] = 0
  /\ taken' = [taken EXCEPT ![e] = 1]
  /\ UNCHANGED <<audited, missed, mailed, last, shown>>

TakeEffect(e) ==
  LET o == WorkspaceOf[e]
  IN  /\ o # NoOrg
      /\ audited[e] = 1 \/ e \in missed
      /\ taken[e] = 0
      /\ TimeOf[e] > last[o]
      /\ taken' = [taken EXCEPT ![e] = 1]
      /\ last' = [last EXCEPT ![o] = TimeOf[e]]
      /\ shown' = [shown EXCEPT ![o] = IF e \in Subscriptions THEN e ELSE shown[o]]
      /\ UNCHANGED <<audited, missed, mailed>>

Mail(e) ==
  /\ e \in Welcomes
  /\ taken[e] = 1 /\ mailed[e] = 0
  /\ mailed' = [mailed EXCEPT ![e] = 1]
  /\ UNCHANGED <<audited, missed, taken, last, shown>>

Next == \E e \in Events : Record(e) \/ Miss(e) \/ TickOff(e) \/ TakeEffect(e) \/ Mail(e)

Spec == Init /\ [][Next]_ledgerVars

=============================================================================
