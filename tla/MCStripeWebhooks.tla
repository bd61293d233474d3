-------------------------- MODULE MCStripeWebhooks --------------------------
(* StripeWebhooks for TLC: the workspaces, their customers and the events   *)
(* of the instances.                                                        *)
EXTENDS StripeWebhooks, TLC

CONSTANTS o1, o2, c1, c2, e1, e2, e3, e4

\* One workspace and its customer: a new subscription, its first invoice in the same
\* second, a later update without metadata, and an event of no customer.
OneOwner == c1 :> o1
OneKind == e1 :> "created" @@ e2 :> "invoice" @@ e3 :> "subscription" @@ e4 :> "other"
OneCreatedAt == e1 :> 1 @@ e2 :> 1 @@ e3 :> 2 @@ e4 :> 1
OneCustomer == e1 :> c1 @@ e2 :> c1 @@ e3 :> c1 @@ e4 :> NoCustomer
OneMetadata == e1 :> TRUE @@ e2 :> FALSE @@ e3 :> FALSE @@ e4 :> FALSE

\* One workspace, two customers of it.
TwoOwner == c1 :> o1 @@ c2 :> o1
TwoKind == e1 :> "created" @@ e2 :> "created"
TwoCreatedAt == e1 :> 1 @@ e2 :> 2
TwoCustomer == e1 :> c1 @@ e2 :> c2
TwoMetadata == e1 :> TRUE @@ e2 :> TRUE

\* The same with another event of the first customer: they contend for its advisory lock.
LocksKind == TwoKind @@ e3 :> "subscription"
LocksCreatedAt == TwoCreatedAt @@ e3 :> 2
LocksCustomer == TwoCustomer @@ e3 :> c1
LocksMetadata == TwoMetadata @@ e3 :> FALSE

Symmetry == Permutations(Workers)

============================================================================
