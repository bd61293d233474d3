----------------------------- MODULE TagCache -----------------------------
(***************************************************************************)
(* One cached value of packages/cache under one tag: a table row behind    *)
(* cacheWrap (platform settings, the plan catalog, IP rules), or an API    *)
(* key behind verifyApiKey.  Server processes share Redis; each has a      *)
(* memory map of its own for the time Redis does not answer.               *)
(*                                                                         *)
(* Every await is one step.  A value is the number of the write that made  *)
(* it, so "older" can be said of two values; an API key is active at 0 and *)
(* revoked at 1.  Time is abstracted to the expiry of an entry.            *)
(***************************************************************************)
EXTENDS Integers, FiniteSets

CONSTANTS
  Procs,       \* server processes
  Readers,     \* calls of cacheWrap or verifyApiKey, one after the other
  Writers,     \* calls of an update that invalidates the tag, once each
  Redis, NoReader,
  Kinds,       \* "row" behind cacheWrap, "apiKey" behind verifyApiKey
  Modes,       \* "failOpen", "failClosed"
  FirstVersion, \* how often the tag has been invalidated before
  MaxVersion,  \* MAX_TAG_CARDINALITY
  MaxFaults    \* bound: outages of Redis, rejected loads, invalidations that die

ASSUME CacheAssumption ==
  /\ IsFiniteSet(Procs) /\ IsFiniteSet(Readers) /\ IsFiniteSet(Writers)
  /\ Redis \notin Procs
  /\ NoReader \notin Readers
  /\ Kinds \subseteq {"row", "apiKey"}
  /\ Modes \subseteq {"failOpen", "failClosed"}
  /\ MaxVersion \in Nat \ {0}
  /\ FirstVersion \in 0 .. MaxVersion
  /\ MaxFaults \in Nat

Stores == {Redis} \cup Procs

VARIABLES
  kind, mode, \* what is cached, and with which failureMode
  db,         \* the committed value
  up,         \* Redis answers
  store,      \* per store: the entry (a set of at most one) and the tag's version
  inFlight,   \* per process: the reader whose load the others wait for
  op,         \* the local state of the readers
  wr,         \* the local state of the writers
  faults      \* faults so far, for the bound

vars == <<kind, mode, db, up, store, inFlight, op, wr, faults>>

(* History, kept in the records.  acked: the newest value whose tag was    *)
(* invalidated in a store.  current: the stores in which nothing was       *)
(* invalidated since the reader's value was loaded or found valid; sure:   *)
(* an entry was stored while it was.  floor: the oldest value the reader   *)
(* may answer with, 0 if it has an excuse; late: it answered an older one. *)

Entries(vals) == [val : vals, ver : Nat, touched : BOOLEAN, sure : BOOLEAN]

NewOp(pc) == [pc |-> pc, at |-> NoReader, rec |-> {}, ver |-> 0, current |-> {},
              floor |-> 0, late |-> FALSE]

Init ==
  /\ kind \in Kinds /\ mode \in Modes
  /\ db = 0
  /\ up = TRUE
  /\ store = [s \in Stores |-> [entry |-> {}, acked |-> 0,
                                 version |-> IF s = Redis THEN FirstVersion ELSE 0]]
  /\ inFlight = [p \in Procs |-> NoReader]
  /\ op = [c \in Readers |-> NewOp("idle")]
  /\ wr = [w \in Writers |-> [pc |-> "idle", val |-> 0]]
  /\ faults = 0

At(c, l) == op[c].pc = l
Goto(c, l) == op' = [op EXCEPT ![c] = [op[c] EXCEPT !.pc = l]]
Rest == UNCHANGED <<kind, mode, db, up, wr, faults>>

----------------------------------------------------------------------------
(* cacheGet.                                                               *)

Begin(c) ==
  /\ At(c, "idle")
  /\ \E p \in Procs :
       op' = [op EXCEPT ![c] = [NewOp("get") EXCEPT !.at = p, !.floor = store[Redis].acked]]
  /\ UNCHANGED <<store, inFlight>> /\ Rest

Miss(c) ==
  op' = [op EXCEPT ![c] = [op[c] EXCEPT !.pc = IF kind = "row" THEN "miss" ELSE "load",
                                        !.rec = {}]]

\* The call answers with rec.
Answered(c, rec) ==
  [NewOp("idle") EXCEPT !.late = \E e \in rec : e.val < op[c].floor]

\* A value was found valid in store s.
Hit(c, s, e) ==
  LET held == [op[c] EXCEPT !.rec = {[e EXCEPT !.ver = 0]},
                            !.current = IF e.sure THEN {s} ELSE {},
                            !.floor = IF e.sure /\ s = Redis THEN @ ELSE 0]
  IN  op' = [op EXCEPT ![c] =
              IF kind = "apiKey" THEN [held EXCEPT !.pc = "touch"]
              ELSE [NewOp("idle") EXCEPT !.late = e.val < held.floor]]

\* Mutant of Valid: any version the tag ever had is good.
ValidAnyVersion(s, e) == e.ver \in 0 .. store[s].version + MaxVersion

\* The stored version against the tag's: not behind it in Redis, the same in memory.
Valid(s, e) == IF s = Redis THEN e.ver >= store[s].version ELSE e.ver = store[s].version

\* Redis did not answer: readMemory, unless the caller fails closed.
GetFallback(c) ==
  LET found == {e \in store[op[c].at].entry : Valid(op[c].at, e)}
  IN  IF mode = "failClosed" \/ found = {} THEN Miss(c)
      ELSE \E e \in found : Hit(c, op[c].at, e)

\* A miss in Redis does not look in memory.
Get(c) ==
  /\ At(c, "get")
  /\ IF ~up THEN GetFallback(c)
     ELSE IF store[Redis].entry = {} THEN Miss(c)
     ELSE op' = [op EXCEPT ![c] = [op[c] EXCEPT !.pc = "version", !.rec = store[Redis].entry]]
  /\ UNCHANGED <<store, inFlight>> /\ Rest

CompareVersion(c) ==
  /\ At(c, "version")
  /\ IF ~up THEN GetFallback(c)
     ELSE \E e \in op[c].rec : IF Valid(Redis, e) THEN Hit(c, Redis, e) ELSE Miss(c)
  /\ UNCHANGED <<store, inFlight>> /\ Rest

----------------------------------------------------------------------------
(* cacheWrap: one load per process, shared by those who miss meanwhile.    *)

Coalesce(c) ==
  /\ At(c, "miss")
  /\ IF inFlight[op[c].at] = NoReader
     THEN inFlight' = [inFlight EXCEPT ![op[c].at] = c] /\ Goto(c, "load")
     ELSE Goto(c, "wait") /\ UNCHANGED inFlight
  /\ UNCHANGED store /\ Rest

\* The promise of c settles: those who wait for it get the same answer, which may have
\* been loaded before they began.
Settle(c, next) ==
  /\ op' = [d \in Readers |->
             IF d = c THEN next
             ELSE IF op[d].pc = "wait" /\ inFlight[op[d].at] = c THEN NewOp("idle")
             ELSE op[d]]
  /\ inFlight' = [p \in Procs |-> IF inFlight[p] = c THEN NoReader ELSE inFlight[p]]

\* The loader, or the select of lookupApiKeyByHash; a revoked key has no row and is
\* not cached.
Load(c) ==
  /\ At(c, "load")
  /\ IF kind = "apiKey" /\ db = 1 THEN Settle(c, NewOp("idle"))
     ELSE /\ op' = [op EXCEPT ![c] =
                     [op[c] EXCEPT !.pc = "setVersion", !.current = Stores,
                        !.rec = {[val |-> db, ver |-> 0, touched |-> FALSE, sure |-> TRUE]}]]
          /\ UNCHANGED inFlight
  /\ UNCHANGED store /\ Rest

\* Mutant of LoadRejects: the promise is only forgotten when it resolves.
LoadRejectsKept(c) ==
  /\ At(c, "load") /\ faults < MaxFaults
  /\ faults' = faults + 1
  /\ Goto(c, "idle")
  /\ UNCHANGED <<kind, mode, db, up, wr, store, inFlight>>

LoadRejects(c) ==
  /\ At(c, "load") /\ faults < MaxFaults
  /\ faults' = faults + 1
  /\ Settle(c, NewOp("idle"))
  /\ UNCHANGED <<kind, mode, db, up, wr, store>>

----------------------------------------------------------------------------
(* cacheSet, and the refresh of verifyApiKey.                              *)

\* The record of an API key is looked at once it is stored; else the call is over.
Stored(c) ==
  Settle(c, IF kind = "apiKey" THEN [op[c] EXCEPT !.pc = "touch", !.ver = 0]
            ELSE Answered(c, op[c].rec))

Put(c, s, ver) ==
  store' = [store EXCEPT ![s] =
             [store[s] EXCEPT !.entry = {[e EXCEPT !.ver = ver, !.sure = s \in op[c].current] :
                                           e \in op[c].rec}]]

SetFallback(c) ==
  /\ IF mode = "failClosed" THEN UNCHANGED store
     ELSE Put(c, op[c].at, store[op[c].at].version)
  /\ Stored(c)

\* The tag's version is read when the value is stored, after it was loaded.
SetVersion(c) ==
  /\ At(c, "setVersion")
  /\ IF up THEN /\ op' = [op EXCEPT ![c] = [op[c] EXCEPT !.pc = "set",
                                                         !.ver = store[Redis].version]]
                /\ UNCHANGED <<store, inFlight>>
     ELSE SetFallback(c)
  /\ Rest

SetEntry(c) ==
  /\ At(c, "set")
  /\ IF up THEN Put(c, Redis, op[c].ver) /\ Stored(c) ELSE SetFallback(c)
  /\ Rest

\* Mutant of Touch: the refreshed record keeps the lastUsedAt it had.
TouchKeepsLastUsed(c) ==
  /\ At(c, "touch")
  /\ Goto(c, "setVersion") \/ op' = [op EXCEPT ![c] = Answered(c, op[c].rec)]
  /\ UNCHANGED <<store, inFlight>> /\ Rest

\* lastUsedAt is more than 5 minutes old: the row is updated and the record stored
\* again, as it is but for lastUsedAt.
Touch(c) ==
  /\ At(c, "touch")
  /\ \E e \in op[c].rec :
       \/ op' = [op EXCEPT ![c] = Answered(c, {e})]
       \/ /\ ~e.touched
          /\ op' = [op EXCEPT ![c] = [op[c] EXCEPT !.pc = "setVersion",
                                                   !.rec = {[e EXCEPT !.touched = TRUE]}]]
  /\ UNCHANGED <<store, inFlight>> /\ Rest

----------------------------------------------------------------------------
(* Writers: the update of the row, then cacheInvalidateTag.                *)

LastValue == IF kind = "apiKey" THEN 1 ELSE Cardinality(Writers)

\* Mutant of Write: a key that is revoked already is revoked again.
WriteUnconditional(w) ==
  /\ wr[w].pc = "idle"
  /\ db' = db + 1
  /\ wr' = [wr EXCEPT ![w] = [pc |-> "invalidate", val |-> db + 1]]
  /\ UNCHANGED <<kind, mode, up, store, inFlight, op, faults>>

\* revokeApiKey updates a key once, and invalidates only if it did.
Write(w) ==
  /\ wr[w].pc = "idle" /\ db < LastValue
  /\ db' = db + 1
  /\ wr' = [wr EXCEPT ![w] = [pc |-> "invalidate", val |-> db + 1]]
  /\ UNCHANGED <<kind, mode, up, store, inFlight, op, faults>>

WriterAt(w, l) ==
  wr' = [wr EXCEPT ![w] = [pc |-> l, val |-> IF l = "done" THEN 0 ELSE wr[w].val]]

Newer(a, b) == IF a > b THEN a ELSE b

\* What readers hold is not known any more to reflect store s.
Outdated(s) == op' = [c \in Readers |-> [op[c] EXCEPT !.current = op[c].current \ {s}]]

\* Mutant of InvalidateFallback: the entry is left to its version, which is not raised.
InvalidateFallbackLazy(w) ==
  /\ \E p \in Procs :
       /\ store' = [store EXCEPT ![p].acked = Newer(store[p].acked, wr[w].val)]
       /\ Outdated(p)
  /\ WriterAt(w, "done")

\* Redis did not answer: only this process forgets, and nobody if it fails closed.
InvalidateFallback(w) ==
  /\ IF mode = "failClosed" THEN UNCHANGED <<store, op>>
     ELSE \E p \in Procs :
            /\ store' = [store EXCEPT ![p] = [entry |-> {}, version |-> store[p].version + 1,
                                              acked |-> Newer(store[p].acked, wr[w].val)]]
            /\ Outdated(p)
  /\ WriterAt(w, "done")

\* The call was applied, and its answer is lost or the next one to Redis rejects (expire,
\* which extends the version's life, is the last): the fallback follows.
AppliedThen(w, next) ==
  \/ WriterAt(w, next) /\ UNCHANGED faults
  \/ WriterAt(w, "fallback") /\ faults < MaxFaults /\ faults' = faults + 1

Invalidate(w) ==
  /\ wr[w].pc = "invalidate"
  /\ IF ~up THEN InvalidateFallback(w) /\ UNCHANGED faults
     ELSE /\ store' = [store EXCEPT ![Redis] =
                        [store[Redis] EXCEPT !.version = store[Redis].version + 1,
                                             !.acked = Newer(store[Redis].acked, wr[w].val)]]
          /\ Outdated(Redis)
          /\ AppliedThen(w, IF store[Redis].version + 1 > MaxVersion THEN "reset" ELSE "done")
  /\ UNCHANGED <<kind, mode, db, up, inFlight>>

\* The version starts at 1 again: what is stored under a higher one is valid again.
ResetVersion(w) ==
  /\ wr[w].pc = "reset"
  /\ IF ~up THEN InvalidateFallback(w) /\ UNCHANGED faults
     ELSE /\ store' = [store EXCEPT ![Redis] =
                        [store[Redis] EXCEPT !.version = 1,
                           !.entry = {[e EXCEPT !.sure = FALSE] : e \in store[Redis].entry}]]
          /\ op' = [c \in Readers |->
                     [op[c] EXCEPT !.current = op[c].current \ {Redis},
                                   !.rec = {[e EXCEPT !.sure = FALSE] : e \in op[c].rec}]]
          /\ AppliedThen(w, "done")
  /\ UNCHANGED <<kind, mode, db, up, inFlight>>

FallBack(w) ==
  /\ wr[w].pc = "fallback"
  /\ InvalidateFallback(w)
  /\ UNCHANGED <<kind, mode, db, up, inFlight, faults>>

\* The process dies between the update and the invalidation.
InvalidateLost(w) ==
  /\ wr[w].pc \in {"invalidate", "reset", "fallback"} /\ faults < MaxFaults
  /\ faults' = faults + 1
  /\ WriterAt(w, "done")
  /\ UNCHANGED <<kind, mode, db, up, store, inFlight, op>>

----------------------------------------------------------------------------
(* The time to live of an entry, the trimming of the memory map, outages.  *)

Expire(s) ==
  /\ store[s].entry # {}
  /\ store' = [store EXCEPT ![s] = [store[s] EXCEPT !.entry = {}]]
  /\ UNCHANGED <<kind, mode, db, up, inFlight, op, wr, faults>>

RedisFails ==
  /\ up /\ faults < MaxFaults
  /\ up' = FALSE /\ faults' = faults + 1
  /\ UNCHANGED <<kind, mode, db, store, inFlight, op, wr>>

RedisRecovers ==
  /\ ~up /\ up' = TRUE
  /\ UNCHANGED <<kind, mode, db, store, inFlight, op, wr, faults>>

----------------------------------------------------------------------------

Proceed(c) ==
  \/ Get(c) \/ CompareVersion(c) \/ Coalesce(c) \/ Load(c) \/ SetVersion(c) \/ SetEntry(c)
  \/ Touch(c)

Next ==
  \/ \E c \in Readers : Begin(c) \/ Proceed(c) \/ LoadRejects(c)
  \/ \E w \in Writers : \/ Write(w) \/ Invalidate(w) \/ ResetVersion(w) \/ FallBack(w)
                           \/ InvalidateLost(w)
  \/ \E s \in Stores : Expire(s)
  \/ RedisFails \/ RedisRecovers

Spec == Init /\ [][Next]_vars

\* A call that has begun goes on, and an entry reaches the end of its time to live.
\* Redis need not come back.
Fairness ==
  /\ \A c \in Readers : WF_vars(Proceed(c))
  /\ \A s \in Stores : WF_vars(Expire(s))

FairSpec == Spec /\ Fairness

----------------------------------------------------------------------------
(* Properties.                                                             *)

Values == 0 .. LastValue
OpLabels == {"idle", "get", "version", "miss", "wait", "load", "setVersion", "set", "touch"}

TypeOK ==
  /\ kind \in Kinds /\ mode \in Modes /\ up \in BOOLEAN
  /\ db \in Values
  /\ \A s \in Stores :
       /\ store[s].entry \subseteq Entries(Values) /\ store[s].version \in Nat
       /\ store[s].acked \in Values
  /\ inFlight \in [Procs -> Readers \cup {NoReader}]
  /\ \A c \in Readers :
       /\ op[c].pc \in OpLabels /\ op[c].at \in Procs \cup {NoReader}
       /\ op[c].rec \subseteq Entries(Values) /\ op[c].ver \in Nat
       /\ op[c].current \subseteq Stores /\ op[c].floor \in Values /\ op[c].late \in BOOLEAN
  /\ wr \in [Writers -> [pc : {"idle", "invalidate", "reset", "fallback", "done"}, val : Values]]
  /\ faults \in Nat

\* A valid entry reflects every invalidation of its store, unless its value was already
\* on its way into the store when the tag was invalidated or the version started over.
EntriesReflectInvalidations ==
  \A s \in Stores : \A e \in store[s].entry :
    e.sure /\ Valid(s, e) => e.val >= store[s].acked

\* A call never answers with a value older than one whose tag had been invalidated in
\* Redis when the call began, unless it joined the load of another call, read the memory
\* of its process, or found an entry that was stored too late to be invalidated.
AnswersReflectInvalidations == \A c \in Readers : ~op[c].late

\* Per process one load at a time, and a call that waits waits for a load under way:
\* a load that rejects is forgotten like one that resolves.
Loading(c) == op[c].pc \in {"load", "setVersion", "set"}

OneLoadPerProcess ==
  kind = "row" =>
    \A c \in Readers :
      /\ Loading(c) => inFlight[op[c].at] = c
      /\ At(c, "wait") => \E d \in Readers : inFlight[op[c].at] = d /\ Loading(d)
      /\ \A p \in Procs : inFlight[p] = c => Loading(c) /\ op[c].at = p

\* In the end no store holds a valid old value, whatever overlapped, was lost or wrapped:
\* every way of storing an old value again is used up by the calls under way.
OldValuesVanish ==
  <>[](\A s \in Stores : \A e \in store[s].entry : Valid(s, e) => e.val = db)

============================================================================
