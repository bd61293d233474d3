--------------------------- MODULE TagCacheProofs ---------------------------
(***************************************************************************)
(* Theorems about TagCache: its safety properties for any processes,       *)
(* readers, writers, versions and faults.                                  *)
(***************************************************************************)
EXTENDS TagCache, FiniteSetTheorems, TLAPS

----------------------------------------------------------------------------
(* The inductive invariant, in terms of one record at a time.              *)

ValuesOf(k) == 0 .. (IF k = "apiKey" THEN 1 ELSE Cardinality(Writers))
EntriesOf(k) == Entries(ValuesOf(k))
StoreRecs(k) == [entry : SUBSET EntriesOf(k), acked : ValuesOf(k), version : Nat]
OpRecs(k) == [pc : OpLabels, at : Procs \cup {NoReader}, rec : SUBSET EntriesOf(k), ver : Nat,
              current : SUBSET Stores, floor : ValuesOf(k), late : BOOLEAN]
WriterRecs(k) == [pc : {"idle", "invalidate", "reset", "fallback", "done"}, val : ValuesOf(k)]

\* An entry that is sure to reflect its store is not ahead of the tag, and reflects
\* every invalidation if it is valid.
SureIn(e, r) ==
  e.sure => e.ver <= r.version /\ (e.ver = r.version => e.val >= r.acked)

\* What a reader holds: what it found in Redis, what it may answer with, what it stores.
Fits(o, st, k) ==
  /\ o.pc # "idle" => o.at \in Procs
  /\ o.pc = "version" => \A e \in o.rec : SureIn(e, st[Redis])
  /\ o.pc \in {"setVersion", "set", "touch"} =>
       \A e \in o.rec : e.val >= o.floor /\ \A s \in o.current : e.val >= st[s].acked
  /\ o.pc = "set" /\ Redis \in o.current => o.ver <= st[Redis].version
  /\ o.floor <= st[Redis].acked
  /\ ~o.late
  /\ k = "row" => o.pc # "touch"
  /\ k = "apiKey" => o.pc \notin {"miss", "wait"}

Base ==
  /\ kind \in Kinds /\ mode \in Modes /\ up \in BOOLEAN /\ faults \in Nat
  /\ db \in ValuesOf(kind)
  /\ wr \in [Writers -> WriterRecs(kind)]
  /\ \A w \in Writers : wr[w].val <= db
  /\ inFlight \in [Procs -> Readers \cup {NoReader}]

StoresFit ==
  /\ store \in [Stores -> StoreRecs(kind)]
  /\ \A s \in Stores : store[s].acked <= db /\ \A e \in store[s].entry : SureIn(e, store[s])

OpsFit ==
  /\ op \in [Readers -> OpRecs(kind)]
  /\ \A c \in Readers : Fits(op[c], store, kind)

IInv == Base /\ StoresFit /\ OpsFit /\ OneLoadPerProcess

LEMMA WritersAreFinite == Cardinality(Writers) \in Nat
  BY CacheAssumption, FS_CardinalityType

LEMMA ValuesAreNaturals ==
  ASSUME NEW k
  PROVE  ValuesOf(k) \subseteq Nat /\ 0 \in ValuesOf(k)
  BY WritersAreFinite DEF ValuesOf

LEMMA NewerValue ==
  ASSUME NEW k, NEW a \in ValuesOf(k), NEW b \in ValuesOf(k)
  PROVE  /\ Newer(a, b) \in ValuesOf(k) /\ Newer(a, b) >= a /\ Newer(a, b) >= b
         /\ \A d \in Nat : a <= d /\ b <= d => Newer(a, b) <= d
  BY WritersAreFinite DEF ValuesOf, Newer

LEMMA TypesFollow == IInv => TypeOK
<1> SUFFICES ASSUME IInv PROVE TypeOK
  OBVIOUS
<1>1. Values = ValuesOf(kind)
  BY DEF Values, LastValue, ValuesOf
<1>2. \A s \in Stores : store[s] \in StoreRecs(kind)
  BY DEF IInv, StoresFit
<1>3. \A c \in Readers : op[c] \in OpRecs(kind)
  BY DEF IInv, OpsFit
<1>4. QED
  BY <1>1, <1>2, <1>3 DEF IInv, Base, TypeOK, StoreRecs, OpRecs, WriterRecs, EntriesOf

----------------------------------------------------------------------------
(* Steps that change one reader, and steps that settle a load.             *)

\* The variables no reader changes.
Still == /\ kind' = kind /\ mode' = mode /\ db' = db /\ up' = up /\ wr' = wr

\* A reader writes at most entries: versions and invalidations stay.
StoresStand ==
  /\ store' \in [Stores -> StoreRecs(kind)]
  /\ \A s \in Stores : /\ store'[s].version = store[s].version
                       /\ store'[s].acked = store[s].acked
                       /\ \A e \in store'[s].entry : SureIn(e, store'[s])

LEMMA RedisIsStore == Redis \in Stores /\ Procs \subseteq Stores
  BY DEF Stores

LEMMA StandFits ==
  ASSUME StoresStand, NEW o \in OpRecs(kind), NEW k, Fits(o, store, k)
  PROVE  Fits(o, store', k)
<1>1. o.current \subseteq Stores
  BY DEF OpRecs
<1>2. QED
  BY <1>1, RedisIsStore DEF StoresStand, Fits, SureIn

LEMMA UnchangedStand ==
  ASSUME IInv, store' = store
  PROVE  StoresStand
  BY DEF IInv, StoresFit, StoresStand

\* Reader c goes on with o; for a row it neither begins nor ends a load.
LEMMA ReaderKeeps ==
  ASSUME IInv, Still, StoresStand, faults' \in Nat, inFlight' = inFlight,
         NEW c \in Readers, NEW o \in OpRecs(kind), Fits(o, store, kind),
         op' = [op EXCEPT ![c] = o],
         kind = "row" =>
           /\ o.pc # "wait"
           /\ Loading(c) => o.pc \in {"load", "setVersion", "set"} /\ o.at = op[c].at
           /\ ~Loading(c) => o.pc \notin {"load", "setVersion", "set"}
  PROVE  IInv'
<1>1. Base'
  BY DEF IInv, Base, Still
<1>2. StoresFit'
  BY DEF IInv, StoresFit, StoresStand, Still
<1>3. \A d \in Readers : op'[d] = IF d = c THEN o ELSE op[d]
  BY DEF IInv, OpsFit
<1>4. OpsFit'
  <2>1. \A d \in Readers : op'[d] \in OpRecs(kind) /\ Fits(op'[d], store, kind)
    BY <1>3 DEF IInv, OpsFit
  <2>2. \A d \in Readers : Fits(op'[d], store', kind)
    BY <2>1, StandFits
  <2>3. op' \in [Readers -> OpRecs(kind)]
    BY DEF IInv, OpsFit
  <2>4. QED
    BY <2>2, <2>3 DEF OpsFit, Still
<1>5. OneLoadPerProcess'
  BY <1>3 DEF IInv, OneLoadPerProcess, Loading, At, Still
<1>6. QED
  BY <1>1, <1>2, <1>4, <1>5 DEF IInv

LEMMA NewOpFits ==
  ASSUME IInv
  PROVE  NewOp("idle") \in OpRecs(kind) /\ Fits(NewOp("idle"), store, kind)
<1>1. 0 <= store[Redis].acked
  BY ValuesAreNaturals, RedisIsStore DEF IInv, StoresFit, StoreRecs
<1>2. QED
  BY <1>1, ValuesAreNaturals DEF NewOp, OpRecs, OpLabels, Fits

LEMMA SettleKeeps ==
  ASSUME IInv, Still, StoresStand, faults' \in Nat, NEW c \in Readers,
         NEW next \in OpRecs(kind), Fits(next, store, kind), Settle(c, next),
         kind = "row" => next.pc = "idle"
  PROVE  IInv'
<1>0. NoReader \notin Readers
  BY CacheAssumption
<1>1. \A d \in Readers :
        op'[d] = IF d = c THEN next
                 ELSE IF op[d].pc = "wait" /\ inFlight[op[d].at] = c THEN NewOp("idle")
                 ELSE op[d]
  BY DEF Settle
<1>2. \A p \in Procs : inFlight'[p] = IF inFlight[p] = c THEN NoReader ELSE inFlight[p]
  BY DEF Settle
<1>3. Base'
  BY DEF IInv, Base, Still, Settle
<1>4. StoresFit'
  BY DEF IInv, StoresFit, StoresStand, Still
<1>5. OpsFit'
  <2>1. \A d \in Readers : op'[d] \in OpRecs(kind) /\ Fits(op'[d], store, kind)
    BY <1>1, NewOpFits DEF IInv, OpsFit
  <2>2. \A d \in Readers : Fits(op'[d], store', kind)
    BY <2>1, StandFits
  <2>3. op' \in [Readers -> OpRecs(kind)]
    BY <2>1 DEF Settle
  <2>4. QED
    BY <2>2, <2>3 DEF OpsFit, Still
<1>6. OneLoadPerProcess'
  <2> SUFFICES ASSUME kind = "row" PROVE OneLoadPerProcess'
    BY DEF OneLoadPerProcess, Still
  <2>1. NewOp("idle").pc = "idle" /\ next.pc = "idle"
    BY DEF NewOp
  <2>2. \A d \in Readers : op[d].pc # "idle" => op[d].at \in Procs
    BY DEF IInv, OpsFit, Fits
  <2>3. \A d \in Readers : Loading(d)' => Loading(d) /\ d # c /\ op'[d] = op[d]
    BY <1>1, <2>1 DEF Loading
  <2>4. ASSUME NEW d \in Readers, Loading(d)'
        PROVE  inFlight'[op'[d].at] = d
    BY <2>2, <2>3, <2>4, <1>2 DEF IInv, OneLoadPerProcess, Loading
  <2>5. ASSUME NEW d \in Readers, op'[d].pc = "wait"
        PROVE  \E b \in Readers : inFlight'[op'[d].at] = b /\ Loading(b)'
    <3>1. d # c /\ op'[d] = op[d] /\ inFlight[op[d].at] # c /\ op[d].at \in Procs
      BY <1>1, <2>1, <2>2, <2>5
    <3>2. PICK b \in Readers : inFlight[op[d].at] = b /\ Loading(b)
      BY <3>1, <2>5 DEF IInv, OneLoadPerProcess, At
    <3>3. b # c /\ op'[b] = op[b]
      BY <1>1, <3>1, <3>2 DEF Loading
    <3>4. QED
      BY <3>1, <3>2, <3>3, <1>2 DEF Loading
  <2>6. ASSUME NEW d \in Readers, NEW p \in Procs, inFlight'[p] = d
        PROVE  Loading(d)' /\ op'[d].at = p
    <3>1. d # c /\ inFlight[p] = d
      BY <1>0, <1>2, <2>6
    <3>2. Loading(d) /\ op[d].at = p
      BY <3>1 DEF IInv, OneLoadPerProcess
    <3>3. QED
      BY <3>1, <3>2, <1>1 DEF Loading
  <2>7. QED
    BY <2>4, <2>5, <2>6 DEF OneLoadPerProcess, At
<1>7. QED
  BY <1>3, <1>4, <1>5, <1>6 DEF IInv

----------------------------------------------------------------------------
(* cacheGet.                                                               *)

LEMMA ReaderTypes ==
  ASSUME IInv, NEW c \in Readers
  PROVE  /\ op[c] \in OpRecs(kind) /\ Fits(op[c], store, kind) /\ kind \in {"row", "apiKey"}
         /\ op[c].rec \subseteq EntriesOf(kind) /\ op[c].at \in Procs \cup {NoReader}
         /\ op[c].current \subseteq Stores /\ op[c].floor \in ValuesOf(kind)
         /\ op[c].ver \in Nat /\ op[c].late = FALSE /\ op[c].pc \in OpLabels
  BY CacheAssumption DEF IInv, Base, OpsFit, OpRecs, Fits

LEMMA StoreTypes ==
  ASSUME IInv, NEW s \in Stores
  PROVE  /\ store[s] \in StoreRecs(kind) /\ store[s].entry \subseteq EntriesOf(kind)
         /\ store[s].acked \in ValuesOf(kind) /\ store[s].acked \in Nat
         /\ store[s].version \in Nat /\ store[s].acked <= db
         /\ \A e \in store[s].entry : SureIn(e, store[s])
  BY ValuesAreNaturals DEF IInv, StoresFit, StoreRecs

LEMMA EntryTypes ==
  ASSUME NEW k, NEW e \in EntriesOf(k)
  PROVE  /\ e.val \in ValuesOf(k) /\ e.val \in Nat /\ e.ver \in Nat
         /\ e.touched \in BOOLEAN /\ e.sure \in BOOLEAN
  BY ValuesAreNaturals DEF EntriesOf, Entries

\* A changed entry keeps its value.
LEMMA EntryVersioned ==
  ASSUME NEW k, NEW e \in EntriesOf(k), NEW n \in Nat
  PROVE  [e EXCEPT !.ver = n] \in EntriesOf(k) /\ [e EXCEPT !.ver = n].val = e.val
  BY DEF EntriesOf, Entries

LEMMA EntryTouched ==
  ASSUME NEW k, NEW e \in EntriesOf(k)
  PROVE  [e EXCEPT !.touched = TRUE] \in EntriesOf(k) /\ [e EXCEPT !.touched = TRUE].val = e.val
  BY DEF EntriesOf, Entries

LEMMA EntryDoubted ==
  ASSUME NEW k, NEW e \in EntriesOf(k)
  PROVE  /\ [e EXCEPT !.sure = FALSE] \in EntriesOf(k) /\ [e EXCEPT !.sure = FALSE].val = e.val
         /\ [e EXCEPT !.sure = FALSE].sure = FALSE
  BY DEF EntriesOf, Entries

\* An answer is not late if the value reaches the floor.
LEMMA TimelyFits ==
  ASSUME IInv, NEW o, o = [NewOp("idle") EXCEPT !.late = FALSE]
  PROVE  o \in OpRecs(kind) /\ Fits(o, store, kind) /\ o.pc = "idle"
<1>1. NewOp("idle") \in OpRecs(kind) /\ Fits(NewOp("idle"), store, kind)
  BY NewOpFits
<1>2. o \in OpRecs(kind) /\ o.pc = "idle" /\ o.floor = NewOp("idle").floor /\ o.late = FALSE
  BY <1>1 DEF OpRecs, NewOp
<1>3. QED
  BY <1>1, <1>2 DEF Fits

LEMMA AnswerFits ==
  ASSUME IInv, NEW c \in Readers, NEW rec, \A e \in rec : ~(e.val < op[c].floor)
  PROVE  /\ Answered(c, rec) \in OpRecs(kind) /\ Fits(Answered(c, rec), store, kind)
         /\ Answered(c, rec).pc = "idle"
<1>1. Answered(c, rec) = [NewOp("idle") EXCEPT !.late = FALSE]
  BY DEF Answered
<1>2. PICK o : o = [NewOp("idle") EXCEPT !.late = FALSE]
  OBVIOUS
<1>3. QED
  BY <1>1, <1>2, TimelyFits

LEMMA MissKeeps ==
  ASSUME IInv, Still, store' = store, faults' = faults, inFlight' = inFlight,
         NEW c \in Readers, op[c].pc \in {"get", "version"}, Miss(c)
  PROVE  IInv'
<1>1. PICK l \in {"miss", "load"} : l = IF kind = "row" THEN "miss" ELSE "load"
  OBVIOUS
<1>2. PICK o : o = [op[c] EXCEPT !.pc = l, !.rec = {}]
  OBVIOUS
<1>3. o \in OpRecs(kind) /\ o.pc = l /\ o.at = op[c].at /\ o.floor = op[c].floor /\ o.late = op[c].late
  BY <1>2, ReaderTypes DEF OpRecs, OpLabels
<1>4. Fits(o, store, kind)
  BY <1>1, <1>3, ReaderTypes DEF Fits
<1>5. op' = [op EXCEPT ![c] = o]
  BY <1>1, <1>2 DEF Miss
<1>6. StoresStand /\ faults' \in Nat
  BY UnchangedStand DEF IInv, Base
<1>7. QED
  BY <1>1, <1>3, <1>4, <1>5, <1>6, ReaderKeeps DEF Loading

LEMMA HitKeeps ==
  ASSUME IInv, Still, store' = store, faults' = faults, inFlight' = inFlight,
         NEW c \in Readers, op[c].pc \in {"get", "version"},
         NEW s \in Stores, NEW e \in EntriesOf(kind), Valid(s, e), SureIn(e, store[s]),
         Hit(c, s, e)
  PROVE  IInv'
<1>e. PICK e0 : e0 = [e EXCEPT !.ver = 0]
  OBVIOUS
<1>f. PICK f : f = IF e.sure /\ s = Redis THEN op[c].floor ELSE 0
  OBVIOUS
<1>u. PICK u : u = IF e.sure THEN {s} ELSE {}
  OBVIOUS
<1>h. PICK held : held = [op[c] EXCEPT !.rec = {e0}, !.current = u, !.floor = f]
  OBVIOUS
<1>1. e0 \in EntriesOf(kind) /\ e0.val = e.val /\ e.val \in Nat
  BY <1>e, EntryVersioned, EntryTypes
<1>2. f \in ValuesOf(kind) /\ u \subseteq Stores
  BY <1>f, <1>u, ReaderTypes, ValuesAreNaturals
<1>3. /\ held \in OpRecs(kind) /\ held.pc = op[c].pc /\ held.at = op[c].at
      /\ held.rec = {e0} /\ held.current = u /\ held.floor = f /\ held.late = op[c].late
  BY <1>1, <1>2, <1>h, ReaderTypes DEF OpRecs
<1>4. e.sure => e.val >= store[s].acked
  BY EntryTypes, StoreTypes DEF Valid, SureIn
<1>5. f <= store[Redis].acked /\ f <= e.val
  <2>1. op[c].floor <= store[Redis].acked
    BY ReaderTypes DEF Fits
  <2>2. 0 <= store[Redis].acked /\ op[c].floor \in Nat /\ store[Redis].acked \in Nat
    <3>1. store[Redis].acked \in Nat
      BY StoreTypes, RedisIsStore
    <3>2. op[c].floor \in Nat
      BY ReaderTypes, ValuesAreNaturals
    <3>3. QED
      BY <3>1, <3>2
  <2>3. QED
    BY <2>1, <2>2, <1>f, <1>1, <1>4
<1>6. StoresStand /\ faults' \in Nat
  BY UnchangedStand DEF IInv, Base
<1>7. CASE kind = "apiKey"
  <2>1. PICK o : o = [held EXCEPT !.pc = "touch"]
    OBVIOUS
  <2>2. /\ o \in OpRecs(kind) /\ o.pc = "touch" /\ o.at = op[c].at
        /\ o.rec = {e0} /\ o.current = u /\ o.floor = f /\ o.late = op[c].late
    BY <2>1, <1>3 DEF OpRecs, OpLabels
  <2>3. Fits(o, store, kind)
    BY <2>2, <1>1, <1>4, <1>5, <1>u, <1>7, ReaderTypes DEF Fits
  <2>4. op' = [op EXCEPT ![c] = o]
    BY <2>1, <1>h, <1>e, <1>f, <1>u, <1>7 DEF Hit
  <2>5. QED
    BY <2>2, <2>3, <2>4, <1>6, <1>7, ReaderKeeps
<1>8. CASE kind # "apiKey"
  <2>1. op' = [op EXCEPT ![c] = [NewOp("idle") EXCEPT !.late = e.val < held.floor]]
    BY <1>h, <1>e, <1>f, <1>u, <1>8 DEF Hit
  <2>2. (e.val < held.floor) = FALSE
    BY <1>1, <1>3, <1>5, <1>2, ValuesAreNaturals
  <2>4. PICK o : o = [NewOp("idle") EXCEPT !.late = FALSE]
    OBVIOUS
  <2>5. op' = [op EXCEPT ![c] = o] /\ o \in OpRecs(kind) /\ Fits(o, store, kind) /\ o.pc = "idle"
    BY <2>1, <2>2, <2>4, TimelyFits
  <2>6. QED
    BY <2>5, <1>6, ReaderKeeps DEF Loading
<1>9. QED
  BY <1>7, <1>8

LEMMA GetFallbackKeeps ==
  ASSUME IInv, Still, store' = store, faults' = faults, inFlight' = inFlight,
         NEW c \in Readers, op[c].pc \in {"get", "version"}, GetFallback(c)
  PROVE  IInv'
<1>1. op[c].at \in Stores
  BY ReaderTypes, RedisIsStore DEF Fits
<1>2. CASE Miss(c)
  BY <1>2, MissKeeps
<1>3. ASSUME NEW e \in store[op[c].at].entry, Valid(op[c].at, e), Hit(c, op[c].at, e)
      PROVE  IInv'
  <2>1. PICK s \in Stores : s = op[c].at
    BY <1>1
  <2>2. e \in EntriesOf(kind) /\ SureIn(e, store[s])
    BY <1>3, <2>1, StoreTypes
  <2>3. QED
    BY <1>3, <2>1, <2>2, HitKeeps
<1>4. QED
  BY <1>2, <1>3 DEF GetFallback

LEMMA GetKeeps ==
  ASSUME IInv, NEW c \in Readers, Get(c) \/ CompareVersion(c)
  PROVE  IInv'
<1>0. Still /\ faults' = faults /\ store' = store /\ inFlight' = inFlight
  BY DEF Get, CompareVersion, Rest, Still
<1>1. op[c].pc \in {"get", "version"}
  BY DEF Get, CompareVersion, At
<1>2. CASE Get(c) /\ up /\ store[Redis].entry # {}
  <2>1. PICK o : o = [op[c] EXCEPT !.pc = "version", !.rec = store[Redis].entry]
    OBVIOUS
  <2>2. store[Redis].entry \subseteq EntriesOf(kind)
    BY StoreTypes, RedisIsStore
  <2>3. /\ o \in OpRecs(kind) /\ o.pc = "version" /\ o.rec = store[Redis].entry
        /\ o.at = op[c].at /\ o.floor = op[c].floor /\ o.late = op[c].late
    BY <2>1, <2>2, ReaderTypes DEF OpRecs, OpLabels
  <2>4. Fits(o, store, kind)
    BY <2>3, <1>1, ReaderTypes, StoreTypes, RedisIsStore DEF Fits
  <2>5. op' = [op EXCEPT ![c] = o]
    BY <2>1, <1>2 DEF Get
  <2>6. StoresStand /\ faults' \in Nat
    BY <1>0, UnchangedStand DEF IInv, Base
  <2>7. QED
    BY <2>3, <2>4, <2>5, <2>6, <1>0, <1>1, ReaderKeeps DEF Loading
<1>3. ASSUME NEW e \in op[c].rec, CompareVersion(c), Valid(Redis, e), Hit(c, Redis, e)
      PROVE  IInv'
  <2>1. e \in EntriesOf(kind) /\ SureIn(e, store[Redis])
    BY <1>3, ReaderTypes DEF Fits, CompareVersion, At
  <2>2. QED
    BY <2>1, <1>0, <1>1, <1>3, RedisIsStore, HitKeeps
<1>4. QED
  BY <1>0, <1>1, <1>2, <1>3, MissKeeps, GetFallbackKeeps DEF Get, CompareVersion

LEMMA BeginKeeps ==
  ASSUME IInv, NEW c \in Readers, Begin(c)
  PROVE  IInv'
<1>0. Still /\ faults' = faults /\ store' = store /\ inFlight' = inFlight /\ op[c].pc = "idle"
  BY DEF Begin, Rest, Still, At
<1>1. PICK p \in Procs :
        op' = [op EXCEPT ![c] = [NewOp("get") EXCEPT !.at = p, !.floor = store[Redis].acked]]
  BY DEF Begin
<1>2. PICK f \in ValuesOf(kind) : f = store[Redis].acked
  BY StoreTypes, RedisIsStore
<1>3. PICK o : o = [NewOp("get") EXCEPT !.at = p, !.floor = f]
  OBVIOUS
<1>4. o \in OpRecs(kind) /\ o.pc = "get" /\ o.at = p /\ o.floor = f /\ o.late = FALSE
  BY <1>3, ValuesAreNaturals DEF NewOp, OpRecs, OpLabels
<1>5. Fits(o, store, kind)
  BY <1>2, <1>4, ValuesAreNaturals DEF Fits
<1>6. StoresStand /\ faults' \in Nat
  BY <1>0, UnchangedStand DEF IInv, Base
<1>7. QED
  BY <1>0, <1>1, <1>2, <1>3, <1>4, <1>5, <1>6, ReaderKeeps DEF Loading

----------------------------------------------------------------------------
(* cacheWrap, cacheSet and the refresh.                                    *)

LEMMA CoalesceKeeps ==
  ASSUME IInv, NEW c \in Readers, Coalesce(c)
  PROVE  IInv'
<1>0. /\ Still /\ faults' = faults /\ store' = store /\ op[c].pc = "miss"
      /\ kind = "row" /\ op[c].at \in Procs
  BY ReaderTypes DEF Coalesce, Rest, Still, At, Fits
<1>1. PICK l \in {"load", "wait"} :
        /\ op' = [op EXCEPT ![c] = [op[c] EXCEPT !.pc = l]]
        /\ \/ /\ l = "load" /\ inFlight[op[c].at] = NoReader
              /\ inFlight' = [inFlight EXCEPT ![op[c].at] = c]
           \/ l = "wait" /\ inFlight[op[c].at] # NoReader /\ inFlight' = inFlight
  BY DEF Coalesce, Goto
<1>2. PICK o : o = [op[c] EXCEPT !.pc = l]
  OBVIOUS
<1>3. o \in OpRecs(kind) /\ o.pc = l /\ o.at = op[c].at /\ o.floor = op[c].floor /\ o.late = op[c].late
  BY <1>2, ReaderTypes DEF OpRecs, OpLabels
<1>4. Fits(o, store, kind)
  BY <1>0, <1>3, ReaderTypes DEF Fits
<1>5. \A d \in Readers : op'[d] = IF d = c THEN o ELSE op[d]
  BY <1>1, <1>2 DEF IInv, OpsFit
<1>6. CASE l = "wait"
  <2>1. PICK d \in Readers : inFlight[op[c].at] = d /\ Loading(d)
    BY <1>0, <1>1, <1>6 DEF IInv, Base, OneLoadPerProcess
  <2>2. Base' /\ StoresFit'
    BY <1>0, <1>1, <1>6 DEF IInv, Base, StoresFit, Still
  <2>3. OpsFit'
    BY <1>0, <1>1, <1>2, <1>3, <1>4, <1>5 DEF IInv, OpsFit, Still
  <2>4. d # c /\ \A b \in Readers : Loading(b)' <=> Loading(b)
    BY <1>0, <1>3, <1>5, <1>6, <2>1 DEF Loading
  <2>5. OneLoadPerProcess'
    BY <1>0, <1>1, <1>3, <1>5, <1>6, <2>1, <2>4 DEF IInv, OneLoadPerProcess, At
  <2>6. QED
    BY <2>2, <2>3, <2>5 DEF IInv
<1>7. CASE l = "load"
  <2>1. inFlight[op[c].at] = NoReader /\ inFlight' = [inFlight EXCEPT ![op[c].at] = c]
        /\ NoReader \notin Readers
    BY <1>1, <1>7, CacheAssumption
  <2>2. Base' /\ StoresFit'
    BY <1>0, <2>1 DEF IInv, Base, StoresFit, Still
  <2>3. OpsFit'
    BY <1>0, <1>1, <1>2, <1>3, <1>4, <1>5 DEF IInv, OpsFit, Still
  <2>4. \A p \in Procs : inFlight'[p] = IF p = op[c].at THEN c ELSE inFlight[p]
    BY <2>1 DEF IInv, Base
  <2>5. /\ Loading(c)' /\ ~Loading(c)
        /\ \A b \in Readers \ {c} : Loading(b)' <=> Loading(b)
    BY <1>0, <1>3, <1>5, <1>7 DEF Loading
  <2>6. \A b \in Readers : op[b].pc # "idle" => op[b].at \in Procs
    BY DEF IInv, OpsFit, Fits
  <2>7. ASSUME NEW b \in Readers, Loading(b)'
        PROVE  inFlight'[op'[b].at] = b
    BY <1>0, <1>3, <1>5, <2>1, <2>4, <2>5, <2>6, <2>7 DEF IInv, OneLoadPerProcess, Loading
  <2>8. ASSUME NEW b \in Readers, op'[b].pc = "wait"
        PROVE  \E d \in Readers : inFlight'[op'[b].at] = d /\ Loading(d)'
    <3>1. b # c /\ op'[b] = op[b] /\ op[b].at \in Procs
      BY <1>3, <1>5, <1>7, <2>6, <2>8
    <3>2. PICK d \in Readers : inFlight[op[b].at] = d /\ Loading(d)
      BY <1>0, <3>1, <2>8 DEF IInv, OneLoadPerProcess, At
    <3>3. op[b].at # op[c].at /\ d # c
      BY <3>2, <2>1, <2>5
    <3>4. QED
      BY <3>1, <3>2, <3>3, <2>4, <2>5
  <2>9. ASSUME NEW b \in Readers, NEW p \in Procs, inFlight'[p] = b
        PROVE  Loading(b)' /\ op'[b].at = p
    <3>1. CASE p = op[c].at
      BY <3>1, <2>4, <2>5, <2>9, <1>5, <1>3
    <3>2. CASE p # op[c].at
      <4>1. inFlight[p] = b
        BY <3>2, <2>4, <2>9
      <4>2. Loading(b) /\ op[b].at = p
        BY <4>1, <1>0 DEF IInv, OneLoadPerProcess
      <4>3. QED
        BY <4>2, <2>5, <1>5
    <3>3. QED
      BY <3>1, <3>2
  <2>10. OneLoadPerProcess'
    BY <2>7, <2>8, <2>9 DEF OneLoadPerProcess, At
  <2>11. QED
    BY <2>2, <2>3, <2>10 DEF IInv
<1>8. QED
  BY <1>6, <1>7

LEMMA LoadKeeps ==
  ASSUME IInv, NEW c \in Readers, Load(c) \/ LoadRejects(c)
  PROVE  IInv'
<1>0. Still /\ faults' \in Nat /\ store' = store /\ op[c].pc = "load" /\ StoresStand
  BY UnchangedStand DEF Load, LoadRejects, Rest, Still, At, IInv, Base
<1>1. CASE Settle(c, NewOp("idle"))
  <2>1. PICK next : next = NewOp("idle")
    OBVIOUS
  <2>2. next \in OpRecs(kind) /\ Fits(next, store, kind) /\ next.pc = "idle" /\ Settle(c, next)
    BY <1>1, <2>1, NewOpFits DEF NewOp
  <2>3. QED
    BY <2>2, <1>0, SettleKeeps
<1>2. CASE Load(c) /\ ~(kind = "apiKey" /\ db = 1)
  <2>1. PICK e : e = [val |-> db, ver |-> 0, touched |-> FALSE, sure |-> TRUE]
    OBVIOUS
  <2>2. e \in EntriesOf(kind) /\ e.val = db
    BY <2>1 DEF EntriesOf, Entries, IInv, Base
  <2>3. PICK o : o = [op[c] EXCEPT !.pc = "setVersion", !.current = Stores, !.rec = {e}]
    OBVIOUS
  <2>4. /\ o \in OpRecs(kind) /\ o.pc = "setVersion" /\ o.at = op[c].at /\ o.rec = {e}
        /\ o.current = Stores /\ o.floor = op[c].floor /\ o.late = op[c].late
    BY <2>2, <2>3, ReaderTypes DEF OpRecs, OpLabels
  <2>5. \A s \in Stores : db >= store[s].acked
    BY ValuesAreNaturals, StoreTypes DEF IInv, Base
  <2>6. db >= op[c].floor
    <3>1. op[c].floor <= store[Redis].acked
      BY ReaderTypes DEF Fits
    <3>2. op[c].floor \in Nat /\ db \in Nat
      BY ReaderTypes, ValuesAreNaturals DEF IInv, Base
    <3>3. store[Redis].acked \in Nat
      BY StoreTypes, RedisIsStore
    <3>4. QED
      BY <3>1, <3>2, <3>3, <2>5, RedisIsStore
  <2>7. Fits(o, store, kind)
    BY <1>0, <2>2, <2>4, <2>5, <2>6, ReaderTypes DEF Fits
  <2>8. op' = [op EXCEPT ![c] = o] /\ inFlight' = inFlight
    BY <1>2, <2>1, <2>3 DEF Load
  <2>9. QED
    BY <1>0, <2>4, <2>7, <2>8, ReaderKeeps DEF Loading
<1>3. QED
  BY <1>1, <1>2 DEF Load, LoadRejects

LEMMA PutStands ==
  ASSUME IInv, NEW c \in Readers, op[c].pc \in {"setVersion", "set"},
         NEW s \in Stores, NEW ver \in Nat, s \in op[c].current => ver <= store[s].version,
         Put(c, s, ver)
  PROVE  StoresStand
<1>0. (s \in op[c].current) \in BOOLEAN
  OBVIOUS
<1>1. PICK b \in BOOLEAN : b = (s \in op[c].current)
  BY <1>0
<1>2. PICK new : new = {[e EXCEPT !.ver = ver, !.sure = b] : e \in op[c].rec}
  OBVIOUS
<1>e. ASSUME NEW e0 \in op[c].rec
      PROVE  /\ [e0 EXCEPT !.ver = ver, !.sure = b] \in EntriesOf(kind)
             /\ [e0 EXCEPT !.ver = ver, !.sure = b].val = e0.val
             /\ [e0 EXCEPT !.ver = ver, !.sure = b].ver = ver
             /\ [e0 EXCEPT !.ver = ver, !.sure = b].sure = b
  <2>1. e0 \in EntriesOf(kind)
    BY ReaderTypes
  <2>2. QED
    BY <2>1, <1>1 DEF EntriesOf, Entries
<1>3. new \subseteq EntriesOf(kind)
  BY <1>2, <1>e
<1>4. PICK r : r = [store[s] EXCEPT !.entry = new]
  OBVIOUS
<1>5. /\ r \in StoreRecs(kind) /\ r.entry = new
      /\ r.version = store[s].version /\ r.acked = store[s].acked
  BY <1>3, <1>4, StoreTypes DEF StoreRecs
<1>6. store' = [store EXCEPT ![s] = r]
  BY <1>1, <1>2, <1>4 DEF Put
<1>7. ASSUME NEW e \in new
      PROVE  SureIn(e, r)
  <2>1. PICK e0 \in op[c].rec : e = [e0 EXCEPT !.ver = ver, !.sure = b]
    BY <1>2, <1>7
  <2>2. e.val = e0.val /\ e.ver = ver /\ e.sure = b
    BY <2>1, <1>e
  <2>3. s \in op[c].current => e0.val >= store[s].acked
    BY ReaderTypes DEF Fits
  <2>4. QED
    BY <1>1, <1>5, <2>2, <2>3 DEF SureIn
<1>8. QED
  BY <1>5, <1>6, <1>7 DEF IInv, StoresFit, StoresStand

LEMMA StoredKeeps ==
  ASSUME IInv, Still, StoresStand, faults' \in Nat, NEW c \in Readers,
         op[c].pc \in {"setVersion", "set"}, Stored(c)
  PROVE  IInv'
<1>1. CASE kind = "apiKey"
  <2>1. PICK next : next = [op[c] EXCEPT !.pc = "touch", !.ver = 0]
    OBVIOUS
  <2>2. /\ next \in OpRecs(kind) /\ next.pc = "touch" /\ next.at = op[c].at
        /\ next.rec = op[c].rec /\ next.current = op[c].current
        /\ next.floor = op[c].floor /\ next.late = op[c].late
    BY <2>1, ReaderTypes DEF OpRecs, OpLabels
  <2>3. Fits(next, store, kind)
    BY <2>2, <1>1, ReaderTypes DEF Fits
  <2>4. QED
    BY <1>1, <2>1, <2>2, <2>3, SettleKeeps DEF Stored
<1>2. CASE kind # "apiKey"
  <2>1. PICK next : next = Answered(c, op[c].rec)
    OBVIOUS
  <2>2. \A e \in op[c].rec : ~(e.val < op[c].floor)
    <3>1. op[c].floor \in Nat
      BY ReaderTypes, ValuesAreNaturals
    <3>2. \A e \in op[c].rec : e.val \in Nat /\ e.val >= op[c].floor
      BY ReaderTypes, EntryTypes DEF Fits
    <3>3. QED
      BY <3>1, <3>2
  <2>3. next \in OpRecs(kind) /\ Fits(next, store, kind) /\ next.pc = "idle"
    BY <2>1, <2>2, AnswerFits
  <2>4. QED
    BY <1>2, <2>1, <2>3, SettleKeeps DEF Stored
<1>3. QED
  BY <1>1, <1>2

LEMMA SetKeeps ==
  ASSUME IInv, NEW c \in Readers, SetVersion(c) \/ SetEntry(c)
  PROVE  IInv'
<1>0. Still /\ faults' \in Nat /\ op[c].pc \in {"setVersion", "set"}
  BY DEF SetVersion, SetEntry, Rest, Still, At, IInv, Base
<1>1. CASE SetFallback(c)
  <2>1. op[c].at \in Stores /\ store[op[c].at].version \in Nat
    BY <1>0, ReaderTypes, RedisIsStore, StoreTypes DEF Fits
  <2>2. PICK s \in Stores : s = op[c].at
    BY <2>1
  <2>3. PICK ver \in Nat : ver = store[s].version
    BY <2>1, <2>2
  <2>4. StoresStand
    BY <1>0, <1>1, <2>2, <2>3, PutStands, UnchangedStand DEF SetFallback
  <2>5. QED
    BY <1>0, <1>1, <2>4, StoredKeeps DEF SetFallback
<1>2. CASE SetVersion(c) /\ up
  <2>1. PICK ver \in Nat : ver = store[Redis].version
    BY StoreTypes, RedisIsStore
  <2>2. PICK o : o = [op[c] EXCEPT !.pc = "set", !.ver = ver]
    OBVIOUS
  <2>3. /\ o \in OpRecs(kind) /\ o.pc = "set" /\ o.ver = ver /\ o.at = op[c].at
        /\ o.rec = op[c].rec /\ o.current = op[c].current
        /\ o.floor = op[c].floor /\ o.late = op[c].late
    BY <2>2, ReaderTypes DEF OpRecs, OpLabels
  <2>4. Fits(o, store, kind)
    <3>1. ver <= store[Redis].version
      BY <2>1
    <3>2. Fits(op[c], store, kind)
      BY ReaderTypes
    <3>3. QED
      BY <1>0, <2>3, <3>1, <3>2 DEF Fits
  <2>5. op' = [op EXCEPT ![c] = o] /\ store' = store /\ inFlight' = inFlight
    BY <1>2, <2>1, <2>2 DEF SetVersion
  <2>6. StoresStand
    BY <2>5, UnchangedStand
  <2>7. QED
    BY <1>0, <2>3, <2>4, <2>5, <2>6, ReaderKeeps DEF Loading
<1>3. CASE SetEntry(c) /\ up
  <2>1. op[c].pc = "set" /\ Put(c, Redis, op[c].ver) /\ Stored(c)
    BY <1>3 DEF SetEntry, At
  <2>2. PICK ver \in Nat : ver = op[c].ver
    BY ReaderTypes
  <2>3. Redis \in op[c].current => ver <= store[Redis].version
    BY <2>1, <2>2, ReaderTypes DEF Fits
  <2>4. StoresStand
    BY <2>1, <2>2, <2>3, RedisIsStore, PutStands
  <2>5. QED
    BY <1>0, <2>1, <2>4, StoredKeeps
<1>4. QED
  BY <1>1, <1>2, <1>3 DEF SetVersion, SetEntry

LEMMA TouchKeeps ==
  ASSUME IInv, NEW c \in Readers, Touch(c)
  PROVE  IInv'
<1>0. /\ Still /\ faults' \in Nat /\ store' = store /\ inFlight' = inFlight /\ op[c].pc = "touch"
      /\ StoresStand /\ kind = "apiKey"
  BY UnchangedStand, ReaderTypes DEF Touch, Rest, Still, At, IInv, Base, Fits
<1>1. PICK e \in op[c].rec :
        \/ op' = [op EXCEPT ![c] = Answered(c, {e})]
        \/ op' = [op EXCEPT ![c] = [op[c] EXCEPT !.pc = "setVersion",
                                                 !.rec = {[e EXCEPT !.touched = TRUE]}]]
  BY DEF Touch
<1>2. e \in EntriesOf(kind) /\ e.val \in Nat /\ e.val >= op[c].floor /\ op[c].floor \in Nat
      /\ \A s \in op[c].current : e.val >= store[s].acked
  BY <1>0, ReaderTypes, EntryTypes, ValuesAreNaturals DEF Fits
<1>3. CASE op' = [op EXCEPT ![c] = Answered(c, {e})]
  <2>1. PICK o : o = Answered(c, {e})
    OBVIOUS
  <2>2. \A d \in {e} : ~(d.val < op[c].floor)
    BY <1>2
  <2>3. o \in OpRecs(kind) /\ Fits(o, store, kind)
    BY <2>1, <2>2, AnswerFits
  <2>4. QED
    BY <1>0, <1>3, <2>1, <2>3, ReaderKeeps
<1>4. CASE op' = [op EXCEPT ![c] = [op[c] EXCEPT !.pc = "setVersion",
                                                 !.rec = {[e EXCEPT !.touched = TRUE]}]]
  <2>1. PICK d : d = [e EXCEPT !.touched = TRUE]
    OBVIOUS
  <2>2. d \in EntriesOf(kind) /\ d.val = e.val
    BY <2>1, <1>2, EntryTouched
  <2>3. PICK o : o = [op[c] EXCEPT !.pc = "setVersion", !.rec = {d}]
    OBVIOUS
  <2>4. /\ o \in OpRecs(kind) /\ o.pc = "setVersion" /\ o.at = op[c].at /\ o.rec = {d}
        /\ o.current = op[c].current /\ o.floor = op[c].floor /\ o.late = op[c].late
    BY <2>2, <2>3, ReaderTypes DEF OpRecs, OpLabels
  <2>5. Fits(o, store, kind)
    BY <1>0, <1>2, <2>2, <2>4, ReaderTypes DEF Fits
  <2>6. QED
    BY <1>0, <1>4, <2>1, <2>3, <2>4, <2>5, ReaderKeeps
<1>5. QED
  BY <1>1, <1>3, <1>4

----------------------------------------------------------------------------
(* Writers.                                                                *)

\* What an invalidation changes of the readers does not concern the loads.
LEMMA LoadsStand ==
  ASSUME IInv, kind' = kind, inFlight' = inFlight,
         \A c \in Readers : op'[c].pc = op[c].pc /\ op'[c].at = op[c].at
  PROVE  OneLoadPerProcess'
  BY DEF IInv, OneLoadPerProcess, Loading, At

LEMMA WriterMoves ==
  ASSUME IInv, kind' = kind, mode' = mode, db' = db, up' = up, inFlight' = inFlight,
         faults' \in Nat, NEW w \in Writers, NEW l \in {"reset", "fallback", "done"}, WriterAt(w, l)
  PROVE  Base'
<1>1. PICK v \in ValuesOf(kind) : v = (IF l = "done" THEN 0 ELSE wr[w].val) /\ v <= db
  BY ValuesAreNaturals DEF IInv, Base, WriterRecs
<1>2. wr' = [wr EXCEPT ![w] = [pc |-> l, val |-> v]]
  BY <1>1 DEF WriterAt
<1>3. [pc |-> l, val |-> v] \in WriterRecs(kind)
  BY DEF WriterRecs
<1>4. \A x \in Writers : wr'[x] = IF x = w THEN [pc |-> l, val |-> v] ELSE wr[x]
  BY <1>2 DEF IInv, Base
<1>5. wr' \in [Writers -> WriterRecs(kind)] /\ \A x \in Writers : wr'[x].val <= db
  BY <1>1, <1>2, <1>3, <1>4 DEF IInv, Base
<1>6. QED
  BY <1>5 DEF IInv, Base

\* A store goes up a version, and no reader counts on it any more.
LEMMA OutdatedKeeps ==
  ASSUME IInv, Base', kind' = kind, db' = db, inFlight' = inFlight,
         NEW s \in Stores, NEW r \in StoreRecs(kind), store' = [store EXCEPT ![s] = r],
         r.acked <= db, r.acked >= store[s].acked, r.version = store[s].version + 1,
         r.entry \subseteq store[s].entry, Outdated(s)
  PROVE  IInv'
<1>1. /\ \A t \in Stores : store'[t] = IF t = s THEN r ELSE store[t]
      /\ store' \in [Stores -> StoreRecs(kind)]
  BY DEF IInv, StoresFit
<1>2. \A e \in r.entry : e.sure => e.ver < r.version
  <2>1. \A e \in store[s].entry : e.ver \in Nat /\ SureIn(e, store[s])
    BY StoreTypes, EntryTypes
  <2>2. store[s].version \in Nat
    BY StoreTypes
  <2>3. QED
    BY <2>1, <2>2 DEF SureIn
<1>3. \A e \in r.entry : SureIn(e, r)
  <2>1. \A e \in r.entry : e.ver \in Nat
    BY StoreTypes, EntryTypes
  <2>2. r.version \in Nat
    BY DEF StoreRecs
  <2>3. QED
    BY <2>1, <2>2, <1>2 DEF SureIn
<1>4. StoresFit'
  BY <1>1, <1>3 DEF IInv, StoresFit
<1>5. ASSUME NEW c \in Readers
      PROVE  /\ op'[c] \in OpRecs(kind) /\ Fits(op'[c], store', kind)
             /\ op'[c].pc = op[c].pc /\ op'[c].at = op[c].at
  <2>1. PICK u : u = op[c].current \ {s}
    OBVIOUS
  <2>2. PICK o : o = [op[c] EXCEPT !.current = u]
    OBVIOUS
  <2>3. op'[c] = o
    BY <2>1, <2>2 DEF Outdated
  <2>4. u \subseteq Stores
    BY <2>1, ReaderTypes
  <2>5. /\ o \in OpRecs(kind) /\ o.pc = op[c].pc /\ o.at = op[c].at /\ o.rec = op[c].rec
        /\ o.ver = op[c].ver /\ o.current = u /\ o.floor = op[c].floor /\ o.late = op[c].late
    BY <2>2, <2>4, ReaderTypes DEF OpRecs
  <2>6. Fits(op[c], store, kind)
    BY ReaderTypes
  <2>7. op[c].pc = "version" => \A e \in op[c].rec : SureIn(e, store'[Redis])
    <3>1. \A e \in op[c].rec : e.ver \in Nat
      BY ReaderTypes, EntryTypes
    <3>2. store[s].version \in Nat
      BY StoreTypes
    <3>3. QED
      BY <3>1, <3>2, <2>6, <1>1, RedisIsStore DEF Fits, SureIn
  <2>8. op[c].floor <= store'[Redis].acked
    <3>1. op[c].floor \in Nat /\ store[s].acked \in Nat
      BY ReaderTypes, ValuesAreNaturals, StoreTypes
    <3>2. r.acked \in Nat
      BY ValuesAreNaturals DEF StoreRecs
    <3>3. op[c].floor <= store[Redis].acked
      BY <2>6 DEF Fits
    <3>4. QED
      BY <3>1, <3>2, <3>3, <1>1, RedisIsStore
  <2>9. Fits(o, store', kind)
    <3>1. \A t \in u : t \in op[c].current /\ store'[t] = store[t]
      BY <2>1, <2>4, <1>1
    <3>2. QED
      BY <2>5, <2>6, <2>7, <2>8, <3>1 DEF Fits
  <2>10. QED
    BY <2>3, <2>5, <2>9
<1>6. op' \in [Readers -> OpRecs(kind)]
  BY <1>5 DEF Outdated
<1>7. OpsFit' /\ OneLoadPerProcess'
  BY <1>5, <1>6, LoadsStand DEF OpsFit
<1>8. QED
  BY <1>4, <1>7 DEF IInv

\* store and op as they were.
LEMMA NothingOutdated ==
  ASSUME IInv, Base', kind' = kind, db' \in Nat, db' >= db, inFlight' = inFlight,
         store' = store, op' = op
  PROVE  IInv'
<1>1. db \in Nat /\ \A s \in Stores : store[s].acked \in Nat
  BY ValuesAreNaturals, StoreTypes DEF IInv, Base
<1>2. QED
  BY <1>1, LoadsStand DEF IInv, StoresFit, OpsFit

LEMMA WriteKeeps ==
  ASSUME IInv, NEW w \in Writers, Write(w)
  PROVE  IInv'
<1>1. ValuesOf(kind) = 0 .. LastValue /\ LastValue \in Nat /\ db \in 0 .. LastValue
  BY WritersAreFinite DEF ValuesOf, LastValue, IInv, Base
<1>2. PICK n \in ValuesOf(kind) : n = db + 1 /\ n \in Nat
  BY <1>1 DEF Write
<1>3. wr' = [wr EXCEPT ![w] = [pc |-> "invalidate", val |-> n]] /\ db' = n
  BY <1>2 DEF Write
<1>4. [pc |-> "invalidate", val |-> n] \in WriterRecs(kind)
  BY DEF WriterRecs
<1>5. \A x \in Writers : wr'[x] = IF x = w THEN [pc |-> "invalidate", val |-> n] ELSE wr[x]
  BY <1>3 DEF IInv, Base
<1>6. \A x \in Writers : wr[x].val <= db /\ wr[x].val \in Nat
  BY ValuesAreNaturals DEF IInv, Base, WriterRecs
<1>7. wr' \in [Writers -> WriterRecs(kind)] /\ \A x \in Writers : wr'[x].val <= n
  BY <1>1, <1>2, <1>3, <1>4, <1>5, <1>6 DEF IInv, Base
<1>8. Base'
  BY <1>3, <1>7 DEF IInv, Base, Write
<1>9. db' \in Nat /\ db' >= db
  BY <1>1, <1>2, <1>3
<1>10. QED
  BY <1>8, <1>9, NothingOutdated DEF Write

LEMMA FallbackKeeps ==
  ASSUME IInv, NEW w \in Writers, InvalidateFallback(w),
         UNCHANGED <<kind, mode, db, up, inFlight, faults>>
  PROVE  IInv'
<1>1. Base' /\ db \in Nat
  BY WriterMoves, ValuesAreNaturals DEF InvalidateFallback, IInv, Base
<1>2. CASE mode = "failClosed"
  BY <1>1, <1>2, NothingOutdated DEF InvalidateFallback
<1>3. CASE mode # "failClosed"
  <2>1. PICK p \in Procs :
          /\ store' = [store EXCEPT ![p] = [entry |-> {}, version |-> store[p].version + 1,
                                            acked |-> Newer(store[p].acked, wr[w].val)]]
          /\ Outdated(p)
    BY <1>3 DEF InvalidateFallback
  <2>2. PICK s \in Stores : s = p
    BY RedisIsStore
  <2>3. PICK a : a = Newer(store[s].acked, wr[w].val)
    OBVIOUS
  <2>4. /\ wr[w].val \in ValuesOf(kind) /\ wr[w].val <= db
        /\ store[s].acked \in ValuesOf(kind) /\ store[s].acked <= db /\ store[s].version \in Nat
    BY StoreTypes DEF IInv, Base, WriterRecs
  <2>5. a \in ValuesOf(kind) /\ a >= store[s].acked /\ a <= db
    BY <1>1, <2>3, <2>4, NewerValue
  <2>6. PICK r : r = [entry |-> {}, version |-> store[s].version + 1, acked |-> a]
    OBVIOUS
  <2>7. /\ r \in StoreRecs(kind) /\ r.entry = {} /\ r.acked = a
        /\ r.version = store[s].version + 1
    BY <2>4, <2>5, <2>6 DEF StoreRecs
  <2>8. store' = [store EXCEPT ![s] = r] /\ Outdated(s)
    BY <2>1, <2>2, <2>3, <2>6
  <2>9. r.entry \subseteq store[s].entry /\ r.acked <= db /\ r.acked >= store[s].acked
    BY <2>5, <2>7
  <2>10. QED
    BY <1>1, <2>7, <2>8, <2>9, OutdatedKeeps
<1>4. QED
  BY <1>2, <1>3

LEMMA AppliedMoves ==
  ASSUME IInv, NEW w \in Writers, NEW next \in {"reset", "done"}, AppliedThen(w, next)
  PROVE  faults' \in Nat /\ \E l \in {"reset", "fallback", "done"} : WriterAt(w, l)
<1>1. faults \in Nat
  BY DEF IInv, Base
<1>2. QED
  BY <1>1 DEF AppliedThen

LEMMA InvalidateKeeps ==
  ASSUME IInv, NEW w \in Writers, Invalidate(w)
  PROVE  IInv'
<1>1. UNCHANGED <<kind, mode, db, up, inFlight>>
  BY DEF Invalidate
<1>2. CASE ~up
  BY <1>1, <1>2, FallbackKeeps DEF Invalidate
<1>3. CASE up
  <2>1. PICK s \in Stores : s = Redis
    BY RedisIsStore
  <2>2. PICK next \in {"reset", "done"} : AppliedThen(w, next)
    BY <1>3, <2>1 DEF Invalidate
  <2>3. Base' /\ db \in Nat
    BY <1>1, <2>2, AppliedMoves, WriterMoves, ValuesAreNaturals DEF IInv, Base
  <2>4. PICK a : a = Newer(store[s].acked, wr[w].val)
    OBVIOUS
  <2>5. /\ wr[w].val \in ValuesOf(kind) /\ wr[w].val <= db
        /\ store[s].acked \in ValuesOf(kind) /\ store[s].acked <= db /\ store[s].version \in Nat
    BY StoreTypes DEF IInv, Base, WriterRecs
  <2>6. a \in ValuesOf(kind) /\ a >= store[s].acked /\ a <= db
    BY <2>3, <2>4, <2>5, NewerValue
  <2>7. PICK n \in Nat : n = store[s].version + 1
    BY <2>5
  <2>8. PICK r : r = [store[s] EXCEPT !.version = n, !.acked = a]
    OBVIOUS
  <2>9. r \in StoreRecs(kind) /\ r.entry = store[s].entry /\ r.acked = a /\ r.version = n
    BY <2>6, <2>8, StoreTypes DEF StoreRecs
  <2>10. store' = [store EXCEPT ![s] = r] /\ Outdated(s)
    BY <1>3, <2>1, <2>4, <2>7, <2>8 DEF Invalidate
  <2>11. /\ r.entry \subseteq store[s].entry /\ r.acked <= db /\ r.acked >= store[s].acked
         /\ r.version = store[s].version + 1
    BY <2>6, <2>7, <2>9
  <2>12. QED
    BY <1>1, <2>3, <2>9, <2>10, <2>11, OutdatedKeeps
<1>4. QED
  BY <1>2, <1>3

LEMMA ResetKeeps ==
  ASSUME IInv, NEW w \in Writers, ResetVersion(w)
  PROVE  IInv'
<1>1. UNCHANGED <<kind, mode, db, up, inFlight>>
  BY DEF ResetVersion
<1>2. CASE ~up
  BY <1>1, <1>2, FallbackKeeps DEF ResetVersion
<1>3. CASE up
  <2>1. Base'
    <3>1. AppliedThen(w, "done")
      BY <1>3 DEF ResetVersion
    <3>2. QED
      BY <1>1, <3>1, AppliedMoves, WriterMoves
  <2>2. PICK new : new = {[e EXCEPT !.sure = FALSE] : e \in store[Redis].entry}
    OBVIOUS
  <2>3. new \subseteq EntriesOf(kind) /\ \A e \in new : ~e.sure
    BY <2>2, StoreTypes, RedisIsStore, EntryDoubted
  <2>4. PICK r : r = [store[Redis] EXCEPT !.version = 1, !.entry = new]
    OBVIOUS
  <2>5. r \in StoreRecs(kind) /\ r.entry = new /\ r.acked = store[Redis].acked
    BY <2>3, <2>4, StoreTypes, RedisIsStore DEF StoreRecs
  <2>6. store' = [store EXCEPT ![Redis] = r]
    BY <1>3, <2>2, <2>4 DEF ResetVersion
  <2>7. /\ \A t \in Stores : store'[t] = IF t = Redis THEN r ELSE store[t]
        /\ store' \in [Stores -> StoreRecs(kind)]
    BY <2>5, <2>6 DEF IInv, StoresFit
  <2>8. StoresFit'
    BY <1>1, <2>3, <2>5, <2>7 DEF IInv, StoresFit, SureIn
  <2>9. ASSUME NEW c \in Readers
        PROVE  /\ op'[c] \in OpRecs(kind) /\ Fits(op'[c], store', kind)
               /\ op'[c].pc = op[c].pc /\ op'[c].at = op[c].at
    <3>1. PICK u : u = op[c].current \ {Redis}
      OBVIOUS
    <3>2. PICK recs : recs = {[e EXCEPT !.sure = FALSE] : e \in op[c].rec}
      OBVIOUS
    <3>3. PICK o : o = [op[c] EXCEPT !.current = u, !.rec = recs]
      OBVIOUS
    <3>4. op'[c] = o
      BY <1>3, <3>1, <3>2, <3>3 DEF ResetVersion
    <3>5. u \subseteq Stores /\ recs \subseteq EntriesOf(kind) /\ \A e \in recs : ~e.sure
      BY <3>1, <3>2, ReaderTypes, EntryDoubted
    <3>6. ASSUME NEW e \in recs
          PROVE  \E e0 \in op[c].rec : e.val = e0.val
      <4>1. PICK e0 \in op[c].rec : e = [e0 EXCEPT !.sure = FALSE]
        BY <3>2, <3>6
      <4>2. e0 \in EntriesOf(kind)
        BY ReaderTypes
      <4>3. e.val = e0.val
        BY <4>1, <4>2, EntryDoubted
      <4>4. QED
        BY <4>3
    <3>7. /\ o \in OpRecs(kind) /\ o.pc = op[c].pc /\ o.at = op[c].at /\ o.rec = recs
          /\ o.ver = op[c].ver /\ o.current = u /\ o.floor = op[c].floor /\ o.late = op[c].late
      BY <3>3, <3>5, ReaderTypes DEF OpRecs
    <3>8. Fits(op[c], store, kind)
      BY ReaderTypes
    <3>9. /\ \A t \in u : t \in op[c].current /\ store'[t] = store[t]
          /\ Redis \notin u /\ store'[Redis].acked = store[Redis].acked
      BY <2>5, <2>7, <3>1, <3>5, RedisIsStore
    <3>10. \A e \in recs : SureIn(e, store'[Redis])
      BY <3>5 DEF SureIn
    <3>11. Fits(o, store', kind)
      BY <3>6, <3>7, <3>8, <3>9, <3>10 DEF Fits
    <3>12. QED
      BY <3>4, <3>7, <3>11
  <2>10. op' \in [Readers -> OpRecs(kind)]
    BY <1>3, <2>9 DEF ResetVersion
  <2>11. OpsFit' /\ OneLoadPerProcess'
    BY <1>1, <2>9, <2>10, LoadsStand DEF OpsFit
  <2>12. QED
    BY <2>1, <2>8, <2>11 DEF IInv
<1>4. QED
  BY <1>2, <1>3

LEMMA InvalidateLostKeeps ==
  ASSUME IInv, NEW w \in Writers, InvalidateLost(w)
  PROVE  IInv'
<1>1. faults' \in Nat /\ db \in Nat
  BY ValuesAreNaturals DEF InvalidateLost, IInv, Base
<1>2. Base'
  BY <1>1, WriterMoves DEF InvalidateLost
<1>3. QED
  BY <1>1, <1>2, NothingOutdated DEF InvalidateLost

LEMMA ExpireKeeps ==
  ASSUME IInv, NEW s \in Stores, Expire(s)
  PROVE  IInv'
<1>1. PICK r : r = [store[s] EXCEPT !.entry = {}]
  OBVIOUS
<1>2. /\ r \in StoreRecs(kind) /\ r.entry = {} /\ r.version = store[s].version
      /\ r.acked = store[s].acked
  BY <1>1, StoreTypes DEF StoreRecs
<1>3. store' = [store EXCEPT ![s] = r]
  BY <1>1 DEF Expire
<1>4. StoresStand
  BY <1>2, <1>3 DEF IInv, StoresFit, StoresStand
<1>5. Base' /\ StoresFit'
  BY <1>4 DEF Expire, IInv, Base, StoresFit, StoresStand
<1>6. OpsFit'
  <2>1. \A c \in Readers : op[c] \in OpRecs(kind) /\ Fits(op[c], store, kind)
    BY ReaderTypes
  <2>2. \A c \in Readers : Fits(op[c], store', kind)
    BY <2>1, <1>4, StandFits
  <2>3. QED
    BY <2>2 DEF Expire, IInv, OpsFit
<1>7. OneLoadPerProcess'
  BY LoadsStand DEF Expire
<1>8. QED
  BY <1>5, <1>6, <1>7 DEF IInv

LEMMA OutageKeeps ==
  ASSUME IInv, RedisFails \/ RedisRecovers \/ UNCHANGED vars
  PROVE  IInv'
<1>1. UNCHANGED <<kind, mode, db, store, inFlight, op, wr>>
  BY DEF RedisFails, RedisRecovers, vars
<1>u. up' \in BOOLEAN
  BY DEF IInv, Base, RedisFails, RedisRecovers, vars
<1>f. faults' \in Nat
  BY DEF IInv, Base, RedisFails, RedisRecovers, vars
<1>2. Base'
  BY <1>1, <1>u, <1>f DEF IInv, Base
<1>3. db \in Nat
  BY ValuesAreNaturals DEF IInv, Base
<1>4. QED
  BY <1>1, <1>2, <1>3, NothingOutdated

----------------------------------------------------------------------------
(* The theorems.                                                           *)

LEMMA InitIInv == Init => IInv
<1> SUFFICES ASSUME Init PROVE IInv
  OBVIOUS
<1>1. kind \in {"row", "apiKey"} /\ FirstVersion \in Nat /\ NoReader \notin Readers
  BY CacheAssumption DEF Init
<1>2. ValuesOf(kind) \subseteq Nat /\ 0 \in ValuesOf(kind)
  BY ValuesAreNaturals
<1>3. Base
  BY <1>2 DEF Init, Base, WriterRecs
<1>4. StoresFit
  <2>1. \A s \in Stores : /\ store[s] \in StoreRecs(kind)
                          /\ store[s].entry = {} /\ store[s].acked = 0
    BY <1>1, <1>2 DEF Init, StoreRecs
  <2>2. QED
    BY <1>2, <2>1 DEF Init, StoresFit
<1>5. OpsFit
  <2>1. NewOp("idle") \in OpRecs(kind)
    BY <1>2 DEF NewOp, OpRecs, OpLabels
  <2>2. store[Redis].acked = 0
    BY RedisIsStore DEF Init
  <2>3. Fits(NewOp("idle"), store, kind)
    BY <2>2 DEF NewOp, Fits
  <2>4. QED
    BY <2>1, <2>3 DEF Init, OpsFit
<1>6. OneLoadPerProcess
  BY <1>1 DEF Init, NewOp, OneLoadPerProcess, Loading, At
<1>7. QED
  BY <1>3, <1>4, <1>5, <1>6 DEF IInv

LEMMA StepIInv == IInv /\ [Next]_vars => IInv'
<1> SUFFICES ASSUME IInv, [Next]_vars PROVE IInv'
  OBVIOUS
<1>1. ASSUME NEW c \in Readers, Begin(c) \/ Proceed(c) \/ LoadRejects(c)
      PROVE  IInv'
  BY <1>1, BeginKeeps, GetKeeps, CoalesceKeeps, LoadKeeps, SetKeeps, TouchKeeps DEF Proceed
<1>2. ASSUME NEW w \in Writers, Write(w) \/ Invalidate(w) \/ ResetVersion(w) \/ FallBack(w)
               \/ InvalidateLost(w)
      PROVE  IInv'
  BY <1>2, WriteKeeps, InvalidateKeeps, ResetKeeps, FallbackKeeps,
     InvalidateLostKeeps DEF FallBack
<1>3. ASSUME NEW s \in Stores, Expire(s)
      PROVE  IInv'
  BY <1>3, ExpireKeeps
<1>4. CASE RedisFails \/ RedisRecovers \/ UNCHANGED vars
  BY <1>4, OutageKeeps
<1>5. QED
  BY <1>1, <1>2, <1>3, <1>4 DEF Next

\* The invariant is inductive: every reachable state has it.
THEOREM Inductive == Spec => []IInv
  BY InitIInv, StepIInv, PTL DEF Spec

\* The variables have their types, for every number of processes, calls and versions.
THEOREM TypeCorrect == Spec => []TypeOK
  BY Inductive, TypesFollow, PTL

\* What cacheGet finds valid reflects every invalidation of the store it is in, unless
\* its value was on its way there when the tag was invalidated or its version reset.
THEOREM EntriesReflect == Spec => []EntriesReflectInvalidations
<1>1. IInv => EntriesReflectInvalidations
  <2> SUFFICES ASSUME IInv, NEW s \in Stores, NEW e \in store[s].entry, e.sure, Valid(s, e)
               PROVE  e.val >= store[s].acked
    BY DEF EntriesReflectInvalidations
  <2>1. SureIn(e, store[s]) /\ e.ver \in Nat /\ store[s].version \in Nat
    BY StoreTypes, EntryTypes
  <2>2. QED
    BY <2>1 DEF SureIn, Valid
<1>2. QED
  BY <1>1, Inductive, PTL

\* cacheWrap and verifyApiKey answer with a value that reflects what had been
\* invalidated when they were called, but for the excuses the property names.
THEOREM AnswersReflect == Spec => []AnswersReflectInvalidations
<1>1. IInv => AnswersReflectInvalidations
  BY DEF IInv, OpsFit, Fits, AnswersReflectInvalidations
<1>2. QED
  BY <1>1, Inductive, PTL

\* cacheWrap runs at most one loader per process, and nobody waits for a promise that
\* was settled, resolved or rejected.
THEOREM SingleFlight == Spec => []OneLoadPerProcess
<1>1. IInv => OneLoadPerProcess
  BY DEF IInv
<1>2. QED
  BY <1>1, Inductive, PTL

=============================================================================
