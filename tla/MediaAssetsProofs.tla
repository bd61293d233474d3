-------------------------- MODULE MediaAssetsProofs --------------------------
(***************************************************************************)
(* Theorems about MediaAssets: its safety properties for any number of     *)
(* pictures, requests, failures and cleanups.                              *)
(***************************************************************************)
EXTENDS MediaAssets, TLAPS

-----------------------------------------------------------------------------
(* The inductive invariant.                                                *)

\* The request works on a row it has seen pending.
PendingWork(c) ==
    \/ call[c].pc \in {"write", "settle", "orphan"}
    \/ call[c].pc = "check" /\ call[c].seen = "pending"

\* A request during a cleanup is a race, two requests an overlap.
Alone ==
    /\ (\E c \in Calls : Busy(c)) /\ sweep.stage # "idle" => raced
    /\ ~overlapped => \A c, d \in Calls : Busy(c) /\ Busy(d) => c = d

\* A cleanup that sleeps holds nothing, and none holds what is still on its list.
SweepShape ==
    /\ sweep.stage = "idle" => sweep.todo = {} /\ sweep.held = NoAsset
    /\ sweep.held \notin sweep.todo
    /\ sweep.stage = "missing" => mode = "local"

\* The ages of a row go with its status.
RowShape == \A a \in Assets :
    /\ row[a].status \in {"none", "gone"} => row[a].created = "unset" /\ row[a].replaced = "unset"
    /\ Exists(a) => row[a].created # "unset"
    /\ row[a].status = "pending" => row[a].replaced = "unset"
    /\ row[a].status = "orphan" /\ row[a].uploaded = "old" => row[a].created = "old"
    /\ row[a].replaced = "old" /\ row[a].status # "linked" => row[a].created = "old"

\* A row that was seen pending is not an avatar replaced a day ago.
Work == \A c \in Calls :
    /\ PendingWork(c) => row[call[c].asset].replaced # "old"
    /\ mode = "local" => call[c].pc \notin {"check", "orphan"}
    /\ mode # "local" => call[c].pc \notin {"save", "write", "settle"}

\* Without a race the row a request works on is there, and so are its bytes.
CalmWork == ~raced => \A c \in Calls :
    /\ call[c].pc \in {"write", "check", "orphan", "link"} => Exists(call[c].asset)
    /\ call[c].pc \in {"settle", "orphan", "link"} => call[c].asset \in object \cup lost

\* Without an overlap nobody else moves the row a request works on.
AloneWork == ~raced /\ ~overlapped => \A c \in Calls :
    /\ PendingWork(c) => row[call[c].asset].status = "pending"
    /\ call[c].pc = "image" =>
         /\ row[call[c].asset].status = "linked"
         /\ row[call[c].asset].replaced = "unset" \/ call[c].asset \in again

\* The others are replaced by the one that is shown.
ReplaceShown == ~overlapped => \A c \in Calls : call[c].pc = "replace" => image = call[c].asset

\* Without a race what the cleanup has listed stays what it was listed for, and what it
\* holds has lost its object.
CalmSweep == ~raced => \A a \in Assets : a \in sweep.todo \/ a = sweep.held =>
    /\ sweep.stage = "pending" => row[a].status = "pending"
    /\ sweep.stage = "orphan" => row[a].status = "orphan" /\ row[a].created = "old"
    /\ sweep.stage = "replaced" => row[a].replaced = "old"
    /\ a = sweep.held /\ sweep.stage # "pending" => a \notin object \/ a \in lost

\* Without a race what may be shown has its bytes.
Stored == ~raced => \A a \in Assets :
    row[a].status = "linked" \/ (mode = "local" /\ row[a].status = "orphan") =>
        a \in object \cup lost \/ a = sweep.held

IInv == /\ TypeOK /\ Alone /\ SweepShape /\ RowShape /\ Work /\ CalmWork /\ AloneWork
        /\ ReplaceShown /\ CalmSweep /\ Stored
        /\ ShownAvatarIsServed /\ OneLiveAvatar /\ StrayObjectsAreExplained

-----------------------------------------------------------------------------
(* What the steps do, field by field.                                      *)

Labels == {"idle", "save", "write", "settle", "read", "check", "orphan", "link", "image",
           "replace"}

\* What a step makes of one request, and of one row.
CallMoves(c, l, x, s) ==
    /\ call' \in [Calls -> Locals]
    /\ \A d \in Calls \ {c} : call'[d] = call[d]
    /\ call'[c].pc = l /\ call'[c].asset = x /\ call'[c].seen = s

RowMoves(a) ==
    /\ row' \in [Assets -> Rows]
    /\ \A b \in Assets \ {a} : row'[b] = row[b]

UpdateMoves(a) == RowMoves(a) /\ (~Exists(a) => row'[a] = row[a])

OrphanMoves(a) ==
    /\ UpdateMoves(a)
    /\ Exists(a) =>
        /\ row'[a].status = "orphan" /\ row'[a].uploaded = "recent"
        /\ row'[a].created = row[a].created /\ row'[a].replaced = row[a].replaced

LinkMoves(a) ==
    /\ UpdateMoves(a)
    /\ Exists(a) =>
        /\ row'[a].status = "linked" /\ row'[a].uploaded = row[a].uploaded
        /\ row'[a].created = row[a].created /\ row'[a].replaced = row[a].replaced

ReplaceMoves(a) ==
    /\ row' \in [Assets -> Rows]
    /\ \A b \in Assets :
        /\ row'[b].status = row[b].status /\ row'[b].created = row[b].created
        /\ row'[b].uploaded = row[b].uploaded
        /\ row'[b].replaced = IF b # a /\ row[b].status = "linked" THEN "recent"
                                                                   ELSE row[b].replaced

AgesMove(a) ==
    /\ RowMoves(a)
    /\ row'[a].status = row[a].status /\ row'[a].uploaded = row[a].uploaded
    /\ row'[a].created = IF row[a].status \in {"pending", "orphan"} THEN Older(row[a].created)
                         ELSE row[a].created
    /\ row'[a].replaced = Older(row[a].replaced)

\* What a step makes of the cleanup.
SweepMoves(stage, todo, held) ==
    /\ sweep' \in [stage : Stages, todo : SUBSET Assets, held : Assets \cup {NoAsset}]
    /\ sweep'.stage = stage /\ sweep'.todo = todo /\ sweep'.held = held

\* What holds whenever a request moves, and whenever anything else does.
Standing ==
    /\ TypeOK /\ NoAsset \notin Assets
    /\ \A d \in Calls : call[d].pc # "idle" => call[d].asset \in Assets
    /\ sweep.stage # "idle" /\ ~raced => \A d \in Calls : call[d].pc = "idle"
    /\ sweep.stage = "idle" => sweep.todo = {} /\ sweep.held = NoAsset
    /\ sweep.held \notin sweep.todo /\ sweep.todo \subseteq Assets
    /\ sweep.stage = "missing" => mode = "local"

Moving(c) ==
    /\ TypeOK /\ call[c].pc # "idle" /\ call[c].asset \in Assets /\ NoAsset \notin Assets
    /\ \A d \in Calls : call[d].pc # "idle" => call[d].asset \in Assets
    /\ ~raced => sweep.stage = "idle" /\ sweep.todo = {} /\ sweep.held = NoAsset
    /\ ~overlapped => \A d \in Calls \ {c} : call[d].pc = "idle"

LEMMA CallTypes ==
    ASSUME TypeOK, NEW c \in Calls
    PROVE  /\ call[c] \in Locals /\ call[c].pc \in Labels
           /\ call[c].asset \in Assets \cup {NoAsset} /\ call[c].seen \in Statuses
           /\ call[c].pc # "idle" => call[c].asset \in Assets
  BY DEF TypeOK, Locals, Labels, Busy

LEMMA RowTypes ==
    ASSUME TypeOK, NEW a \in Assets
    PROVE  /\ row[a] \in Rows /\ row[a].status \in Statuses /\ row[a].created \in Ages
           /\ row[a].uploaded \in Ages /\ row[a].replaced \in Ages
  BY DEF TypeOK, Rows

LEMMA SetMoves ==
    ASSUME TypeOK, NEW c \in Calls, NEW l \in Labels, NEW x \in Assets \cup {NoAsset},
           NEW s \in Statuses, call' = [call EXCEPT ![c] = [pc |-> l, asset |-> x, seen |-> s]]
    PROVE  CallMoves(c, l, x, s)
  BY DEF TypeOK, CallMoves, Locals, Labels

LEMMA AnswerMoves ==
    ASSUME TypeOK, NEW c \in Calls, Answer(c)
    PROVE  CallMoves(c, "idle", NoAsset, "none")
  BY SetMoves DEF Answer, Free, Labels, Statuses

LEMMA GotoMoves ==
    ASSUME TypeOK, NEW c \in Calls, NEW l \in Labels, Goto(c, l)
    PROVE  CallMoves(c, l, call[c].asset, call[c].seen)
<1>1. PICK v : v = [call[c] EXCEPT !.pc = l]
  OBVIOUS
<1>2. v \in Locals /\ v.pc = l /\ v.asset = call[c].asset /\ v.seen = call[c].seen
  BY <1>1, CallTypes DEF Locals, Labels
<1>3. call' = [call EXCEPT ![c] = v]
  BY <1>1 DEF Goto
<1>4. QED
  BY <1>2, <1>3 DEF TypeOK, CallMoves

LEMMA UpdateById ==
    ASSUME TypeOK, NEW a \in Assets, NEW new \in Rows, Update(a, new)
    PROVE  UpdateMoves(a) /\ (Exists(a) => row'[a] = new)
  BY DEF TypeOK, Update, UpdateMoves, RowMoves

LEMMA UploadedMoves ==
    ASSUME TypeOK, NEW a \in Assets, Update(a, Uploaded(a))
    PROVE  OrphanMoves(a)
<1>1. PICK new : new = Uploaded(a)
  OBVIOUS
<1>2. /\ new \in Rows /\ new.status = "orphan" /\ new.uploaded = "recent"
      /\ new.created = row[a].created /\ new.replaced = row[a].replaced
  BY <1>1, RowTypes DEF Uploaded, Rows, Statuses, Ages
<1>3. UpdateMoves(a) /\ (Exists(a) => row'[a] = new)
  BY <1>1, <1>2, UpdateById
<1>4. QED
  BY <1>2, <1>3 DEF OrphanMoves

LEMMA LinkedMoves ==
    ASSUME TypeOK, NEW a \in Assets, Update(a, Linked(a))
    PROVE  LinkMoves(a)
<1>1. PICK new : new = Linked(a)
  OBVIOUS
<1>2. /\ new \in Rows /\ new.status = "linked" /\ new.uploaded = row[a].uploaded
      /\ new.created = row[a].created /\ new.replaced = row[a].replaced
  BY <1>1, RowTypes DEF Linked, Rows, Statuses
<1>3. UpdateMoves(a) /\ (Exists(a) => row'[a] = new)
  BY <1>1, <1>2, UpdateById
<1>4. QED
  BY <1>2, <1>3 DEF LinkMoves

LEMMA SupersededMoves ==
    ASSUME TypeOK, NEW a \in Assets,
           row' = [b \in Assets |-> IF b \in Superseded(a)
                                      THEN [row[b] EXCEPT !.replaced = "recent"] ELSE row[b]]
    PROVE  ReplaceMoves(a)
<1>1. ASSUME NEW b \in Assets
      PROVE  /\ row'[b] \in Rows
             /\ row'[b].status = row[b].status /\ row'[b].created = row[b].created
             /\ row'[b].uploaded = row[b].uploaded
             /\ row'[b].replaced = IF b # a /\ row[b].status = "linked" THEN "recent"
                                                                        ELSE row[b].replaced
  <2>1. PICK new : new = [row[b] EXCEPT !.replaced = "recent"]
    OBVIOUS
  <2>2. /\ new \in Rows /\ new.status = row[b].status /\ new.created = row[b].created
        /\ new.uploaded = row[b].uploaded /\ new.replaced = "recent"
    BY <2>1, RowTypes DEF Rows, Ages
  <2>3. row'[b] = IF b # a /\ row[b].status = "linked" THEN new ELSE row[b]
    BY <2>1 DEF Superseded
  <2>4. QED
    BY <2>2, <2>3, RowTypes
<1>2. QED
  BY <1>1 DEF ReplaceMoves

LEMMA AgingMoves ==
    ASSUME TypeOK, NEW a \in Assets, row' = [row EXCEPT ![a] = Aging(a)]
    PROVE  AgesMove(a)
<1>1. PICK t \in Ages : t = IF row[a].status \in {"pending", "orphan"} THEN Older(row[a].created)
                                                                      ELSE row[a].created
  BY RowTypes DEF Older, Ages
<1>2. PICK u \in Ages : u = Older(row[a].replaced)
  BY RowTypes DEF Older, Ages
<1>3. PICK new : new = [row[a] EXCEPT !.created = t, !.replaced = u]
  OBVIOUS
<1>4. /\ new \in Rows /\ new.status = row[a].status /\ new.uploaded = row[a].uploaded
      /\ new.created = t /\ new.replaced = u
  BY <1>3, RowTypes DEF Rows
<1>5. row' = [row EXCEPT ![a] = new]
  BY <1>1, <1>2, <1>3 DEF Aging
<1>6. QED
  BY <1>1, <1>2, <1>4, <1>5 DEF TypeOK, AgesMove, RowMoves

LEMMA ListedTypes ==
    ASSUME NEW stage
    PROVE  Listed(stage) \subseteq Assets /\ (stage = "idle" => Listed(stage) = {})
  BY DEF Listed

LEMMA HoldMoves ==
    ASSUME TypeOK, NEW a \in Assets, Hold(a)
    PROVE  SweepMoves(sweep.stage, sweep.todo \ {a}, a)
  BY DEF TypeOK, Hold, SweepMoves

LEMMA SkipMoves ==
    ASSUME TypeOK, NEW a \in Assets, sweep.held = NoAsset, Skip(a)
    PROVE  SweepMoves(sweep.stage, sweep.todo \ {a}, NoAsset)
  BY DEF TypeOK, Skip, SweepMoves

\* What completeMediaAssetUpload makes of the row it has read.
LEMMA ReadMoves ==
    ASSUME TypeOK, NEW c \in Calls, NEW a \in Assets,
           call' = [call EXCEPT ![c] =
                      IF mode = "object"
                        THEN [pc |-> "check", asset |-> a, seen |-> row[a].status]
                        ELSE [pc |-> "link", asset |-> a, seen |-> "none"]]
    PROVE  IF mode = "object" THEN CallMoves(c, "check", a, row[a].status)
                              ELSE CallMoves(c, "link", a, "none")
<1>1. CASE mode = "object"
  <2>1. PICK s \in Statuses : s = row[a].status
    BY RowTypes
  <2>2. call' = [call EXCEPT ![c] = [pc |-> "check", asset |-> a, seen |-> s]]
    BY <1>1, <2>1
  <2>3. CallMoves(c, "check", a, s)
    BY <2>2, SetMoves DEF Labels
  <2>4. QED
    BY <1>1, <2>1, <2>3
<1>2. CASE mode # "object"
  BY <1>2, SetMoves DEF Labels, Statuses
<1>3. QED
  BY <1>1, <1>2

LEMMA StandingHolds ==
    ASSUME IInv
    PROVE  Standing
  BY CallTypes, NoAssetIsNoAsset DEF IInv, TypeOK, Alone, SweepShape, Busy, Standing

\* A request in progress keeps the cleanup out, and the other requests.
LEMMA MovingHolds ==
    ASSUME IInv, NEW c \in Calls, call[c].pc # "idle"
    PROVE  Moving(c)
  BY CallTypes, NoAssetIsNoAsset DEF IInv, Alone, SweepShape, Busy, Moving

-----------------------------------------------------------------------------
(* Every action keeps the invariant.                                       *)

LEMMA RequestUploadKeeps ==
    ASSUME IInv, NEW a \in Assets, RequestUpload(a)
    PROVE  IInv'
<1>q. Standing
  BY StandingHolds
<1>0. /\ row[a].status = "none"
      /\ RowMoves(a)
      /\ row'[a].status = "pending" /\ row'[a].created = "recent"
      /\ row'[a].uploaded = "unset" /\ row'[a].replaced = "unset"
      /\ UNCHANGED <<mode, object, image, call, sweep, made, faults, overlapped, raced, again,
                     cut, was, lost>>
  BY <1>q DEF IInv, TypeOK, Standing, Labels, Statuses, Exists, RequestUpload, history, NoRow,
     Rows, Ages, RowMoves
<1>1. TypeOK'
  BY <1>q, <1>0 DEF TypeOK, IInv, Busy, RowMoves, Rows, Standing
<1>2. RowShape'
  BY <1>q, <1>0 DEF IInv, TypeOK, RowShape, Exists, RowMoves, Standing
<1>3. Work'
  BY <1>q, <1>0 DEF IInv, TypeOK, Work, PendingWork, RowMoves, Standing
<1>4. CalmWork'
  BY <1>q, <1>0 DEF IInv, TypeOK, CalmWork, Exists, RowMoves, Standing
<1>5. AloneWork'
  BY <1>q, <1>0 DEF IInv, TypeOK, AloneWork, PendingWork, RowMoves, Standing
<1>6. CalmSweep'
  BY <1>q, <1>0 DEF IInv, TypeOK, CalmSweep, SweepShape, RowShape, RowMoves, Standing
<1>7. Stored'
  BY <1>q, <1>0 DEF IInv, TypeOK, Stored, RowMoves, Standing
<1>8. ShownAvatarIsServed'
  BY <1>q, <1>0 DEF IInv, TypeOK, ShownAvatarIsServed, Live, RowMoves, Standing
<1>9. OneLiveAvatar'
  BY <1>q, <1>0 DEF IInv, TypeOK, OneLiveAvatar, Live, RowMoves, Standing
<1>10. StrayObjectsAreExplained'
  BY <1>q, <1>0 DEF IInv, TypeOK, StrayObjectsAreExplained, RowShape, RowMoves, Standing
<1>11. Alone' /\ SweepShape' /\ ReplaceShown'
  BY <1>0 DEF IInv, Alone, Busy, SweepShape, ReplaceShown
<1>12. QED
  BY <1>1, <1>2, <1>3, <1>4, <1>5, <1>6, <1>7, <1>8, <1>9, <1>10, <1>11 DEF IInv

LEMMA ReadPendingKeeps ==
    ASSUME IInv, NEW c \in Calls, ReadPending(c)
    PROVE  IInv'
<1>q. Moving(c)
  BY MovingHolds DEF ReadPending, At, Busy
<1>0. /\ call[c].pc = "save"
      /\ \/ /\ row[call[c].asset].status = "pending"
            /\ CallMoves(c, "write", call[c].asset, call[c].seen)
         \/ CallMoves(c, "idle", NoAsset, "none")
      /\ UNCHANGED <<mode, row, object, image, sweep, made, faults, overlapped, raced, again, cut,
                     was, lost>>
  BY <1>q, GotoMoves, AnswerMoves DEF IInv, TypeOK, Moving, Labels, Statuses, Exists,
     ReadPending, history, At
<1>1. TypeOK'
  BY <1>q, <1>0 DEF TypeOK, IInv, Busy, CallMoves, Moving
<1>2. Alone'
  BY <1>q, <1>0 DEF IInv, TypeOK, Alone, Busy, CallMoves, Moving
<1>3. Work'
  BY <1>q, <1>0 DEF IInv, TypeOK, Work, PendingWork, RowShape, CallMoves, Moving
<1>4. CalmWork'
  BY <1>q, <1>0 DEF IInv, TypeOK, CalmWork, Exists, Stored, PendingWork, CallMoves, Moving
<1>5. AloneWork'
  BY <1>q, <1>0 DEF IInv, TypeOK, AloneWork, PendingWork, CalmWork, Exists, CallMoves, Moving
<1>6. ReplaceShown'
  BY <1>q, <1>0 DEF IInv, TypeOK, ReplaceShown, CallMoves, Moving
<1>7. OneLiveAvatar'
  BY <1>q, <1>0 DEF IInv, TypeOK, OneLiveAvatar, Live, CallMoves, Moving
<1>8. /\ SweepShape' /\ RowShape' /\ CalmSweep'
      /\ Stored' /\ ShownAvatarIsServed' /\ StrayObjectsAreExplained'
  BY <1>0 DEF IInv, SweepShape, RowShape, Exists, CalmSweep, Stored, ShownAvatarIsServed, Live,
     StrayObjectsAreExplained
<1>9. QED
  BY <1>1, <1>2, <1>3, <1>4, <1>5, <1>6, <1>7, <1>8 DEF IInv

LEMMA WriteFileKeeps ==
    ASSUME IInv, NEW c \in Calls, WriteFile(c)
    PROVE  IInv'
<1>q. Moving(c)
  BY MovingHolds DEF WriteFile, At, Busy
<1>0. /\ call[c].pc = "write"
      /\ CallMoves(c, "settle", call[c].asset, call[c].seen)
      /\ object' = object \cup {call[c].asset}
      /\ UNCHANGED <<mode, row, image, sweep, made, faults, overlapped, raced, again, cut, was,
                     lost>>
  BY <1>q, GotoMoves DEF IInv, TypeOK, Moving, Labels, Statuses, Exists, WriteFile, history, At
<1>1. TypeOK'
  BY <1>q, <1>0 DEF TypeOK, IInv, Busy, CallMoves, Moving
<1>2. Alone'
  BY <1>q, <1>0 DEF IInv, TypeOK, Alone, Busy, CallMoves, Moving
<1>3. Work'
  BY <1>q, <1>0 DEF IInv, TypeOK, Work, PendingWork, RowShape, CallMoves, Moving
<1>4. CalmWork'
  BY <1>q, <1>0 DEF IInv, TypeOK, CalmWork, Exists, Stored, PendingWork, CallMoves, Moving
<1>5. AloneWork'
  BY <1>q, <1>0 DEF IInv, TypeOK, AloneWork, PendingWork, CalmWork, Exists, CallMoves, Moving
<1>6. ReplaceShown'
  BY <1>q, <1>0 DEF IInv, TypeOK, ReplaceShown, CallMoves, Moving
<1>7. CalmSweep'
  BY <1>q, <1>0 DEF IInv, TypeOK, CalmSweep, CallMoves, Moving
<1>8. Stored'
  BY <1>q, <1>0 DEF IInv, TypeOK, Stored, CalmWork, CallMoves, Moving
<1>9. ShownAvatarIsServed'
  BY <1>q, <1>0 DEF IInv, TypeOK, ShownAvatarIsServed, Live, AloneWork, PendingWork,
     ReplaceShown, Stored, CallMoves, Moving
<1>10. OneLiveAvatar'
  BY <1>q, <1>0 DEF IInv, TypeOK, OneLiveAvatar, Live, CallMoves, Moving
<1>11. StrayObjectsAreExplained'
  BY <1>q, <1>0 DEF IInv, TypeOK, StrayObjectsAreExplained, CalmWork, Exists, CallMoves, Moving
<1>12. SweepShape' /\ RowShape'
  BY <1>0 DEF IInv, SweepShape, RowShape, Exists
<1>13. QED
  BY <1>1, <1>2, <1>3, <1>4, <1>5, <1>6, <1>7, <1>8, <1>9, <1>10, <1>11, <1>12 DEF IInv

LEMMA MarkUploadedKeeps ==
    ASSUME IInv, NEW c \in Calls, MarkUploaded(c)
    PROVE  IInv'
<1>q. Moving(c)
  BY MovingHolds DEF MarkUploaded, At, Busy
<1>0. /\ call[c].pc = "settle"
      /\ CallMoves(c, "idle", NoAsset, "none")
      /\ OrphanMoves(call[c].asset)
      /\ UNCHANGED <<mode, object, image, sweep, made, faults, overlapped, raced, again, cut, was,
                     lost>>
  BY <1>q, AnswerMoves, UploadedMoves DEF IInv, TypeOK, Moving, Labels, Statuses, Exists,
     MarkUploaded, history, At
<1>1. TypeOK'
  BY <1>q, <1>0 DEF TypeOK, IInv, Busy, CallMoves, OrphanMoves, UpdateMoves, RowMoves, Exists,
     Rows, Moving
<1>2. Alone'
  BY <1>q, <1>0 DEF IInv, TypeOK, Alone, Busy, CallMoves, OrphanMoves, UpdateMoves, RowMoves,
     Exists, Moving
<1>3. RowShape'
  BY <1>q, <1>0 DEF IInv, TypeOK, RowShape, Exists, Work, PendingWork, CallMoves, OrphanMoves,
     UpdateMoves, RowMoves, Moving
<1>4. Work'
  BY <1>q, <1>0 DEF IInv, TypeOK, Work, PendingWork, RowShape, CallMoves, OrphanMoves,
     UpdateMoves, RowMoves, Exists, Moving
<1>5. CalmWork'
  BY <1>q, <1>0 DEF IInv, TypeOK, CalmWork, Exists, Stored, PendingWork, CallMoves, OrphanMoves,
     UpdateMoves, RowMoves, Moving
<1>6. AloneWork'
  BY <1>q, <1>0 DEF IInv, TypeOK, AloneWork, PendingWork, CalmWork, Exists, CallMoves,
     OrphanMoves, UpdateMoves, RowMoves, Moving
<1>7. ReplaceShown'
  BY <1>q, <1>0 DEF IInv, TypeOK, ReplaceShown, CallMoves, OrphanMoves, UpdateMoves, RowMoves,
     Exists, Moving
<1>8. CalmSweep'
  BY <1>q, <1>0 DEF IInv, TypeOK, CalmSweep, CallMoves, OrphanMoves, UpdateMoves, RowMoves,
     Exists, Moving
<1>9. Stored'
  BY <1>q, <1>0 DEF IInv, TypeOK, Stored, CalmWork, CallMoves, OrphanMoves, UpdateMoves,
     RowMoves, Exists, Moving
<1>10. ShownAvatarIsServed'
  BY <1>q, <1>0 DEF IInv, TypeOK, ShownAvatarIsServed, Live, AloneWork, PendingWork,
     ReplaceShown, Stored, CallMoves, OrphanMoves, UpdateMoves, RowMoves, Exists, Moving
<1>11. OneLiveAvatar'
  BY <1>q, <1>0 DEF IInv, TypeOK, OneLiveAvatar, Live, CallMoves, OrphanMoves, UpdateMoves,
     RowMoves, Exists, Moving
<1>12. StrayObjectsAreExplained'
  BY <1>q, <1>0 DEF IInv, TypeOK, StrayObjectsAreExplained, CalmWork, Exists, CallMoves,
     OrphanMoves, UpdateMoves, RowMoves, Moving
<1>13. SweepShape'
  BY <1>0 DEF IInv, SweepShape
<1>14. QED
  BY <1>1, <1>2, <1>3, <1>4, <1>5, <1>6, <1>7, <1>8, <1>9, <1>10, <1>11, <1>12, <1>13 DEF IInv

LEMMA ReadRowKeeps ==
    ASSUME IInv, NEW c \in Calls, ReadRow(c)
    PROVE  IInv'
<1>q. Moving(c)
  BY MovingHolds DEF ReadRow, At, Busy
<1>a. call[c].pc = "read"
  BY <1>q, ReadMoves, AnswerMoves DEF IInv, TypeOK, Moving, Labels, Statuses, Exists, ReadRow,
     history, At
<1>b. \/ CallMoves(c, "idle", NoAsset, "none")
      \/ /\ Exists(call[c].asset) /\ mode = "object"
         /\ CallMoves(c, "check", call[c].asset, row[call[c].asset].status)
      \/ /\ Exists(call[c].asset) /\ mode = "local" /\ row[call[c].asset].status # "pending"
         /\ CallMoves(c, "link", call[c].asset, "none")
  <2>1. CASE Answer(c)
    BY <1>q, <2>1, AnswerMoves DEF Moving
  <2>2. CASE ~Answer(c)
    <3>1. PICK a \in Assets : a = call[c].asset
      BY <1>q DEF Moving
    <3>2. /\ Exists(a) /\ ~(mode = "local" /\ row[a].status = "pending")
          /\ call' = [call EXCEPT ![c] =
                        IF mode = "object"
                          THEN [pc |-> "check", asset |-> a, seen |-> row[a].status]
                          ELSE [pc |-> "link", asset |-> a, seen |-> "none"]]
      BY <2>2, <3>1 DEF ReadRow
    <3>3. mode \in {"object", "local"}
      BY <1>q, ModesAssumption DEF Moving, TypeOK
    <3>4. QED
      BY <1>q, <3>1, <3>2, <3>3, ReadMoves DEF Moving
  <2>3. QED
    BY <2>1, <2>2
<1>c. UNCHANGED <<mode, row, object, image, sweep, made, faults, overlapped, raced, again, cut,
                  was, lost>>
  BY <1>q, ReadMoves, AnswerMoves DEF IInv, TypeOK, Moving, Labels, Statuses, Exists, ReadRow,
     history, At
<1>1. TypeOK'
  BY <1>q, <1>a, <1>b, <1>c DEF TypeOK, IInv, Busy, CallMoves, Moving
<1>2. Alone'
  BY <1>q, <1>a, <1>b, <1>c DEF IInv, TypeOK, Alone, Busy, CallMoves, Moving
<1>3. Work'
  BY <1>q, <1>a, <1>b, <1>c DEF IInv, TypeOK, Work, PendingWork, RowShape, CallMoves, Moving
<1>4. CalmWork'
  <2>1. ASSUME ~raced, mode = "local", Exists(call[c].asset), row[call[c].asset].status # "pending"
        PROVE  call[c].asset \in object \cup lost
    <3>1. PICK a \in Assets : a = call[c].asset
      BY <1>q DEF Moving
    <3>2. row[a].status \in {"orphan", "linked"}
      BY <1>q, <2>1, <3>1, RowTypes DEF Moving, Exists, Statuses
    <3>3. a # sweep.held
      BY <1>q, <2>1, <3>1 DEF Moving
    <3>4. QED
      BY <2>1, <3>1, <3>2, <3>3 DEF IInv, Stored
  <2>2. QED
    BY <1>q, <1>a, <1>b, <1>c, <2>1 DEF IInv, CalmWork, Exists, CallMoves, Moving
<1>5. AloneWork'
  BY <1>q, <1>a, <1>b, <1>c DEF IInv, TypeOK, AloneWork, PendingWork, CalmWork, Exists,
     CallMoves, Moving
<1>6. ReplaceShown'
  BY <1>q, <1>a, <1>b, <1>c DEF IInv, TypeOK, ReplaceShown, CallMoves, Moving
<1>7. OneLiveAvatar'
  BY <1>q, <1>a, <1>b, <1>c DEF IInv, TypeOK, OneLiveAvatar, Live, CallMoves, Moving
<1>8. /\ SweepShape' /\ RowShape' /\ CalmSweep'
      /\ Stored' /\ ShownAvatarIsServed' /\ StrayObjectsAreExplained'
  BY <1>c DEF IInv, SweepShape, RowShape, Exists, CalmSweep, Stored, ShownAvatarIsServed, Live,
     StrayObjectsAreExplained
<1>9. QED
  BY <1>1, <1>2, <1>3, <1>4, <1>5, <1>6, <1>7, <1>8 DEF IInv

LEMMA CheckObjectKeeps ==
    ASSUME IInv, NEW c \in Calls, CheckObject(c)
    PROVE  IInv'
<1>q. Moving(c)
  BY MovingHolds DEF CheckObject, At, Busy
<1>0. /\ call[c].pc = "check" /\ call[c].asset \in object
      /\ \/ call[c].seen = "pending" /\ CallMoves(c, "orphan", call[c].asset, "none")
         \/ CallMoves(c, "link", call[c].asset, "none")
      /\ UNCHANGED <<mode, row, object, image, sweep, made, faults, overlapped, raced, again, cut,
                     was, lost>>
  BY <1>q, SetMoves DEF IInv, TypeOK, Moving, Labels, Statuses, Exists, CheckObject, history, At
<1>1. TypeOK'
  BY <1>q, <1>0 DEF TypeOK, IInv, Busy, CallMoves, Moving
<1>2. Alone'
  BY <1>q, <1>0 DEF IInv, TypeOK, Alone, Busy, CallMoves, Moving
<1>3. Work'
  BY <1>q, <1>0 DEF IInv, TypeOK, Work, PendingWork, RowShape, CallMoves, Moving
<1>4. CalmWork'
  BY <1>q, <1>0 DEF IInv, TypeOK, CalmWork, Exists, Stored, PendingWork, CallMoves, Moving
<1>5. AloneWork'
  BY <1>q, <1>0 DEF IInv, TypeOK, AloneWork, PendingWork, CalmWork, Exists, CallMoves, Moving
<1>6. ReplaceShown'
  BY <1>q, <1>0 DEF IInv, TypeOK, ReplaceShown, CallMoves, Moving
<1>7. OneLiveAvatar'
  BY <1>q, <1>0 DEF IInv, TypeOK, OneLiveAvatar, Live, CallMoves, Moving
<1>8. /\ SweepShape' /\ RowShape' /\ CalmSweep'
      /\ Stored' /\ ShownAvatarIsServed' /\ StrayObjectsAreExplained'
  BY <1>0 DEF IInv, SweepShape, RowShape, Exists, CalmSweep, Stored, ShownAvatarIsServed, Live,
     StrayObjectsAreExplained
<1>9. QED
  BY <1>1, <1>2, <1>3, <1>4, <1>5, <1>6, <1>7, <1>8 DEF IInv

LEMMA RejectKeeps ==
    ASSUME IInv, NEW c \in Calls, Reject(c)
    PROVE  IInv'
<1>q. Moving(c)
  BY MovingHolds DEF Reject, At, Busy
<1>0. /\ call[c].pc \in {"write", "check"}
      /\ CallMoves(c, "idle", NoAsset, "none")
      /\ UNCHANGED <<mode, row, object, image, sweep, made, faults, overlapped, raced, again, cut,
                     was, lost>>
  BY <1>q, AnswerMoves DEF IInv, TypeOK, Moving, Labels, Statuses, Exists, Reject, history, At
<1>1. TypeOK'
  BY <1>q, <1>0 DEF TypeOK, IInv, Busy, CallMoves, Moving
<1>2. Alone'
  BY <1>q, <1>0 DEF IInv, TypeOK, Alone, Busy, CallMoves, Moving
<1>3. Work'
  BY <1>q, <1>0 DEF IInv, TypeOK, Work, PendingWork, RowShape, CallMoves, Moving
<1>4. CalmWork'
  BY <1>q, <1>0 DEF IInv, TypeOK, CalmWork, Exists, Stored, PendingWork, CallMoves, Moving
<1>5. AloneWork'
  BY <1>q, <1>0 DEF IInv, TypeOK, AloneWork, PendingWork, CalmWork, Exists, CallMoves, Moving
<1>6. ReplaceShown'
  BY <1>q, <1>0 DEF IInv, TypeOK, ReplaceShown, CallMoves, Moving
<1>7. OneLiveAvatar'
  BY <1>q, <1>0 DEF IInv, TypeOK, OneLiveAvatar, Live, CallMoves, Moving
<1>8. /\ SweepShape' /\ RowShape' /\ CalmSweep'
      /\ Stored' /\ ShownAvatarIsServed' /\ StrayObjectsAreExplained'
  BY <1>0 DEF IInv, SweepShape, RowShape, Exists, CalmSweep, Stored, ShownAvatarIsServed, Live,
     StrayObjectsAreExplained
<1>9. QED
  BY <1>1, <1>2, <1>3, <1>4, <1>5, <1>6, <1>7, <1>8 DEF IInv

LEMMA MarkOrphanKeeps ==
    ASSUME IInv, NEW c \in Calls, MarkOrphan(c)
    PROVE  IInv'
<1>q. Moving(c)
  BY MovingHolds DEF MarkOrphan, At, Busy
<1>0. /\ call[c].pc = "orphan"
      /\ CallMoves(c, "link", call[c].asset, call[c].seen)
      /\ OrphanMoves(call[c].asset)
      /\ UNCHANGED <<mode, object, image, sweep, made, faults, overlapped, raced, again, cut, was,
                     lost>>
  BY <1>q, GotoMoves, UploadedMoves DEF IInv, TypeOK, Moving, Labels, Statuses, Exists,
     MarkOrphan, history, At
<1>1. TypeOK'
  BY <1>q, <1>0 DEF TypeOK, IInv, Busy, CallMoves, OrphanMoves, UpdateMoves, RowMoves, Exists,
     Rows, Moving
<1>2. Alone'
  BY <1>q, <1>0 DEF IInv, TypeOK, Alone, Busy, CallMoves, OrphanMoves, UpdateMoves, RowMoves,
     Exists, Moving
<1>3. RowShape'
  BY <1>q, <1>0 DEF IInv, TypeOK, RowShape, Exists, Work, PendingWork, CallMoves, OrphanMoves,
     UpdateMoves, RowMoves, Moving
<1>4. Work'
  BY <1>q, <1>0 DEF IInv, TypeOK, Work, PendingWork, RowShape, CallMoves, OrphanMoves,
     UpdateMoves, RowMoves, Exists, Moving
<1>5. CalmWork'
  BY <1>q, <1>0 DEF IInv, TypeOK, CalmWork, Exists, Stored, PendingWork, CallMoves, OrphanMoves,
     UpdateMoves, RowMoves, Moving
<1>6. AloneWork'
  BY <1>q, <1>0 DEF IInv, TypeOK, AloneWork, PendingWork, CalmWork, Exists, CallMoves,
     OrphanMoves, UpdateMoves, RowMoves, Moving
<1>7. ReplaceShown'
  BY <1>q, <1>0 DEF IInv, TypeOK, ReplaceShown, CallMoves, OrphanMoves, UpdateMoves, RowMoves,
     Exists, Moving
<1>8. CalmSweep'
  BY <1>q, <1>0 DEF IInv, TypeOK, CalmSweep, CallMoves, OrphanMoves, UpdateMoves, RowMoves,
     Exists, Moving
<1>9. Stored'
  BY <1>q, <1>0 DEF IInv, TypeOK, Stored, CalmWork, CallMoves, OrphanMoves, UpdateMoves,
     RowMoves, Exists, Moving
<1>10. ShownAvatarIsServed'
  BY <1>q, <1>0 DEF IInv, TypeOK, ShownAvatarIsServed, Live, AloneWork, PendingWork,
     ReplaceShown, Stored, CallMoves, OrphanMoves, UpdateMoves, RowMoves, Exists, Moving
<1>11. OneLiveAvatar'
  BY <1>q, <1>0 DEF IInv, TypeOK, OneLiveAvatar, Live, CallMoves, OrphanMoves, UpdateMoves,
     RowMoves, Exists, Moving
<1>12. StrayObjectsAreExplained'
  BY <1>q, <1>0 DEF IInv, TypeOK, StrayObjectsAreExplained, CalmWork, Exists, CallMoves,
     OrphanMoves, UpdateMoves, RowMoves, Moving
<1>13. SweepShape'
  BY <1>0 DEF IInv, SweepShape
<1>14. QED
  BY <1>1, <1>2, <1>3, <1>4, <1>5, <1>6, <1>7, <1>8, <1>9, <1>10, <1>11, <1>12, <1>13 DEF IInv

LEMMA LinkKeeps ==
    ASSUME IInv, NEW c \in Calls, Link(c)
    PROVE  IInv'
<1>q. Moving(c)
  BY MovingHolds DEF Link, At, Busy
<1>0. /\ call[c].pc = "link"
      /\ CallMoves(c, "image", call[c].asset, call[c].seen)
      /\ LinkMoves(call[c].asset)
      /\ again' = IF row[call[c].asset].replaced = "unset" THEN again
                  ELSE again \cup {call[c].asset}
      /\ UNCHANGED <<mode, object, image, sweep, made, faults, overlapped, raced, cut, was, lost>>
  BY <1>q, GotoMoves, LinkedMoves DEF IInv, TypeOK, Moving, Labels, Statuses, Exists, Link,
     history, At
<1>1. TypeOK'
  BY <1>q, <1>0 DEF TypeOK, IInv, Busy, CallMoves, LinkMoves, UpdateMoves, RowMoves, Exists,
     Rows, Moving
<1>2. Alone'
  BY <1>q, <1>0 DEF IInv, TypeOK, Alone, Busy, CallMoves, LinkMoves, UpdateMoves, RowMoves,
     Exists, Moving
<1>3. RowShape'
  BY <1>q, <1>0 DEF IInv, TypeOK, RowShape, Exists, Work, PendingWork, CallMoves, LinkMoves,
     UpdateMoves, RowMoves, Moving
<1>4. Work'
  BY <1>q, <1>0 DEF IInv, TypeOK, Work, PendingWork, RowShape, CallMoves, LinkMoves,
     UpdateMoves, RowMoves, Exists, Moving
<1>5. CalmWork'
  BY <1>q, <1>0 DEF IInv, TypeOK, CalmWork, Exists, Stored, PendingWork, CallMoves, LinkMoves,
     UpdateMoves, RowMoves, Moving
<1>6. AloneWork'
  BY <1>q, <1>0 DEF IInv, TypeOK, AloneWork, PendingWork, CalmWork, Exists, CallMoves,
     LinkMoves, UpdateMoves, RowMoves, Moving
<1>7. ReplaceShown'
  BY <1>q, <1>0 DEF IInv, TypeOK, ReplaceShown, CallMoves, LinkMoves, UpdateMoves, RowMoves,
     Exists, Moving
<1>8. CalmSweep'
  BY <1>q, <1>0 DEF IInv, TypeOK, CalmSweep, CallMoves, LinkMoves, UpdateMoves, RowMoves,
     Exists, Moving
<1>9. Stored'
  BY <1>q, <1>0 DEF IInv, TypeOK, Stored, CalmWork, CallMoves, LinkMoves, UpdateMoves, RowMoves,
     Exists, Moving
<1>10. ShownAvatarIsServed'
  BY <1>q, <1>0 DEF IInv, TypeOK, ShownAvatarIsServed, Live, AloneWork, PendingWork,
     ReplaceShown, Stored, CallMoves, LinkMoves, UpdateMoves, RowMoves, Exists, Moving
<1>11. OneLiveAvatar'
  <2> SUFFICES ASSUME NEW x \in Assets, NEW y \in Assets, x # y, Live(x)', Live(y)'
               PROVE  \/ {x, y} \cap cut' # {}
                      \/ \E d \in Calls : /\ call'[d].pc \in {"image", "replace"}
                                          /\ call'[d].asset \in {x, y}
    BY DEF OneLiveAvatar
  <2>1. CASE call[c].asset \in {x, y}
    BY <1>0, <2>1 DEF CallMoves
  <2>2. CASE call[c].asset \notin {x, y}
    <3>1. Live(x) /\ Live(y)
      BY <1>0, <2>2 DEF Live, LinkMoves, UpdateMoves, RowMoves
    <3>2. \/ {x, y} \cap cut # {}
          \/ \E d \in Calls : call[d].pc \in {"image", "replace"} /\ call[d].asset \in {x, y}
      BY <3>1 DEF IInv, OneLiveAvatar
    <3>3. QED
      BY <1>0, <3>2 DEF CallMoves
  <2>3. QED
    BY <2>1, <2>2
<1>12. StrayObjectsAreExplained'
  BY <1>q, <1>0 DEF IInv, TypeOK, StrayObjectsAreExplained, CalmWork, Exists, CallMoves,
     LinkMoves, UpdateMoves, RowMoves, Moving
<1>13. SweepShape'
  BY <1>0 DEF IInv, SweepShape
<1>14. QED
  BY <1>1, <1>2, <1>3, <1>4, <1>5, <1>6, <1>7, <1>8, <1>9, <1>10, <1>11, <1>12, <1>13 DEF IInv

LEMMA SetImageKeeps ==
    ASSUME IInv, NEW c \in Calls, SetImage(c)
    PROVE  IInv'
<1>q. Moving(c)
  BY MovingHolds DEF SetImage, At, Busy
<1>0. /\ call[c].pc = "image"
      /\ CallMoves(c, "replace", call[c].asset, call[c].seen)
      /\ image' = call[c].asset
      /\ UNCHANGED <<mode, row, object, sweep, made, faults, overlapped, raced, again, cut, was,
                     lost>>
  BY <1>q, GotoMoves DEF IInv, TypeOK, Moving, Labels, Statuses, Exists, SetImage, history, At
<1>1. TypeOK'
  BY <1>q, <1>0 DEF TypeOK, IInv, Busy, CallMoves, Moving
<1>2. Alone'
  BY <1>q, <1>0 DEF IInv, TypeOK, Alone, Busy, CallMoves, Moving
<1>3. Work'
  BY <1>q, <1>0 DEF IInv, TypeOK, Work, PendingWork, RowShape, CallMoves, Moving
<1>4. CalmWork'
  BY <1>q, <1>0 DEF IInv, TypeOK, CalmWork, Exists, Stored, PendingWork, CallMoves, Moving
<1>5. AloneWork'
  BY <1>q, <1>0 DEF IInv, TypeOK, AloneWork, PendingWork, CalmWork, Exists, CallMoves, Moving
<1>6. ReplaceShown'
  BY <1>q, <1>0 DEF IInv, TypeOK, ReplaceShown, CallMoves, Moving
<1>7. ShownAvatarIsServed'
  BY <1>q, <1>0 DEF IInv, TypeOK, ShownAvatarIsServed, Live, AloneWork, PendingWork,
     ReplaceShown, Stored, CallMoves, Moving
<1>8. OneLiveAvatar'
  BY <1>q, <1>0 DEF IInv, TypeOK, OneLiveAvatar, Live, CallMoves, Moving
<1>9. SweepShape' /\ RowShape' /\ CalmSweep' /\ Stored' /\ StrayObjectsAreExplained'
  BY <1>0 DEF IInv, SweepShape, RowShape, Exists, CalmSweep, Stored, StrayObjectsAreExplained
<1>10. QED
  BY <1>1, <1>2, <1>3, <1>4, <1>5, <1>6, <1>7, <1>8, <1>9 DEF IInv

LEMMA MarkOthersReplacedKeeps ==
    ASSUME IInv, NEW c \in Calls, MarkOthersReplaced(c)
    PROVE  IInv'
<1>q. Moving(c)
  BY MovingHolds DEF MarkOthersReplaced, At, Busy
<1>0. /\ call[c].pc = "replace"
      /\ CallMoves(c, "idle", NoAsset, "none")
      /\ ReplaceMoves(call[c].asset)
      /\ cut' = {}
      /\ UNCHANGED <<mode, object, image, sweep, made, faults, overlapped, raced, again, was, lost>>
  BY <1>q, AnswerMoves, SupersededMoves DEF IInv, TypeOK, Moving, Labels, Statuses, Exists,
     MarkOthersReplaced, history, At
<1>1. TypeOK'
  BY <1>q, <1>0 DEF TypeOK, IInv, Busy, CallMoves, ReplaceMoves, Rows, Moving
<1>2. Alone'
  BY <1>q, <1>0 DEF IInv, TypeOK, Alone, Busy, CallMoves, ReplaceMoves, Moving
<1>3. RowShape'
  BY <1>q, <1>0 DEF IInv, TypeOK, RowShape, Exists, Work, PendingWork, CallMoves, ReplaceMoves,
     Moving
<1>4. Work'
  BY <1>q, <1>0 DEF IInv, TypeOK, Work, PendingWork, RowShape, CallMoves, ReplaceMoves, Moving
<1>5. CalmWork'
  BY <1>q, <1>0 DEF IInv, TypeOK, CalmWork, Exists, Stored, PendingWork, CallMoves,
     ReplaceMoves, Moving
<1>6. AloneWork'
  BY <1>q, <1>0 DEF IInv, TypeOK, AloneWork, PendingWork, CalmWork, Exists, CallMoves,
     ReplaceMoves, Moving
<1>7. ReplaceShown'
  BY <1>q, <1>0 DEF IInv, TypeOK, ReplaceShown, CallMoves, ReplaceMoves, Moving
<1>8. CalmSweep'
  BY <1>q, <1>0 DEF IInv, TypeOK, CalmSweep, CallMoves, ReplaceMoves, Moving
<1>9. Stored'
  BY <1>q, <1>0 DEF IInv, TypeOK, Stored, CalmWork, CallMoves, ReplaceMoves, Moving
<1>10. ShownAvatarIsServed'
  BY <1>q, <1>0 DEF IInv, TypeOK, ShownAvatarIsServed, Live, AloneWork, PendingWork,
     ReplaceShown, Stored, CallMoves, ReplaceMoves, Moving
<1>11. OneLiveAvatar'
  BY <1>q, <1>0 DEF IInv, TypeOK, OneLiveAvatar, Live, CallMoves, ReplaceMoves, Moving
<1>12. StrayObjectsAreExplained'
  BY <1>q, <1>0 DEF IInv, TypeOK, StrayObjectsAreExplained, CalmWork, Exists, CallMoves,
     ReplaceMoves, Moving
<1>13. SweepShape'
  BY <1>0 DEF IInv, SweepShape
<1>14. QED
  BY <1>1, <1>2, <1>3, <1>4, <1>5, <1>6, <1>7, <1>8, <1>9, <1>10, <1>11, <1>12, <1>13 DEF IInv

LEMMA FailKeeps ==
    ASSUME IInv, NEW c \in Calls, Fail(c)
    PROVE  IInv'
<1>q. Moving(c)
  BY MovingHolds DEF Fail, At, Busy
<1>0. /\ call[c].pc # "idle" /\ faults' \in 0 .. MaxFaults
      /\ CallMoves(c, "idle", NoAsset, "none")
      /\ cut' = IF call[c].pc \in {"image", "replace"} THEN cut \cup {call[c].asset} ELSE cut
      /\ UNCHANGED <<mode, row, object, image, sweep, made, overlapped, raced, again, was, lost>>
  BY <1>q, AnswerMoves, BoundsAreNaturals DEF IInv, TypeOK, Moving, Labels, Statuses, Exists,
     Fail, history, At, Busy
<1>1. TypeOK'
  BY <1>q, <1>0 DEF TypeOK, IInv, Busy, CallMoves, Moving
<1>2. Alone'
  BY <1>q, <1>0 DEF IInv, TypeOK, Alone, Busy, CallMoves, Moving
<1>3. Work'
  BY <1>q, <1>0 DEF IInv, TypeOK, Work, PendingWork, RowShape, CallMoves, Moving
<1>4. CalmWork'
  BY <1>q, <1>0 DEF IInv, TypeOK, CalmWork, Exists, Stored, PendingWork, CallMoves, Moving
<1>5. AloneWork'
  BY <1>q, <1>0 DEF IInv, TypeOK, AloneWork, PendingWork, CalmWork, Exists, CallMoves, Moving
<1>6. ReplaceShown'
  BY <1>q, <1>0 DEF IInv, TypeOK, ReplaceShown, CallMoves, Moving
<1>7. OneLiveAvatar'
  <2> SUFFICES ASSUME NEW x \in Assets, NEW y \in Assets, x # y, Live(x)', Live(y)'
               PROVE  \/ {x, y} \cap cut' # {}
                      \/ \E d \in Calls : /\ call'[d].pc \in {"image", "replace"}
                                          /\ call'[d].asset \in {x, y}
    BY DEF OneLiveAvatar
  <2>1. \/ {x, y} \cap cut # {}
        \/ \E d \in Calls : call[d].pc \in {"image", "replace"} /\ call[d].asset \in {x, y}
    BY <1>0 DEF IInv, OneLiveAvatar, Live
  <2>2. CASE {x, y} \cap cut # {}
    BY <1>0, <2>2
  <2>3. ASSUME NEW d \in Calls, call[d].pc \in {"image", "replace"}, call[d].asset \in {x, y}
        PROVE  \/ {x, y} \cap cut' # {}
               \/ call'[d].pc \in {"image", "replace"} /\ call'[d].asset \in {x, y}
    <3>1. CASE d = c
      BY <1>0, <2>3, <3>1
    <3>2. CASE d # c
      BY <1>0, <2>3, <3>2 DEF CallMoves
    <3>3. QED
      BY <3>1, <3>2
  <2>4. QED
    BY <2>1, <2>2, <2>3
<1>8. /\ SweepShape' /\ RowShape' /\ CalmSweep'
      /\ Stored' /\ ShownAvatarIsServed' /\ StrayObjectsAreExplained'
  BY <1>0 DEF IInv, SweepShape, RowShape, Exists, CalmSweep, Stored, ShownAvatarIsServed, Live,
     StrayObjectsAreExplained
<1>9. QED
  BY <1>1, <1>2, <1>3, <1>4, <1>5, <1>6, <1>7, <1>8 DEF IInv

LEMMA PutObjectKeeps ==
    ASSUME IInv, NEW a \in Assets, PutObject(a)
    PROVE  IInv'
<1>q. Standing
  BY StandingHolds
<1>0. /\ row[a].created = "recent" /\ row[a].status # "linked" /\ mode = "object"
      /\ object' = object \cup {a}
      /\ NoAsset \notin Assets
      /\ UNCHANGED <<mode, row, image, call, sweep, made, faults, overlapped, raced, again, cut,
                     was, lost>>
  BY <1>q, NoAssetIsNoAsset DEF IInv, TypeOK, Standing, Labels, Statuses, Exists, PutObject,
     history
<1>1. TypeOK'
  BY <1>q, <1>0 DEF TypeOK, IInv, Busy, Standing
<1>2. CalmWork'
  BY <1>q, <1>0 DEF IInv, TypeOK, CalmWork, Exists, Standing
<1>3. CalmSweep'
  BY <1>q, <1>0 DEF IInv, TypeOK, CalmSweep, RowShape, SweepShape, Stages, Standing
<1>4. Stored'
  BY <1>q, <1>0 DEF IInv, TypeOK, Stored, Standing
<1>5. ShownAvatarIsServed'
  BY <1>q, <1>0 DEF IInv, TypeOK, ShownAvatarIsServed, Live, Standing
<1>6. StrayObjectsAreExplained'
  BY <1>q, <1>0 DEF IInv, TypeOK, StrayObjectsAreExplained, RowShape, Standing
<1>7. Alone' /\ SweepShape' /\ RowShape' /\ Work' /\ AloneWork' /\ ReplaceShown' /\ OneLiveAvatar'
  BY <1>0 DEF IInv, Alone, Busy, SweepShape, RowShape, Exists, Work, PendingWork, AloneWork,
     ReplaceShown, OneLiveAvatar, Live
<1>8. QED
  BY <1>1, <1>2, <1>3, <1>4, <1>5, <1>6, <1>7 DEF IInv

LEMMA UploadKeeps ==
    ASSUME IInv, NEW c \in Calls, NEW a \in Assets, Upload(c, a)
    PROVE  IInv'
<1>q. Standing
  BY StandingHolds
<1>a. call[c].pc = "idle" /\ row[a].status # "none"
  BY <1>q, SetMoves, BoundsAreNaturals DEF IInv, TypeOK, Standing, Labels, Statuses, Exists,
     Upload, history, Begin, Busy
<1>b. CallMoves(c, "save", a, "none")
  BY <1>q, SetMoves, BoundsAreNaturals DEF IInv, TypeOK, Standing, Labels, Statuses, Exists,
     Upload, history, Begin, Busy
<1>c. made' \in 0 .. MaxCalls
  BY <1>q, SetMoves, BoundsAreNaturals DEF IInv, TypeOK, Standing, Labels, Statuses, Exists,
     Upload, history, Begin, Busy
<1>d. overlapped' = (overlapped \/ \E d \in Calls \ {c} : call[d].pc # "idle")
  BY <1>q, SetMoves, BoundsAreNaturals DEF IInv, TypeOK, Standing, Labels, Statuses, Exists,
     Upload, history, Begin, Busy
<1>e. raced' = (raced \/ sweep.stage # "idle")
  BY <1>q, SetMoves, BoundsAreNaturals DEF IInv, TypeOK, Standing, Labels, Statuses, Exists,
     Upload, history, Begin, Busy
<1>f. mode = "local"
  BY <1>q, SetMoves, BoundsAreNaturals DEF IInv, TypeOK, Standing, Labels, Statuses, Exists,
     Upload, history, Begin, Busy
<1>g. UNCHANGED <<mode, row, object, image, sweep, faults, again, cut, was, lost>>
  BY <1>q, SetMoves, BoundsAreNaturals DEF IInv, TypeOK, Standing, Labels, Statuses, Exists,
     Upload, history, Begin, Busy
<1>1. TypeOK'
  BY <1>q, <1>a, <1>b, <1>c, <1>d, <1>e, <1>f, <1>g DEF TypeOK, IInv, Busy, CallMoves, Standing
<1>2. Alone'
  <2>1. sweep'.stage # "idle" => raced'
    BY <1>d, <1>e, <1>g
  <2>2. ASSUME ~overlapped'
        PROVE  \A d \in Calls : d # c => call'[d].pc = "idle"
    BY <2>2, <1>b, <1>d DEF CallMoves
  <2>3. QED
    BY <2>1, <2>2 DEF Alone, Busy
<1>3. Work'
  BY <1>q, <1>a, <1>b, <1>c, <1>d, <1>e, <1>f, <1>g DEF IInv, TypeOK, Work, PendingWork,
     RowShape, Busy, CallMoves, Standing
<1>4. CalmWork'
  BY <1>q, <1>a, <1>b, <1>c, <1>d, <1>e, <1>f, <1>g DEF IInv, TypeOK, CalmWork, Exists,
     CallMoves, Standing
<1>5. AloneWork'
  BY <1>q, <1>a, <1>b, <1>c, <1>d, <1>e, <1>f, <1>g DEF IInv, TypeOK, AloneWork, PendingWork,
     Busy, CallMoves, Standing
<1>6. ReplaceShown'
  BY <1>q, <1>a, <1>b, <1>c, <1>d, <1>e, <1>f, <1>g DEF IInv, TypeOK, ReplaceShown, Busy,
     CallMoves, Standing
<1>7. CalmSweep'
  BY <1>q, <1>a, <1>b, <1>c, <1>d, <1>e, <1>f, <1>g DEF IInv, TypeOK, CalmSweep, CallMoves,
     Standing
<1>8. Stored'
  BY <1>q, <1>a, <1>b, <1>c, <1>d, <1>e, <1>f, <1>g DEF IInv, TypeOK, Stored, CallMoves,
     Standing
<1>9. ShownAvatarIsServed'
  BY <1>q, <1>a, <1>b, <1>c, <1>d, <1>e, <1>f, <1>g DEF IInv, TypeOK, ShownAvatarIsServed, Live,
     CallMoves, Standing
<1>10. OneLiveAvatar'
  BY <1>q, <1>a, <1>b, <1>c, <1>d, <1>e, <1>f, <1>g DEF IInv, TypeOK, OneLiveAvatar, Live,
     CallMoves, Standing
<1>11. StrayObjectsAreExplained'
  BY <1>q, <1>a, <1>b, <1>c, <1>d, <1>e, <1>f, <1>g DEF IInv, TypeOK, StrayObjectsAreExplained,
     CallMoves, Standing
<1>12. SweepShape' /\ RowShape'
  BY <1>g DEF IInv, SweepShape, RowShape, Exists
<1>13. QED
  BY <1>1, <1>2, <1>3, <1>4, <1>5, <1>6, <1>7, <1>8, <1>9, <1>10, <1>11, <1>12 DEF IInv

LEMMA CompleteKeeps ==
    ASSUME IInv, NEW c \in Calls, NEW a \in Assets, Complete(c, a)
    PROVE  IInv'
<1>q. Standing
  BY StandingHolds
<1>a. call[c].pc = "idle" /\ row[a].status # "none"
  BY <1>q, SetMoves, BoundsAreNaturals DEF IInv, TypeOK, Standing, Labels, Statuses, Exists,
     Complete, history, Begin, Busy
<1>b. CallMoves(c, "read", a, "none")
  BY <1>q, SetMoves, BoundsAreNaturals DEF IInv, TypeOK, Standing, Labels, Statuses, Exists,
     Complete, history, Begin, Busy
<1>c. made' \in 0 .. MaxCalls
  BY <1>q, SetMoves, BoundsAreNaturals DEF IInv, TypeOK, Standing, Labels, Statuses, Exists,
     Complete, history, Begin, Busy
<1>d. overlapped' = (overlapped \/ \E d \in Calls \ {c} : call[d].pc # "idle")
  BY <1>q, SetMoves, BoundsAreNaturals DEF IInv, TypeOK, Standing, Labels, Statuses, Exists,
     Complete, history, Begin, Busy
<1>e. raced' = (raced \/ sweep.stage # "idle")
  BY <1>q, SetMoves, BoundsAreNaturals DEF IInv, TypeOK, Standing, Labels, Statuses, Exists,
     Complete, history, Begin, Busy
<1>f. UNCHANGED <<mode, row, object, image, sweep, faults, again, cut, was, lost>>
  BY <1>q, SetMoves, BoundsAreNaturals DEF IInv, TypeOK, Standing, Labels, Statuses, Exists,
     Complete, history, Begin, Busy
<1>1. TypeOK'
  BY <1>q, <1>a, <1>b, <1>c, <1>d, <1>e, <1>f DEF TypeOK, IInv, Busy, CallMoves, Standing
<1>2. Alone'
  <2>1. sweep'.stage # "idle" => raced'
    BY <1>d, <1>e, <1>f
  <2>2. ASSUME ~overlapped'
        PROVE  \A d \in Calls : d # c => call'[d].pc = "idle"
    BY <2>2, <1>b, <1>d DEF CallMoves
  <2>3. QED
    BY <2>1, <2>2 DEF Alone, Busy
<1>3. Work'
  BY <1>q, <1>a, <1>b, <1>c, <1>d, <1>e, <1>f DEF IInv, TypeOK, Work, PendingWork, RowShape,
     Busy, CallMoves, Standing
<1>4. CalmWork'
  BY <1>q, <1>a, <1>b, <1>c, <1>d, <1>e, <1>f DEF IInv, TypeOK, CalmWork, Exists, CallMoves,
     Standing
<1>5. AloneWork'
  BY <1>q, <1>a, <1>b, <1>c, <1>d, <1>e, <1>f DEF IInv, TypeOK, AloneWork, PendingWork, Busy,
     CallMoves, Standing
<1>6. ReplaceShown'
  BY <1>q, <1>a, <1>b, <1>c, <1>d, <1>e, <1>f DEF IInv, TypeOK, ReplaceShown, Busy, CallMoves,
     Standing
<1>7. CalmSweep'
  BY <1>q, <1>a, <1>b, <1>c, <1>d, <1>e, <1>f DEF IInv, TypeOK, CalmSweep, CallMoves, Standing
<1>8. Stored'
  BY <1>q, <1>a, <1>b, <1>c, <1>d, <1>e, <1>f DEF IInv, TypeOK, Stored, CallMoves, Standing
<1>9. ShownAvatarIsServed'
  BY <1>q, <1>a, <1>b, <1>c, <1>d, <1>e, <1>f DEF IInv, TypeOK, ShownAvatarIsServed, Live,
     CallMoves, Standing
<1>10. OneLiveAvatar'
  BY <1>q, <1>a, <1>b, <1>c, <1>d, <1>e, <1>f DEF IInv, TypeOK, OneLiveAvatar, Live, CallMoves,
     Standing
<1>11. StrayObjectsAreExplained'
  BY <1>q, <1>a, <1>b, <1>c, <1>d, <1>e, <1>f DEF IInv, TypeOK, StrayObjectsAreExplained,
     CallMoves, Standing
<1>12. SweepShape' /\ RowShape'
  BY <1>f DEF IInv, SweepShape, RowShape, Exists
<1>13. QED
  BY <1>1, <1>2, <1>3, <1>4, <1>5, <1>6, <1>7, <1>8, <1>9, <1>10, <1>11, <1>12 DEF IInv

LEMMA PassDayKeeps ==
    ASSUME IInv, NEW a \in Assets, PassDay(a)
    PROVE  IInv'
<1>q. Standing
  BY StandingHolds
<1>0. /\ \A c \in Calls : call[c].pc = "idle"
      /\ AgesMove(a)
      /\ UNCHANGED <<mode, object, image, call, sweep, made, faults, overlapped, raced, again,
                     cut, was, lost>>
  BY <1>q, AgingMoves DEF IInv, TypeOK, Standing, Labels, Statuses, Exists, PassDay, history,
     Quiet, Busy
<1>1. TypeOK'
  BY <1>q, <1>0 DEF TypeOK, IInv, Busy, AgesMove, RowMoves, Older, Ages, Rows, Standing
<1>2. RowShape'
  <2>1. Older("unset") = "unset" /\ Older("recent") = "old" /\ Older("old") = "old"
    BY DEF Older
  <2>2. /\ row[a].status \in Statuses /\ row[a].created \in Ages /\ row[a].replaced \in Ages
        /\ row'[a].status = row[a].status /\ row'[a].uploaded = row[a].uploaded
        /\ row'[a].created = IF row[a].status \in {"pending", "orphan"}
                               THEN Older(row[a].created) ELSE row[a].created
        /\ row'[a].replaced = Older(row[a].replaced)
    BY <1>q, <1>0, RowTypes DEF Standing, AgesMove
  <2>3. \A b \in Assets \ {a} : row'[b] = row[b]
    BY <1>0 DEF AgesMove, RowMoves
  <2>4. QED
    BY <2>1, <2>2, <2>3 DEF IInv, RowShape, Exists, Statuses, Ages
<1>3. Work'
  BY <1>q, <1>0 DEF IInv, TypeOK, Work, PendingWork, AgesMove, RowMoves, Older, Ages, Standing
<1>4. CalmWork'
  BY <1>q, <1>0 DEF IInv, TypeOK, CalmWork, Exists, AgesMove, RowMoves, Older, Ages, Standing
<1>5. AloneWork'
  BY <1>q, <1>0 DEF IInv, TypeOK, AloneWork, PendingWork, AgesMove, RowMoves, Older, Ages,
     Standing
<1>6. CalmSweep'
  BY <1>q, <1>0 DEF IInv, TypeOK, CalmSweep, RowShape, AgesMove, RowMoves, Older, Ages, Standing
<1>7. Stored'
  BY <1>q, <1>0 DEF IInv, TypeOK, Stored, AgesMove, RowMoves, Older, Ages, Standing
<1>8. ShownAvatarIsServed'
  BY <1>q, <1>0 DEF IInv, TypeOK, ShownAvatarIsServed, Live, AgesMove, RowMoves, Older, Ages,
     Standing
<1>9. OneLiveAvatar'
  BY <1>q, <1>0 DEF IInv, TypeOK, OneLiveAvatar, Live, AgesMove, RowMoves, Older, Ages, Standing
<1>10. StrayObjectsAreExplained'
  BY <1>q, <1>0 DEF IInv, TypeOK, StrayObjectsAreExplained, AgesMove, RowMoves, Older, Ages,
     Standing
<1>11. Alone' /\ SweepShape' /\ ReplaceShown'
  BY <1>0 DEF IInv, Alone, Busy, SweepShape, ReplaceShown
<1>12. QED
  BY <1>1, <1>2, <1>3, <1>4, <1>5, <1>6, <1>7, <1>8, <1>9, <1>10, <1>11 DEF IInv

LEMMA PassWeekKeeps ==
    ASSUME IInv, NEW a \in Assets, PassWeek(a)
    PROVE  IInv'
<1>q. Standing
  BY StandingHolds
<1>0. /\ \A c \in Calls : call[c].pc = "idle"
      /\ row[a].status = "orphan" /\ row[a].created = "old" /\ RowMoves(a)
      /\ row'[a].status = "orphan" /\ row'[a].created = "old" /\ row'[a].replaced = row[a].replaced
      /\ UNCHANGED <<mode, object, image, call, sweep, made, faults, overlapped, raced, again,
                     cut, was, lost>>
  BY <1>q, RowTypes DEF IInv, TypeOK, Standing, Labels, Statuses, Exists, PassWeek, history,
     Quiet, Busy, Rows, Ages, RowMoves
<1>1. TypeOK'
  BY <1>q, <1>0 DEF TypeOK, IInv, Busy, RowMoves, Rows, Standing
<1>2. RowShape'
  BY <1>q, <1>0 DEF IInv, TypeOK, RowShape, Exists, RowMoves, Standing
<1>3. Work'
  BY <1>q, <1>0 DEF IInv, TypeOK, Work, PendingWork, RowMoves, Standing
<1>4. CalmWork'
  BY <1>q, <1>0 DEF IInv, TypeOK, CalmWork, Exists, RowMoves, Standing
<1>5. AloneWork'
  BY <1>q, <1>0 DEF IInv, TypeOK, AloneWork, PendingWork, RowMoves, Standing
<1>6. CalmSweep'
  BY <1>q, <1>0 DEF IInv, TypeOK, CalmSweep, RowShape, RowMoves, Standing
<1>7. Stored'
  BY <1>q, <1>0 DEF IInv, TypeOK, Stored, RowMoves, Standing
<1>8. ShownAvatarIsServed'
  BY <1>q, <1>0 DEF IInv, TypeOK, ShownAvatarIsServed, Live, RowMoves, Standing
<1>9. OneLiveAvatar'
  BY <1>q, <1>0 DEF IInv, TypeOK, OneLiveAvatar, Live, RowMoves, Standing
<1>10. StrayObjectsAreExplained'
  BY <1>q, <1>0 DEF IInv, TypeOK, StrayObjectsAreExplained, RowMoves, Standing
<1>11. Alone' /\ SweepShape' /\ ReplaceShown'
  BY <1>0 DEF IInv, Alone, Busy, SweepShape, ReplaceShown
<1>12. QED
  BY <1>1, <1>2, <1>3, <1>4, <1>5, <1>6, <1>7, <1>8, <1>9, <1>10, <1>11 DEF IInv

LEMMA NextStageKeeps ==
    ASSUME IInv, NextStage
    PROVE  IInv'
<1>q. Standing
  BY StandingHolds
<1>a. sweep.todo = {} /\ sweep.held = NoAsset
  BY <1>q, ListedTypes DEF IInv, TypeOK, Standing, Labels, Statuses, Exists, NextStage, history,
     Due, Quiet, Busy, SweepMoves
<1>b. raced' \in BOOLEAN /\ (raced => raced')
  BY <1>q, ListedTypes DEF IInv, TypeOK, Standing, Labels, Statuses, Exists, NextStage, history,
     Due, Quiet, Busy, SweepMoves
<1>c. \/ sweep' = Asleep
      \/ \E next \in Stages \ {"idle"} :
           /\ Listed(next) # {} /\ SweepMoves(next, Listed(next), NoAsset)
           /\ ~raced' => \A c \in Calls : call[c].pc = "idle"
  <2>1. ASSUME NEW next \in Due, raced' = (raced \/ ~Quiet),
               sweep' = [stage |-> next, todo |-> Listed(next), held |-> NoAsset]
        PROVE  /\ next \in Stages \ {"idle"} /\ Listed(next) # {}
               /\ SweepMoves(next, Listed(next), NoAsset)
               /\ ~raced' => \A c \in Calls : call[c].pc = "idle"
    <3>1. next \in Stages \ {"idle"} /\ Listed(next) # {} /\ Listed(next) \subseteq Assets
      BY <2>1, ListedTypes DEF Due
    <3>2. SweepMoves(next, Listed(next), NoAsset)
      BY <2>1, <3>1 DEF SweepMoves
    <3>3. QED
      BY <2>1, <3>1, <3>2 DEF Quiet, Busy
  <2>2. QED
    BY <2>1 DEF NextStage
<1>d. UNCHANGED <<mode, row, object, image, call, made, faults, overlapped, again, cut, was, lost>>
  BY <1>q, ListedTypes DEF IInv, TypeOK, Standing, Labels, Statuses, Exists, NextStage, history,
     Due, Quiet, Busy, SweepMoves
<1>1. TypeOK'
  BY <1>q, <1>a, <1>b, <1>c, <1>d DEF TypeOK, IInv, Busy, SweepMoves, Asleep, Stages, Standing
<1>2. Alone'
  BY <1>q, <1>a, <1>b, <1>c, <1>d DEF IInv, TypeOK, Alone, Busy, SweepMoves, Asleep, Stages,
     Standing
<1>3. SweepShape'
  BY <1>q, <1>a, <1>b, <1>c, <1>d DEF IInv, TypeOK, SweepShape, Listed, SweepMoves, Asleep,
     Stages, Standing
<1>4. CalmWork'
  BY <1>q, <1>a, <1>b, <1>c, <1>d DEF IInv, TypeOK, CalmWork, Exists, Alone, Busy, SweepShape,
     SweepMoves, Asleep, Stages, Standing
<1>5. AloneWork'
  BY <1>q, <1>a, <1>b, <1>c, <1>d DEF IInv, TypeOK, AloneWork, PendingWork, Alone, Busy,
     SweepShape, SweepMoves, Asleep, Stages, Standing
<1>6. CalmSweep'
  BY <1>q, <1>a, <1>b, <1>c, <1>d DEF IInv, TypeOK, CalmSweep, SweepShape, RowShape, Listed,
     Exists, SweepMoves, Asleep, Stages, Standing
<1>7. Stored'
  BY <1>q, <1>a, <1>b, <1>c, <1>d DEF IInv, TypeOK, Stored, SweepShape, CalmSweep, SweepMoves,
     Asleep, Stages, Standing
<1>8. ShownAvatarIsServed'
  BY <1>q, <1>a, <1>b, <1>c, <1>d DEF IInv, TypeOK, ShownAvatarIsServed, Live, CalmSweep,
     SweepShape, RowShape, SweepMoves, Asleep, Stages, Standing
<1>9. StrayObjectsAreExplained'
  BY <1>q, <1>a, <1>b, <1>c, <1>d DEF IInv, TypeOK, StrayObjectsAreExplained, CalmSweep,
     SweepShape, RowShape, Exists, SweepMoves, Asleep, Stages, Standing
<1>10. RowShape' /\ Work' /\ ReplaceShown' /\ OneLiveAvatar'
  BY <1>d DEF IInv, RowShape, Exists, Work, PendingWork, ReplaceShown, OneLiveAvatar, Live
<1>11. QED
  BY <1>1, <1>2, <1>3, <1>4, <1>5, <1>6, <1>7, <1>8, <1>9, <1>10 DEF IInv

LEMMA TakePendingKeeps ==
    ASSUME IInv, NEW a \in Assets, TakePending(a)
    PROVE  IInv'
<1>q. Standing
  BY StandingHolds
<1>0. /\ sweep.stage = "pending" /\ sweep.held = NoAsset /\ a \in sweep.todo
      /\ SweepMoves(sweep.stage, sweep.todo \ {a}, a)
      /\ UNCHANGED <<mode, row, object, image, call, made, faults, overlapped, raced, again, cut,
                     was, lost>>
  BY <1>q, HoldMoves DEF IInv, TypeOK, Standing, Labels, Statuses, Exists, TakePending, history
<1>1. TypeOK'
  BY <1>q, <1>0 DEF TypeOK, IInv, Busy, SweepMoves, Standing
<1>2. Alone'
  BY <1>q, <1>0 DEF IInv, TypeOK, Alone, Busy, SweepMoves, Standing
<1>3. SweepShape'
  BY <1>q, <1>0 DEF IInv, TypeOK, SweepShape, Listed, SweepMoves, Standing
<1>4. CalmSweep'
  BY <1>q, <1>0 DEF IInv, TypeOK, CalmSweep, SweepShape, RowShape, Listed, Exists, SweepMoves,
     Standing
<1>5. Stored'
  BY <1>q, <1>0 DEF IInv, TypeOK, Stored, SweepShape, CalmSweep, SweepMoves, Standing
<1>6. /\ RowShape' /\ Work' /\ CalmWork' /\ AloneWork'
      /\ ReplaceShown' /\ ShownAvatarIsServed' /\ OneLiveAvatar' /\ StrayObjectsAreExplained'
  BY <1>0 DEF IInv, RowShape, Exists, Work, PendingWork, CalmWork, AloneWork, ReplaceShown,
     ShownAvatarIsServed, Live, OneLiveAvatar, StrayObjectsAreExplained
<1>7. QED
  BY <1>1, <1>2, <1>3, <1>4, <1>5, <1>6 DEF IInv

LEMMA DeleteObjectKeeps ==
    ASSUME IInv, NEW a \in Assets, DeleteObject(a)
    PROVE  IInv'
<1>q. Standing
  BY StandingHolds
<1>0. /\ sweep.stage \in {"orphan", "replaced"} /\ sweep.held = NoAsset /\ a \in sweep.todo
      /\ SweepMoves(sweep.stage, sweep.todo \ {a}, a)
      /\ object' \subseteq object /\ object \ {a} \subseteq object' /\ faults' \in 0 .. MaxFaults
      /\ lost \subseteq lost' /\ lost' \subseteq lost \cup {a}
      /\ a \notin object' \/ a \in lost'
      /\ UNCHANGED <<mode, row, image, call, made, overlapped, raced, again, cut, was>>
  BY <1>q, HoldMoves, BoundsAreNaturals DEF IInv, TypeOK, Standing, Labels, Statuses, Exists,
     DeleteObject, history
<1>1. TypeOK'
  BY <1>q, <1>0 DEF TypeOK, IInv, Busy, SweepMoves, Standing
<1>2. Alone'
  BY <1>q, <1>0 DEF IInv, TypeOK, Alone, Busy, SweepMoves, Standing
<1>3. SweepShape'
  BY <1>q, <1>0 DEF IInv, TypeOK, SweepShape, Listed, SweepMoves, Standing
<1>4. CalmWork'
  BY <1>q, <1>0 DEF IInv, TypeOK, CalmWork, Exists, Alone, Busy, SweepShape, SweepMoves,
     Standing
<1>5. CalmSweep'
  BY <1>q, <1>0 DEF IInv, TypeOK, CalmSweep, SweepShape, RowShape, Listed, Exists, SweepMoves,
     Standing
<1>6. Stored'
  BY <1>q, <1>0 DEF IInv, TypeOK, Stored, SweepShape, CalmSweep, SweepMoves, Standing
<1>7. ShownAvatarIsServed'
  BY <1>q, <1>0 DEF IInv, TypeOK, ShownAvatarIsServed, Live, CalmSweep, SweepShape, RowShape,
     SweepMoves, Standing
<1>8. StrayObjectsAreExplained'
  BY <1>q, <1>0 DEF IInv, TypeOK, StrayObjectsAreExplained, CalmSweep, SweepShape, RowShape,
     Exists, SweepMoves, Standing
<1>9. RowShape' /\ Work' /\ AloneWork' /\ ReplaceShown' /\ OneLiveAvatar'
  BY <1>0 DEF IInv, RowShape, Exists, Work, PendingWork, AloneWork, ReplaceShown, OneLiveAvatar,
     Live
<1>10. QED
  BY <1>1, <1>2, <1>3, <1>4, <1>5, <1>6, <1>7, <1>8, <1>9 DEF IInv

LEMMA StatFileKeeps ==
    ASSUME IInv, NEW a \in Assets, StatFile(a)
    PROVE  IInv'
<1>q. Standing
  BY StandingHolds
<1>0. /\ sweep.stage = "missing" /\ sweep.held = NoAsset /\ a \in sweep.todo
      /\ \/ a \notin object /\ SweepMoves(sweep.stage, sweep.todo \ {a}, a)
         \/ SweepMoves(sweep.stage, sweep.todo \ {a}, NoAsset)
      /\ UNCHANGED <<mode, row, object, image, call, made, faults, overlapped, raced, again, cut,
                     was, lost>>
  BY <1>q, HoldMoves, SkipMoves DEF IInv, TypeOK, Standing, Labels, Statuses, Exists, StatFile,
     history
<1>1. TypeOK'
  BY <1>q, <1>0 DEF TypeOK, IInv, Busy, SweepMoves, Standing
<1>2. Alone'
  BY <1>q, <1>0 DEF IInv, TypeOK, Alone, Busy, SweepMoves, Standing
<1>3. SweepShape'
  BY <1>q, <1>0 DEF IInv, TypeOK, SweepShape, Listed, SweepMoves, Standing
<1>4. CalmSweep'
  BY <1>q, <1>0 DEF IInv, TypeOK, CalmSweep, SweepShape, RowShape, Listed, Exists, SweepMoves,
     Standing
<1>5. Stored'
  BY <1>q, <1>0 DEF IInv, TypeOK, Stored, SweepShape, CalmSweep, SweepMoves, Standing
<1>6. /\ RowShape' /\ Work' /\ CalmWork' /\ AloneWork'
      /\ ReplaceShown' /\ ShownAvatarIsServed' /\ OneLiveAvatar' /\ StrayObjectsAreExplained'
  BY <1>0 DEF IInv, RowShape, Exists, Work, PendingWork, CalmWork, AloneWork, ReplaceShown,
     ShownAvatarIsServed, Live, OneLiveAvatar, StrayObjectsAreExplained
<1>7. QED
  BY <1>1, <1>2, <1>3, <1>4, <1>5, <1>6 DEF IInv

LEMMA DeleteRowKeeps ==
    ASSUME IInv, DeleteRow
    PROVE  IInv'
<1>q. Standing
  BY StandingHolds
<1>0. /\ sweep.held \in Assets /\ RowMoves(sweep.held)
      /\ row'[sweep.held].status = "gone" /\ row'[sweep.held].created = "unset"
      /\ row'[sweep.held].replaced = "unset"
      /\ was' = [was EXCEPT ![sweep.held] = row[sweep.held].status]
      /\ SweepMoves(sweep.stage, sweep.todo, NoAsset)
      /\ UNCHANGED <<mode, object, image, call, made, faults, overlapped, raced, again, cut, lost>>
  BY <1>q, RowTypes DEF IInv, TypeOK, Standing, Labels, Statuses, Exists, DeleteRow, history,
     NoRow, Rows, Ages, RowMoves, SweepMoves, Stages
<1>1. TypeOK'
  BY <1>q, <1>0 DEF TypeOK, IInv, Busy, RowMoves, SweepMoves, Rows, Standing
<1>2. Alone'
  BY <1>q, <1>0 DEF IInv, TypeOK, Alone, Busy, RowMoves, SweepMoves, Standing
<1>3. SweepShape'
  BY <1>q, <1>0 DEF IInv, TypeOK, SweepShape, Listed, RowMoves, SweepMoves, Standing
<1>4. RowShape'
  BY <1>q, <1>0 DEF IInv, TypeOK, RowShape, Exists, RowMoves, SweepMoves, Standing
<1>5. Work'
  BY <1>q, <1>0 DEF IInv, TypeOK, Work, PendingWork, RowMoves, SweepMoves, Standing
<1>6. CalmWork'
  BY <1>q, <1>0 DEF IInv, TypeOK, CalmWork, Exists, Alone, Busy, SweepShape, RowMoves,
     SweepMoves, Standing
<1>7. AloneWork'
  BY <1>q, <1>0 DEF IInv, TypeOK, AloneWork, PendingWork, Alone, Busy, SweepShape, RowMoves,
     SweepMoves, Standing
<1>8. CalmSweep'
  BY <1>q, <1>0 DEF IInv, TypeOK, CalmSweep, SweepShape, RowShape, Listed, Exists, RowMoves,
     SweepMoves, Standing
<1>9. Stored'
  BY <1>q, <1>0 DEF IInv, TypeOK, Stored, SweepShape, CalmSweep, RowMoves, SweepMoves, Standing
<1>10. ShownAvatarIsServed'
  BY <1>q, <1>0 DEF IInv, TypeOK, ShownAvatarIsServed, Live, CalmSweep, SweepShape, RowShape,
     RowMoves, SweepMoves, Standing
<1>11. OneLiveAvatar'
  BY <1>q, <1>0 DEF IInv, TypeOK, OneLiveAvatar, Live, RowMoves, SweepMoves, Standing
<1>12. StrayObjectsAreExplained'
  BY <1>q, <1>0 DEF IInv, TypeOK, StrayObjectsAreExplained, CalmSweep, SweepShape, RowShape,
     Exists, RowMoves, SweepMoves, Standing
<1>13. ReplaceShown'
  BY <1>0 DEF IInv, ReplaceShown
<1>14. QED
  BY <1>1, <1>2, <1>3, <1>4, <1>5, <1>6, <1>7, <1>8, <1>9, <1>10, <1>11, <1>12, <1>13 DEF IInv

LEMMA SweepFailsKeeps ==
    ASSUME IInv, SweepFails
    PROVE  IInv'
<1>q. Standing
  BY StandingHolds
<1>0. /\ faults' \in 0 .. MaxFaults
      /\ sweep' = Asleep
      /\ lost' = lost \cup ({sweep.held} \cap Assets)
      /\ UNCHANGED <<mode, row, object, image, call, made, overlapped, raced, again, cut, was>>
  BY <1>q, BoundsAreNaturals DEF IInv, TypeOK, Standing, Labels, Statuses, Exists, SweepFails,
     history
<1>1. TypeOK'
  BY <1>q, <1>0 DEF TypeOK, IInv, Busy, Asleep, Stages, Standing
<1>2. Alone'
  BY <1>q, <1>0 DEF IInv, TypeOK, Alone, Busy, Asleep, Stages, Standing
<1>3. SweepShape'
  BY <1>q, <1>0 DEF IInv, TypeOK, SweepShape, Listed, Asleep, Stages, Standing
<1>4. CalmWork'
  BY <1>q, <1>0 DEF IInv, TypeOK, CalmWork, Exists, Alone, Busy, SweepShape, Asleep, Stages,
     Standing
<1>5. CalmSweep'
  BY <1>q, <1>0 DEF IInv, TypeOK, CalmSweep, SweepShape, RowShape, Listed, Exists, Asleep,
     Stages, Standing
<1>6. Stored'
  BY <1>q, <1>0 DEF IInv, TypeOK, Stored, SweepShape, CalmSweep, Asleep, Stages, Standing
<1>7. ShownAvatarIsServed'
  BY <1>q, <1>0 DEF IInv, TypeOK, ShownAvatarIsServed, Live, CalmSweep, SweepShape, RowShape,
     Asleep, Stages, Standing
<1>8. StrayObjectsAreExplained'
  BY <1>q, <1>0 DEF IInv, TypeOK, StrayObjectsAreExplained, CalmSweep, SweepShape, RowShape,
     Exists, Asleep, Stages, Standing
<1>9. RowShape' /\ Work' /\ AloneWork' /\ ReplaceShown' /\ OneLiveAvatar'
  BY <1>0 DEF IInv, RowShape, Exists, Work, PendingWork, AloneWork, ReplaceShown, OneLiveAvatar,
     Live
<1>10. QED
  BY <1>1, <1>2, <1>3, <1>4, <1>5, <1>6, <1>7, <1>8, <1>9 DEF IInv

-----------------------------------------------------------------------------
(* The theorems.                                                           *)

LEMMA StepIInv == IInv /\ [Next]_vars => IInv'
<1> SUFFICES ASSUME IInv, [Next]_vars PROVE IInv'
  OBVIOUS
<1>1. ASSUME NEW a \in Assets, RequestUpload(a) \/ PutObject(a) \/ PassDay(a) \/ PassWeek(a)
      PROVE  IInv'
  BY <1>1, RequestUploadKeeps, PutObjectKeeps, PassDayKeeps, PassWeekKeeps
<1>2. ASSUME NEW c \in Calls, NEW a \in Assets, Upload(c, a) \/ Complete(c, a)
      PROVE  IInv'
  BY <1>2, UploadKeeps, CompleteKeeps
<1>3. ASSUME NEW c \in Calls, Step(c) \/ Fail(c)
      PROVE  IInv'
  BY <1>3, ReadPendingKeeps, WriteFileKeeps, MarkUploadedKeeps, ReadRowKeeps, CheckObjectKeeps,
     RejectKeeps, MarkOrphanKeeps, LinkKeeps, SetImageKeeps, MarkOthersReplacedKeeps, FailKeeps
     DEF Step
<1>4. ASSUME NEW a \in Assets, TakePending(a) \/ DeleteObject(a) \/ StatFile(a)
      PROVE  IInv'
  BY <1>4, TakePendingKeeps, DeleteObjectKeeps, StatFileKeeps
<1>5. CASE NextStage \/ DeleteRow \/ SweepFails
  BY <1>5, NextStageKeeps, DeleteRowKeeps, SweepFailsKeeps
<1>6. CASE UNCHANGED vars
  BY <1>6 DEF vars, code, history, IInv, TypeOK, Alone, SweepShape, RowShape, Work, CalmWork,
     AloneWork, ReplaceShown, CalmSweep, Stored, ShownAvatarIsServed, OneLiveAvatar,
     StrayObjectsAreExplained, Busy, Exists, Live, PendingWork
<1>7. QED
  BY <1>1, <1>2, <1>3, <1>4, <1>5, <1>6 DEF Next, Sweep

LEMMA InitIInv == Init => IInv
<1> SUFFICES ASSUME Init PROVE IInv
  OBVIOUS
<1>0. /\ NoRow \in Rows /\ Free \in Locals /\ Free.pc = "idle"
      /\ Asleep \in [stage : Stages, todo : SUBSET Assets, held : Assets \cup {NoAsset}]
  BY DEF NoRow, Free, Asleep, Rows, Locals, Statuses, Ages, Stages
<1>1. TypeOK
  <2>1. row \in [Assets -> Rows] /\ call \in [Calls -> Locals] /\ \A c \in Calls : ~Busy(c)
    BY <1>0 DEF Init, Busy
  <2>2. was \in [Assets -> Statuses]
    BY DEF Init, Statuses
  <2>3. made \in 0 .. MaxCalls /\ faults \in 0 .. MaxFaults
    BY BoundsAreNaturals DEF Init
  <2>4. QED
    BY <1>0, <2>1, <2>2, <2>3 DEF Init, TypeOK
<1>2. /\ \A a \in Assets : /\ row[a].status = "none" /\ row[a].created = "unset"
                          /\ row[a].replaced = "unset"
      /\ \A c \in Calls : call[c].pc = "idle"
      /\ sweep.stage = "idle" /\ sweep.todo = {} /\ sweep.held = NoAsset
      /\ image = NoAsset /\ object = {} /\ NoAsset \notin Assets
  BY NoAssetIsNoAsset DEF Init, NoRow, Free, Asleep
<1>3. QED
  BY <1>1, <1>2 DEF IInv, Alone, SweepShape, RowShape, Work, CalmWork, AloneWork, ReplaceShown,
     CalmSweep, Stored, ShownAvatarIsServed, OneLiveAvatar, StrayObjectsAreExplained, Busy,
     Exists, Live, PendingWork

\* The invariant is inductive: every reachable state has it.
THEOREM Inductive == Spec => []IInv
  BY InitIInv, StepIInv, PTL DEF Spec

\* The variables have their types, for every number of pictures, requests and faults.
THEOREM TypeCorrect == Spec => []TypeOK
<1>1. IInv => TypeOK
  BY DEF IInv
<1>2. QED
  BY <1>1, Inductive, PTL

\* The picture the user's image points to is linked, not replaced and stored, however
\* requests fail half way and the hourly cleanup runs between them.
THEOREM ShownServed == Spec => []ShownAvatarIsServed
<1>1. IInv => ShownAvatarIsServed
  BY DEF IInv
<1>2. QED
  BY <1>1, Inductive, PTL

\* However completeAvatarUpload calls interleave, two pictures are live together only
\* while one of them is still being completed, or was left so by a failure.
THEOREM SingleAvatar == Spec => []OneLiveAvatar
<1>1. IInv => OneLiveAvatar
  BY DEF IInv
<1>2. QED
  BY <1>1, Inductive, PTL

\* What runMediaLifecycleCleanup leaves in the object store without a row has one of the
\* three causes the property names.
THEOREM StraysExplained == Spec => []StrayObjectsAreExplained
<1>1. IInv => StrayObjectsAreExplained
  BY DEF IInv
<1>2. QED
  BY <1>1, Inductive, PTL

=============================================================================
