------------------------------ MODULE MediaAssets ------------------------------
(***************************************************************************)
(* The profile pictures of one user: the rows of media_asset, the stored   *)
(* objects, the image column of the user, the requests that upload and     *)
(* complete a picture, and the hourly cleanup                              *)
(* (packages/app/src/storage, packages/db/src/media-lifecycle.ts,          *)
(* packages/api/src/routers/console/profile.ts).  Every query of the code  *)
(* filters on the owner, so one owner is enough.                           *)
(*                                                                         *)
(* A timestamp is an age class: "unset", "recent", or "old" once the       *)
(* retention that looks at it has passed.  No request lasts a day.  The    *)
(* checks of size, type and magic bytes are a choice: an upload may be     *)
(* rejected wherever they stand.                                           *)
(***************************************************************************)
EXTENDS Naturals, FiniteSets

CONSTANTS
    Assets,       \* the ids of the uploads the user asks for
    NoAsset,      \* no picture, no asset held
    Calls,        \* the requests of the user that may be in progress together
    Modes,        \* "object": an object store is configured; "local": it is not
    MaxCalls,     \* bound: the requests made in a behaviour
    MaxFaults     \* bound: failed requests, failed deletes, failed cleanups

ASSUME NoAssetIsNoAsset == NoAsset \notin Assets
ASSUME ModesAssumption == Modes \subseteq {"object", "local"}
ASSUME BoundsAreNaturals == MaxCalls \in Nat /\ MaxFaults \in Nat

VARIABLES
    mode,         \* the storage this deployment uses
    row,          \* the row of each asset
    object,       \* the assets whose bytes are stored
    image,        \* user.image: the asset its URL points to
    call,         \* the requests in progress
    sweep,        \* the cleanup: its stage, the ids left of its list, the one held
    made,         \* requests made so far
    faults,       \* faults so far
    overlapped,   \* history: two requests were in progress together
    raced,        \* history: a request was in progress during a cleanup
    again,        \* history: assets completed after they had been replaced
    cut,          \* history: completions that ended between link and replacement
    was,          \* history: the status a deleted row had
    lost          \* history: assets a cleanup deleted by half: object or row

code == <<mode, row, object, image, call, sweep, made, faults>>
history == <<overlapped, raced, again, cut, was, lost>>
vars == <<code, history>>

Statuses == {"none", "pending", "orphan", "linked", "gone"}
Ages == {"unset", "recent", "old"}
Rows == [status : Statuses, created : Ages, uploaded : Ages, replaced : Ages]
Locals == [pc : {"idle", "save", "write", "settle",
                 "read", "check", "orphan", "link", "image", "replace"},
           asset : Assets \cup {NoAsset}, seen : Statuses]
Stages == {"idle", "pending", "orphan", "replaced", "missing"}

NoRow == [status |-> "none", created |-> "unset", uploaded |-> "unset", replaced |-> "unset"]
Free == [pc |-> "idle", asset |-> NoAsset, seen |-> "none"]
Asleep == [stage |-> "idle", todo |-> {}, held |-> NoAsset]

Init ==
    /\ mode \in Modes
    /\ row = [a \in Assets |-> NoRow]
    /\ object = {}
    /\ image = NoAsset
    /\ call = [c \in Calls |-> Free]
    /\ sweep = Asleep
    /\ made = 0
    /\ faults = 0
    /\ overlapped = FALSE
    /\ raced = FALSE
    /\ again = {}
    /\ cut = {}
    /\ was = [a \in Assets |-> "none"]
    /\ lost = {}

Exists(a) == row[a].status \notin {"none", "gone"}

\* canServePublicMediaAsset: the row a picture is served from.
Live(a) == row[a].status = "linked" /\ row[a].replaced = "unset"

-----------------------------------------------------------------------------
(* Requests.                                                               *)

Busy(c) == call[c].pc # "idle"

\* createMediaAssetUpload: the row and a signed contract for the bytes.
RequestUpload(a) ==
    /\ row[a].status = "none"
    /\ row' = [row EXCEPT ![a] = [NoRow EXCEPT !.status = "pending", !.created = "recent"]]
    /\ UNCHANGED <<mode, object, image, call, sweep, made, faults, history>>

\* The contract of an object store: the browser puts the bytes there itself,
\* until the signature expires.  (A put after the link stores the same bytes.)
PutObject(a) ==
    /\ mode = "object" /\ row[a].created = "recent" /\ row[a].status # "linked"
    /\ object' = object \cup {a}
    /\ UNCHANGED <<mode, row, image, call, sweep, made, faults, history>>

Begin(c, a, pc) ==
    /\ ~Busy(c) /\ made < MaxCalls
    /\ row[a].status # "none"
    /\ call' = [call EXCEPT ![c] = [pc |-> pc, asset |-> a, seen |-> "none"]]
    /\ made' = made + 1
    /\ overlapped' = (overlapped \/ \E d \in Calls \ {c} : Busy(d))
    /\ raced' = (raced \/ sweep.stage # "idle")
    /\ UNCHANGED <<mode, row, object, image, sweep, faults, again, cut, was, lost>>

\* PUT /media/upload/:assetId with a token that has not expired.
Upload(c, a) == mode = "local" /\ row[a].created = "recent" /\ Begin(c, a, "save")

\* completeAvatarUpload.
Complete(c, a) == Begin(c, a, "read")

At(c, pc) == call[c].pc = pc
Goto(c, pc) == call' = [call EXCEPT ![c] = [call[c] EXCEPT !.pc = pc]]
\* Mutation: the slot of an answered request keeps its place in the handler.
AnswerKeepsPlace(c) == call' = [call EXCEPT ![c] = [Free EXCEPT !.pc = call[c].pc]]
Answer(c) == call' = [call EXCEPT ![c] = Free]

\* An update by id: nothing happens when the row is gone.
Update(a, new) == row' = IF Exists(a) THEN [row EXCEPT ![a] = new] ELSE row
Uploaded(a) == [row[a] EXCEPT !.status = "orphan", !.uploaded = "recent"]
Linked(a) == [row[a] EXCEPT !.status = "linked"]

\* saveUploadedMediaObject reads the row.
ReadPending(c) ==
    /\ At(c, "save")
    /\ IF row[call[c].asset].status = "pending" THEN Goto(c, "write") ELSE Answer(c)
    /\ UNCHANGED <<mode, row, object, image, sweep, made, faults, history>>

\* The bytes under a temporary name, then the rename.
WriteFile(c) ==
    /\ At(c, "write")
    /\ object' = object \cup {call[c].asset}
    /\ Goto(c, "settle")
    /\ UNCHANGED <<mode, row, image, sweep, made, faults, history>>

\* The status write has no condition on the status it replaces.
MarkUploaded(c) ==
    /\ At(c, "settle")
    /\ Update(call[c].asset, Uploaded(call[c].asset))
    /\ Answer(c)
    /\ UNCHANGED <<mode, object, image, sweep, made, faults, history>>

\* completeMediaAssetUpload reads the row.
ReadRow(c) ==
    LET a == call[c].asset IN
    /\ At(c, "read")
    /\ IF ~Exists(a) \/ (mode = "local" /\ row[a].status = "pending")
         THEN Answer(c)
         ELSE call' = [call EXCEPT ![c] =
                  IF mode = "object"
                    THEN [pc |-> "check", asset |-> a, seen |-> row[a].status]
                    ELSE [pc |-> "link", asset |-> a, seen |-> "none"]]
    /\ UNCHANGED <<mode, row, object, image, sweep, made, faults, history>>

CheckObject(c) ==
    /\ At(c, "check")
    /\ call[c].asset \in object
    /\ call' = [call EXCEPT ![c] = [pc |-> IF call[c].seen = "pending" THEN "orphan" ELSE "link",
                                    asset |-> call[c].asset, seen |-> "none"]]
    /\ UNCHANGED <<mode, row, object, image, sweep, made, faults, history>>

\* The upload fails a check, or the object is not there.
Reject(c) ==
    /\ At(c, "write") \/ At(c, "check")
    /\ Answer(c)
    /\ UNCHANGED <<mode, row, object, image, sweep, made, faults, history>>

MarkOrphan(c) ==
    /\ At(c, "orphan")
    /\ Update(call[c].asset, Uploaded(call[c].asset))
    /\ Goto(c, "link")
    /\ UNCHANGED <<mode, object, image, sweep, made, faults, history>>

\* linkedAt and the status; replacedAt is left as it is.
Link(c) ==
    LET a == call[c].asset IN
    /\ At(c, "link")
    /\ Update(a, Linked(a))
    /\ Goto(c, "image")
    /\ again' = IF row[a].replaced = "unset" THEN again ELSE again \cup {a}
    /\ UNCHANGED <<mode, object, image, sweep, made, faults, overlapped, raced, cut, was, lost>>

SetImage(c) ==
    /\ At(c, "image")
    /\ image' = call[c].asset
    /\ Goto(c, "replace")
    /\ UNCHANGED <<mode, row, object, sweep, made, faults, history>>

\* markOtherLinkedAvatarsReplaced: every other linked avatar of the owner.
\* Mutations: the asset to keep is not excepted; only the shown avatar goes.
SupersededAll(a) == {b \in Assets : row[b].status = "linked"}
SupersededShown(a) == {image} \cap (Assets \ {a})
Superseded(a) == {b \in Assets \ {a} : row[b].status = "linked"}
MarkOthersReplaced(c) ==
    /\ At(c, "replace")
    /\ row' = [b \in Assets |-> IF b \in Superseded(call[c].asset)
                                  THEN [row[b] EXCEPT !.replaced = "recent"] ELSE row[b]]
    /\ Answer(c)
    /\ cut' = {}
    /\ UNCHANGED <<mode, object, image, sweep, made, faults, overlapped, raced, again, was, lost>>

\* A rejected call of the database or the end of the process.
Fail(c) ==
    /\ Busy(c) /\ faults < MaxFaults
    /\ faults' = faults + 1
    /\ cut' = IF At(c, "image") \/ At(c, "replace") THEN cut \cup {call[c].asset} ELSE cut
    /\ Answer(c)
    /\ UNCHANGED <<mode, row, object, image, sweep, made, overlapped, raced, again, was, lost>>

Step(c) ==
    \/ ReadPending(c) \/ WriteFile(c) \/ MarkUploaded(c)
    \/ ReadRow(c) \/ CheckObject(c) \/ Reject(c) \/ MarkOrphan(c)
    \/ Link(c) \/ SetImage(c) \/ MarkOthersReplaced(c)

-----------------------------------------------------------------------------
(* Time and the cleanup.                                                   *)

Older(age) == IF age = "recent" THEN "old" ELSE age
Quiet == \A c \in Calls : ~Busy(c)

\* A day: the retention of pending rows, the grace of replaced avatars.  An
\* age advances only while a query or a signature looks at it.
Aging(a) ==
    [row[a] EXCEPT
        !.created = IF row[a].status \in {"pending", "orphan"} THEN Older(@) ELSE @,
        !.replaced = Older(@)]
PassDay(a) ==
    /\ Quiet /\ Aging(a) # row[a]
    /\ row' = [row EXCEPT ![a] = Aging(a)]
    /\ UNCHANGED <<mode, object, image, call, sweep, made, faults, history>>

\* A week: the retention of orphans.
PassWeek(a) ==
    /\ Quiet /\ row[a].status = "orphan" /\ row[a].created = "old" /\ row[a].uploaded = "recent"
    /\ row' = [row EXCEPT ![a] = [row[a] EXCEPT !.uploaded = "old"]]
    /\ UNCHANGED <<mode, object, image, call, sweep, made, faults, history>>

\* Mutation: uploads that were never completed are not looked for.
ListedUploadsOnly(stage) ==
    {a \in Assets :
        \/ stage = "orphan" /\ row[a].status = "orphan" /\ row[a].uploaded = "old"
        \/ stage = "replaced" /\ Exists(a) /\ row[a].replaced = "old"
        \/ stage = "missing" /\ mode = "local" /\ row[a].status \in {"orphan", "linked"}}

\* The four queries of runMediaLifecycleCleanup.
Listed(stage) ==
    {a \in Assets :
        \/ stage = "pending" /\ row[a].status = "pending" /\ row[a].created = "old"
        \/ stage = "orphan" /\ row[a].status = "orphan" /\ row[a].uploaded = "old"
        \/ stage = "replaced" /\ Exists(a) /\ row[a].replaced = "old"
        \/ stage = "missing" /\ mode = "local" /\ row[a].status \in {"orphan", "linked"}}

Rank == [idle |-> 0, pending |-> 1, orphan |-> 2, replaced |-> 3, missing |-> 4]
Due == {s \in Stages : Rank[s] > Rank[sweep.stage] /\ Listed(s) # {}}

\* The sweep starts, or goes on to its next list: read when its turn comes.
\* An empty list is passed in the same step.
NextStage ==
    /\ sweep.todo = {} /\ sweep.held = NoAsset
    /\ \/ \E next \in Due :
            /\ \A s \in Due : Rank[next] <= Rank[s]
            /\ sweep' = [stage |-> next, todo |-> Listed(next), held |-> NoAsset]
            /\ raced' = (raced \/ ~Quiet)
       \/ /\ sweep.stage # "idle" /\ Due = {}
          /\ sweep' = Asleep
          /\ UNCHANGED raced
    /\ UNCHANGED <<mode, row, object, image, call, made, faults,
                   overlapped, again, cut, was, lost>>

Hold(a) == sweep' = [sweep EXCEPT !.todo = sweep.todo \ {a}, !.held = a]
Skip(a) == sweep' = [sweep EXCEPT !.todo = sweep.todo \ {a}]

\* An expired pending row is deleted without a look at its object.
TakePending(a) ==
    /\ sweep.stage = "pending" /\ sweep.held = NoAsset /\ a \in sweep.todo
    /\ Hold(a)
    /\ UNCHANGED <<mode, row, object, image, call, made, faults, history>>

\* Mutation: only local files are removed.
DeleteObjectLocalOnly(a) ==
    /\ sweep.stage \in {"orphan", "replaced"} /\ sweep.held = NoAsset /\ a \in sweep.todo
    /\ Hold(a)
    /\ object' = IF mode = "local" THEN object \ {a} ELSE object
    /\ UNCHANGED <<mode, row, image, call, made, faults, history>>

\* The object first; an error of the store is swallowed and the row goes.
\* (deleteMediaAssetObject reads the row again: only the cleanup deletes rows.)
DeleteObject(a) ==
    /\ sweep.stage \in {"orphan", "replaced"} /\ sweep.held = NoAsset /\ a \in sweep.todo
    /\ Hold(a)
    /\ \/ object' = object \ {a} /\ UNCHANGED <<faults, lost>>
       \/ /\ faults < MaxFaults /\ faults' = faults + 1
          /\ lost' = lost \cup {a}
          /\ UNCHANGED object
    /\ UNCHANGED <<mode, row, image, call, made, overlapped, raced, again, cut, was>>

\* cleanupLocalRowsMissingObjects looks for the file.
StatFile(a) ==
    /\ sweep.stage = "missing" /\ sweep.held = NoAsset /\ a \in sweep.todo
    /\ IF a \in object THEN Skip(a) ELSE Hold(a)
    /\ UNCHANGED <<mode, row, object, image, call, made, faults, history>>

\* deleteMediaAssetRow: by id, whatever its status is by now.
DeleteRow ==
    LET a == sweep.held IN
    /\ a # NoAsset
    /\ row' = [row EXCEPT ![a] = [NoRow EXCEPT !.status = "gone"]]
    /\ was' = [was EXCEPT ![a] = row[a].status]
    /\ sweep' = [sweep EXCEPT !.held = NoAsset]
    /\ UNCHANGED <<mode, object, image, call, made, faults, overlapped, raced, again, cut, lost>>

SweepFails ==
    /\ sweep.stage # "idle" /\ faults < MaxFaults
    /\ faults' = faults + 1
    /\ sweep' = Asleep
    /\ lost' = lost \cup ({sweep.held} \cap Assets)
    /\ UNCHANGED <<mode, row, object, image, call, made, overlapped, raced, again, cut, was>>

Sweep ==
    \/ NextStage \/ DeleteRow
    \/ \E a \in Assets : TakePending(a) \/ DeleteObject(a) \/ StatFile(a)

Next ==
    \/ \E a \in Assets : RequestUpload(a) \/ PutObject(a) \/ PassDay(a) \/ PassWeek(a)
    \/ \E c \in Calls, a \in Assets : Upload(c, a) \/ Complete(c, a)
    \/ \E c \in Calls : Step(c) \/ Fail(c)
    \/ Sweep \/ SweepFails

Spec == Init /\ [][Next]_vars

\* Requests are served, the schedule runs the cleanup, and time passes.
FairSpec ==
    /\ Spec
    /\ WF_vars(\E c \in Calls : Step(c))
    /\ WF_vars(Sweep)
    /\ WF_vars(\E a \in Assets : PassDay(a) \/ PassWeek(a))

-----------------------------------------------------------------------------
(* Properties.                                                             *)

\* Types.
TypeOK ==
    /\ mode \in Modes
    /\ row \in [Assets -> Rows]
    /\ object \subseteq Assets
    /\ image \in Assets \cup {NoAsset}
    /\ call \in [Calls -> Locals]
    /\ \A c \in Calls : Busy(c) => call[c].asset \in Assets
    /\ sweep \in [stage : Stages, todo : SUBSET Assets, held : Assets \cup {NoAsset}]
    /\ made \in 0..MaxCalls /\ faults \in 0..MaxFaults
    /\ overlapped \in BOOLEAN /\ raced \in BOOLEAN
    /\ again \subseteq Assets /\ cut \subseteq Assets /\ lost \subseteq Assets
    /\ was \in [Assets -> Statuses]

\* The picture a user sees is served: its row is linked and not replaced and
\* its bytes are stored, whatever requests failed half way and whatever the
\* cleanup removed, as long as the requests of the user did not overlap each
\* other or a cleanup.  Two exceptions within a sequence of requests: an
\* avatar completed again after it was replaced keeps its replacedAt, and a
\* local upload is completed without a look at its file, which a cleanup that
\* stopped half way may have deleted.
ShownAvatarIsServed ==
    (image # NoAsset /\ ~overlapped /\ ~raced /\ image \notin again \cup lost) =>
        Live(image) /\ image \in object

\* Two avatars are live at the same time only while a completion is between
\* its link and its replacement of the others, or was cut off there: however
\* requests interleave, the one that replaces last sees every other link.
OneLiveAvatar ==
    \A a, b \in Assets :
        (a # b /\ Live(a) /\ Live(b)) =>
            \/ {a, b} \cap cut # {}
            \/ \E c \in Calls : /\ call[c].pc \in {"image", "replace"}
                                /\ call[c].asset \in {a, b}

\* An object outlives its row only if the row was still pending when it was
\* deleted, the store refused the delete, or the cleanup met a request.
StrayObjectsAreExplained ==
    \A a \in object :
        row[a].status = "gone" => was[a] = "pending" \/ a \in lost \/ raced

\* Nothing lingers: an upload that nobody links and an avatar that was
\* replaced lose their rows in the end (a replacement is never taken back).
DiscardedRowsVanish ==
    \A a \in Assets :
        (Exists(a) /\ ~Live(a)) ~> (row[a].status = "gone" \/ Live(a))
=============================================================================
