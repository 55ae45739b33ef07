-------------------------- MODULE StoreTransactions --------------------------
(***************************************************************************)
(* The transactions on one store root: jobs of different processes change  *)
(* the levels of the layers' tile stores, under advisory locks that vanish *)
(* when a process dies and durable fence markers that do not.              *)
(*                                                                         *)
(* A job is a process running the steps of its program in order, each step *)
(* being one call of the code.  A step that fails, a lock whose bounded    *)
(* wait runs out and the death of the process all come to the same: the    *)
(* job's locks are released, its fences stay, and the operation is retried *)
(* from its beginning.                                                     *)
(*                                                                         *)
(* The content of a tile is the job that last wrote it (Original before),  *)
(* the content of a tile of the total the function giving, for each layer, *)
(* the content it was summed from.  An area is a set of base tiles with no *)
(* ancestor in common with another area's.                                 *)
(***************************************************************************)
EXTENDS Naturals, Sequences, FiniteSets, SequencesExt

CONSTANTS
    Layers,     \* the source layers
    Total,      \* the layer total/, their sum
    Root,       \* the store root, where the scoped-update marker is
    Areas,
    Depth,      \* levels of the pyramid below the base level 0
    Jobs,
    Job,        \* the kind of each job, its layers and its scope
    Full,       \* the scope of a full rebuild
    MaxAborts,  \* how often a step fails, a wait times out or a process dies
    None,
    Original

Dirs == Layers \cup {Total}
Scopes == {Full} \cup (SUBSET Areas \ {{}})
Kinds == {"repaint", "combine", "transcode", "pyramid", "push", "pack"}
Contents == Jobs \cup {None, Original}

\* Pushes, the script's scoped branch and its transcodes name source layers
\* only; a push opens the stores it finds and never truncates one; a pyramid
\* and a transcode are of one layer, a pack names at least one.
JobAssumption(job) ==
    /\ job.kind \in {"repaint", "push", "transcode"} => job.layers \in Seq(Layers)
    /\ job.kind \in {"repaint", "push", "pack"} => job.layers # <<>>
    /\ job.kind \in {"pyramid", "transcode"} => Len(job.layers) = 1
    /\ job.kind \in {"repaint", "push"} => job.scope # Full
    /\ job.kind = "transcode" => job.scope = Full

ASSUME TransactionAssumption ==
    /\ IsFiniteSet(Layers)
    /\ Total \notin Layers /\ Root \notin Dirs
    /\ Depth \in Nat \ {0}
    /\ MaxAborts \in Nat
    /\ Job \in [Jobs -> [kind : Kinds, layers : Seq(Dirs), scope : Scopes]]
    /\ \A j \in Jobs : JobAssumption(Job[j])
    /\ \A s \in SUBSET Areas : Full # s
    /\ None \notin Jobs /\ Original \notin Jobs
    /\ \A f \in [Layers -> Contents] : None # f

VARIABLES
    level,      \* level[d][k][a]: what level k of layer d holds in area a
    marker,     \* per layer and for the root, its fence: descriptor and owner
    holder,     \* who holds each lock
    at,         \* per job: its step, the layer and zoom it is at there, the call
    rolled,     \* per job, the areas its current write has done
    aborts

vars == <<level, marker, holder, at, rolled, aborts>>
------------------------------------------------------------------------------
(* Locks *)

MasterLock == <<"master", Root, 0>>     \* build/.stamps/.master._combine.lock
IngestLock == <<"ingest", Root, 0>>     \* store/.ingest.lock
RebuildMutex(d) == <<"rebuild", d, 0>>  \* {layer}/.rebuild.lock
ZoomLock(d, k) == <<"zoom", d, k>>      \* {layer}/z{N}.lock

Locks == {MasterLock, IngestLock} \cup {RebuildMutex(d) : d \in Dirs}
             \cup {ZoomLock(d, k) : d \in Dirs, k \in 0 .. Depth}
------------------------------------------------------------------------------
(* The programs.  "stage" writes the base of each layer of the job; "rebuild" *)
(* a fenced cascade for each layer that Rebuilds names; "capture" takes, and  *)
(* "release" drops, every zoom lock of the layers a pack validates.           *)

\* Broken: the script relies on the ingest process having held the lock.
RepaintWithoutIngestLock ==
    <<"take master", "mark", "take ingest", "stage", "drop ingest",
      "rebuild", "unmark", "drop master", "done">>

\* The scoped repaint of build-heatmap.sh: the ingest process takes the ingest
\* lock for itself, the script takes it again when that process has ended.
Repaint ==
    <<"take master", "mark", "take ingest", "stage", "drop ingest",
      "take ingest", "rebuild", "unmark", "drop ingest", "drop master", "done">>

\* ingest_dir under the root's ingest lock, each (layer, zoom) store in turn.
Push == <<"take ingest", "stage", "drop ingest", "done">>

Combine == <<"take master", "rebuild", "drop master", "done">>

Transcode ==
    <<"take master", "take ingest", "rebuild", "drop ingest", "drop master", "done">>

Pyramid == <<"rebuild", "done">>

\* Broken: the fences are not checked again after the z-locks.
PackWithoutRecheck ==
    <<"take master", "take ingest", "reject", "capture",
      "publish", "release", "drop ingest", "drop master", "done">>

\* Broken: the two root locks in the other order.
PackIngestFirst ==
    <<"take ingest", "take master", "reject", "capture", "reject",
      "publish", "release", "drop master", "drop ingest", "done">>

\* tile-store-pack and tile-store-fsck: every selected z-lock in one canonical
\* order, then the fences once more, then the body with all locks held.
Pack ==
    <<"take master", "take ingest", "reject", "capture", "reject",
      "publish", "release", "drop ingest", "drop master", "done">>

Program(kind) ==
    CASE kind = "repaint" -> Repaint
      [] kind = "combine" -> Combine
      [] kind = "transcode" -> Transcode
      [] kind = "pyramid" -> Pyramid
      [] kind = "push" -> Push
      [] kind = "pack" -> Pack

Step(j) == Program(Job[j].kind)[at[j].pc]
Done(j) == Step(j) = "done"

\* The layers a job rebuilds, the total after the layers it is summed from.
Rebuilds(job) ==
    CASE job.kind = "repaint" -> Append(job.layers, Total)
      [] job.kind = "combine" -> <<Total>>
      [] OTHER -> job.layers

\* The layers a pack validates: those it packs, and the inputs of the total.
ValidationScope(ls) == Range(ls) \cup (IF Total \in Range(ls) THEN Layers ELSE {})

\* The layers a step goes through, and the one the job is at.
Turns(job, step) ==
    CASE step = "stage" -> job.layers
      [] step = "rebuild" -> Rebuilds(job)
      [] step \in {"capture", "release"} -> SetToSeq(ValidationScope(job.layers))
      [] OTHER -> <<>>

Dir(j) == Turns(Job[j], Step(j))[at[j].turn]

\* The fence of the root is for the scoped update, that of a layer for the
\* operation at hand; each names its scope.
Operation(job, d) ==
    CASE d = Root -> "scoped update"
      [] d # Root /\ job.kind = "transcode" -> "transcode"
      [] d = Total /\ job.kind \in {"repaint", "combine"} -> "combine"
      [] OTHER -> "pyramid"

Descriptor(job, d) ==
    [op |-> Operation(job, d), scope |-> job.scope,
     layers |-> IF d = Root THEN job.layers ELSE <<>>]

\* A pyramid starts one level below the base, the other rebuilds at the base.
FirstLevel(job, d) == IF Operation(job, d) = "pyramid" THEN 1 ELSE 0
------------------------------------------------------------------------------
(* From one call to the next *)

FirstCall(step) ==
    CASE step = "stage" -> "open"
      [] step = "rebuild" -> "mutex"
      [] OTHER -> "do"

Enter(j, p) ==
    [pc |-> p, turn |-> 1, zoom |-> 0, call |-> FirstCall(Program(Job[j].kind)[p])]

NextTurn(j) ==
    IF at[j].turn < Len(Turns(Job[j], Step(j)))
    THEN [at[j] EXCEPT !.turn = @ + 1, !.zoom = 0, !.call = FirstCall(Step(j))]
    ELSE Enter(j, at[j].pc + 1)

\* One level, a writable TileStore: create() for a full scope, open() else.
NextCall(j) ==
    CASE at[j].call = "open" -> IF Job[j].scope = Full THEN "create" ELSE "put"
      [] at[j].call = "create" -> "put"
      [] at[j].call = "put" -> "close"
      [] at[j].call = "mutex" -> "begin"
      [] at[j].call = "finish" -> "leave"

\* A cascade: StoreRebuildFence around the levels, each from the one above it.
After(j) ==
    CASE at[j].call \in {"open", "create", "put", "mutex", "finish"} ->
            [at[j] EXCEPT !.call = NextCall(j)]
      [] at[j].call = "begin" ->
            [at[j] EXCEPT !.call = "open", !.zoom = FirstLevel(Job[j], Dir(j))]
      [] at[j].call = "close" /\ Step(j) = "rebuild" ->
            IF at[j].zoom < Depth
            THEN [at[j] EXCEPT !.call = "open", !.zoom = @ + 1]
            ELSE [at[j] EXCEPT !.call = "finish"]
      [] at[j].call = "do" /\ Step(j) \in {"capture", "release"} /\ at[j].zoom < Depth ->
            [at[j] EXCEPT !.zoom = @ + 1]
      [] OTHER -> NextTurn(j)

Advance(j) == at' = [at EXCEPT ![j] = After(j)]

\* The lock that the call takes or drops.
LockAt(j) ==
    CASE Step(j) \in {"take master", "drop master"} -> MasterLock
      [] Step(j) \in {"take ingest", "drop ingest"} -> IngestLock
      [] at[j].call \in {"mutex", "leave"} -> RebuildMutex(Dir(j))
      [] OTHER -> ZoomLock(Dir(j), at[j].zoom)

Takes(j) ==
    Step(j) \in {"take master", "take ingest", "capture"} \/ at[j].call \in {"mutex", "open"}
Drops(j) ==
    Step(j) \in {"drop master", "drop ingest", "release"} \/ at[j].call \in {"close", "leave"}

\* The directory whose marker it puts up or removes.
Fenced(j) == IF Step(j) \in {"mark", "unmark"} THEN Root ELSE Dir(j)
Begins(j) == Step(j) = "mark" \/ at[j].call = "begin"
Finishes(j) == Step(j) = "unmark" \/ at[j].call = "finish"

\* The areas a write covers.
Scope(j) == IF Job[j].scope = Full THEN Areas ELSE Job[j].scope
------------------------------------------------------------------------------
NoMarker == [desc |-> <<>>, owner |-> None]

Init ==
    /\ level = [d \in Dirs |-> [k \in 0 .. Depth |-> [a \in Areas |->
                  IF d = Total THEN [l \in Layers |-> Original] ELSE Original]]]
    /\ marker = [d \in Dirs \cup {Root} |-> NoMarker]
    /\ holder = [r \in Locks |-> None]
    /\ at = [j \in Jobs |-> Enter(j, 1)]
    /\ rolled = [j \in Jobs |-> {}]
    /\ aborts = 0

AcquireLock(j) ==
    /\ Takes(j)
    /\ holder[LockAt(j)] = None
    /\ holder' = [holder EXCEPT ![LockAt(j)] = j]
    /\ Advance(j)
    /\ UNCHANGED <<level, marker, rolled, aborts>>

ReleaseLock(j) ==
    /\ Drops(j)
    /\ holder' = [holder EXCEPT ![LockAt(j)] = None]
    /\ Advance(j)
    /\ UNCHANGED <<level, marker, rolled, aborts>>

\* Broken: any incomplete transaction is adopted.
AdoptAny(d, desc) == TRUE

\* begin_owned_marker adopts an incomplete transaction only of the same
\* descriptor, with a fresh token.
MayBegin(d, desc) == marker[d] = NoMarker \/ marker[d].desc = desc

BeginFence(j) ==
    /\ Begins(j)
    /\ MayBegin(Fenced(j), Descriptor(Job[j], Fenced(j)))
    /\ marker' = [marker EXCEPT ![Fenced(j)] = [desc |-> Descriptor(Job[j], Fenced(j)), owner |-> j]]
    /\ Advance(j)
    /\ UNCHANGED <<level, holder, rolled, aborts>>

\* finish_owned_marker removes the marker only of its current owner.
FinishFence(j) ==
    /\ Finishes(j)
    /\ marker[Fenced(j)].owner = j
    /\ marker' = [marker EXCEPT ![Fenced(j)] = NoMarker]
    /\ Advance(j)
    /\ UNCHANGED <<level, holder, rolled, aborts>>

CreateLevel(j) ==
    /\ at[j].call = "create"
    /\ level' = [level EXCEPT ![Dir(j)][at[j].zoom] = [a \in Areas |-> None]]
    /\ Advance(j)
    /\ UNCHANGED <<marker, holder, rolled, aborts>>

\* What a job puts in area a: its own tiles at a layer's base, the sum of the
\* layers at the total's base, the tiles of the level above elsewhere.
NewContent(j, d, k, a) ==
    IF k > 0 THEN level[d][k - 1][a]
    ELSE IF d # Total THEN j
    ELSE IF \A l \in Layers : level[l][0][a] = None THEN None
    ELSE [l \in Layers |-> level[l][0][a]]

PutTiles(j) ==
    /\ at[j].call = "put"
    /\ \E a \in Scope(j) \ rolled[j] :
          /\ level' = [level EXCEPT ![Dir(j)][at[j].zoom][a] =
                          NewContent(j, Dir(j), at[j].zoom, a)]
          /\ IF rolled[j] \cup {a} = Scope(j)
             THEN rolled' = [rolled EXCEPT ![j] = {}] /\ Advance(j)
             ELSE rolled' = [rolled EXCEPT ![j] = @ \cup {a}] /\ UNCHANGED at
    /\ UNCHANGED <<marker, holder, aborts>>

\* reject_incomplete_store_transactions: the root's marker or a layer's.
Incomplete(ds) == \E d \in ds \cup {Root} : marker[d] # NoMarker

CheckFences(j) ==
    /\ Step(j) = "reject"
    /\ ~Incomplete(ValidationScope(Job[j].layers))
    /\ Advance(j)
    /\ UNCHANGED <<level, marker, holder, rolled, aborts>>

PublishSnapshots(j) ==
    /\ Step(j) = "publish"
    /\ Advance(j)
    /\ UNCHANGED <<level, marker, holder, rolled, aborts>>

\* The process is gone: its flocks with it, but not its markers.
Restart(j) ==
    /\ holder' = [r \in Locks |-> IF holder[r] = j THEN None ELSE holder[r]]
    /\ at' = [at EXCEPT ![j] = Enter(j, 1)]
    /\ rolled' = [rolled EXCEPT ![j] = {}]
    /\ UNCHANGED <<level, marker>>

\* A fence refuses the step and the job exits, to be retried later.
Refused(j) ==
    /\ \/ Begins(j) /\ ~MayBegin(Fenced(j), Descriptor(Job[j], Fenced(j)))
       \/ Finishes(j) /\ marker[Fenced(j)].owner # j
       \/ Step(j) = "reject" /\ Incomplete(ValidationScope(Job[j].layers))
    /\ Restart(j)
    /\ UNCHANGED aborts

Abort(j) ==
    /\ aborts < MaxAborts
    /\ at[j] # Enter(j, 1) /\ ~Done(j)
    /\ Restart(j)
    /\ aborts' = aborts + 1

Progress(j) ==
    \/ ReleaseLock(j) \/ BeginFence(j) \/ FinishFence(j) \/ CreateLevel(j)
    \/ PutTiles(j) \/ CheckFences(j) \/ PublishSnapshots(j) \/ Refused(j)

AllDone == \A j \in Jobs : Done(j)

Next ==
    \/ \E j \in Jobs : AcquireLock(j) \/ Progress(j) \/ Abort(j)
    \/ AllDone /\ UNCHANGED vars

Spec == Init /\ [][Next]_vars

\* A running process takes its next step; a lock that is free again and again
\* is taken by some retry of the job that waits for it.
FairSpec == Spec /\ \A j \in Jobs : WF_vars(Progress(j)) /\ SF_vars(AcquireLock(j))
------------------------------------------------------------------------------
(* Properties *)

Pushes == {j \in Jobs : Job[j].kind = "push"}
Repaints == {j \in Jobs : Job[j].kind = "repaint"}

TypeOK ==
    /\ \A d \in Dirs, k \in 0 .. Depth, a \in Areas :
          level[d][k][a] \in IF d = Total THEN [Layers -> Contents] \cup {None} ELSE Contents
    /\ \A d \in Dirs \cup {Root} :
          marker[d] = NoMarker \/ marker[d].owner \in Jobs
    /\ holder \in [Locks -> Jobs \cup {None}]
    /\ \A j \in Jobs :
          /\ at[j].pc \in 1 .. Len(Program(Job[j].kind))
          /\ at[j].turn \in 1 .. Len(Turns(Job[j], Step(j))) \/ at[j].turn = 1
          /\ at[j].zoom \in 0 .. Depth
    /\ rolled \in [Jobs -> SUBSET Areas]
    /\ aborts \in 0 .. MaxAborts

\* A pack publishes no half-finished cascade: in every layer it validated, each
\* level agrees with the one above it from the capture to the end of its body,
\* whoever crashed before and whichever writer, even one that takes no outer
\* lock, is running (only a Hub push may be ahead of its layer's pyramid).
PublishedCascadesWhole ==
    \A j \in Jobs : Step(j) = "publish" =>
        \A d \in ValidationScope(Job[j].layers), k \in 1 .. Depth, a \in Areas :
            (k = 1 /\ d # Total => level[d][0][a] \notin Pushes)
                => level[d][k][a] = level[d][k - 1][a]

\* A pack of the total never shows a scoped repaint in a layer that the total
\* does not include: "a crash cannot expose a half-updated store to pack/fsck".
PublishedRepaintsSummed ==
    \A j \in Jobs : Step(j) = "publish" /\ Total \in ValidationScope(Job[j].layers) =>
        \A l \in Layers, a \in Areas :
            level[l][0][a] \in Repaints /\ level[Total][0][a] # None
                => level[Total][0][a][l] = level[l][0][a]

\* When the root's marker is removed the scoped update is complete, through
\* whatever crashes and adoptions: in its layers and areas every ancestor and
\* the total hold what the base holds, a Hub push that won the hand-off of the
\* ingest lock included; save in a layer that another operation has fenced.
RepaintComplete(ls, s) ==
    \A l \in Range(ls), a \in s, k \in 0 .. Depth :
        /\ marker[l] = NoMarker => level[l][k][a] = level[l][0][a]
        /\ marker[Total] = NoMarker =>
              level[Total][k][a] # None /\ level[Total][k][a][l] = level[l][0][a]

MarkerMeansIncomplete ==
    [][ \A j \in Repaints :
          /\ marker[Root].desc = Descriptor(Job[j], Root)
          /\ marker'[Root] = NoMarker
          => RepaintComplete(Job[j].layers, Job[j].scope) ]_vars

\* With finitely many failures, retrying every operation gets all of them done:
\* no two wait for each other's locks for ever, no marker is left that nobody
\* can clear, and the store ends up publishable.
AllRecovered == <>[](AllDone /\ \A d \in Dirs \cup {Root} : marker[d] = NoMarker)
==============================================================================
