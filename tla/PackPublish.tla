----------------------------- MODULE PackPublish -----------------------------
(***************************************************************************)
(* Publishing a store as immutable archives: tile-store-pack stages one    *)
(* archive per layer, exposes them under a transaction marker and flips    *)
(* current.json; environments are pinned to what it named; tile-store-gc   *)
(* removes what no manifest names.  Each of these holds .pack.lock from its*)
(* first look at the directory to its last change, so at most one runs,    *)
(* and may die after any step.                                             *)
(*                                                                         *)
(* An archive's content is the number of the pack that staged it (its      *)
(* inode, size and digest, which the manifest's proof records).            *)
(***************************************************************************)
EXTENDS Naturals, Sequences, SequencesExt

CONSTANTS
    Layers,         \* PUBLISHED_LAYERS
    Builds,         \* build ids
    Envs,           \* environments with a current.{env}.json
    HistoryKeep,    \* --history-keep
    MaxPacks,       \* bound on the packs started
    MaxPromotions,  \* bound on the promotions of one environment
    None

ASSUME PackAssumption ==
    /\ HistoryKeep \in Nat
    /\ MaxPacks \in Nat
    /\ MaxPromotions \in Nat

File == [layer : Layers, build : Builds]

ASSUME NoneAssumption ==
    None \notin Nat \cup [Layers -> Nat] \cup [Layers -> [file : File, proof : Nat]]

Named(l, b) == [layer |-> l, build |-> b]
Packs == 1 .. MaxPacks

VARIABLES
    archives,   \* per file, the content under its public name, or None
    staged,     \* per file, the content under its hidden staging name, or None
    markers,    \* per build, the archives its incomplete transaction lists
    current,    \* current.json: per layer, a file and its proof
    pins,       \* current.{env}.json of each environment
    history,    \* history/{env}/, oldest first
    job,        \* what the holder of .pack.lock is doing, or None
    packs,      \* how many packs have started
    young,      \* files whose mtime is within --min-age-secs
    recent,     \* ghost: files some environment served within --min-age-secs
    committed   \* ghost: files current.json ever named

dirVars == <<archives, staged, markers, current>>
envVars == <<pins, history>>
ghostVars == <<young, recent, committed>>
vars == <<archives, staged, markers, current, pins, history, job, packs, young, recent, committed>>

FilesOf(m) == IF m = None THEN {} ELSE {m[l].file : l \in Layers}
Valid(m, l) == archives[m[l].file] = m[l].proof     \* validate_manifest_entry
JobFiles == {Named(l, job.build) : l \in job.layers}

Init ==
    /\ archives = [f \in File |-> None]
    /\ staged = [f \in File |-> None]
    /\ markers = [b \in Builds |-> {}]
    /\ current = None
    /\ pins = [e \in Envs |-> None]
    /\ history = [e \in Envs |-> <<>>]
    /\ job = None
    /\ packs = 0
    /\ young = {} /\ recent = {} /\ committed = {}

At(op, pc) == job # None /\ job.op = op /\ job.pc = pc
Goto(pc, todo) == job' = [job EXCEPT !.pc = pc, !.todo = todo]
------------------------------------------------------------------------------
(* Transaction recovery *)

\* Broken: recovery always takes the finals back.
NeverCommitted(b) == FALSE

\* current_manifest_references_all
Committed(b) == markers[b] \subseteq FilesOf(current)

\* recover_pack_transaction: the finals go only if the manifest never named
\* them all; the staging names go in any case.
Leftover(b) ==
    {f \in markers[b] : staged[f] # None \/ (~Committed(b) /\ archives[f] # None)}

RemoveLeftover(b) ==
    \E f \in Leftover(b) :
        /\ staged' = [staged EXCEPT ![f] = None]
        /\ archives' = IF Committed(b) THEN archives ELSE [archives EXCEPT ![f] = None]
        /\ UNCHANGED <<markers, current>>

RemoveMarker(b) ==
    /\ markers[b] # {} /\ Leftover(b) = {}
    /\ markers' = [markers EXCEPT ![b] = {}]
    /\ UNCHANGED <<archives, staged, current>>
------------------------------------------------------------------------------
(* tile-store-pack *)

StartPack(b, ls) ==
    /\ job = None
    /\ packs < MaxPacks
    /\ packs' = packs + 1
    /\ job' = [op |-> "pack", pc |-> "recover", build |-> b, layers |-> ls, todo |-> {}]
    /\ UNCHANGED <<dirVars, envVars, ghostVars>>

RecoverTransaction ==
    /\ At("pack", "recover")
    /\ \E b \in Builds : RemoveLeftover(b) \/ RemoveMarker(b)
    /\ UNCHANGED <<envVars, job, packs, ghostVars>>

\* Every marker is gone: clean orphan staging files, and check that a partial
\* pack can merge over what it will retain.
Prepare ==
    /\ At("pack", "recover")
    /\ \A b \in Builds : markers[b] = {}
    /\ staged' = [f \in File |-> None]
    /\ IF job.layers = Layers \/ (current # None /\ \A l \in Layers \ job.layers : Valid(current, l))
       THEN Goto("stage", job.layers)
       ELSE job' = None
    /\ UNCHANGED <<archives, markers, current, envVars, packs, ghostVars>>

\* A guard dropped before publication removes its staging file.
DropStaged == staged' = [f \in File |-> IF f \in JobFiles THEN None ELSE staged[f]]

StageLayer(l) ==
    LET f == Named(l, job.build) IN
    /\ At("pack", "stage") /\ l \in job.todo
    /\ archives[f] = None
    /\ staged' = [staged EXCEPT ![f] = packs]
    /\ young' = young \cup {f}
    /\ Goto("stage", job.todo \ {l})
    /\ UNCHANGED <<archives, markers, current, envVars, packs, recent, committed>>

\* The build's archive exists already, or reading or writing fails.
StageFails ==
    /\ At("pack", "stage")
    /\ DropStaged
    /\ job' = None
    /\ UNCHANGED <<archives, markers, current, envVars, packs, ghostVars>>

\* Broken: the archives are exposed without a marker.
BeginUnmarked ==
    /\ At("pack", "stage") /\ job.todo = {}
    /\ markers[job.build] = {}
    /\ Goto("publish", job.layers)
    /\ UNCHANGED <<dirVars, envVars, packs, ghostVars>>

BeginTransaction ==
    /\ At("pack", "stage") /\ job.todo = {}
    /\ markers[job.build] = {}
    /\ markers' = [markers EXCEPT ![job.build] = JobFiles]
    /\ Goto("publish", job.layers)
    /\ UNCHANGED <<archives, staged, current, envVars, packs, ghostVars>>

\* renameat2(RENAME_NOREPLACE)
PublishArchive(l) ==
    LET f == Named(l, job.build) IN
    /\ At("pack", "publish") /\ l \in job.todo
    /\ archives[f] = None
    /\ archives' = [archives EXCEPT ![f] = staged[f]]
    /\ staged' = [staged EXCEPT ![f] = None]
    /\ Goto("publish", job.todo \ {l})
    /\ UNCHANGED <<markers, current, envVars, packs, ghostVars>>

\* write_manifest: merge over the previous layers, recheck every archive, flip.
FlipManifest ==
    LET m == [l \in Layers |->
                IF l \in job.layers
                THEN [file |-> Named(l, job.build), proof |-> packs]
                ELSE current[l]]
    IN
    /\ At("pack", "publish") /\ job.todo = {}
    /\ \A l \in Layers : Valid(m, l)
    /\ current' = m
    /\ committed' = committed \cup JobFiles
    /\ Goto("complete", {})
    /\ UNCHANGED <<archives, staged, markers, envVars, packs, young, recent>>

\* Any error between the marker and its removal: recover in the process.
PublishFails ==
    /\ At("pack", "publish") \/ At("pack", "complete")
    /\ DropStaged
    /\ Goto("undo", {})
    /\ UNCHANGED <<archives, markers, current, envVars, packs, ghostVars>>

Undo ==
    /\ At("pack", "undo")
    /\ \/ RemoveLeftover(job.build) /\ UNCHANGED job
       \/ RemoveMarker(job.build) /\ job' = None
    /\ UNCHANGED <<envVars, packs, ghostVars>>

CompleteTransaction ==
    /\ At("pack", "complete")
    /\ markers' = [markers EXCEPT ![job.build] = {}]
    /\ job' = None
    /\ UNCHANGED <<archives, staged, current, envVars, packs, ghostVars>>
------------------------------------------------------------------------------
(* tile-store-gc *)

Newest(h) == {h[i] : i \in {n \in DOMAIN h : n + HistoryKeep > Len(h)}}

\* Broken: retention by the pointers alone.
KeepPointersOnly == FilesOf(current) \cup (UNION {FilesOf(pins[e]) : e \in Envs})

\* An environment's history counts only while its pin exists.
Keep ==
    FilesOf(current)
        \cup (UNION {FilesOf(pins[e]) : e \in Envs})
        \cup (UNION {FilesOf(m) : m \in UNION {Newest(history[e]) : e \in {d \in Envs : pins[d] # None}}})

Collectible == {f \in File : archives[f] # None /\ f \notin Keep /\ f \notin young}

StartGC ==
    /\ job = None
    /\ current # None
    /\ Collectible # {}
    /\ job' = [op |-> "gc", pc |-> "sweep", todo |-> Collectible]
    /\ UNCHANGED <<dirVars, envVars, packs, ghostVars>>

\* A removal that fails is left to the next run.
Sweep(f) ==
    /\ At("gc", "sweep") /\ f \in job.todo
    /\ archives' \in {archives, [archives EXCEPT ![f] = None]}
    /\ job' = IF job.todo = {f} THEN None ELSE [job EXCEPT !.todo = @ \ {f}]
    /\ UNCHANGED <<staged, markers, current, envVars, packs, ghostVars>>
------------------------------------------------------------------------------
(* worldctl promote and rollback, as tile-store-gc describes them, and time *)

Promote(e, m) ==
    /\ job = None
    /\ Len(history[e]) < MaxPromotions
    /\ \A l \in Layers : Valid(m, l)
    /\ history' = [history EXCEPT ![e] = Append(@, m)]
    /\ pins' = [pins EXCEPT ![e] = m]
    /\ recent' = recent \cup FilesOf(pins[e])
    /\ UNCHANGED <<dirVars, job, packs, young, committed>>

\* --min-age-secs pass.
AgePasses ==
    /\ young # {} \/ recent # {}
    /\ young' = {}
    /\ recent' = {}
    /\ UNCHANGED <<dirVars, envVars, job, packs, committed>>

Crash ==
    /\ job # None
    /\ job' = None
    /\ UNCHANGED <<dirVars, envVars, packs, ghostVars>>

Next ==
    \/ \E b \in Builds, ls \in (SUBSET Layers) \ {{}} : StartPack(b, ls)
    \/ RecoverTransaction \/ Prepare
    \/ \E l \in Layers : StageLayer(l) \/ PublishArchive(l)
    \/ StageFails \/ BeginTransaction \/ FlipManifest \/ PublishFails \/ Undo
    \/ CompleteTransaction
    \/ StartGC
    \/ \E f \in File : Sweep(f)
    \/ \E e \in Envs, m \in {current} \ {None} : Promote(e, m)
    \/ \E e \in Envs : \E m \in Range(history[e]) : Promote(e, m)
    \/ AgePasses
    \/ Crash

Spec == Init /\ [][Next]_vars
------------------------------------------------------------------------------
(* Properties *)

Manifest == [Layers -> [file : File, proof : Packs]]

TypeOK ==
    /\ archives \in [File -> Packs \cup {None}]
    /\ staged \in [File -> Packs \cup {None}]
    /\ markers \in [Builds -> SUBSET File]
    /\ current \in Manifest \cup {None}
    /\ pins \in [Envs -> Manifest \cup {None}]
    /\ \A e \in Envs : Len(history[e]) <= MaxPromotions /\ Range(history[e]) \subseteq Manifest
    /\ packs \in 0 .. MaxPacks
    /\ young \cup recent \cup committed \subseteq File

\* Readers see whole publishes: whatever crashes and however often a build is
\* retried, the head and every pin show for each layer the very archive that
\* was staged and proved for them, no manifest ever names a missing or foreign
\* file, and a publish of several layers appears at once.
View(m) == [l \in Layers |-> IF Valid(m, l) THEN m[l].proof ELSE None]
Catalogue == INSTANCE TileCatalogue WITH
    Publishes <- Packs,
    head <- IF current = None THEN None ELSE View(current),
    pins <- [e \in Envs |-> IF pins[e] = None THEN None ELSE View(pins[e])],
    shown <- [e \in Envs |-> {[l \in Layers |-> m[l].proof] : m \in Range(history[e])}]

ReadersSeeWholePublishes == Catalogue!Spec

\* A rollback to one of the newest promotions of an environment always finds
\* its archives, whatever was packed and collected since.
RollbackTargetsKept ==
    \A e \in Envs : \A m \in Newest(history[e]) : \A l \in Layers : Valid(m, l)

\* A crashed pack leaves no public archive that nothing accounts for: one that
\* no manifest ever named is listed by a marker, from which the next pack will
\* recover it, so it cannot block the retry of its build for ever.
OrphansAreMarked ==
    \A f \in File : archives[f] # None => f \in committed \cup markers[f.build]

\* tile-store-gc's header: a browser may request an archive for some 20 minutes
\* after every manifest stops naming it, and the minimum age is "a comfortable
\* margin" for that: what an environment served less than that age ago stays.
\* The code does not keep this: PackGrace.cfg shows how.
GraceAfterUnnamed ==
    [][\A f \in recent : archives[f] # None => archives'[f] = archives[f]]_vars
==============================================================================
