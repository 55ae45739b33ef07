------------------------------ MODULE IngestPush ------------------------------
(***************************************************************************)
(* tile-store-ingest: one run imports a staged tree of tiles into the base *)
(* stores of several layers, first checking all of it, then writing the    *)
(* tiles of one layer after the other in parallel, and removing what the   *)
(* rebuild found silent.  A run may fail or die after any step; then its   *)
(* rebuild is run again, as a new attempt with a staging of its own.       *)
(*                                                                         *)
(* A tile holds the number of the attempt that wrote it.  One zoom is      *)
(* modelled, so a (layer, zoom) group is a layer.                          *)
(***************************************************************************)
EXTENDS Naturals

CONSTANTS
    NLayers,    \* the layers, numbered in the order of their names
    Tiles,      \* coordinates that a staged path may name
    OffGrid,    \* those of them that the zoom does not have
    Rebuilds,   \* the rebuilds asked for: [kind, layers, box]
    MaxAttempts,\* bound on the runs, retries included
    None

Layers == 1 .. NLayers
Attempts == 1 .. MaxAttempts

\* "bbox" is the scoped repaint's --rebuilt-bbox, "scope" the Hub's exact
\* --rebuilt-scope, "plain" a run with neither.
ASSUME IngestAssumption ==
    /\ NLayers \in Nat
    /\ MaxAttempts \in Nat
    /\ OffGrid \subseteq Tiles
    /\ Rebuilds \subseteq [kind : {"bbox", "scope", "plain"}, layers : SUBSET Layers,
                           box : SUBSET (Tiles \ OffGrid)]
    /\ None \notin Attempts

VARIABLES
    files,      \* per layer, its store's pair of files: "none", "partial" or "whole"
    tiles,      \* per layer and tile, the attempt whose bytes it holds, or None
    run,        \* per attempt, its rebuild and its staged tree, or None
    pc,         \* per attempt, where it stands
    left,       \* the groups that the run under the lock has not finished
    todo        \* the tiles that its current step still has to write or remove

vars == <<files, tiles, run, pc, left, todo>>

Init ==
    /\ files = [l \in Layers |-> "none"]
    /\ tiles = [l \in Layers |-> [t \in Tiles |-> None]]
    /\ run = [n \in Attempts |-> None]
    /\ pc = [n \in Attempts |-> "unstarted"]
    /\ left = {}
    /\ todo = {}

Ended == {"unstarted", "staged", "done", "refused", "dead"}
Locked == \E n \in Attempts : pc[n] \notin Ended        \* .ingest.lock is held
------------------------------------------------------------------------------
(* Staging *)

\* The zoom directories that the script itself makes for the layers asked for:
\* it names them z12, which the ingest does not take for a zoom.
Declared(rebuild) == {}

\* Where a rebuild may stage tiles: the repaint's painters in the box, a
\* worker's push anywhere.
Paintable(rebuild) ==
    CASE rebuild.kind = "bbox" -> rebuild.layers \X rebuild.box
      [] rebuild.kind = "scope" -> Layers \X Tiles
      [] rebuild.kind = "plain" -> rebuild.layers \X Tiles

\* Painters write a tile only if it is not silent, and the first of a layer
\* makes the layer's zoom directory.  A worker's push may hold a corrupt blob.
Stage(n, rebuild, loud, corrupt) ==
    /\ pc[n] = "unstarted"
    /\ \A k \in Attempts : k < n => pc[k] # "unstarted"
    /\ rebuild.kind = "bbox" => corrupt = {}
    /\ run' = [run EXCEPT ![n] =
          [rebuild |-> rebuild, loud |-> loud, corrupt |-> corrupt,
           groups |-> {p[1] : p \in loud} \cup Declared(rebuild)
                          \cup IF rebuild.kind = "scope" THEN rebuild.layers ELSE {}]]
    /\ pc' = [pc EXCEPT ![n] = "staged"]
    /\ UNCHANGED <<files, tiles, left, todo>>

Staged(n, l) == {t \in Tiles : <<l, t>> \in run[n].loud}

\* A bbox is declared for every layer staged, a scope for the layers it lists.
Bounded(n, l) ==
    \/ run[n].rebuild.kind = "bbox"
    \/ run[n].rebuild.kind = "scope" /\ l \in run[n].rebuild.layers
------------------------------------------------------------------------------
(* The run *)

\* preflight_ingest: every blob decodes and none lies outside the declared
\* scope; every destination is a store or nothing at all.
ValidGroup(n, l) ==
    /\ \A t \in Staged(n, l) :
          /\ <<l, t>> \notin run[n].corrupt
          /\ Bounded(n, l) => t \in run[n].rebuild.box
    /\ files[l] # "partial"

\* Broken: checks the first group only.
PreflightFirst(n) ==
    /\ run[n].groups # {}
    /\ \E l \in run[n].groups : (\A k \in run[n].groups : l <= k) /\ ValidGroup(n, l)

Preflight(n) == run[n].groups # {} /\ \A l \in run[n].groups : ValidGroup(n, l)

Goto(n, label) == pc' = [pc EXCEPT ![n] = label]

Start(n) ==
    /\ pc[n] = "staged" /\ ~Locked
    /\ IF Preflight(n)
       THEN Goto(n, "group") /\ left' = run[n].groups
       ELSE Goto(n, "refused") /\ UNCHANGED left
    /\ UNCHANGED <<files, tiles, run, todo>>

Group(l) == l \in left /\ \A k \in left : l <= k

NextGroup(n, l) ==
    /\ left' = left \ {l}
    /\ todo' = {}
    /\ Goto(n, IF left = {l} THEN "done" ELSE "group")

\* Broken: skips every layer with nothing staged.
SkipSilentGroup(n, l) ==
    /\ pc[n] = "group" /\ Group(l)
    /\ Staged(n, l) = {}
    /\ NextGroup(n, l)
    /\ UNCHANGED <<files, tiles, run>>

\* A layer that has no store yet and nothing staged has nothing to remove.
SkipGroup(n, l) ==
    /\ pc[n] = "group" /\ Group(l)
    /\ files[l] = "none" /\ Staged(n, l) = {}
    /\ NextGroup(n, l)
    /\ UNCHANGED <<files, tiles, run>>

OpenStore(n, l) ==
    /\ pc[n] = "group" /\ Group(l)
    /\ files[l] = "whole"
    /\ todo' = Staged(n, l)
    /\ Goto(n, "write")
    /\ UNCHANGED <<files, tiles, run, left>>

\* TileStore::create makes the index, then the data file.
CreateIndex(n, l) ==
    /\ pc[n] = "group" /\ Group(l)
    /\ files[l] = "none" /\ Staged(n, l) # {}
    /\ files' = [files EXCEPT ![l] = "partial"]
    /\ Goto(n, "create")
    /\ UNCHANGED <<tiles, run, left, todo>>

CreateData(n, l) ==
    /\ pc[n] = "create" /\ Group(l)
    /\ files' = [files EXCEPT ![l] = "whole"]
    /\ todo' = Staged(n, l)
    /\ Goto(n, "write")
    /\ UNCHANGED <<tiles, run, left>>

WriteTile(n, l, t) ==
    /\ pc[n] = "write" /\ Group(l) /\ t \in todo
    /\ <<l, t>> \notin run[n].corrupt /\ t \notin OffGrid
    /\ tiles' = [tiles EXCEPT ![l][t] = n]
    /\ todo' = todo \ {t}
    /\ UNCHANGED <<files, run, pc, left>>

\* The blob is decoded again, and put_blob refuses a tile that the zoom does
\* not have; other threads have written their tiles by then.
WriteRefused(n, l, t) ==
    /\ pc[n] = "write" /\ Group(l) /\ t \in todo
    /\ <<l, t>> \in run[n].corrupt \/ t \in OffGrid
    /\ Goto(n, "refused")
    /\ left' = {} /\ todo' = {}
    /\ UNCHANGED <<files, tiles, run>>

\* Broken: sweeps the whole store.
WentSilentAnywhere(n, l) == {t \in Tiles \ Staged(n, l) : tiles[l][t] # None}

\* In the box or scope of the rebuild, what is in the store and was not staged.
WentSilent(n, l) ==
    {t \in run[n].rebuild.box \ Staged(n, l) : Bounded(n, l) /\ tiles[l][t] # None}

FindSilent(n, l) ==
    /\ pc[n] = "write" /\ Group(l) /\ todo = {}
    /\ todo' = WentSilent(n, l)
    /\ Goto(n, "sweep")
    /\ UNCHANGED <<files, tiles, run, left>>

Tombstone(n, l, t) ==
    /\ pc[n] = "sweep" /\ Group(l) /\ t \in todo
    /\ tiles' = [tiles EXCEPT ![l][t] = None]
    /\ todo' = todo \ {t}
    /\ UNCHANGED <<files, run, pc, left>>

FinishGroup(n, l) ==
    /\ pc[n] = "sweep" /\ Group(l) /\ todo = {}
    /\ NextGroup(n, l)
    /\ UNCHANGED <<files, tiles, run>>

\* An error of the file system, or the end of the process.
Die(n) ==
    /\ pc[n] \notin Ended
    /\ Goto(n, "dead")
    /\ left' = {} /\ todo' = {}
    /\ UNCHANGED <<files, tiles, run>>

Step(n) ==
    \/ \E rebuild \in Rebuilds : \E loud \in SUBSET Paintable(rebuild) :
          \E corrupt \in {{}} \cup {{p} : p \in loud} : Stage(n, rebuild, loud, corrupt)
    \/ Start(n)
    \/ \E l \in Layers :
          \/ SkipGroup(n, l) \/ OpenStore(n, l) \/ CreateIndex(n, l) \/ CreateData(n, l)
          \/ \E t \in Tiles :
                WriteTile(n, l, t) \/ WriteRefused(n, l, t) \/ Tombstone(n, l, t)
          \/ FindSilent(n, l) \/ FinishGroup(n, l)
    \/ Die(n)

Next == \E n \in Attempts : Step(n)

Spec == Init /\ [][Next]_vars
------------------------------------------------------------------------------
(* Properties *)

Trees == [rebuild : Rebuilds, loud : SUBSET (Layers \X Tiles),
          corrupt : SUBSET (Layers \X Tiles), groups : SUBSET Layers]

TypeOK ==
    /\ files \in [Layers -> {"none", "partial", "whole"}]
    /\ tiles \in [Layers -> [Tiles -> Attempts \cup {None}]]
    /\ run \in [Attempts -> Trees \cup {None}]
    /\ \A n \in Attempts : pc[n] # "unstarted" => run[n] \in Trees
    /\ pc \in [Attempts -> Ended \cup {"group", "create", "write", "sweep"}]
    /\ left \subseteq Layers
    /\ todo \subseteq Tiles

\* A run that ends well has brought every group to what its rebuild computed,
\* whatever earlier runs left half done: the staged tiles are there and the
\* rest of the box or scope is silent.
Finishes(n) == pc[n] # "done" /\ pc'[n] = "done"
Imported(n, l, held) ==
    /\ \A t \in Staged(n, l) : held[l][t] = n
    /\ Bounded(n, l) => \A t \in run[n].rebuild.box \ Staged(n, l) : held[l][t] = None

IngestedAsStaged ==
    [][ \A n \in Attempts : Finishes(n) => \A l \in run[n].groups : Imported(n, l, tiles') ]_vars

\* Tiles outside of the box or scope of the running rebuild stay as they are,
\* whatever paths the push holds and wherever it fails; in a layer for which
\* none is declared all but the staged tiles do.
OnlyTheRebuilt ==
    [][ \A l \in Layers, t \in Tiles : tiles'[l][t] # tiles[l][t] =>
          \E n \in Attempts :
              /\ pc[n] \notin Ended
              /\ t \in IF Bounded(n, l) THEN run[n].rebuild.box ELSE Staged(n, l) ]_vars

\* preflight_ingest: "a static corrupt push can never leave a prefix committed".
CorruptWritesNothing ==
    \A n \in Attempts : pc[n] # "unstarted" /\ run[n].corrupt # {} =>
        \A l \in Layers, t \in Tiles : tiles[l][t] # n

\* build-heatmap.sh: a requested layer that was rebuilt and is wholly silent in
\* the box loses its old loud tiles there.
SilentLayersTombstoned ==
    [][ \A n \in Attempts : Finishes(n) /\ run[n].rebuild.kind = "bbox" =>
          \A l \in run[n].rebuild.layers : Staged(n, l) = {} =>
              \A t \in run[n].rebuild.box : tiles'[l][t] = None ]_vars

\* tile_store/mod.rs: after a crash "every producer (transcode, combine, hub
\* pushes) is re-runnable": a push is refused only for what it has staged.
\* The code does not keep this: IngestRetry.cfg shows how.
PushesRerunnable ==
    [][ \A n \in Attempts : pc[n] = "staged" /\ pc'[n] = "refused" =>
          \/ run[n].groups = {}
          \/ run[n].corrupt # {}
          \/ \E p \in run[n].loud : Bounded(n, p[1]) /\ p[2] \notin run[n].rebuild.box ]_vars
==============================================================================
