------------------------------- MODULE TileMap -------------------------------
(***************************************************************************)
(* What one tile store promises its users (tile_store/mod.rs, "Crash       *)
(* contract"): a map from tiles to blobs whose puts and deletes are atomic,*)
(* which a process crash never damages, and of which a host crash may undo *)
(* or garble what was written since the last sync_all, and nothing else.   *)
(***************************************************************************)
CONSTANTS Tiles, Blobs, None, Garbage

VARIABLES map,      \* what a reader finds at each tile
          past,     \* per tile, the values the disk may still hold
          durable   \* the tiles a completed sync_all covers

vars == <<map, past, durable>>

Init ==
    /\ map = [t \in Tiles |-> None]
    /\ past = [t \in Tiles |-> {None}]
    /\ durable = {}

\* A put or a delete replaces one tile at once; until the next sync the disk
\* may hold either value.
Store(t, v) ==
    /\ map' = [map EXCEPT ![t] = v]
    /\ past' = [past EXCEPT ![t] = @ \cup {v}]
    /\ durable' = durable \ {t}

\* create() empties the store.
Clear ==
    /\ map' = [t \in Tiles |-> None]
    /\ past' = [t \in Tiles |-> {None}]
    /\ durable' = {}

\* A sync leaves one value per tile on the disk, and makes the tiles D safe.
Sync ==
    /\ UNCHANGED map
    /\ past' \in [Tiles -> SUBSET (Blobs \cup {None})]
    /\ \A t \in Tiles : past'[t] \subseteq past[t] /\ (map[t] # Garbage => map[t] \in past'[t])
    /\ \E D \in SUBSET Tiles :
          /\ durable' = durable \cup D
          /\ \A t \in D : map[t] = Garbage \/ past'[t] = {map[t]}

HostCrash ==
    /\ past' \in [Tiles -> {{v} : v \in Blobs \cup {None}}]
    /\ map' \in [Tiles -> Blobs \cup {None, Garbage}]
    /\ durable' \in SUBSET durable
    /\ \A t \in Tiles :
          /\ past'[t] \subseteq past[t]
          /\ map'[t] \in past'[t] \cup {Garbage}
          /\ t \in durable => map'[t] = map[t]

Next ==
    \/ \E t \in Tiles, v \in Blobs \cup {None} : Store(t, v)
    \/ Clear
    \/ Sync
    \/ HostCrash

Spec == Init /\ [][Next]_vars
==============================================================================
