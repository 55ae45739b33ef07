----------------------------- MODULE MCTileStore -----------------------------
(* Instances of TileStore for TLC: two blobs, one and two bytes long. *)
EXTENDS TileStore, TLC

CONSTANTS b1, b2

MCBlobLen == (b1 :> 1) @@ (b2 :> 2)
Symmetry == Permutations(Procs) \cup Permutations(Threads) \cup Permutations(Tiles)

\* What a reader gets depends on the page cache alone.  So readers rest once a sync has
\* made something durable, and through a host crash, which only ends them: the states left
\* out differ in `reader` from states that are kept, or in what is on disk under a reader.
SomeoneReads == \E r \in Readers : reader[r] # NotReading
MCNext ==
    \/ StoreStep /\ (SomeoneReads => durLen' = 0)
    \/ hostCrashes = 0 /\ durLen = 0 /\ ReadStep
    \/ ~SomeoneReads /\ HostCrash
MCSpec == Init /\ [][MCNext]_vars
==============================================================================
