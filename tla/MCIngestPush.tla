----------------------------- MODULE MCIngestPush -----------------------------
(* Instances of IngestPush for TLC: two layers, a box of one tile, a tile
   outside of it, and one beyond the grid. *)
EXTENDS IngestPush

CONSTANTS t1, t2, off

MCRebuilds == {
    [kind |-> "bbox", layers |-> Layers, box |-> {t1}],
    [kind |-> "scope", layers |-> {1}, box |-> {t1}],
    [kind |-> "plain", layers |-> {2}, box |-> {}]}
==============================================================================
