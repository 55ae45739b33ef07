---------------------------- MODULE MCTileLoader ----------------------------
(* The instance of TileLoader for TLC is given by its configurations alone.  *)
EXTENDS TileLoader
=============================================================================
