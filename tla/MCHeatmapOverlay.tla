------------------------- MODULE MCHeatmapOverlay -------------------------
(* The instance of HeatmapOverlay for TLC is given by its configuration:   *)
(* one source to toggle, one over-zoomed range and none, one tile with two *)
(* requests, and two polls that cross while two generations are promoted.  *)
EXTENDS HeatmapOverlay
===========================================================================
