--------------------------- MODULE MCChainRunner ---------------------------
(* Two manifests, the second with a new census before the one that needs  *)
(* it, and a floored feed in front of both.                                *)
EXTENDS ChainRunner

MCPlan == <<<<"feed", "census", "gate">>,
            <<"feed", "new", "census", "gate">>>>
MCPhaseOf == [s \in Step |-> IF s = "gate" THEN "gate" ELSE "national"]
=============================================================================
