--------------------------- MODULE MCArrowReapers ---------------------------
(* Four runs of one enricher at the same row of one hex: one is killed     *)
(* with the lock, its reaper with the next lock, and two find that one.    *)
EXTENDS ArrowLock, TLC

MCRegistered == {11}
MCRank == 11 :> 3
MCYear == 11 :> 2024
MCLayer == 11 :> "roads"
MCClaim == [w \in Writer |-> 11]

\* The writers claim the same id, so nothing tells them apart.
MCSymmetry == Permutations(Writer)
=============================================================================
