---------------------------- MODULE MCArrowLock ----------------------------
(* A registry of three road sources (a national proxy, a national census   *)
(* and a newer one of the same rank) and three enrichers on one hex.       *)
EXTENDS ArrowLock, TLC

CONSTANTS w1, w2, w3

MCWriter == {w1, w2, w3}
MCRegistered == {11, 12, 13}
MCRank == 11 :> 3 @@ 12 :> 6 @@ 13 :> 6
MCYear == 11 :> 2024 @@ 12 :> 2023 @@ 13 :> 2020
MCLayer == [i \in MCRegistered |-> "roads"]
MCClaim == w1 :> 11 @@ w2 :> 12 @@ w3 :> 13
MCPatient == {w1, w2}
=============================================================================
