---------------------------- MODULE MCRoadChain ----------------------------
(***************************************************************************)
(* A road R of four rows a-b-c-d-e; at c a lane (row 5) and a street       *)
(* beyond it (row 6).  Row 4 carries a posted speed.                       *)
(***************************************************************************)
EXTENDS RoadChain

\* 1 continental, 2 national, 3 city, 4 service tree, 5 fill, 6 taper.
MCRegistered == 1 .. 6
MCRank == <<5, 6, 7, 2, 2, 1>>
MCYear == <<2023, 2024, 2024, 2026, 2026, 2026>>
MCLayer == [i \in 1 .. 6 |-> "roads"]

MCClass == <<3, 3, 3, 3, 9, 5>>
MCRef == <<"R", "R", "R", "R", "", "">>
MCEnds == << <<"a", "b">>, <<"b", "c">>, <<"c", "d">>, <<"d", "e">>, <<"c", "f">>, <<"f", "g">> >>
MCSpeed == <<50, 50, 50, 90, 50, 30>>
MCDefault == [c \in 0 .. 12 |-> CASE c = 3 -> 5 [] c = 9 -> 3 [] OTHER -> 2]
MCTrips == <<0, 0, 0, 0, 2, 7>>
MCCoverage == [d \in 1 .. 6 |-> CASE d = 4 -> {5, 6, 7, 9} [] d = 5 -> 0 .. 4 \cup 10 .. 12
                                  [] d = 6 -> {2, 3, 4, 9} [] OTHER -> {2, 3, 4, 9}]
MCAbroad == [d \in 1 .. 6 |-> IF d = 2 THEN {4} ELSE {}]

MCCensuses == <<1, 2, 3>>
MCFeeds == << {<< >>, <<200>>},
              {<< >>, <<0>>, (1 :> 100) @@ (4 :> 90)},
              {<< >>, (4 :> 70), (4 :> 70) @@ (5 :> 60)} >>

MCLegacy ==
    { [s \in Seg |-> Blank],
      [s \in Seg |-> CASE s = 4 -> [src |-> 2, flow |-> 90, ramp |-> FALSE]
                       [] s = 2 -> [src |-> 1, flow |-> 0, ramp |-> FALSE]
                       [] OTHER -> Blank] }
=============================================================================
