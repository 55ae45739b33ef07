------------------------------ MODULE Sources ------------------------------
(***************************************************************************)
(* The provenance registry (pipeline/lib/sources.ts) and the rule that     *)
(* decides whether a write stamped with one dataset id replaces the id     *)
(* already on a row.  Every enrichment layer (roads, railways, buildings,  *)
(* industrial) writes its rows behind this rule.                           *)
(***************************************************************************)
EXTENDS Integers, FiniteSets

CONSTANTS
    Registered,     \* the ids of DATASETS, the sentinel 0 aside
    Rank,           \* Rank[id]: PROVENANCE_RANK of the entry, 1 (baseline) to 7
    Year,           \* Year[id]: the entry's year, 0 for null
    Layer           \* Layer[id]: "roads", "railways", "buildings", ...

ASSUME RegistryAssumption ==
    /\ Registered \subseteq Nat \ {0}
    /\ Rank \in [Registered -> 1 .. 7]
    /\ Year \in [Registered -> Nat]
    /\ DOMAIN Layer = Registered

\* Every entry of the registry but the sentinel carries a year.  The rule is
\* a total order because of it: with a null year among entries of one rank
\* three ids can beat each other in a circle.
ASSUME YearsAssumption == \A i \in Registered : Year[i] # 0

Unspecified == 0

\* Higher rank, then newer year where both are known, then higher id.
Outranks(new, old) ==
    \/ Rank[new] > Rank[old]
    \/ /\ Rank[new] = Rank[old]
       /\ \/ /\ Year[new] # 0 /\ Year[old] # 0
             /\ Year[new] > Year[old]
          \/ /\ Year[new] = 0 \/ Year[old] = 0 \/ Year[new] = Year[old]
             /\ new > old

ShouldOverwrite(old, new) ==
    \/ old = Unspecified
    \/ old = new
    \/ old \notin Registered \/ new \notin Registered
    \/ Outranks(new, old)

\* PROVENANCE_RANK >= global-measured.
IsMeasured(id) == id \in Registered /\ Rank[id] >= 4

=============================================================================
