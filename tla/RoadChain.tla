----------------------------- MODULE RoadChain -----------------------------
(***************************************************************************)
(* The road phases of the enrichment chain over one hex                    *)
(* (pipeline/chain/manifest.ts): heals, continental prior, national and    *)
(* city censuses, service tree, continuity fill, taper; run after run,     *)
(* while feeds are refreshed and extraction rules change between runs and  *)
(* a census may be run by hand in the middle of one.  Every write is one   *)
(* step, under the file's lock (ArrowLock); the fill and the taper plan on *)
(* a table they read before they take it.                                  *)
(***************************************************************************)
EXTENDS RoadLayer

CONSTANTS
    Censuses,       \* the measured datasets, in chain order
    Retracting,     \* those whose enricher passes a retract arm
    Feeds,          \* Feeds[d]: the match results a refresh may bring
    Droppable,      \* local rows that may turn out to be tunnels or closed
    Legacy,         \* the tables the first run may find
    MaxChanges,     \* bound: refreshes of feeds and rules
    MaxStrays       \* bound: censuses run by hand

ASSUME ChainAssumption ==
    /\ Censuses \in Seq(Registered) /\ Retracting \subseteq Range(Censuses)
    /\ {TreeId, FillId, TaperId} \subseteq Registered
    /\ \A d \in Range(Censuses) : IsMeasured(d)
    /\ ~IsMeasured(TreeId) /\ ~IsMeasured(FillId) /\ ~IsMeasured(TaperId)
    /\ TreeId # FillId /\ TreeId # TaperId /\ FillId # TaperId
    /\ Outranks(TreeId, TaperId)                       \* heuristic over baseline
    /\ \A s \in Seg : LocalMotor(s) => Class[s] \notin Coverage[FillId]
    /\ Legacy \subseteq Tables

\* Extraction writes no ramp and no vehicles, and a feed counts vehicles.
ASSUME InputAssumption ==
    /\ \A t \in Legacy : \A s \in Seg : ~t[s].ramp /\ (t[s].src = Unspecified => t[s] = Blank)
    /\ \A d \in Range(Censuses) : \A counts \in Feeds[d] : counts \in [DOMAIN counts -> Nat]

VARIABLES
    road,       \* the table on disk
    feed,       \* feed[d]: the vehicles d counts on the rows it matches
    dropped,    \* the rows the extraction rules drop
    at,         \* the next pass of the running chain
    read,       \* the table the fill or the taper plans on
    quiet,      \* whole runs finished since anything else happened, up to 2
    changes, strays

vars == <<road, feed, dropped, at, read, quiet, changes, strays>>
world == <<feed, dropped, changes, strays>>

\* The passes of a run by number, 0 between runs; the censuses follow the
\* two heals.
Idle == 0
BleedPass == 1
ZeroPass == 2
TreePass == Len(Censuses) + 3
PlanFillPass == TreePass + 1
FillPass == TreePass + 2
PlanTaperPass == TreePass + 3
TaperPass == TreePass + 4

Init ==
    /\ road \in Legacy
    /\ feed = [d \in Range(Censuses) |-> << >>]
    /\ dropped = {}
    /\ at = Idle /\ quiet = 0
    /\ read = << >>
    /\ changes = 0 /\ strays = 0

--------------------------------------------------------------------------
(* One run. *)

StartChain ==
    /\ at = Idle /\ quiet < 2
    /\ at' = BleedPass
    /\ UNCHANGED <<road, read, quiet, world>>

Pass(p, t) ==
    /\ at = p /\ at' = p + 1 /\ road' = t
    /\ UNCHANGED <<quiet, world>>

HealBleed == Pass(BleedPass, HealCountryBleed(road)) /\ UNCHANGED read
HealZero == Pass(ZeroPass, HealZeroWrite(road)) /\ UNCHANGED read

RunCensus(k) ==
    /\ ~Malformed(Censuses[k], feed[Censuses[k]])
    /\ Pass(k + 2, Census(road, Censuses[k], feed[Censuses[k]], Censuses[k] \in Retracting))
    /\ UNCHANGED read

\* The writer throws, the step exits nonzero and the chain stops there.
ChainStops(k) ==
    /\ at = k + 2
    /\ Malformed(Censuses[k], feed[Censuses[k]])
    /\ at' = Idle /\ quiet' = 0
    /\ UNCHANGED <<road, read, world>>

RunTree == Pass(TreePass, ServiceTree(road, dropped)) /\ UNCHANGED read

PlanFill == Pass(PlanFillPass, road) /\ read' = road
WriteFill == Pass(FillPass, ContinuityFill(road, FillPlan(read))) /\ read' = << >>

PlanTaper == Pass(PlanTaperPass, road) /\ read' = road
WriteTaper ==
    /\ at = TaperPass /\ at' = Idle
    /\ road' = Taper(road, TaperPlan(read))
    /\ quiet' = quiet + 1
    /\ read' = << >>
    /\ UNCHANGED world

--------------------------------------------------------------------------
(* What changes between runs and around them. *)

Refresh(d) ==
    /\ at = Idle /\ changes < MaxChanges
    /\ \E counts \in Feeds[d] \ {feed[d]} : feed' = [feed EXCEPT ![d] = counts]
    /\ changes' = changes + 1 /\ quiet' = 0
    /\ UNCHANGED <<road, dropped, at, read, strays>>

ChangeRules(s) ==
    /\ at = Idle /\ changes < MaxChanges
    /\ dropped' = IF s \in dropped THEN dropped \ {s} ELSE dropped \cup {s}
    /\ changes' = changes + 1 /\ quiet' = 0
    /\ UNCHANGED <<road, feed, at, read, strays>>

\* A census run by hand, on a new feed, between the plan of a heuristic and
\* its write.
Stray(d) ==
    /\ at \in {FillPass, TaperPass} /\ strays < MaxStrays
    /\ \E counts \in Feeds[d] \ {feed[d]} :
          /\ ~Malformed(d, counts)
          /\ feed' = [feed EXCEPT ![d] = counts]
          /\ road' = Census(road, d, counts, d \in Retracting)
    /\ strays' = strays + 1
    /\ quiet' = -1
    /\ UNCHANGED <<dropped, at, read, changes>>

Next ==
    \/ StartChain \/ HealBleed \/ HealZero
    \/ \E k \in DOMAIN Censuses : RunCensus(k) \/ ChainStops(k)
    \/ RunTree \/ PlanFill \/ WriteFill \/ PlanTaper \/ WriteTaper
    \/ \E d \in Range(Censuses) : Refresh(d) \/ Stray(d)
    \/ \E s \in Droppable : ChangeRules(s)

Spec == Init /\ [][Next]_vars

--------------------------------------------------------------------------

\* A graded speed stands only on a row the taper owns: whoever claims or
\* disowns the row voids the ramp with it (five writers, one contract).
RampsVoid == \A s \in Seg : road[s].ramp => road[s].src = TaperId

\* On `counts`, dataset d counts vehicles on s and may stamp it.
Claims(counts, d, s) ==
    /\ s \in DOMAIN counts[d] /\ counts[d][s] > 0
    /\ Class[s] \in Coverage[d] /\ s \notin Abroad[d]

\* A count its dataset still makes is never lost: not to a heal, a sweep, a
\* retract, or a plan drawn up on an older table, only to a better count.
CountsSurvive ==
    [][\A s \in Seg : LET d == road[s].src  new == road'[s].src IN
         d \in Range(Censuses) /\ Claims(feed', d, s) /\ road[s].flow > 0 =>
            \/ new = d /\ road'[s].flow > 0
            \/ new \in Range(Censuses) /\ Claims(feed', new, s) /\ Outranks(new, d)]_vars

\* Two undisturbed runs settle the layer, whatever the history: a dataset that
\* counts a row has it, with the vehicles it counts now, or a better dataset
\* has, and a dataset whose enricher retracts keeps no row it does not count.
Settled ==
    quiet = 2 =>
        /\ \A s \in Seg : \A d \in Range(Censuses) :
              Claims(feed, d, s) =>
                 \/ road[s].src = d /\ road[s].flow = feed[d][s]
                 \/ road[s].src \in Registered /\ Outranks(road[s].src, d)
        /\ \A s \in Seg : \A d \in Retracting :
              road[s].src = d => s \in DOMAIN feed[d] /\ feed[d][s] > 0

\* The passes rest on facts, not on their own stamps: the fill, run again on
\* what it just left, changes nothing, and so do the taper and the service tree
\* on what an undisturbed run left, the passes after the tree included.
Quiescent ==
    /\ at = PlanTaperPass /\ quiet >= 0 => ContinuityFill(road, FillPlan(road)) = road
    /\ at = Idle /\ quiet >= 1 => /\ Taper(road, TaperPlan(road)) = road
                                  /\ ServiceTree(road, dropped) = road

\* The taper is declared a baseline so that every enricher, the fill too,
\* overwrites its rows on the next run: no row stays tapered through two
\* undisturbed runs where the fill would carry a count.
TaperYields ==
    quiet = 2 => \A s \in Seg : road[s].src = TaperId => s \notin DOMAIN FillPlan(Untapered(road))

\* The fill never makes traffic: what it writes is below a count on the table
\* it planned on.
FillsBelowCounts ==
    [][\A s \in Seg : road'[s].src = FillId /\ road'[s] # road[s] =>
          \E a \in Seg : IsMeasured(read[a].src) /\ road'[s].flow <= read[a].flow]_vars
=============================================================================
