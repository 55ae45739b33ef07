-------------------------- MODULE RoadChainProofs --------------------------
(***************************************************************************)
(* Proofs about the road phases of the chain, for any registry, any road   *)
(* network, any feeds and any number of runs.  What the heuristics plan is *)
(* left open: the theorems follow from the shared writer and its gate,     *)
(* and from the order of the provenance registry the gate asks.            *)
(***************************************************************************)
EXTENDS RoadChain, SequenceTheorems, TLAPS

(* The order of the registry *)

LEMMA RegistryTypes ==
    \A i \in Registered : Rank[i] \in Int /\ Year[i] \in Int /\ Year[i] # 0 /\ i \in Int /\ i # 0
BY RegistryAssumption, YearsAssumption

LEMMA OutranksOf ==
    ASSUME NEW i \in Registered, NEW j \in Registered
    PROVE  Outranks(i, j) <=>
              \/ Rank[i] > Rank[j]
              \/ Rank[i] = Rank[j] /\ Year[i] > Year[j]
              \/ Rank[i] = Rank[j] /\ Year[i] = Year[j] /\ i > j
BY RegistryTypes, SMT DEF Outranks

\* shouldOverwrite never lets two datasets take a row from each other in turn,
\* and a chain of claims that each replaced the one before never comes back to
\* an earlier one: Outranks is asymmetric and transitive, and of two different
\* datasets one outranks the other.
THEOREM OutranksIsTotalOrder ==
    /\ \A i, j \in Registered : Outranks(i, j) => ~Outranks(j, i)
    /\ \A i, j, k \in Registered : Outranks(i, j) /\ Outranks(j, k) => Outranks(i, k)
    /\ \A i, j \in Registered : i # j => Outranks(i, j) \/ Outranks(j, i)
<1>1. ASSUME NEW i \in Registered, NEW j \in Registered, Outranks(i, j)
      PROVE  ~Outranks(j, i)
  BY <1>1, OutranksOf, RegistryTypes, SMT
<1>2. ASSUME NEW i \in Registered, NEW j \in Registered, NEW k \in Registered,
             Outranks(i, j), Outranks(j, k)
      PROVE  Outranks(i, k)
  <2>1. /\ Rank[i] \in Int /\ Rank[j] \in Int /\ Rank[k] \in Int
        /\ Year[i] \in Int /\ Year[j] \in Int /\ Year[k] \in Int
        /\ i \in Int /\ j \in Int /\ k \in Int
    BY RegistryTypes
  <2>2. \/ Rank[i] > Rank[j]
        \/ Rank[i] = Rank[j] /\ Year[i] > Year[j]
        \/ Rank[i] = Rank[j] /\ Year[i] = Year[j] /\ i > j
    BY <1>2, OutranksOf
  <2>3. \/ Rank[j] > Rank[k]
        \/ Rank[j] = Rank[k] /\ Year[j] > Year[k]
        \/ Rank[j] = Rank[k] /\ Year[j] = Year[k] /\ j > k
    BY <1>2, OutranksOf
  <2>4. \/ Rank[i] > Rank[k]
        \/ Rank[i] = Rank[k] /\ Year[i] > Year[k]
        \/ Rank[i] = Rank[k] /\ Year[i] = Year[k] /\ i > k
    BY <2>1, <2>2, <2>3, SMT
  <2> QED BY <2>4, OutranksOf
<1>3. ASSUME NEW i \in Registered, NEW j \in Registered, i # j
      PROVE  Outranks(i, j) \/ Outranks(j, i)
  <2>1. /\ Rank[i] \in Int /\ Rank[j] \in Int /\ Year[i] \in Int /\ Year[j] \in Int
        /\ i \in Int /\ j \in Int
    BY RegistryTypes
  <2> QED BY <1>3, <2>1, OutranksOf, SMT
<1> QED BY <1>1, <1>2, <1>3

\* A claim that does not overwrite a registered id is outranked by it.
LEMMA RefusedIsOutranked ==
    ASSUME NEW old \in Registered, NEW new \in Registered, ~ShouldOverwrite(old, new)
    PROVE  Outranks(old, new)
BY OutranksIsTotalOrder DEF ShouldOverwrite

\* A registered id is replaced by itself or by one that outranks it.
LEMMA OverwrittenByRank ==
    ASSUME NEW old \in Registered, NEW new \in Registered, ShouldOverwrite(old, new)
    PROVE  old = new \/ Outranks(new, old)
BY RegistryTypes DEF ShouldOverwrite, Unspecified

\* A heuristic (below global-measured) never outranks a measured id.
LEMMA MeasuredIsKept ==
    ASSUME NEW old, NEW new \in Registered, IsMeasured(old), ~IsMeasured(new)
    PROVE  ~ShouldOverwrite(old, new)
<1>1. old \in Registered /\ Rank[old] >= 4 /\ ~(Rank[new] >= 4)
  BY DEF IsMeasured
<1>2. Rank[old] \in Int /\ Rank[new] \in Int /\ old # 0
  BY <1>1, RegistryTypes
<1>3. ~Outranks(new, old)
  BY <1>1, <1>2, OutranksOf, SMT
<1> QED BY <1>1, <1>2, <1>3 DEF ShouldOverwrite, Unspecified
----------------------------------------------------------------------------
(* The shared writer *)

LEMMA CensusIds ==
    ASSUME NEW d \in Range(Censuses)
    PROVE  d \in Registered /\ IsMeasured(d) /\ d # TaperId /\ d # TreeId /\ d # FillId
BY ChainAssumption, RangeOfSeq

LEMMA HeuristicIds ==
    /\ TreeId \in Registered /\ FillId \in Registered /\ TaperId \in Registered
    /\ ~IsMeasured(TreeId) /\ ~IsMeasured(FillId) /\ ~IsMeasured(TaperId)
    /\ TaperId # TreeId /\ TaperId # FillId
    /\ TreeId # 0 /\ FillId # 0 /\ TaperId # 0
BY ChainAssumption, RegistryTypes

\* What writeRoadAadt leaves on one row: the row, the row disowned, or a claim
\* that was offered, covered, in the dataset's country and not outranked.
LEMMA WriteRow ==
    ASSUME NEW t, NEW id, NEW gone, NEW offer, NEW s \in Seg,
           NEW own, own = IF t[s].src = id /\ s \in gone THEN Blank ELSE t[s]
    PROVE  \/ /\ s \in DOMAIN offer /\ Class[s] \in Coverage[id] /\ s \notin Abroad[id]
              /\ ShouldOverwrite(own.src, id)
              /\ WriteRoadAadt(t, id, gone, offer)[s]
                   = [src |-> id, flow |-> offer[s].flow, ramp |-> offer[s].ramp]
           \/ /\ ~ /\ s \in DOMAIN offer /\ Class[s] \in Coverage[id] /\ s \notin Abroad[id]
                   /\ ShouldOverwrite(own.src, id)
              /\ WriteRoadAadt(t, id, gone, offer)[s] = own
BY DEF WriteRoadAadt

--------------------------------------------------------------------------
(* The contract of speed_taper *)

NoStrayRamp(t) == \A s \in Seg : t[s].ramp => t[s].src = TaperId

\* A dataset other than the taper that offers no ramps leaves none outside.
LEMMA WriteKeepsContract ==
    ASSUME NEW t, NEW id, NEW gone, NEW offer, NoStrayRamp(t),
           \A s \in DOMAIN offer : offer[s].ramp => id = TaperId
    PROVE  NoStrayRamp(WriteRoadAadt(t, id, gone, offer))
<1> SUFFICES ASSUME NEW s \in Seg, WriteRoadAadt(t, id, gone, offer)[s].ramp
             PROVE  WriteRoadAadt(t, id, gone, offer)[s].src = TaperId
  BY DEF NoStrayRamp
<1>1. PICK own : own = IF t[s].src = id /\ s \in gone THEN Blank ELSE t[s]
  OBVIOUS
<1>2. own.ramp => own.src = TaperId
  BY <1>1 DEF Blank, NoStrayRamp
<1>3. CASE WriteRoadAadt(t, id, gone, offer)[s] = own
  BY <1>2, <1>3
<1>4. CASE /\ s \in DOMAIN offer
           /\ WriteRoadAadt(t, id, gone, offer)[s]
                = [src |-> id, flow |-> offer[s].flow, ramp |-> offer[s].ramp]
  BY <1>4
<1> QED BY <1>1, <1>3, <1>4, WriteRow

LEMMA HealsKeepContract ==
    ASSUME NEW t, NoStrayRamp(t)
    PROVE  NoStrayRamp(HealCountryBleed(t)) /\ NoStrayRamp(HealZeroWrite(t))
BY DEF NoStrayRamp, HealCountryBleed, HealZeroWrite, Blank

LEMMA TreeKeepsContract ==
    ASSUME NEW t, NEW drop, NoStrayRamp(t)
    PROVE  NoStrayRamp(ServiceTree(t, drop))
<1>1. ASSUME NEW s \in Seg
      PROVE  \/ ServiceTree(t, drop)[s] = t[s]
             \/ ServiceTree(t, drop)[s].ramp = FALSE
  BY DEF ServiceTree, Blank
<1> QED BY <1>1 DEF NoStrayRamp

LEMMA CensusKeepsContract ==
    ASSUME NEW t, NEW id, NEW counts, NEW retracts, NoStrayRamp(t)
    PROVE  NoStrayRamp(Census(t, id, counts, retracts))
BY WriteKeepsContract DEF Census

LEMMA FillPlanHasNoRamps ==
    ASSUME NEW t, NEW s \in DOMAIN FillPlan(t)
    PROVE  ~FillPlan(t)[s].ramp
BY DEF FillPlan, Propagate

LEMMA RampsInductive ==
    ASSUME RampsVoid, [Next]_vars
    PROVE  RampsVoid'
<1> USE DEF RampsVoid
<1>0. NoStrayRamp(road)
  BY DEF NoStrayRamp
<1> SUFFICES NoStrayRamp(road')
  BY DEF NoStrayRamp
<1>1. CASE HealBleed \/ HealZero
  BY <1>0, <1>1, HealsKeepContract DEF HealBleed, HealZero, Pass
<1>2. ASSUME NEW k \in DOMAIN Censuses, RunCensus(k)
      PROVE  NoStrayRamp(road')
  BY <1>0, <1>2, CensusKeepsContract DEF RunCensus, Pass
<1>3. CASE RunTree
  BY <1>0, <1>3, TreeKeepsContract DEF RunTree, Pass
<1>4. CASE WriteFill
  <2>1. road' = WriteRoadAadt(road, FillId, {}, FillPlan(read))
    BY <1>4 DEF WriteFill, Pass, ContinuityFill
  <2> QED BY <1>0, <2>1, FillPlanHasNoRamps, WriteKeepsContract
<1>5. CASE WriteTaper
  <2>1. PICK plan : road' = WriteRoadAadt(road, TaperId, Seg \ DOMAIN plan, plan)
    BY <1>5 DEF WriteTaper, Taper
  <2> QED BY <1>0, <2>1, WriteKeepsContract
<1>6. ASSUME NEW d \in Range(Censuses), Stray(d)
      PROVE  NoStrayRamp(road')
  BY <1>0, <1>6, CensusKeepsContract DEF Stray
<1>7. CASE road' = road
  BY <1>0, <1>7
<1> QED
  <2>1. CASE PlanFill \/ PlanTaper
    BY <2>1, <1>7 DEF PlanFill, PlanTaper, Pass
  <2>2. CASE StartChain \/ (\E k \in DOMAIN Censuses : ChainStops(k))
             \/ (\E d \in Range(Censuses) : Refresh(d))
             \/ (\E s \in Droppable : ChangeRules(s)) \/ UNCHANGED vars
    BY <2>2, <1>7 DEF StartChain, ChainStops, Refresh, ChangeRules, vars
  <2> QED BY <1>1, <1>2, <1>3, <1>4, <1>5, <1>6, <2>1, <2>2 DEF Next

\* A graded speed never outlives the taper's ownership of its row, whichever
\* of the five writers takes the row over (the contract of speed_taper in
\* roads-arrow.ts), in any order of runs, refreshes and censuses by hand.
THEOREM RampsAreTheTapers == Spec => []RampsVoid
<1>1. Init => RampsVoid
  BY InputAssumption DEF Init, RampsVoid
<1>2. RampsVoid /\ [Next]_vars => RampsVoid'
  BY RampsInductive
<1> QED BY <1>1, <1>2, PTL DEF Spec
--------------------------------------------------------------------------
(* Counts survive *)

FeedsTyped ==
    /\ feed = [d \in Range(Censuses) |-> feed[d]]
    /\ \A d \in Range(Censuses) : feed[d] \in [DOMAIN feed[d] -> Nat]

LEMMA FeedsTypedInductive == (Init => FeedsTyped) /\ (FeedsTyped /\ [Next]_vars => FeedsTyped')
<1>1. Init => FeedsTyped
  <2> SUFFICES ASSUME Init PROVE FeedsTyped
    OBVIOUS
  <2>1. \A d \in Range(Censuses) : feed[d] = << >>
    BY DEF Init
  <2>2. << >> \in [DOMAIN << >> -> Nat]
    OBVIOUS
  <2> QED BY <2>1, <2>2 DEF Init, FeedsTyped
<1>2. FeedsTyped /\ [Next]_vars => FeedsTyped'
  <2> SUFFICES ASSUME FeedsTyped, [Next]_vars PROVE FeedsTyped'
    OBVIOUS
  <2>1. ASSUME NEW d \in Range(Censuses), NEW counts \in Feeds[d],
               feed' = [feed EXCEPT ![d] = counts]
        PROVE  FeedsTyped'
    <3>1. counts \in [DOMAIN counts -> Nat]
      BY InputAssumption
    <3> QED BY <2>1, <3>1 DEF FeedsTyped
  <2>2. CASE \E d \in Range(Censuses) : Refresh(d) \/ Stray(d)
    BY <2>1, <2>2 DEF Refresh, Stray
  <2>3. CASE feed' = feed
    BY <2>3 DEF FeedsTyped
  <2> QED
    BY <2>2, <2>3 DEF Next, vars, world, StartChain, HealBleed, HealZero, RunCensus, ChainStops,
       RunTree, PlanFill, WriteFill, PlanTaper, WriteTaper, ChangeRules, Pass
<1> QED BY <1>1, <1>2

\* What one row keeps of a count d makes on it, under the feeds f.
Kept(f, d, s, new) ==
    \/ new.src = d /\ new.flow > 0
    \/ new.src \in Range(Censuses) /\ Claims(f, new.src, s) /\ Outranks(new.src, d)

\* No heuristic writes over a measured row, whatever it has planned.
LEMMA HeuristicKeepsCounts ==
    ASSUME NEW t, NEW id \in Registered, ~IsMeasured(id), NEW gone, NEW offer, NEW s \in Seg,
           IsMeasured(t[s].src)
    PROVE  WriteRoadAadt(t, id, gone, offer)[s] = t[s]
<1>1. t[s].src # id
  OBVIOUS
<1>2. ~ShouldOverwrite(t[s].src, id)
  BY MeasuredIsKept
<1> QED BY <1>1, <1>2 DEF WriteRoadAadt

LEMMA TreeKeepsCounts ==
    ASSUME NEW t, NEW drop, NEW s \in Seg, IsMeasured(t[s].src)
    PROVE  ServiceTree(t, drop)[s] = t[s]
<1>1. ~ShouldOverwrite(t[s].src, TreeId) /\ t[s].src # TreeId
  BY MeasuredIsKept, HeuristicIds
<1>2. ~Eligible(t, drop, s)
  BY <1>1 DEF Eligible
<1> QED BY <1>1, <1>2 DEF ServiceTree

LEMMA HealsKeepCounts ==
    ASSUME NEW t, NEW s \in Seg, NEW f, Claims(f, t[s].src, s), t[s].flow > 0
    PROVE  HealCountryBleed(t)[s] = t[s] /\ HealZeroWrite(t)[s] = t[s]
<1>1. t[s].flow # 0
  OBVIOUS
<1> QED BY <1>1 DEF Claims, HealCountryBleed, HealZeroWrite

\* A census keeps what it still counts itself, and takes from another census
\* only what it counts and outranks.
LEMMA CensusKeepsCounts ==
    ASSUME NEW t, NEW s \in Seg, t[s].src \in Range(Censuses), t[s].flow > 0,
           NEW id \in Range(Censuses), NEW counts, counts \in [DOMAIN counts -> Nat],
           ~Malformed(id, counts), NEW retracts,
           NEW f, f[id] = counts, Claims(f, t[s].src, s)
    PROVE  Kept(f, t[s].src, s, Census(t, id, counts, retracts)[s])
<1>1. PICK gone : gone = IF retracts THEN Seg \ DOMAIN counts ELSE {}
  OBVIOUS
<1>2. PICK offer : offer = [r \in DOMAIN counts |-> [flow |-> counts[r], ramp |-> FALSE]]
  OBVIOUS
<1>3. Census(t, id, counts, retracts) = WriteRoadAadt(t, id, gone, offer)
  BY <1>1, <1>2 DEF Census
<1>4. ~(t[s].src = id /\ s \in gone)
  BY <1>1 DEF Claims
<1>5. CASE /\ s \in DOMAIN offer /\ Class[s] \in Coverage[id] /\ s \notin Abroad[id]
           /\ ShouldOverwrite(t[s].src, id)
           /\ Census(t, id, counts, retracts)[s]
                = [src |-> id, flow |-> offer[s].flow, ramp |-> offer[s].ramp]
  <2>1. s \in DOMAIN counts /\ offer[s].flow = counts[s]
    BY <1>2, <1>5
  <2>2. counts[s] > 0
    <3>1. counts[s] \in Nat
      BY <2>1
    <3>2. counts[s] # 0
      BY <2>1, CensusIds DEF Malformed
    <3> QED BY <3>1, <3>2
  <2>3. Claims(f, id, s)
    BY <1>5, <2>1, <2>2 DEF Claims
  <2>4. t[s].src = id \/ Outranks(id, t[s].src)
    BY <1>5, CensusIds, OverwrittenByRank
  <2> QED BY <1>5, <2>1, <2>2, <2>3, <2>4 DEF Kept
<1>6. CASE Census(t, id, counts, retracts)[s] = t[s]
  BY <1>6 DEF Kept
<1> QED
  <2>1. t[s] = IF t[s].src = id /\ s \in gone THEN Blank ELSE t[s]
    BY <1>4
  <2> QED BY <1>3, <1>5, <1>6, <2>1, WriteRow

LEMMA StepKeepsCounts ==
    ASSUME FeedsTyped, [Next]_vars,
           NEW s \in Seg, road[s].src \in Range(Censuses), Claims(feed', road[s].src, s),
           road[s].flow > 0
    PROVE  Kept(feed', road[s].src, s, road'[s])
<1>0. IsMeasured(road[s].src)
  BY CensusIds
<1>1. CASE HealBleed \/ HealZero
  <2>1. road'[s] = road[s]
    BY <1>1, HealsKeepCounts DEF HealBleed, HealZero, Pass
  <2> QED BY <2>1 DEF Kept
<1>2. ASSUME NEW k \in DOMAIN Censuses, RunCensus(k)
      PROVE  Kept(feed', road[s].src, s, road'[s])
  <2>1. Censuses[k] \in Range(Censuses)
    BY DEF Range
  <2>2. feed' = feed
    BY <1>2 DEF RunCensus, Pass, world
  <2>3. feed[Censuses[k]] \in [DOMAIN feed[Censuses[k]] -> Nat]
    BY <2>1 DEF FeedsTyped
  <2>4. /\ ~Malformed(Censuses[k], feed[Censuses[k]])
        /\ road' = Census(road, Censuses[k], feed[Censuses[k]], Censuses[k] \in Retracting)
    BY <1>2 DEF RunCensus, Pass
  <2> QED BY <2>1, <2>2, <2>3, <2>4, CensusKeepsCounts
<1>3. CASE RunTree
  <2>1. road'[s] = road[s]
    BY <1>0, <1>3, TreeKeepsCounts DEF RunTree, Pass
  <2> QED BY <2>1 DEF Kept
<1>4. CASE WriteFill \/ WriteTaper
  <2>1. PICK id \in {FillId, TaperId} : \E gone, plan : road' = WriteRoadAadt(road, id, gone, plan)
    BY <1>4 DEF WriteFill, WriteTaper, ContinuityFill, Taper, Pass
  <2>2. PICK gone, plan : road' = WriteRoadAadt(road, id, gone, plan)
    BY <2>1
  <2>3. road'[s] = road[s]
    BY <1>0, <2>2, HeuristicIds, HeuristicKeepsCounts
  <2> QED BY <2>3 DEF Kept
<1>5. ASSUME NEW d \in Range(Censuses), Stray(d)
      PROVE  Kept(feed', road[s].src, s, road'[s])
  <2>1. PICK counts \in Feeds[d] :
          /\ ~Malformed(d, counts)
          /\ feed' = [feed EXCEPT ![d] = counts]
          /\ road' = Census(road, d, counts, d \in Retracting)
    BY <1>5 DEF Stray
  <2>2. feed'[d] = counts
    BY <2>1 DEF FeedsTyped
  <2>3. counts \in [DOMAIN counts -> Nat]
    BY <2>1, InputAssumption
  <2> QED BY <2>1, <2>2, <2>3, CensusKeepsCounts
<1>6. CASE road' = road
  BY <1>6 DEF Kept
<1> QED
  BY <1>1, <1>2, <1>3, <1>4, <1>5, <1>6
     DEF Next, vars, StartChain, ChainStops, PlanFill, PlanTaper, Refresh, ChangeRules, Pass

\* A count that its dataset still makes is never lost to a heal, a sweep, a
\* retract or a heuristic that planned on an older table: only a dataset that
\* counts the row too and outranks it takes it over.
THEOREM CountsAreKept == Spec => CountsSurvive
<1>1. FeedsTyped /\ [Next]_vars =>
        [\A s \in Seg : LET d == road[s].src  new == road'[s].src IN
           d \in Range(Censuses) /\ Claims(feed', d, s) /\ road[s].flow > 0 =>
              \/ new = d /\ road'[s].flow > 0
              \/ new \in Range(Censuses) /\ Claims(feed', new, s) /\ Outranks(new, d)]_vars
  BY StepKeepsCounts DEF Kept
<1> QED BY <1>1, FeedsTypedInductive, PTL DEF Spec, CountsSurvive
--------------------------------------------------------------------------
(* Two undisturbed runs settle the layer *)

\* A dataset whose census has run in this run or the one before is fresh: its
\* feed was well formed, and with a retract arm no row of its own is stale.
Fresh(d) ==
    /\ ~Malformed(d, feed[d])
    /\ d \in Retracting => \A s \in Seg : road[s].src = d => s \in DOMAIN feed[d]

\* What d counts on s is there, or a dataset that outranks d.
ServedBy(f, d, s, r) ==
    Claims(f, d, s) =>
        \/ r.src = d /\ r.flow = f[d][s]
        \/ r.src \in Registered /\ Outranks(r.src, d)

\* In the first undisturbed run each census makes its dataset fresh, in the
\* second each serves its rows, and what outranks them stays since it is fresh.
SettleInv ==
    /\ FeedsTyped
    /\ at \in 0 .. TaperPass /\ quiet \in -1 .. 2
    /\ quiet = -1 => at # Idle
    /\ quiet = 2 => at = Idle
    /\ \A k \in DOMAIN Censuses :
          /\ quiet >= 1 \/ (quiet = 0 /\ at > k + 2) => Fresh(Censuses[k])
          /\ quiet = 2 \/ (quiet = 1 /\ at > k + 2) =>
                \A s \in Seg : ServedBy(feed, Censuses[k], s, road[s])

LEMMA Passes ==
    /\ Len(Censuses) \in Nat /\ DOMAIN Censuses = 1 .. Len(Censuses)
    /\ TaperPass \in Nat /\ TreePass \in Nat
    /\ \A k \in DOMAIN Censuses :
          /\ k \in Nat /\ k + 2 < TreePass /\ k + 2 > 2
          /\ Censuses[k] \in Range(Censuses)
BY ChainAssumption, LenProperties
   DEF TreePass, PlanFillPass, FillPass, PlanTaperPass, TaperPass, Range

\* A write leaves no row to another dataset that was not its own before.
LEMMA WriteGivesNothing ==
    ASSUME NEW t, NEW id, NEW gone, NEW offer, NEW s \in Seg,
           WriteRoadAadt(t, id, gone, offer)[s].src \notin {id, Unspecified}
    PROVE  WriteRoadAadt(t, id, gone, offer)[s] = t[s]
BY DEF WriteRoadAadt, Blank

LEMMA OthersGiveNothing ==
    ASSUME NEW t, NEW drop, NEW s \in Seg
    PROVE  /\ HealCountryBleed(t)[s].src # Unspecified => HealCountryBleed(t)[s] = t[s]
           /\ HealZeroWrite(t)[s].src # Unspecified => HealZeroWrite(t)[s] = t[s]
           /\ ServiceTree(t, drop)[s].src \notin {TreeId, Unspecified} => ServiceTree(t, drop)[s] = t[s]
BY DEF HealCountryBleed, HealZeroWrite, ServiceTree, Blank

\* The retract arm leaves the dataset only rows it matches.
LEMMA CensusRetracts ==
    ASSUME NEW t, NEW id \in Range(Censuses), NEW counts, NEW s \in Seg, Census(t, id, counts, TRUE)[s].src = id
    PROVE  s \in DOMAIN counts
<1>1. id # Unspecified
  BY CensusIds, RegistryTypes DEF Unspecified
<1> QED BY <1>1 DEF Census, WriteRoadAadt, Blank

\* What a census claims it gets, unless a better dataset has it.
LEMMA CensusServes ==
    ASSUME NEW t, NEW id \in Range(Censuses), NEW f, NEW counts, f[id] = counts, NEW retracts \in BOOLEAN,
           NEW s \in Seg
    PROVE  ServedBy(f, id, s, Census(t, id, counts, retracts)[s])
<1> SUFFICES ASSUME Claims(f, id, s)
             PROVE  LET r == Census(t, id, counts, retracts)[s]
                    IN  \/ r.src = id /\ r.flow = counts[s]
                        \/ r.src \in Registered /\ Outranks(r.src, id)
  BY DEF ServedBy
<1>1. s \in DOMAIN counts /\ Class[s] \in Coverage[id] /\ s \notin Abroad[id]
  BY DEF Claims
<1>2. PICK gone : gone = IF retracts THEN Seg \ DOMAIN counts ELSE {}
  OBVIOUS
<1>3. s \notin gone
  BY <1>1, <1>2
<1>4. CASE ShouldOverwrite(t[s].src, id)
  <2>1. Census(t, id, counts, retracts)[s] = [src |-> id, flow |-> counts[s], ramp |-> FALSE]
    BY <1>1, <1>2, <1>3, <1>4 DEF Census, WriteRoadAadt
  <2> QED BY <2>1
<1>5. CASE ~ShouldOverwrite(t[s].src, id)
  <2>1. Census(t, id, counts, retracts)[s] = t[s]
    BY <1>1, <1>2, <1>3, <1>5 DEF Census, WriteRoadAadt
  <2>2. t[s].src \in Registered /\ Outranks(t[s].src, id)
    <3>1. t[s].src \in Registered /\ id \in Registered
      BY <1>5, CensusIds DEF ShouldOverwrite
    <3> QED BY <1>5, <3>1, RefusedIsOutranked
  <2> QED BY <2>1, <2>2
<1> QED BY <1>4, <1>5

\* A census takes a row that is served only to serve it better.
LEMMA CensusKeepsServed ==
    ASSUME NEW t, NEW id \in Range(Censuses), NEW f, NEW counts, f[id] = counts, NEW retracts \in BOOLEAN,
           NEW s \in Seg, retracts /\ t[s].src = id => s \in DOMAIN counts,
           NEW d \in Range(Censuses), ServedBy(f, d, s, t[s])
    PROVE  ServedBy(f, d, s, Census(t, id, counts, retracts)[s])
<1> SUFFICES ASSUME Claims(f, d, s), d # id
             PROVE  LET r == Census(t, id, counts, retracts)[s]
                    IN  \/ r.src = d /\ r.flow = f[d][s]
                        \/ r.src \in Registered /\ Outranks(r.src, d)
  BY CensusServes DEF ServedBy
<1>1. PICK new : new = Census(t, id, counts, retracts)[s]
  OBVIOUS
<1>2. \/ t[s].src = d /\ t[s].flow = f[d][s]
      \/ t[s].src \in Registered /\ Outranks(t[s].src, d)
  BY DEF ServedBy
<1>3. \/ new = t[s]
      \/ new.src = id /\ ShouldOverwrite(t[s].src, id)
  BY <1>1 DEF Census, WriteRoadAadt
<1>4. CASE new.src = id /\ ShouldOverwrite(t[s].src, id)
  <2>1. d \in Registered /\ id \in Registered
    BY CensusIds
  <2>2. t[s].src \in Registered /\ (t[s].src = id \/ Outranks(id, t[s].src))
    BY <1>2, <1>4, <2>1, OverwrittenByRank
  <2>3. Outranks(id, d)
    BY <1>2, <2>1, <2>2, OutranksIsTotalOrder
  <2> QED BY <1>1, <1>4, <2>1, <2>3
<1> QED BY <1>1, <1>2, <1>3, <1>4

\* Who serves a count is measured, and no heuristic writes there.
LEMMA ServerIsMeasured ==
    ASSUME NEW f, NEW d \in Range(Censuses), NEW s \in Seg, NEW r, ServedBy(f, d, s, r), Claims(f, d, s)
    PROVE  IsMeasured(r.src)
<1>1. d \in Registered /\ Rank[d] >= 4 /\ IsMeasured(d)
  BY CensusIds DEF IsMeasured
<1>2. CASE r.src = d
  BY <1>1, <1>2
<1>3. CASE r.src \in Registered /\ Outranks(r.src, d)
  <2>1. Rank[r.src] >= Rank[d] /\ Rank[r.src] \in Int /\ Rank[d] \in Int
    BY <1>1, <1>3, OutranksOf, RegistryTypes
  <2>2. Rank[r.src] >= 4
    BY <1>1, <2>1
  <2> QED BY <1>3, <2>2 DEF IsMeasured
<1> QED BY <1>2, <1>3 DEF ServedBy

LEMMA FreshKept ==
    ASSUME NEW d \in Range(Censuses), Fresh(d), feed' = feed,
           \A s \in Seg : road'[s].src = d => road'[s] = road[s]
    PROVE  Fresh(d)'
BY DEF Fresh

\* A pass that is no census gives no dataset a row, and takes none it serves.
LEMMA OtherPass ==
    ASSUME SettleInv, FeedsTyped', UNCHANGED <<feed, quiet>>, at' = at + 1,
           at \in {BleedPass, ZeroPass} \/ at \in TreePass .. TaperPass - 1,
           \A s \in Seg : \A d \in Range(Censuses) : road'[s].src = d => road'[s] = road[s],
           at \in TreePass .. TaperPass - 1 =>
               \A s \in Seg : IsMeasured(road[s].src) => road'[s] = road[s]
    PROVE  SettleInv'
<1>1. /\ at \in 1 .. TaperPass - 1 /\ quiet # 2 /\ \A k \in DOMAIN Censuses : at # k + 2
      /\ at < TreePass => \A k \in DOMAIN Censuses : ~(at + 1 > k + 2)
  BY Passes DEF SettleInv, BleedPass, ZeroPass, Idle, TreePass, PlanFillPass, FillPass, PlanTaperPass, TaperPass
<1>2. ASSUME NEW k \in DOMAIN Censuses, quiet >= 1 \/ (quiet = 0 /\ at + 1 > k + 2)
      PROVE  Fresh(Censuses[k])'
  <2>1. Censuses[k] \in Range(Censuses) /\ k \in Nat
    BY Passes
  <2>2. Fresh(Censuses[k])
    BY <1>1, <1>2, <2>1 DEF SettleInv
  <2> QED BY <2>1, <2>2, FreshKept
<1>3. ASSUME NEW k \in DOMAIN Censuses, quiet = 1, at + 1 > k + 2, NEW s \in Seg
      PROVE  ServedBy(feed, Censuses[k], s, road'[s])
  <2>1. Censuses[k] \in Range(Censuses) /\ k \in Nat
    BY Passes
  <2>2. ~(at < TreePass)
    BY <1>1, <1>3
  <2>3. at > k + 2 /\ at \in TreePass .. TaperPass - 1
    BY <1>1, <2>1, <2>2, Passes
  <2>4. ServedBy(feed, Censuses[k], s, road[s])
    BY <1>3, <2>3 DEF SettleInv
  <2>5. CASE Claims(feed, Censuses[k], s)
    <3>1. road'[s] = road[s]
      BY <2>1, <2>3, <2>4, <2>5, ServerIsMeasured
    <3> QED BY <2>4, <3>1
  <2>6. CASE ~Claims(feed, Censuses[k], s)
    BY <2>6 DEF ServedBy
  <2> QED BY <2>5, <2>6
<1>4. at' \in 0 .. TaperPass /\ at' # Idle /\ at + 1 # Idle /\ quiet' \in -1 .. 2 /\ quiet' # 2
  BY <1>1, Passes DEF SettleInv, Idle
<1> QED BY <1>1, <1>2, <1>3, <1>4 DEF SettleInv

LEMMA CensusPass ==
    ASSUME SettleInv, FeedsTyped', NEW n \in DOMAIN Censuses, RunCensus(n)
    PROVE  SettleInv'
<1> DEFINE id == Censuses[n]
           counts == feed[Censuses[n]]
           retracts == Censuses[n] \in Retracting
<1>1. /\ at = n + 2 /\ at' = n + 3 /\ quiet' = quiet /\ feed' = feed
      /\ ~Malformed(id, counts) /\ road' = Census(road, id, counts, retracts)
  <2>1. n \in Nat
    BY Passes
  <2> QED BY <2>1 DEF RunCensus, Pass, world
<1>2. id \in Range(Censuses) /\ retracts \in BOOLEAN /\ id # Unspecified
  BY Passes, CensusIds, RegistryTypes DEF Unspecified
<1>3. quiet # 2 /\ at' \in 0 .. TaperPass /\ at' # Idle
  BY <1>1, Passes DEF SettleInv, Idle, TreePass, PlanFillPass, FillPass, PlanTaperPass, TaperPass
<1> HIDE DEF id, counts, retracts
<1>4. ASSUME NEW s \in Seg, NEW d \in Range(Censuses), d # id, road'[s].src = d
      PROVE  road'[s] = road[s]
  <2>1. d # Unspecified
    BY CensusIds, RegistryTypes DEF Unspecified
  <2> QED BY <1>1, <1>4, <2>1, WriteGivesNothing DEF Census
<1>5. Fresh(id)'
  <2>1. retracts => \A s \in Seg : road'[s].src = id => s \in DOMAIN counts
    BY <1>1, <1>2, CensusRetracts
  <2> QED BY <1>1, <2>1 DEF Fresh, id, counts, retracts
<1>6. ASSUME NEW k \in DOMAIN Censuses, quiet >= 1 \/ (quiet = 0 /\ n + 3 > k + 2)
      PROVE  Fresh(Censuses[k])'
  <2>1. CASE Censuses[k] = id
    BY <1>5, <2>1
  <2>2. CASE Censuses[k] # id
    <3>1. k \in Nat /\ n \in Nat /\ k # n /\ Censuses[k] \in Range(Censuses)
      BY <2>2, Passes DEF id
    <3>2. Fresh(Censuses[k])
      BY <1>1, <1>6, <3>1 DEF SettleInv
    <3> QED BY <1>1, <1>4, <2>2, <3>1, <3>2, FreshKept
  <2> QED BY <2>1, <2>2
<1>7. ASSUME NEW k \in DOMAIN Censuses, quiet = 1, n + 3 > k + 2, NEW s \in Seg
      PROVE  ServedBy(feed, Censuses[k], s, road'[s])
  <2>1. k \in Nat /\ n \in Nat /\ Censuses[k] \in Range(Censuses) /\ counts = feed[id]
    BY Passes DEF id, counts
  <2>2. CASE k = n
    BY <1>1, <1>2, <2>1, <2>2, CensusServes DEF id
  <2>3. CASE k # n
    <3>1. ServedBy(feed, Censuses[k], s, road[s])
      BY <1>1, <1>7, <2>1, <2>3 DEF SettleInv
    <3>2. Fresh(id)
      BY <1>7 DEF SettleInv, id
    <3>3. retracts /\ road[s].src = id => s \in DOMAIN counts
      BY <3>2 DEF Fresh, id, counts, retracts
    <3> QED BY <1>1, <1>2, <2>1, <3>1, <3>3, CensusKeepsServed
  <2> QED BY <2>2, <2>3
<1> QED BY <1>1, <1>3, <1>6, <1>7 DEF SettleInv

\* The taper ends the run: what held of the datasets behind it holds of all.
LEMMA TaperEndsRun ==
    ASSUME SettleInv, FeedsTyped', WriteTaper
    PROVE  SettleInv'
<1>1. /\ at = TaperPass /\ at' = Idle /\ quiet' = quiet + 1 /\ feed' = feed
      /\ road' = Taper(road, TaperPlan(read))
  BY DEF WriteTaper, world
<1>2. ASSUME NEW s \in Seg
      PROVE  /\ \A d \in Range(Censuses) : road'[s].src = d => road'[s] = road[s]
             /\ IsMeasured(road[s].src) => road'[s] = road[s]
  <2>1. PICK plan : road' = WriteRoadAadt(road, TaperId, Seg \ DOMAIN plan, plan)
    BY <1>1 DEF Taper
  <2>2. ASSUME NEW d \in Range(Censuses), road'[s].src = d
        PROVE  road'[s] = road[s]
    <3>1. d # TaperId /\ d # Unspecified
      BY CensusIds, RegistryTypes DEF Unspecified
    <3> QED BY <2>1, <2>2, <3>1, WriteGivesNothing
  <2>3. IsMeasured(road[s].src) => road'[s] = road[s]
    BY <2>1, HeuristicIds, HeuristicKeepsCounts
  <2> QED BY <2>2, <2>3
<1>3. /\ quiet \in {-1, 0, 1} /\ \A k \in DOMAIN Censuses : at > k + 2 /\ ~(Idle > k + 2)
      /\ Idle \in 0 .. TaperPass
  BY <1>1, Passes DEF SettleInv, Idle, TreePass, PlanFillPass, FillPass, PlanTaperPass, TaperPass
<1>4. ASSUME NEW k \in DOMAIN Censuses, quiet >= 0
      PROVE  Fresh(Censuses[k])'
  <2>1. Fresh(Censuses[k]) /\ Censuses[k] \in Range(Censuses)
    BY <1>3, <1>4, Passes DEF SettleInv
  <2> QED BY <1>1, <1>2, <2>1, FreshKept
<1>5. ASSUME NEW k \in DOMAIN Censuses, quiet = 1, NEW s \in Seg
      PROVE  ServedBy(feed, Censuses[k], s, road'[s])
  <2>1. ServedBy(feed, Censuses[k], s, road[s]) /\ Censuses[k] \in Range(Censuses)
    BY <1>3, <1>5, Passes DEF SettleInv
  <2>2. CASE Claims(feed, Censuses[k], s)
    <3>1. road'[s] = road[s]
      BY <1>2, <2>1, <2>2, ServerIsMeasured
    <3> QED BY <2>1, <3>1
  <2>3. CASE ~Claims(feed, Censuses[k], s)
    BY <2>3 DEF ServedBy
  <2> QED BY <2>2, <2>3
<1> QED BY <1>1, <1>3, <1>4, <1>5 DEF SettleInv

LEMMA SettleInductive ==
    ASSUME SettleInv, [Next]_vars
    PROVE  SettleInv'
<1>1. FeedsTyped'
  BY FeedsTypedInductive DEF SettleInv
<1>2. /\ Idle \in 0 .. TaperPass /\ BleedPass \in 0 .. TaperPass /\ BleedPass # Idle
      /\ \A k \in DOMAIN Censuses : ~(Idle > k + 2) /\ ~(BleedPass > k + 2)
  BY Passes DEF Idle, BleedPass, TreePass, PlanFillPass, FillPass, PlanTaperPass, TaperPass
<1>3. CASE StartChain
  <2>1. at = Idle /\ quiet \in {0, 1} /\ at' = BleedPass /\ UNCHANGED <<road, quiet, feed>>
    BY <1>3 DEF StartChain, world, SettleInv
  <2> QED BY <1>1, <1>2, <2>1 DEF SettleInv, Fresh
<1>4. ASSUME at' = Idle, quiet' = 0
      PROVE  SettleInv'
  BY <1>1, <1>2, <1>4 DEF SettleInv
<1>5. CASE HealBleed \/ HealZero
  <2>1. \A s \in Seg : \A d \in Range(Censuses) : road'[s].src = d => road'[s] = road[s]
    BY <1>5, OthersGiveNothing, CensusIds, RegistryTypes DEF HealBleed, HealZero, Pass, Unspecified
  <2>2. UNCHANGED <<feed, quiet>> /\ at' = at + 1 /\ at \in {BleedPass, ZeroPass}
    BY <1>5 DEF HealBleed, HealZero, Pass, world
  <2>3. at \notin TreePass .. TaperPass - 1
    BY <2>2, Passes DEF BleedPass, ZeroPass, TreePass, TaperPass, PlanTaperPass, FillPass, PlanFillPass
  <2> QED BY <1>1, <2>1, <2>2, <2>3, OtherPass
<1>6. CASE RunTree \/ PlanFill \/ WriteFill \/ PlanTaper
  <2>1. UNCHANGED <<feed, quiet>> /\ at' = at + 1
    BY <1>6 DEF RunTree, PlanFill, WriteFill, PlanTaper, Pass, world
  <2>2. at \in TreePass .. TaperPass - 1
    BY <1>6, Passes DEF RunTree, PlanFill, WriteFill, PlanTaper, Pass, TreePass, TaperPass, PlanTaperPass,
       FillPass, PlanFillPass
  <2>3. ASSUME NEW s \in Seg
        PROVE  /\ \A d \in Range(Censuses) : road'[s].src = d => road'[s] = road[s]
               /\ IsMeasured(road[s].src) => road'[s] = road[s]
    <3>1. CASE RunTree
      BY <3>1, OthersGiveNothing, TreeKeepsCounts, CensusIds, RegistryTypes DEF RunTree, Pass, Unspecified
    <3>2. CASE WriteFill
      <4>1. PICK plan : road' = WriteRoadAadt(road, FillId, {}, plan)
        BY <3>2 DEF WriteFill, Pass, ContinuityFill
      <4>2. \A d \in Range(Censuses) : d # FillId /\ d # Unspecified
        BY CensusIds, RegistryTypes DEF Unspecified
      <4> QED BY <4>1, <4>2, WriteGivesNothing, HeuristicIds, HeuristicKeepsCounts
    <3>3. CASE PlanFill \/ PlanTaper
      BY <3>3 DEF PlanFill, PlanTaper, Pass
    <3> QED BY <1>6, <3>1, <3>2, <3>3
  <2> QED BY <1>1, <2>1, <2>2, <2>3, OtherPass
<1>7. ASSUME NEW d \in Range(Censuses), Stray(d)
      PROVE  SettleInv'
  <2>1. at' = at /\ quiet' = -1 /\ at # Idle
    BY <1>7, Passes DEF Stray, Idle, FillPass, TaperPass, PlanFillPass, PlanTaperPass, TreePass
  <2> QED BY <1>1, <2>1 DEF SettleInv
<1>8. CASE \/ \E k \in DOMAIN Censuses : ChainStops(k)
           \/ \E d \in Range(Censuses) : Refresh(d)
           \/ \E s \in Droppable : ChangeRules(s)
  BY <1>4, <1>8 DEF ChainStops, Refresh, ChangeRules
<1>9. CASE UNCHANGED vars
  BY <1>1, <1>9 DEF vars, SettleInv, Fresh, ServedBy, Claims
<1> QED
  BY <1>1, <1>3, <1>5, <1>6, <1>7, <1>8, <1>9, CensusPass, TaperEndsRun DEF Next

LEMMA AlwaysSettleInv == Spec => []SettleInv
<1>1. Init => SettleInv
  <2>1. /\ Idle \in 0 .. TaperPass /\ \A k \in DOMAIN Censuses : ~(Idle > k + 2)
    BY Passes DEF Idle
  <2> QED BY <2>1, FeedsTypedInductive DEF Init, SettleInv
<1>2. SettleInv /\ [Next]_vars => SettleInv'
  BY SettleInductive
<1> QED BY <1>1, <1>2, PTL DEF Spec

\* Whatever runs, refreshes, stops and censuses by hand came before, two whole
\* runs with nothing between them bring every row to the best dataset that
\* counts it, with its current vehicles, and drain what a retract disowns.
THEOREM TwoRunsSettle == Spec => []Settled
<1>1. ASSUME SettleInv
      PROVE  Settled
  <2> SUFFICES ASSUME quiet = 2, NEW s \in Seg, NEW d \in Range(Censuses)
               PROVE  /\ Claims(feed, d, s) =>
                           \/ road[s].src = d /\ road[s].flow = feed[d][s]
                           \/ road[s].src \in Registered /\ Outranks(road[s].src, d)
                      /\ d \in Retracting /\ road[s].src = d => s \in DOMAIN feed[d] /\ feed[d][s] > 0
    BY ChainAssumption DEF Settled
  <2>1. PICK k \in DOMAIN Censuses : d = Censuses[k]
    BY DEF Range
  <2>2. Fresh(d) /\ ServedBy(feed, d, s, road[s])
    BY <1>1, <2>1 DEF SettleInv
  <2>3. ASSUME s \in DOMAIN feed[d]
        PROVE  feed[d][s] > 0
    <3>1. feed[d][s] \in Nat
      BY <1>1, <2>3 DEF SettleInv, FeedsTyped
    <3>2. feed[d][s] # 0
      BY <2>2, <2>3, CensusIds DEF Fresh, Malformed
    <3> QED BY <3>1, <3>2
  <2> QED BY <2>2, <2>3 DEF ServedBy, Fresh
<1> QED BY <1>1, AlwaysSettleInv, PTL
--------------------------------------------------------------------------
(* A pass run again on what it left changes nothing *)

\* A table of rows that are stamped or blank.
WholeTable(t) ==
    /\ t = [s \in Seg |-> t[s]]
    /\ \A s \in Seg : /\ t[s].src \in Registered \cup {Unspecified}
                      /\ t[s].src = Unspecified => t[s] = Blank

LEMMA WriteKeepsWhole ==
    ASSUME NEW t, WholeTable(t), NEW id \in Registered, NEW gone, NEW offer
    PROVE  WholeTable(WriteRoadAadt(t, id, gone, offer))
<1>0. PICK w : w = WriteRoadAadt(t, id, gone, offer)
  OBVIOUS
<1>1. w = [s \in Seg |-> w[s]]
  BY <1>0 DEF WriteRoadAadt
<1>2. ASSUME NEW s \in Seg
      PROVE  /\ w[s].src \in Registered \cup {Unspecified}
             /\ w[s].src = Unspecified => w[s] = Blank
  <2>1. id # Unspecified
    BY RegistryTypes DEF Unspecified
  <2>2. \/ w[s] = t[s] \/ w[s] = Blank \/ w[s].src = id
    BY <1>0 DEF WriteRoadAadt
  <2>3. Blank.src = Unspecified
    BY DEF Blank
  <2>4. /\ t[s].src \in Registered \cup {Unspecified}
        /\ t[s].src = Unspecified => t[s] = Blank
    BY DEF WholeTable
  <2> QED BY <2>1, <2>2, <2>3, <2>4
<1>3. WholeTable(w)
  BY <1>1, <1>2 DEF WholeTable
<1> QED BY <1>0, <1>3

LEMMA OthersKeepWhole ==
    ASSUME NEW t, WholeTable(t), NEW drop
    PROVE  /\ WholeTable(HealCountryBleed(t)) /\ WholeTable(HealZeroWrite(t))
           /\ WholeTable(ServiceTree(t, drop))
<1>1. WholeTable(HealCountryBleed(t))
  BY DEF WholeTable, HealCountryBleed, Blank
<1>2. WholeTable(HealZeroWrite(t))
  BY DEF WholeTable, HealZeroWrite, Blank
<1>3. WholeTable(ServiceTree(t, drop))
  <2>0. PICK w : w = ServiceTree(t, drop)
    OBVIOUS
  <2>1. w = t \/ w = [s \in Seg |-> w[s]]
    BY <2>0 DEF ServiceTree
  <2>2. ASSUME NEW s \in Seg
        PROVE  w[s] = t[s] \/ w[s] = Blank \/ w[s].src = TreeId
    BY <2>0 DEF ServiceTree
  <2>3. TreeId \in Registered /\ TreeId # Unspecified
    BY HeuristicIds DEF Unspecified
  <2>4. w = [s \in Seg |-> w[s]]
    BY <2>1 DEF WholeTable
  <2>5. Blank.src = Unspecified
    BY DEF Blank
  <2>6. ASSUME NEW s \in Seg
        PROVE  /\ w[s].src \in Registered \cup {Unspecified}
               /\ w[s].src = Unspecified => w[s] = Blank
    BY <2>2, <2>3, <2>5 DEF WholeTable
  <2>7. WholeTable(w)
    BY <2>4, <2>6 DEF WholeTable
  <2> QED BY <2>0, <2>7
<1> QED BY <1>1, <1>2, <1>3

\* The shared writer, given the same claims again, writes what is there.
LEMMA WriteAgain ==
    ASSUME NEW t, NEW id \in Registered, NEW gone, NEW offer
    PROVE  LET w == WriteRoadAadt(t, id, gone, offer) IN WriteRoadAadt(w, id, gone, offer) = w
<1>1. PICK w : w = WriteRoadAadt(t, id, gone, offer)
  OBVIOUS
<1>2. ASSUME NEW s \in Seg
      PROVE  WriteRoadAadt(w, id, gone, offer)[s] = w[s]
  <2>1. id # Unspecified /\ Blank.src = Unspecified
    BY RegistryTypes DEF Unspecified, Blank
  <2>2. ShouldOverwrite(Unspecified, id) /\ ShouldOverwrite(id, id)
    BY DEF ShouldOverwrite
  <2>3. PICK own : own = IF t[s].src = id /\ s \in gone THEN Blank ELSE t[s]
    OBVIOUS
  <2>4. PICK again : again = IF w[s].src = id /\ s \in gone THEN Blank ELSE w[s]
    OBVIOUS
  <2>5. CASE /\ s \in DOMAIN offer /\ Class[s] \in Coverage[id] /\ s \notin Abroad[id]
             /\ ShouldOverwrite(own.src, id)
    <3>1. w[s] = [src |-> id, flow |-> offer[s].flow, ramp |-> offer[s].ramp]
      BY <1>1, <2>3, <2>5, WriteRow
    <3>2. ShouldOverwrite(again.src, id)
      BY <2>1, <2>2, <2>4, <3>1
    <3> QED BY <2>4, <2>5, <3>1, <3>2, WriteRow
  <2>6. CASE ~ /\ s \in DOMAIN offer /\ Class[s] \in Coverage[id] /\ s \notin Abroad[id]
               /\ ShouldOverwrite(own.src, id)
    <3>1. w[s] = own
      BY <1>1, <2>3, <2>6 DEF WriteRoadAadt
    <3>2. again = own
      BY <2>1, <2>3, <2>4, <3>1
    <3> QED BY <2>4, <2>6, <3>1, <3>2 DEF WriteRoadAadt
  <2> QED BY <2>5, <2>6
<1>3. /\ w = [s \in Seg |-> w[s]]
      /\ WriteRoadAadt(w, id, gone, offer) = [s \in Seg |-> WriteRoadAadt(w, id, gone, offer)[s]]
  BY <1>1 DEF WriteRoadAadt
<1>4. WriteRoadAadt(w, id, gone, offer) = w
  BY <1>2, <1>3
<1> QED BY <1>1, <1>4

\* The fill reads the counts and the open rows, and its own write moves
\* neither: a row it takes was open, is no count and stays open.
LEMMA FillAgain ==
    ASSUME NEW t
    PROVE  LET w == ContinuityFill(t, FillPlan(t)) IN ContinuityFill(w, FillPlan(w)) = w
<1>1. PICK w : w = ContinuityFill(t, FillPlan(t))
  OBVIOUS
<1>2. DOMAIN FillPlan(t) \subseteq Open(t)
  BY DEF FillPlan, Propagate
<1>3. ASSUME NEW s \in Seg
      PROVE  w[s] = t[s] \/ (s \in Open(t) /\ w[s].src = FillId)
  BY <1>1, <1>2 DEF ContinuityFill, WriteRoadAadt
<1>4. FillId # Unspecified /\ ~IsMeasured(FillId) /\ ~IsMeasured(Unspecified)
  BY HeuristicIds, RegistryTypes DEF Unspecified, IsMeasured
<1>5. ASSUME NEW s \in Seg
      PROVE  /\ IsMeasured(w[s].src) <=> IsMeasured(t[s].src)
             /\ IsMeasured(t[s].src) => w[s].flow = t[s].flow
             /\ s \in Open(w) <=> s \in Open(t)
  BY <1>3, <1>4 DEF Open
<1>6. Counts(w) = Counts(t)
  BY <1>5 DEF Counts
<1>7. Open(w) = Open(t)
  BY <1>5 DEF Open
<1>8. FillPlan(w) = FillPlan(t)
  BY <1>6, <1>7 DEF FillPlan
<1> QED BY <1>1, <1>8, HeuristicIds, WriteAgain DEF ContinuityFill

\* The taper plans on the table without its stamps, and its own write leaves
\* that table as it was: it stamps only rows that are blank there.
LEMMA TaperAgain ==
    ASSUME NEW t, WholeTable(t)
    PROVE  LET w == Taper(t, TaperPlan(t)) IN Taper(w, TaperPlan(w)) = w
<1>1. PICK w : w = Taper(t, TaperPlan(t))
  OBVIOUS
<1>2. ASSUME NEW s \in DOMAIN TaperPlan(t)
      PROVE  s \in Seg /\ t[s].src \in {Unspecified, TaperId}
  <2>1. s \in Seg /\ Ramps(Untapered(t), s) # {}
    BY DEF TaperPlan, RampPlan
  <2>2. Writable(Untapered(t), s)
    BY <2>1 DEF Ramps, OnRamp
  <2>3. Untapered(t)[s].src = Unspecified
    BY <2>2 DEF Writable
  <2> QED BY <2>1, <2>3 DEF Untapered
<1>3. ASSUME NEW s \in Seg
      PROVE  Untapered(w)[s] = Untapered(t)[s]
  <2>1. \/ w[s] = t[s]
        \/ w[s] = Blank /\ t[s].src = TaperId
        \/ w[s].src = TaperId /\ t[s].src \in {Unspecified, TaperId}
    BY <1>1, <1>2 DEF Taper, WriteRoadAadt
  <2>2. t[s].src = Unspecified => t[s] = Blank
    BY DEF WholeTable
  <2>3. Blank.src # TaperId
    BY HeuristicIds DEF Blank, Unspecified
  <2> QED BY <2>1, <2>2, <2>3 DEF Untapered
<1>4. Untapered(w) = Untapered(t)
  BY <1>3 DEF Untapered
<1>5. TaperPlan(w) = TaperPlan(t)
  BY <1>4 DEF TaperPlan
<1> QED BY <1>1, <1>5, HeuristicIds, WriteAgain DEF Taper

Local(t, drop) == {s \in Seg : Eligible(t, drop, s)}

\* The tree's table, for the flows it accumulates on a set of local rows.
TreeWith(flows, t, drop) ==
    IF Local(t, drop) = {} THEN t
    ELSE [s \in Seg |->
            IF s \in Local(t, drop)
            THEN [src |-> TreeId, flow |-> flows[Local(t, drop)][s], ramp |-> FALSE]
            ELSE IF t[s].src = TreeId THEN Blank ELSE t[s]]

\* The flows of the tree depend on the rows that are eligible, and nothing else.
LEMMA TreeOf == \E flows : \A t, drop : ServiceTree(t, drop) = TreeWith(flows, t, drop)
<1>1. PICK flows : flows =
          [local \in SUBSET Seg |->
              [s \in local |-> LET c == Component(local, s)
                               IN  FlowAccumulate(c, Roots(c, ExitNodes(local)))[s]]]
  OBVIOUS
<1>2. ASSUME NEW t, NEW drop
      PROVE  flows[Local(t, drop)] =
               [s \in Local(t, drop) |->
                   LET c == Component(Local(t, drop), s)
                   IN  FlowAccumulate(c, Roots(c, ExitNodes(Local(t, drop))))[s]]
  BY <1>1 DEF Local
<1>3. WITNESS flows
<1>4. TAKE t, drop
<1>5. flows[Local(t, drop)] =
          [s \in Local(t, drop) |->
              LET c == Component(Local(t, drop), s)
              IN  FlowAccumulate(c, Roots(c, ExitNodes(Local(t, drop))))[s]]
  BY <1>2
<1> QED BY <1>5 DEF ServiceTree, Local, TreeWith

\* Changes on rows the tree may not claim, to and from any stamp but its own,
\* leave it nothing to do.
LEMMA TreeLeftAlone ==
    ASSUME NEW t, NEW w, NEW drop, w = [s \in Seg |-> w[s]],
           ServiceTree(t, drop) = t,
           \A s \in Seg : \/ w[s] = t[s]
                          \/ /\ ~LocalMotor(s) \/ s \in drop
                             /\ w[s].src # TreeId
    PROVE  ServiceTree(w, drop) = w
<1>1. PICK flows : \A x, d : ServiceTree(x, d) = TreeWith(flows, x, d)
  BY TreeOf
<1>2. Local(w, drop) = Local(t, drop)
  BY DEF Local, Eligible
<1>3. CASE Local(t, drop) = {}
  BY <1>1, <1>2, <1>3 DEF TreeWith
<1>4. CASE Local(t, drop) # {}
  <2>1. ASSUME NEW s \in Seg
        PROVE  ServiceTree(w, drop)[s] = w[s]
    <3>1. t[s] = IF s \in Local(t, drop)
                 THEN [src |-> TreeId, flow |-> flows[Local(t, drop)][s], ramp |-> FALSE]
                 ELSE IF t[s].src = TreeId THEN Blank ELSE t[s]
      BY <1>1, <1>4 DEF TreeWith
    <3>2. ServiceTree(w, drop)[s] =
            IF s \in Local(t, drop)
            THEN [src |-> TreeId, flow |-> flows[Local(t, drop)][s], ramp |-> FALSE]
            ELSE IF w[s].src = TreeId THEN Blank ELSE w[s]
      BY <1>1, <1>2, <1>4 DEF TreeWith
    <3>3. s \in Local(t, drop) => w[s] = t[s]
      BY DEF Local, Eligible
    <3> QED BY <3>1, <3>2, <3>3
  <2>2. ServiceTree(w, drop) = [s \in Seg |-> ServiceTree(w, drop)[s]]
    BY <1>1, <1>2, <1>4 DEF TreeWith
  <2> QED BY <2>1, <2>2
<1> QED BY <1>3, <1>4

\* What the tree claims it may claim again, and what it may not claim it leaves.
LEMMA TreeAgain ==
    ASSUME NEW t, WholeTable(t), NEW drop
    PROVE  LET w == ServiceTree(t, drop) IN ServiceTree(w, drop) = w
<1>1. PICK flows : \A x, d : ServiceTree(x, d) = TreeWith(flows, x, d)
  BY TreeOf
<1>2. PICK w : w = ServiceTree(t, drop)
  OBVIOUS
<1>3. CASE Local(t, drop) = {}
  BY <1>1, <1>2, <1>3 DEF TreeWith
<1>4. CASE Local(t, drop) # {}
  <2>1. w = [s \in Seg |->
                IF s \in Local(t, drop)
                THEN [src |-> TreeId, flow |-> flows[Local(t, drop)][s], ramp |-> FALSE]
                ELSE IF t[s].src = TreeId THEN Blank ELSE t[s]]
    BY <1>1, <1>2, <1>4 DEF TreeWith
  <2>2. ShouldOverwrite(TreeId, TreeId) /\ Blank.src # TreeId
    BY HeuristicIds DEF ShouldOverwrite, Blank, Unspecified
  <2>3. ASSUME NEW s \in Seg
        PROVE  s \in Local(w, drop) <=> s \in Local(t, drop)
    <3>1. CASE s \in Local(t, drop)
      <4>1. w[s].src = TreeId
        BY <2>1, <3>1
      <4> QED BY <2>2, <3>1, <4>1 DEF Local, Eligible
    <3>2. CASE s \notin Local(t, drop) /\ t[s].src # TreeId
      <4>1. w[s] = t[s]
        BY <2>1, <3>2
      <4> QED BY <3>2, <4>1 DEF Local, Eligible
    <3>3. CASE s \notin Local(t, drop) /\ t[s].src = TreeId
      <4>1. ~LocalMotor(s) \/ s \in drop
        BY <2>2, <3>3 DEF Local, Eligible
      <4> QED BY <3>3, <4>1 DEF Local, Eligible
    <3> QED BY <3>1, <3>2, <3>3
  <2>4. Local(w, drop) = Local(t, drop)
    BY <2>3 DEF Local
  <2>5. ServiceTree(w, drop) =
          [s \in Seg |->
                IF s \in Local(t, drop)
                THEN [src |-> TreeId, flow |-> flows[Local(t, drop)][s], ramp |-> FALSE]
                ELSE IF w[s].src = TreeId THEN Blank ELSE w[s]]
    BY <1>1, <1>4, <2>4 DEF TreeWith
  <2>6. ASSUME NEW s \in Seg
        PROVE  ServiceTree(w, drop)[s] = w[s]
    BY <2>1, <2>2, <2>5
  <2> QED BY <1>2, <2>1, <2>5, <2>6
<1> QED BY <1>2, <1>3, <1>4

\* The fill stamps no local row, and the taper none the tree could claim.
LEMMA FillLeavesTree ==
    ASSUME NEW t, WholeTable(t), NEW drop, ServiceTree(t, drop) = t, NEW plan
    PROVE  LET w == ContinuityFill(t, plan) IN ServiceTree(w, drop) = w
<1>1. PICK w : w = ContinuityFill(t, plan)
  OBVIOUS
<1>2. w = [s \in Seg |-> w[s]]
  BY <1>1 DEF ContinuityFill, WriteRoadAadt
<1>3. ASSUME NEW s \in Seg
      PROVE  w[s] = t[s] \/ (~LocalMotor(s) /\ w[s].src # TreeId)
  <2>1. w[s] = t[s] \/ (Class[s] \in Coverage[FillId] /\ w[s].src = FillId)
    BY <1>1 DEF ContinuityFill, WriteRoadAadt
  <2> QED BY <2>1, ChainAssumption
<1>4. ServiceTree(w, drop) = w
  BY <1>2, <1>3, TreeLeftAlone
<1> QED BY <1>1, <1>4

LEMMA TaperLeavesTree ==
    ASSUME NEW t, WholeTable(t), NEW drop, ServiceTree(t, drop) = t, NEW plan
    PROVE  LET w == Taper(t, plan) IN ServiceTree(w, drop) = w
<1>1. PICK w : w = Taper(t, plan)
  OBVIOUS
<1>2. w = [s \in Seg |-> w[s]]
  BY <1>1 DEF Taper, WriteRoadAadt
<1>3. /\ TreeId \in Registered /\ TaperId \in Registered /\ TreeId # TaperId
      /\ TreeId # Unspecified /\ TaperId # Unspecified /\ Outranks(TreeId, TaperId)
  BY HeuristicIds, ChainAssumption DEF Unspecified
\* The taper takes no row of an id it does not outrank.
<1>4. ASSUME NEW s \in Seg, NEW x \in Registered, t[s].src = x, Outranks(x, TaperId)
      PROVE  w[s] = t[s]
  <2>1. x # Unspecified /\ x # TaperId /\ ~Outranks(TaperId, x)
    BY <1>3, <1>4, RegistryTypes, OutranksIsTotalOrder DEF Unspecified
  <2>2. ~ShouldOverwrite(t[s].src, TaperId) /\ t[s].src # TaperId
    BY <1>3, <1>4, <2>1 DEF ShouldOverwrite
  <2> QED BY <1>1, <2>2 DEF Taper, WriteRoadAadt
<1>5. ASSUME NEW s \in Seg, LocalMotor(s), s \notin drop
      PROVE  w[s] = t[s]
  <2>1. CASE Eligible(t, drop, s)
    <3>1. s \in Local(t, drop) /\ Local(t, drop) # {}
      BY <2>1 DEF Local
    <3>2. PICK flows : \A x, d : ServiceTree(x, d) = TreeWith(flows, x, d)
      BY TreeOf
    <3>3. t[s] = [src |-> TreeId, flow |-> flows[Local(t, drop)][s], ramp |-> FALSE]
      BY <3>1, <3>2 DEF TreeWith
    <3> QED BY <1>3, <1>4, <3>3
  <2>2. CASE ~Eligible(t, drop, s)
    <3>1. ~ShouldOverwrite(t[s].src, TreeId)
      BY <1>5, <2>2 DEF Eligible
    <3>2. t[s].src \in Registered
      BY <3>1 DEF WholeTable, ShouldOverwrite
    <3>3. Outranks(t[s].src, TreeId)
      BY <1>3, <3>1, <3>2, RefusedIsOutranked
    <3>4. Outranks(t[s].src, TaperId)
      BY <1>3, <3>2, <3>3, OutranksIsTotalOrder
    <3> QED BY <1>4, <3>2, <3>4
  <2> QED BY <2>1, <2>2
<1>6. ASSUME NEW s \in Seg
      PROVE  w[s] = t[s] \/ w[s].src # TreeId
  BY <1>1, <1>3, WriteGivesNothing DEF Taper
<1>7. ServiceTree(w, drop) = w
  BY <1>2, <1>5, <1>6, TreeLeftAlone
<1> QED BY <1>1, <1>7

\* Undisturbed, each heuristic plans on the table it writes, and from the tree
\* on the table is one the tree would not change.
QuietInv ==
    /\ WholeTable(road)
    /\ quiet >= 0 =>
          /\ at \in {FillPass, TaperPass} => read = road
          /\ at \in {PlanFillPass, FillPass, PlanTaperPass, TaperPass} =>
                ServiceTree(road, dropped) = road
          /\ at = PlanTaperPass => ContinuityFill(road, FillPlan(road)) = road
    /\ at = Idle /\ quiet >= 1 => /\ Taper(road, TaperPlan(road)) = road
                                  /\ ServiceTree(road, dropped) = road

LEMMA LaterPasses ==
    /\ \A p \in {PlanFillPass, FillPass, PlanTaperPass, TaperPass} :
          /\ p # Idle /\ p # BleedPass /\ p # TreePass /\ p # BleedPass + 1 /\ p # ZeroPass + 1
          /\ \A k \in DOMAIN Censuses : p # k + 2 + 1
    /\ PlanFillPass = TreePass + 1 /\ FillPass = PlanFillPass + 1
    /\ PlanTaperPass = FillPass + 1 /\ TaperPass = PlanTaperPass + 1
    /\ PlanFillPass \notin {FillPass, PlanTaperPass, TaperPass}
    /\ FillPass \notin {PlanTaperPass, TaperPass} /\ PlanTaperPass # TaperPass
    /\ Idle \notin {PlanFillPass, FillPass, PlanTaperPass, TaperPass}
    /\ Idle # BleedPass /\ BleedPass + 1 # Idle /\ ZeroPass + 1 # Idle
    /\ \A k \in DOMAIN Censuses : k + 2 + 1 # Idle
BY Passes DEF Idle, BleedPass, ZeroPass, TreePass, PlanFillPass, FillPass, PlanTaperPass, TaperPass

LEMMA QuietInductive ==
    ASSUME QuietInv, quiet \in -1 .. 2, [Next]_vars
    PROVE  QuietInv'
<1>1. ASSUME WholeTable(road'), at' \notin {Idle, PlanFillPass, FillPass, PlanTaperPass, TaperPass}
      PROVE  QuietInv'
  BY <1>1 DEF QuietInv, WholeTable, Idle, PlanFillPass, FillPass, PlanTaperPass, TaperPass, TreePass
<1>2. ASSUME WholeTable(road'), at' = Idle, quiet' = 0
      PROVE  QuietInv'
  BY <1>2, LaterPasses DEF QuietInv, WholeTable
<1>3. CASE StartChain
  BY <1>1, <1>3, LaterPasses DEF StartChain, QuietInv
<1>4. CASE HealBleed \/ HealZero
  BY <1>1, <1>4, LaterPasses, OthersKeepWhole DEF HealBleed, HealZero, Pass, QuietInv
<1>5. ASSUME NEW k \in DOMAIN Censuses, RunCensus(k)
      PROVE  QuietInv'
  <2>1. Censuses[k] \in Registered
    BY Passes, CensusIds
  <2>2. WholeTable(road')
    BY <1>5, <2>1, WriteKeepsWhole DEF RunCensus, Pass, Census, QuietInv
  <2>3. at' = k + 2 + 1
    BY <1>5 DEF RunCensus, Pass
  <2> QED BY <1>1, <2>2, <2>3, LaterPasses
<1>6. CASE RunTree
  <2>1. at' = PlanFillPass /\ road' = ServiceTree(road, dropped) /\ dropped' = dropped
    BY <1>6, LaterPasses DEF RunTree, Pass, world
  <2>2. WholeTable(road') /\ ServiceTree(road', dropped) = road'
    BY <2>1, TreeAgain, OthersKeepWhole DEF QuietInv
  <2> QED BY <2>1, <2>2, LaterPasses DEF QuietInv
<1>7. CASE PlanFill
  <2>1. at = PlanFillPass /\ at' = FillPass /\ read' = road' /\ UNCHANGED <<road, dropped, quiet>>
    BY <1>7, LaterPasses DEF PlanFill, Pass, world
  <2> QED BY <2>1, LaterPasses DEF QuietInv
<1>8. CASE WriteFill
  <2>1. /\ at = FillPass /\ at' = PlanTaperPass /\ UNCHANGED <<dropped, quiet>>
        /\ road' = ContinuityFill(road, FillPlan(read))
    BY <1>8, LaterPasses DEF WriteFill, Pass, world
  <2>2. WholeTable(road')
    BY <2>1, HeuristicIds, WriteKeepsWhole DEF ContinuityFill, QuietInv
  <2>3. ASSUME quiet >= 0
        PROVE  /\ ServiceTree(road', dropped) = road'
               /\ ContinuityFill(road', FillPlan(road')) = road'
    <3>1. read = road /\ ServiceTree(road, dropped) = road
      BY <2>1, <2>3 DEF QuietInv
    <3> QED BY <2>1, <3>1, FillAgain, FillLeavesTree DEF QuietInv
  <2> QED BY <2>1, <2>2, <2>3, LaterPasses DEF QuietInv
<1>9. CASE PlanTaper
  <2>1. /\ at = PlanTaperPass /\ at' = TaperPass /\ read' = road'
        /\ UNCHANGED <<road, dropped, quiet>>
    BY <1>9, LaterPasses DEF PlanTaper, Pass, world
  <2> QED BY <2>1, LaterPasses DEF QuietInv
<1>10. CASE WriteTaper
  <2>1. /\ at = TaperPass /\ at' = Idle /\ quiet' = quiet + 1 /\ dropped' = dropped
        /\ road' = Taper(road, TaperPlan(read))
    BY <1>10 DEF WriteTaper, world
  <2>2. WholeTable(road')
    BY <2>1, HeuristicIds, WriteKeepsWhole DEF Taper, QuietInv
  <2>3. ASSUME quiet >= 0
        PROVE  /\ ServiceTree(road', dropped) = road'
               /\ Taper(road', TaperPlan(road')) = road'
    <3>1. read = road /\ ServiceTree(road, dropped) = road
      BY <2>1, <2>3 DEF QuietInv
    <3> QED BY <2>1, <3>1, TaperAgain, TaperLeavesTree DEF QuietInv
  <2>4. quiet' >= 1 => quiet >= 0
    BY <2>1
  <2>5. at' \notin {PlanFillPass, FillPass, PlanTaperPass, TaperPass}
    BY <2>1, LaterPasses
  <2> QED BY <2>1, <2>2, <2>3, <2>4, <2>5 DEF QuietInv
<1>11. ASSUME NEW d \in Range(Censuses), Stray(d)
       PROVE  QuietInv'
  <2>1. WholeTable(road')
    <3>1. PICK counts : road' = Census(road, d, counts, d \in Retracting)
      BY <1>11 DEF Stray
    <3> QED BY <3>1, CensusIds, WriteKeepsWhole DEF Census, QuietInv
  <2>2. quiet' = -1
    BY <1>11 DEF Stray
  <2> QED BY <2>1, <2>2 DEF QuietInv
<1>12. CASE \/ \E k \in DOMAIN Censuses : ChainStops(k)
            \/ \E d \in Range(Censuses) : Refresh(d)
            \/ \E s \in Droppable : ChangeRules(s)
  <2>1. at' = Idle /\ quiet' = 0 /\ road' = road
    BY <1>12 DEF ChainStops, Refresh, ChangeRules
  <2> QED BY <1>2, <2>1 DEF QuietInv
<1>13. CASE UNCHANGED vars
  BY <1>13 DEF QuietInv, vars
<1> QED
  BY <1>3, <1>4, <1>5, <1>6, <1>7, <1>8, <1>9, <1>10, <1>11, <1>12, <1>13 DEF Next

LEMMA AlwaysQuietInv == Spec => []QuietInv
<1>1. Init => QuietInv
  <2> SUFFICES ASSUME Init PROVE QuietInv
    OBVIOUS
  <2>1. road \in Tables /\ \A s \in Seg : road[s].src = Unspecified => road[s] = Blank
    BY ChainAssumption, InputAssumption DEF Init
  <2>2. WholeTable(road)
    BY <2>1 DEF Tables, WholeTable
  <2>3. at \notin {PlanFillPass, FillPass, PlanTaperPass, TaperPass} /\ ~(quiet >= 1)
    BY LaterPasses DEF Init
  <2> QED BY <2>2, <2>3 DEF QuietInv
<1>2. QuietInv /\ SettleInv /\ [Next]_vars => QuietInv'
  BY QuietInductive DEF SettleInv
<1>3. Spec => []SettleInv
  BY AlwaysSettleInv
<1> QED BY <1>1, <1>2, <1>3, PTL DEF Spec

\* After one undisturbed run, whatever came before it, the taper and the tree
\* would change nothing, nor would the fill right after itself, on any road
\* network and with any feeds: what the fill writes is no count and stays open
\* to it, the taper plans on facts its own stamps do not alter, and neither
\* reaches a row the tree may claim.
THEOREM OneRunQuiets == Spec => []Quiescent
<1>1. QuietInv => Quiescent
  <2> SUFFICES ASSUME QuietInv PROVE Quiescent
    OBVIOUS
  <2>1. at = PlanTaperPass /\ quiet >= 0 => ContinuityFill(road, FillPlan(road)) = road
    BY DEF QuietInv
  <2>2. at = Idle /\ quiet >= 1 => /\ Taper(road, TaperPlan(road)) = road
                                   /\ ServiceTree(road, dropped) = road
    BY DEF QuietInv
  <2> QED BY <2>1, <2>2 DEF Quiescent
<1> QED BY <1>1, AlwaysQuietInv, PTL
=============================================================================
