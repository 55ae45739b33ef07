----------------------------- MODULE RoadLayer -----------------------------
(***************************************************************************)
(* roads.arrow of one hex and the writers of the enrichment chain that     *)
(* stamp it, each as a function from the table it reads to the table it    *)
(* writes: the shared writer writeRoadAadt (pipeline/lib/roads-arrow.ts),  *)
(* the two heals, the censuses, the service tree, the continuity fill and  *)
(* the transition taper.                                                   *)
(*                                                                         *)
(* A row is [src, flow, ramp]: the dataset id stamped on it, its vehicles  *)
(* per day in one number, and whether speed_taper holds a graded speed.    *)
(* Flows are scaled to small integers and divided as integers.             *)
(***************************************************************************)
EXTENDS Sources, Sequences, SequencesExt, FiniteSetsExt, Functions

CONSTANTS
    Rows,           \* number of rows; a row is its index in the table
    Class,          \* Class[s]: road_class
    Ref,            \* Ref[s]: the canonical road number, "" for none
    Ends,           \* Ends[s]: the two endpoint nodes
    Speed,          \* Speed[s]: the resolved speed, tag or default
    Authored,       \* rows with a tagged speed or restricted access: no ramp there
    Default,        \* Default[class]: the world class default
    Trips,          \* Trips[s]: daily trips of the buildings nearest to s
    Coverage,       \* Coverage[id]: the classes a dataset may stamp
    Abroad,         \* Abroad[id]: rows wholly outside the dataset's country
    TreeId, FillId, TaperId

Seg == 1 .. Rows

Blank == [src |-> Unspecified, flow |-> 0, ramp |-> FALSE]
Tables == [Seg -> [src : Registered \cup {Unspecified}, flow : Nat, ramp : BOOLEAN]]

\* The rows that meet s at node n, in table order.
Meeting(s, n) == SelectSeq([i \in Seg |-> i], LAMBDA o : o # s /\ n \in Range(Ends[o]))

--------------------------------------------------------------------------
(* writeRoadAadt: retract, coverage, country, rank. *)

\* MUTANT: a claim that says nothing of the ramp leaves the old one.
WriteKeepingRamp(t, id, gone, offer) ==
    [s \in Seg |->
        LET own == IF t[s].src = id /\ s \in gone THEN Blank ELSE t[s]
        IN  IF /\ s \in DOMAIN offer
               /\ Class[s] \in Coverage[id]
               /\ s \notin Abroad[id]
               /\ ShouldOverwrite(own.src, id)
            THEN [src |-> id, flow |-> offer[s].flow, ramp |-> offer[s].ramp \/ own.ramp]
            ELSE own]

\* MUTANT: the writer trusts its caller and drops the rank gate.
WriteUngated(t, id, gone, offer) ==
    [s \in Seg |->
        IF s \in DOMAIN offer /\ Class[s] \in Coverage[id] /\ s \notin Abroad[id]
        THEN [src |-> id, flow |-> offer[s].flow, ramp |-> offer[s].ramp]
        ELSE IF t[s].src = id /\ s \in gone THEN Blank ELSE t[s]]

\* Dataset id disowns its rows in `gone` and offers the rows in DOMAIN offer.
WriteRoadAadt(t, id, gone, offer) ==
    [s \in Seg |->
        LET own == IF t[s].src = id /\ s \in gone THEN Blank ELSE t[s]
        IN  IF /\ s \in DOMAIN offer
               /\ Class[s] \in Coverage[id]
               /\ s \notin Abroad[id]
               /\ ShouldOverwrite(own.src, id)
            THEN [src |-> id, flow |-> offer[s].flow, ramp |-> offer[s].ramp]
            ELSE own]

\* A measured id with no vehicles is a loader failure: the writer throws.  A zero
\* outside the dataset's coverage or country is skipped there; here it stops the chain too.
Malformed(id, counts) == IsMeasured(id) /\ \E s \in DOMAIN counts : counts[s] = 0

\* Tier national-measured or national-proxy with a country of its own.
National(id) == id \in Registered /\ Rank[id] \in {3, 6}

HealCountryBleed(t) ==
    [s \in Seg |-> IF National(t[s].src) /\ s \in Abroad[t[s].src] THEN Blank ELSE t[s]]

HealZeroWrite(t) ==
    [s \in Seg |-> IF IsMeasured(t[s].src) /\ t[s].flow = 0 THEN Blank ELSE t[s]]

\* MUTANT: the retract reaches only the rows the dataset still covers.
CensusRetractsMatched(t, id, counts, retracts) ==
    WriteRoadAadt(t, id, IF retracts THEN DOMAIN counts ELSE {},
                  [s \in DOMAIN counts |-> [flow |-> counts[s], ramp |-> FALSE]])

\* A census that matches the rows in DOMAIN counts, with or without the
\* retract arm that disowns every row it would not claim now.
Census(t, id, counts, retracts) ==
    WriteRoadAadt(t, id, IF retracts THEN Seg \ DOMAIN counts ELSE {},
                  [s \in DOMAIN counts |-> [flow |-> counts[s], ramp |-> FALSE]])

--------------------------------------------------------------------------
(* enrich-roads-service-tree.ts *)

LocalMotor(s) == Class[s] \in {5, 6, 7, 9}
Through(s) == Class[s] \in 0 .. 4 \cup 10 .. 12

\* dropped: tunnels and closed roads, which the engine never lets emit.
Eligible(t, dropped, s) ==
    LocalMotor(s) /\ s \notin dropped /\ ShouldOverwrite(t[s].src, TreeId)

\* Endpoints where traffic leaves the local network.
ExitNodes(local) ==
    UNION {Range(Ends[s]) : s \in {r \in Seg \ local : Through(r) \/ LocalMotor(r)}}

\* Rows of `local` in s's component.
Component(local, s) ==
    LET grow[k \in 0 .. Rows] ==
            IF k = 0 THEN {s}
            ELSE grow[k - 1] \cup {r \in local : \E o \in grow[k - 1] :
                                       Range(Ends[r]) \cap Range(Ends[o]) # {}}
    IN  grow[Rows]

Nodes(rows) == UNION {Range(Ends[s]) : s \in rows}
Degree(rows, n) == Cardinality({s \in rows : n \in Range(Ends[s])})

\* Where a component drains: its exits, else a node of highest degree.
Roots(comp, exits) ==
    LET outs == Nodes(comp) \cap exits
    IN  IF outs # {} THEN outs
        ELSE {CHOOSE n \in Nodes(comp) :
                 \A m \in Nodes(comp) : Degree(comp, m) <= Degree(comp, n)}

\* Distance of each node of a component from its roots, by rows.
Distance(comp, roots) ==
    LET reach[k \in 0 .. Rows] ==
            IF k = 0 THEN roots
            ELSE reach[k - 1] \cup Nodes({s \in comp : Range(Ends[s]) \cap reach[k - 1] # {}})
    IN  [n \in Nodes(comp) |-> CHOOSE k \in 0 .. Rows :
                                  n \in reach[k] /\ \A j \in 0 .. k - 1 : n \notin reach[j]]

\* The row through which a node drains, one step nearer to the roots.
DownRow(comp, dist, n) ==
    CHOOSE s \in comp : /\ n \in Range(Ends[s])
                        /\ \E m \in Range(Ends[s]) : dist[m] = dist[n] - 1

\* Trips through each row of a component: its own, and everything that
\* arrives from the far end when the row is the way down from there.
FlowAccumulate(comp, roots) ==
    LET dist == Distance(comp, roots)
        far(s) == CHOOSE n \in Range(Ends[s]) : \A m \in Range(Ends[s]) : dist[m] <= dist[n]
        level(s) == Cardinality({dist[n] : n \in Range(Ends[s])})
        flow[s \in comp] ==
            Trips[s] + IF level(s) = 2 /\ DownRow(comp, dist, far(s)) = s
                       THEN MapThenSumSet(LAMBDA r : flow[r],
                                {r \in comp : /\ r # s /\ far(s) \in Range(Ends[r])
                                              /\ dist[far(r)] > dist[far(s)]})
                       ELSE 0
    IN  flow

ServiceTree(t, dropped) ==
    LET local == {s \in Seg : Eligible(t, dropped, s)}
        flow == [s \in local |->
                    LET c == Component(local, s)
                    IN  FlowAccumulate(c, Roots(c, ExitNodes(local)))[s]]
    IN  IF local = {} THEN t    \* returns before the sweep
        ELSE [s \in Seg |->
                IF s \in local THEN [src |-> TreeId, flow |-> flow[s], ramp |-> FALSE]
                ELSE IF t[s].src = TreeId THEN Blank
                ELSE t[s]]

--------------------------------------------------------------------------
(* enrich-roads-continuity-fill.ts *)

\* MUTANT: the fill counts its own estimates.
CountsAndFills(t) ==
    [s \in {r \in Seg : IsMeasured(t[r].src) \/ t[r].src = FillId} |-> t[s].flow]

\* What the fill reads of the table: the counts, a measured row's vehicles,
\* and the open rows, which may receive a flow and pass it on.
Counts(t) == [s \in {r \in Seg : IsMeasured(t[r].src)} |-> t[s].flow]
Open(t) == {s \in Seg : Through(s) /\ t[s].src \in {Unspecified, FillId}}

\* What a branch takes at a junction: its count, or its class default.
DrawEstimate(counts, s) == IF s \in DOMAIN counts THEN counts[s] ELSE Default[Class[s]]

\* The rows that meet s at n, each with its share of the flow v.
Shares(counts, s, v, n) ==
    LET outs == Meeting(s, n)
        same == SelectSeq(outs, LAMBDA o : Ref[s] # "" /\ Ref[o] = Ref[s])
        others == ToSet(outs) \ ToSet(same)
        main == v - MapThenSumSet(LAMBDA o : DrawEstimate(counts, o), others)
        split == MapThenSumSet(LAMBDA o : Default[Class[o]], ToSet(outs))
    IN  IF same # << >>
        THEN [i \in DOMAIN same |-> <<same[i], (IF main > 0 THEN main ELSE 0) \div Len(same)>>]
        ELSE [i \in DOMAIN outs |-> <<outs[i], (v * Default[Class[outs[i]]]) \div split>>]

\* Two anchors that differ by more than three on one row dispute it.
Disputed(v, w) == LET lo == IF v < w THEN v ELSE w
                      hi == IF v < w THEN w ELSE v
                  IN  hi > 3 * (IF lo > 1 THEN lo ELSE 1)

\* The flow of `anchor` reaches a row.  fill: row -> [flow, anchor], anchor 0
\* for none; out: the rows nothing may fill any more; todo: rows it goes on from.
Reach(open, anchor, st, share) ==
    LET o == share[1]  v == share[2]  prev == st.fill[o]
    IN  IF o \in st.seen \/ o \notin open \/ v <= Default[Class[o]] THEN st
        ELSE IF o \in st.out THEN [st EXCEPT !.seen = @ \cup {o}]
        ELSE IF prev.anchor \notin {0, anchor} /\ Disputed(prev.flow, v)
        THEN [st EXCEPT !.seen = @ \cup {o}, !.out = @ \cup {o},
                        !.fill[o] = [flow |-> 0, anchor |-> 0]]
        ELSE [st EXCEPT !.seen = @ \cup {o}, !.todo = Append(@, <<o, v>>),
                        !.fill[o] = IF prev.anchor \in {0, anchor} \/ v < prev.flow
                                    THEN [flow |-> v, anchor |-> anchor] ELSE prev]

\* Breadth first from one anchor.
Spread(counts, open, st0, anchor) ==
    LET walk[k \in 0 .. Rows + 1] ==
            IF k = 0
            THEN [st0 EXCEPT !.seen = {anchor}, !.todo = << <<anchor, counts[anchor]>> >>]
            ELSE LET st == walk[k - 1]
                 IN  IF st.todo = << >> THEN st
                     ELSE LET s == Head(st.todo)[1]  v == Head(st.todo)[2]
                          IN  FoldLeft(LAMBDA acc, share : Reach(open, anchor, acc, share),
                                       [st EXCEPT !.todo = Tail(@)],
                                       Shares(counts, s, v, Ends[s][1])
                                           \o Shares(counts, s, v, Ends[s][2]))
    IN  walk[Rows + 1]

\* Every counted row an anchor in table order; the open rows their flows
\* reach, each with its flow.
Propagate(counts, open) ==
    LET anchors == SelectSeq([i \in Seg |-> i], LAMBDA s : s \in DOMAIN counts /\ counts[s] > 0)
        st == FoldLeft(LAMBDA acc, a : Spread(counts, open, acc, a),
                       [seen |-> {}, todo |-> << >>, out |-> {},
                        fill |-> [s \in Seg |-> [flow |-> 0, anchor |-> 0]]],
                       anchors)
    IN  [s \in {r \in open : st.fill[r].anchor # 0} |-> [flow |-> st.fill[s].flow, ramp |-> FALSE]]

\* MUTANT: every stamped row is an anchor, a heuristic's too.
FillPlanFromStamped(t) ==
    Propagate([s \in {r \in Seg : t[r].src # Unspecified} |-> t[s].flow], Open(t))

\* The rows to fill and with what.
FillPlan(t) == Propagate(Counts(t), Open(t))

ContinuityFill(t, plan) == WriteRoadAadt(t, FillId, {}, plan)

--------------------------------------------------------------------------
(* enrich-roads-taper.ts and lib/roads-taper-plan.ts *)

\* p and q follow each other where nothing else meets.
Linked(p, q) ==
    /\ p # q /\ {Class[p], Class[q]} \cap {7, 8} = {}
    /\ \E n \in Range(Ends[p]) \cap Range(Ends[q]) :
          Degree({s \in Seg : Class[s] \notin {7, 8}}, n) <= 2

Writable(t, s) == /\ Class[s] \in Coverage[TaperId]
                  /\ t[s].src = Unspecified /\ s \notin Authored

\* The vehicles the engine will use, 0 where it scales them by country.
ResolveAadt(t, s) ==
    IF t[s].src # Unspecified /\ t[s].flow > 0 THEN t[s].flow
    ELSE IF Class[s] \in {0, 1, 2, 10, 11, 12} THEN 0 ELSE Default[Class[s]]

Gap(x, y) == IF x < y THEN y - x ELSE x - y

\* Two decibels or more between p and q (58% in flow, 17% in speed).
Boundary(t, p, q) ==
    LET a == ResolveAadt(t, p)  b == ResolveAadt(t, q)
    IN  /\ Linked(p, q)
        /\ {Class[p], Class[q]} \cap Coverage[TaperId] # {}
        /\ a > 0 /\ b > 0
        /\ \/ 100 * Gap(a, b) >= 58 * (IF a < b THEN a ELSE b)
           \/ 100 * Gap(Speed[p], Speed[q]) >= 17 * (IF Speed[p] < Speed[q] THEN Speed[p] ELSE Speed[q])

\* s is the k-th row of the ramp that leaves `other` through `self`; a ramp
\* ends where the road forks or a row may not be written.
OnRamp(t, self, other, k, s) ==
    /\ Writable(t, self) /\ Writable(t, s)
    /\ \/ k = 1 /\ s = self
       \/ k = 2 /\ {r \in Seg : Linked(self, r) /\ r # other} = {s}

\* What the ramp writes there: flow 0 and no ramp when the default is close.
Graded(t, self, other, k, s) ==
    LET w == IF Writable(t, other) THEN 1 ELSE 2
        half(x, y) == IF Writable(t, other) THEN (x + y) \div 2 ELSE y
        grade(from, own) == from + ((own - from) * (2 * k - 1)) \div (2 * w)
        a == ResolveAadt(t, self)  b == ResolveAadt(t, other)
        own == ResolveAadt(t, s)
        flow == grade(half(a, b), own)
        speed == grade(half(Speed[self], Speed[other]), Speed[s])
    IN  [flow |-> IF 20 * Gap(a, b) >= (IF a < b THEN a ELSE b) /\ own > 0 /\ 20 * Gap(flow, own) >= own
                  THEN flow ELSE 0,
         ramp |-> Gap(Speed[self], Speed[other]) >= 3 /\ Gap(speed, Speed[s]) >= 3]

\* The ramps that write row s, each <<k, self, other>>.
Ramps(t, s) ==
    {r \in (1 .. 2) \X Seg \X Seg :
        /\ Boundary(t, r[2], r[3])
        /\ r[1] = 1 \/ ~Writable(t, r[3])
        /\ OnRamp(t, r[2], r[3], r[1], s)
        /\ Graded(t, r[2], r[3], r[1], s) # [flow |-> 0, ramp |-> FALSE]}

\* Every row some ramp writes, by the nearest of its ramps.
RampPlan(t) ==
    LET nearest(s) == CHOOSE r \in Ramps(t, s) :
                        \A o \in Ramps(t, s) : r[1] < o[1] \/ (r[1] = o[1] /\ r[3] <= o[3])
    IN  [s \in {r \in Seg : Ramps(t, r) # {}} |->
            Graded(t, nearest(s)[2], nearest(s)[3], nearest(s)[1], s)]

\* The table as if the taper had never been there.
Untapered(t) == [s \in Seg |-> IF t[s].src = TaperId THEN Blank ELSE t[s]]

\* MUTANT: planned over the rows an earlier run stamped.
TaperPlanOverStamps(read) == RampPlan(read)

\* On fresh facts: what an earlier run tapered counts as unwritten.
TaperPlan(read) == RampPlan(Untapered(read))

\* One write stamps the plan and disowns what an earlier plan stamped.
Taper(t, plan) == WriteRoadAadt(t, TaperId, Seg \ DOMAIN plan, plan)
=============================================================================
