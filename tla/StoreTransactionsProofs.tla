----------------------- MODULE StoreTransactionsProofs -----------------------
(***************************************************************************)
(* What a pack publishes and what the root's marker means, for any jobs,   *)
(* layers, areas, depth and number of crashes.                             *)
(*                                                                         *)
(* The inductive invariant IInv says where a job can be (Placed), which    *)
(* locks (Held) and which fence markers (Owned) that place implies, and    *)
(* what the tiles may then be (Content): levels differ only where a marker *)
(* covers the area and its owner, if any, has still to write it (Pending). *)
(* The proof takes each part through every step; a step that writes no     *)
(* tile and removes no marker keeps Content by Quiet.                      *)
(***************************************************************************)
EXTENDS StoreTransactions, FiniteSetTheorems, FunctionTheorems, TLAPS

------------------------------------------------------------------------------
(* Where a job may be *)

Writing == {"open", "create", "put", "close"}
Fencing == {"mutex", "begin", "finish", "leave"}

Position == [pc : Nat \ {0}, turn : Nat \ {0}, zoom : 0 .. Depth,
             call : Writing \cup Fencing \cup {"do"}]

Placed(j) ==
    /\ at[j] \in Position /\ at[j].pc \in 1 .. Len(Program(Job[j].kind))
    /\ Step(j) \in {"stage", "rebuild", "capture", "release"} => at[j].turn \in 1 .. Len(Turns(Job[j], Step(j)))
    /\ Step(j) \in {"stage", "rebuild", "capture", "release"} \/ at[j].turn = 1
    /\ Step(j) = "stage" => at[j].call \in Writing \ {"create"} /\ at[j].zoom = 0
    /\ Step(j) = "rebuild" => at[j].call # "do"
    /\ Step(j) \notin {"stage", "rebuild"} => at[j].call = "do"
    /\ Step(j) = "rebuild" /\ at[j].call \in Writing => at[j].zoom >= FirstLevel(Job[j], Dir(j))
    /\ at[j].call = "create" => Job[j].scope = Full
    /\ rolled[j] # {} => at[j].call = "put"

Marks == [desc : [op : {"scoped update", "transcode", "combine", "pyramid"},
                  scope : Scopes, layers : Seq(Dirs)],
          owner : Jobs]

Tiles == Contents \cup [Layers -> Contents]

\* A tile of the total is a tile for each layer, or none.
TilesOf(d) == IF d = Total THEN [Layers -> Contents] \cup {None} ELSE Contents

Painted == \A d \in Dirs, k \in 0 .. Depth, a \in Areas : level[d][k][a] \in TilesOf(d)

Typed ==
    /\ level \in [Dirs -> [0 .. Depth -> [Areas -> Tiles]]]
    /\ Painted
    /\ marker \in [Dirs \cup {Root} -> {NoMarker} \cup Marks]
    /\ holder \in [Locks -> Jobs \cup {None}]
    /\ at \in [Jobs -> Position]
    /\ rolled \in [Jobs -> SUBSET Areas]
    /\ aborts \in 0 .. MaxAborts
------------------------------------------------------------------------------
(* The locks a position implies *)

HoldsMaster(j) == Job[j].kind \notin {"push", "pyramid"} /\ at[j].pc > 1 /\ ~Done(j)

HoldsIngest(j) ==
    \/ Job[j].kind = "repaint" /\ at[j].pc \in {4, 5, 7, 8, 9}
    \/ Job[j].kind = "push" /\ at[j].pc \in {2, 3}
    \/ Job[j].kind = "transcode" /\ at[j].pc \in {3, 4}
    \/ Job[j].kind = "pack" /\ at[j].pc \in 3 .. 8

HoldsMutex(j, d) == Step(j) = "rebuild" /\ at[j].call # "mutex" /\ Dir(j) = d

\* The level that is written; those that a pack has captured, holds in its
\* body, and has still to release.
WritesAt(j, d, k) == at[j].call \in {"create", "put", "close"} /\ Dir(j) = d /\ at[j].zoom = k

Captured(j, d, k) ==
    /\ Step(j) = "capture"
    /\ \E i \in 1 .. Len(Turns(Job[j], Step(j))) :
          Turns(Job[j], Step(j))[i] = d /\ (i < at[j].turn \/ (i = at[j].turn /\ k < at[j].zoom))

InBody(j, d) == Job[j].kind = "pack" /\ at[j].pc \in {5, 6} /\ d \in ValidationScope(Job[j].layers)

ToRelease(j, d, k) ==
    /\ Step(j) = "release"
    /\ \E i \in 1 .. Len(Turns(Job[j], Step(j))) :
          Turns(Job[j], Step(j))[i] = d /\ (i > at[j].turn \/ (i = at[j].turn /\ k >= at[j].zoom))

HoldsZoom(j, d, k) ==
    WritesAt(j, d, k) \/ Captured(j, d, k) \/ InBody(j, d) \/ ToRelease(j, d, k)

Holds(j, r) ==
    \/ r = MasterLock /\ HoldsMaster(j)
    \/ r = IngestLock /\ HoldsIngest(j)
    \/ \E d \in Dirs : r = RebuildMutex(d) /\ HoldsMutex(j, d)
    \/ \E d \in Dirs, k \in 0 .. Depth : r = ZoomLock(d, k) /\ HoldsZoom(j, d, k)

Held == \A j \in Jobs, r \in Locks : Holds(j, r) => holder[r] = j
------------------------------------------------------------------------------
(* The fences a position implies *)

InFence(j) == Step(j) = "rebuild" /\ at[j].call \in Writing \cup {"finish"}
InUpdate(j) == Job[j].kind = "repaint" /\ at[j].pc \in 3 .. 8

Owned ==
    \A j \in Jobs :
        /\ InFence(j) => marker[Dir(j)] = [desc |-> Descriptor(Job[j], Dir(j)), owner |-> j]
        /\ InUpdate(j) => marker[Root] = [desc |-> Descriptor(Job[j], Root), owner |-> j]
------------------------------------------------------------------------------
(* What is done, and what a marker says is not *)

\* Job j has, inside its fence of layer d, written level k of area a.
Written(j, d, k, a) ==
    /\ Step(j) = "rebuild" /\ Dir(j) = d /\ a \in Scope(j) /\ k >= FirstLevel(Job[j], d)
    /\ \/ at[j].call = "finish"
       \/ at[j].call \in Writing /\ at[j].zoom > k
       \/ at[j].call = "close" /\ at[j].zoom = k
       \/ at[j].call = "put" /\ at[j].zoom = k /\ a \in rolled[j]

Covered(d, a) == marker[d] # NoMarker /\ (marker[d].desc.scope = Full \/ a \in marker[d].desc.scope)

\* The marker of layer d covers area a, and level k is still to be written there.
Pending(d, k, a) == Covered(d, a) /\ \A j \in Jobs : ~Written(j, d, k, a)

\* The root's marker covers area a of layer l.
Updating(l, a) ==
    marker[Root] # NoMarker /\ l \in Range(marker[Root].desc.layers) /\ a \in marker[Root].desc.scope

\* A scoped repaint has staged its base, rolled it up to level 1, summed it.
Staged(j, l, a) ==
    /\ Job[j].kind = "repaint" /\ a \in Job[j].scope
    /\ \/ at[j].pc \in 5 .. 8 /\ l \in Range(Job[j].layers)
       \/ /\ at[j].pc = 4
          /\ \E i \in 1 .. Len(Job[j].layers) :
                /\ Job[j].layers[i] = l
                /\ \/ i < at[j].turn
                   \/ i = at[j].turn /\ (at[j].call = "close" \/ (at[j].call = "put" /\ a \in rolled[j]))

Settled(j, l, a) ==
    /\ Job[j].kind = "repaint" /\ a \in Job[j].scope
    /\ \/ at[j].pc = 8 /\ l \in Range(Job[j].layers)
       \/ /\ at[j].pc = 7
          /\ \E i \in 1 .. Len(Job[j].layers) :
                /\ Job[j].layers[i] = l
                /\ \/ i < at[j].turn
                   \/ i = at[j].turn /\ (at[j].call = "leave" \/ Written(j, l, 1, a))

Summed(j, a) ==
    /\ Job[j].kind = "repaint" /\ a \in Job[j].scope
    /\ \/ at[j].pc = 8
       \/ /\ at[j].pc = 7 /\ at[j].turn = Len(Job[j].layers) + 1
          /\ at[j].call = "leave" \/ Written(j, Total, 0, a)
------------------------------------------------------------------------------
(* What the store holds *)

\* A layer's first overview level is its base's, unless a Hub push is ahead of
\* it, a scoped update is under way or a marker says that it is to be rebuilt.
FirstRolledAt(d, a) ==
    \/ level[d][1][a] = level[d][0][a]
    \/ d # Total /\ level[d][0][a] \in Pushes
    \/ d # Total /\ Updating(d, a)
    \/ Pending(d, 1, a)

FirstRolled == \A d \in Dirs, a \in Areas : FirstRolledAt(d, a)

\* Each further level is the first one's, unless it is to be rebuilt.
RestRolledAt(d, k, a) == level[d][k][a] = level[d][1][a] \/ Pending(d, k, a)

RestRolled == \A d \in Dirs, k \in 2 .. Depth, a \in Areas : RestRolledAt(d, k, a)

\* What a scoped repaint put in a layer is in the total, unless the update is
\* under way or the total is to be combined.
ToCombine(a) == marker[Total] # NoMarker /\ marker[Total].desc.op = "combine" /\ Pending(Total, 0, a)

TotalSumsAt(l, a) ==
    level[l][0][a] \in Repaints =>
        \/ level[Total][0][a] = None
        \/ level[Total][0][a][l] = level[l][0][a]
        \/ Updating(l, a)
        \/ ToCombine(a)

TotalSums == \A l \in Layers, a \in Areas : TotalSumsAt(l, a)

\* What the owner of a scoped update has done stays done until it ends.
StandsAt(j, l, a) ==
    /\ Staged(j, l, a) => level[l][0][a] # None
    /\ Settled(j, l, a) => level[l][1][a] = level[l][0][a] \/ Pending(l, 1, a)
    /\ Summed(j, a) /\ l \in Range(Job[j].layers) =>
          level[Total][0][a] # None /\ level[Total][0][a][l] = level[l][0][a]

UpdateStands == \A j \in Jobs, l \in Layers, a \in Areas : StandsAt(j, l, a)

Content == FirstRolled /\ RestRolled /\ TotalSums /\ UpdateStands

IInv ==
    /\ Typed /\ (\A j \in Jobs : Placed(j))
    /\ Held /\ Owned
    /\ Content
    /\ PublishedCascadesWhole /\ PublishedRepaintsSummed
------------------------------------------------------------------------------
(* The programs *)

\* Which step of which program a label is, and how long a program is.
LabelTable(kind, p, x) ==
    /\ x = "take master" <=> kind \notin {"push", "pyramid"} /\ p = 1
    /\ x = "mark" <=> kind = "repaint" /\ p = 2
    /\ x = "unmark" <=> kind = "repaint" /\ p = 8
    /\ x = "stage" <=> (kind = "repaint" /\ p = 4) \/ (kind = "push" /\ p = 2)
    /\ x = "rebuild" <=> \/ kind = "repaint" /\ p = 7
                         \/ kind = "combine" /\ p = 2
                         \/ kind = "transcode" /\ p = 3
                         \/ kind = "pyramid" /\ p = 1
    /\ x = "reject" <=> kind = "pack" /\ p \in {3, 5}
    /\ x = "capture" <=> kind = "pack" /\ p = 4
    /\ x = "publish" <=> kind = "pack" /\ p = 6
    /\ x = "release" <=> kind = "pack" /\ p = 7
    /\ x = "take ingest" <=> \/ kind = "repaint" /\ p \in {3, 6}
                             \/ kind = "push" /\ p = 1
                             \/ kind \in {"transcode", "pack"} /\ p = 2
    /\ x = "drop ingest" <=> \/ kind = "repaint" /\ p \in {5, 9}
                             \/ kind = "push" /\ p = 3
                             \/ kind = "transcode" /\ p = 4
                             \/ kind = "pack" /\ p = 8
    /\ x = "drop master" <=> \/ kind = "repaint" /\ p = 10
                             \/ kind = "combine" /\ p = 3
                             \/ kind = "transcode" /\ p = 5
                             \/ kind = "pack" /\ p = 9
    /\ x = "done" <=> \/ kind = "repaint" /\ p = 11
                      \/ kind = "combine" /\ p = 4
                      \/ kind = "transcode" /\ p = 6
                      \/ kind = "pyramid" /\ p = 2
                      \/ kind = "push" /\ p = 4
                      \/ kind = "pack" /\ p = 10
    /\ kind = "repaint" => p \in 1 .. 11
    /\ kind = "combine" => p \in 1 .. 4
    /\ kind = "transcode" => p \in 1 .. 6
    /\ kind = "pyramid" => p \in 1 .. 2
    /\ kind = "push" => p \in 1 .. 4
    /\ kind = "pack" => p \in 1 .. 10

\* Each label of each program.
LEMMA Labels ==
    ASSUME NEW kind \in Kinds, NEW p \in 1 .. Len(Program(kind))
    PROVE  LabelTable(kind, p, Program(kind)[p])
<1>1. CASE kind = "repaint"
  <2>1. Program(kind) = Repaint
    BY <1>1 DEF Program
  <2>2. /\ Len(Repaint) = 11 /\ Repaint[1] = "take master" /\ Repaint[2] = "mark"
       /\ Repaint[3] = "take ingest" /\ Repaint[4] = "stage" /\ Repaint[5] = "drop ingest"
       /\ Repaint[6] = "take ingest" /\ Repaint[7] = "rebuild" /\ Repaint[8] = "unmark"
       /\ Repaint[9] = "drop ingest" /\ Repaint[10] = "drop master" /\ Repaint[11] = "done"
    BY DEF Repaint
  <2>3. p \in 1 .. 11
    BY <2>1, <2>2
  <2>4. p = 1 \/ p = 2 \/ p = 3 \/ p = 4 \/ p = 5
       \/ p = 6 \/ p = 7 \/ p = 8 \/ p = 9 \/ p = 10 \/ p = 11
    BY <2>3
  <2>5. CASE p = 1 \/ p = 2 \/ p = 3
    BY <1>1, <2>1, <2>2, <2>5 DEF LabelTable
  <2>6. CASE p = 4 \/ p = 5 \/ p = 6
    BY <1>1, <2>1, <2>2, <2>6 DEF LabelTable
  <2>7. CASE p = 7 \/ p = 8 \/ p = 9
    BY <1>1, <2>1, <2>2, <2>7 DEF LabelTable
  <2>8. CASE p = 10 \/ p = 11
    BY <1>1, <2>1, <2>2, <2>8 DEF LabelTable
  <2> QED
    BY <2>4, <2>5, <2>6, <2>7, <2>8
<1>2. CASE kind = "combine"
  <2>1. Program(kind) = Combine
    BY <1>2 DEF Program
  <2>2. /\ Len(Combine) = 4 /\ Combine[1] = "take master" /\ Combine[2] = "rebuild"
       /\ Combine[3] = "drop master" /\ Combine[4] = "done"
    BY DEF Combine
  <2>3. p \in 1 .. 4
    BY <2>1, <2>2
  <2>4. p = 1 \/ p = 2 \/ p = 3 \/ p = 4
    BY <2>3
  <2> QED
    BY <1>2, <2>1, <2>2, <2>4 DEF LabelTable
<1>3. CASE kind = "transcode"
  <2>1. Program(kind) = Transcode
    BY <1>3 DEF Program
  <2>2. /\ Len(Transcode) = 6 /\ Transcode[1] = "take master" /\ Transcode[2] = "take ingest"
       /\ Transcode[3] = "rebuild" /\ Transcode[4] = "drop ingest" /\ Transcode[5] = "drop master"
       /\ Transcode[6] = "done"
    BY DEF Transcode
  <2>3. p \in 1 .. 6
    BY <2>1, <2>2
  <2>4. p = 1 \/ p = 2 \/ p = 3 \/ p = 4 \/ p = 5 \/ p = 6
    BY <2>3
  <2>5. CASE p = 1 \/ p = 2 \/ p = 3
    BY <1>3, <2>1, <2>2, <2>5 DEF LabelTable
  <2>6. CASE p = 4 \/ p = 5 \/ p = 6
    BY <1>3, <2>1, <2>2, <2>6 DEF LabelTable
  <2> QED
    BY <2>4, <2>5, <2>6
<1>4. CASE kind = "pyramid"
  <2>1. Program(kind) = Pyramid
    BY <1>4 DEF Program
  <2>2. /\ Len(Pyramid) = 2 /\ Pyramid[1] = "rebuild" /\ Pyramid[2] = "done"
    BY DEF Pyramid
  <2>3. p \in 1 .. 2
    BY <2>1, <2>2
  <2>4. p = 1 \/ p = 2
    BY <2>3
  <2> QED
    BY <1>4, <2>1, <2>2, <2>4 DEF LabelTable
<1>5. CASE kind = "push"
  <2>1. Program(kind) = Push
    BY <1>5 DEF Program
  <2>2. /\ Len(Push) = 4 /\ Push[1] = "take ingest" /\ Push[2] = "stage"
       /\ Push[3] = "drop ingest" /\ Push[4] = "done"
    BY DEF Push
  <2>3. p \in 1 .. 4
    BY <2>1, <2>2
  <2>4. p = 1 \/ p = 2 \/ p = 3 \/ p = 4
    BY <2>3
  <2> QED
    BY <1>5, <2>1, <2>2, <2>4 DEF LabelTable
<1>6. CASE kind = "pack"
  <2>1. Program(kind) = Pack
    BY <1>6 DEF Program
  <2>2. /\ Len(Pack) = 10 /\ Pack[1] = "take master" /\ Pack[2] = "take ingest"
       /\ Pack[3] = "reject" /\ Pack[4] = "capture" /\ Pack[5] = "reject"
       /\ Pack[6] = "publish" /\ Pack[7] = "release" /\ Pack[8] = "drop ingest"
       /\ Pack[9] = "drop master" /\ Pack[10] = "done"
    BY DEF Pack
  <2>3. p \in 1 .. 10
    BY <2>1, <2>2
  <2>4. p = 1 \/ p = 2 \/ p = 3 \/ p = 4 \/ p = 5
       \/ p = 6 \/ p = 7 \/ p = 8 \/ p = 9 \/ p = 10
    BY <2>3
  <2>5. CASE p = 1 \/ p = 2 \/ p = 3
    BY <1>6, <2>1, <2>2, <2>5 DEF LabelTable
  <2>6. CASE p = 4 \/ p = 5 \/ p = 6 \/ p = 7
    BY <1>6, <2>1, <2>2, <2>6 DEF LabelTable
  <2>7. CASE p = 8 \/ p = 9 \/ p = 10
    BY <1>6, <2>1, <2>2, <2>7 DEF LabelTable
  <2> QED
    BY <2>4, <2>5, <2>6, <2>7
<1> QED
  BY <1>1, <1>2, <1>3, <1>4, <1>5, <1>6 DEF Kinds

\* Only the last label is "done".
LEMMA LastLabel ==
    ASSUME NEW kind \in Kinds, NEW p \in 1 .. Len(Program(kind))
    PROVE  Program(kind)[p] = "done" <=> p = Len(Program(kind))
<1>1. LabelTable(kind, p, Program(kind)[p])
  BY Labels
<1>2. CASE kind = "repaint"
  <2>1. Len(Program(kind)) = 11
    BY <1>2 DEF Program, Repaint
  <2> QED
    BY <1>1, <1>2, <2>1 DEF LabelTable
<1>3. CASE kind = "combine"
  <2>1. Len(Program(kind)) = 4
    BY <1>3 DEF Program, Combine
  <2> QED
    BY <1>1, <1>3, <2>1 DEF LabelTable
<1>4. CASE kind = "transcode"
  <2>1. Len(Program(kind)) = 6
    BY <1>4 DEF Program, Transcode
  <2> QED
    BY <1>1, <1>4, <2>1 DEF LabelTable
<1>5. CASE kind = "pyramid"
  <2>1. Len(Program(kind)) = 2
    BY <1>5 DEF Program, Pyramid
  <2> QED
    BY <1>1, <1>5, <2>1 DEF LabelTable
<1>6. CASE kind = "push"
  <2>1. Len(Program(kind)) = 4
    BY <1>6 DEF Program, Push
  <2> QED
    BY <1>1, <1>6, <2>1 DEF LabelTable
<1>7. CASE kind = "pack"
  <2>1. Len(Program(kind)) = 10
    BY <1>7 DEF Program, Pack
  <2> QED
    BY <1>1, <1>7, <2>1 DEF LabelTable
<1> QED
  BY <1>2, <1>3, <1>4, <1>5, <1>6, <1>7 DEF Kinds

\* A program has a last step.
LEMMA ProgramLength ==
    ASSUME NEW kind \in Kinds
    PROVE  Len(Program(kind)) \in Nat /\ Len(Program(kind)) >= 1
<1>1. CASE kind = "repaint"
  BY <1>1 DEF Program, Repaint
<1>2. CASE kind = "combine"
  BY <1>2 DEF Program, Combine
<1>3. CASE kind = "transcode"
  BY <1>3 DEF Program, Transcode
<1>4. CASE kind = "pyramid"
  BY <1>4 DEF Program, Pyramid
<1>5. CASE kind = "push"
  BY <1>5 DEF Program, Push
<1>6. CASE kind = "pack"
  BY <1>6 DEF Program, Pack
<1> QED
  BY <1>1, <1>2, <1>3, <1>4, <1>5, <1>6 DEF Kinds
------------------------------------------------------------------------------
(* The layers of a step *)

\* A job is of its type.
LEMMA JobTyped ==
    ASSUME NEW j \in Jobs
    PROVE  /\ Job[j].kind \in Kinds /\ Job[j].layers \in Seq(Dirs) /\ Job[j].scope \in Scopes
           /\ JobAssumption(Job[j])
  BY TransactionAssumption

\* There is a level below the base.
LEMMA DepthTyped == Depth \in Nat /\ Depth >= 1
  BY TransactionAssumption

\* The layers and the total are finitely many.
LEMMA DirsFinite == IsFiniteSet(Dirs)
  BY TransactionAssumption, FS_AddElement DEF Dirs

\* The canonical order of what a pack validates names each layer once.
LEMMA CanonicalOrder ==
    ASSUME NEW ls \in Seq(Dirs), ls # <<>>
    PROVE  LET q == SetToSeq(ValidationScope(ls)) IN
           /\ q \in Seq(Dirs) /\ Len(q) >= 1
           /\ \A i \in 1 .. Len(q) : q[i] \in ValidationScope(ls)
           /\ \A d \in ValidationScope(ls) : \E i \in 1 .. Len(q) : q[i] = d
           /\ \A i, k \in 1 .. Len(q) : q[i] = q[k] => i = k
<1> DEFINE S == ValidationScope(ls)
           q == SetToSeq(S)
           n == Cardinality(S)
<1>1. S \subseteq Dirs /\ ls[1] \in S
  <2>1. Range(ls) \subseteq Dirs /\ ls[1] \in Range(ls)
    BY DEF Range
  <2> QED
    BY <2>1 DEF ValidationScope, Dirs
<1>2. IsFiniteSet(S) /\ n \in Nat
  BY <1>1, DirsFinite, FS_Subset, FS_CardinalityType
<1>3. \E f \in [1 .. n -> S] : IsInjective(f)
  BY <1>2, FS_CardinalityType DEF ExistsBijection, Bijection, Injection
<1>4. q \in [1 .. n -> S] /\ IsInjective(q)
  BY <1>3 DEF SetToSeq
<1>5. q \in Seq(Dirs) /\ Len(q) = n /\ DOMAIN q = 1 .. n
  BY <1>1, <1>2, <1>4
<1>6. \A i, k \in 1 .. n : q[i] = q[k] => i = k
  BY <1>4, <1>5 DEF IsInjective
<1>7. \A d \in S : \E i \in 1 .. n : q[i] = d
  <2>1. q \in Injection(1 .. n, S)
    BY <1>4 DEF Injection
  <2>2. Cardinality(1 .. n) = n
    BY <1>2, FS_Interval
  <2> QED
    BY <1>2, <2>1, <2>2, FS_Injection DEF Surjection
<1>8. n >= 1
  BY <1>1, <1>2, <1>7
<1> QED
  BY <1>4, <1>5, <1>6, <1>7, <1>8

\* A step that goes through layers has some, each a directory of the store.
LEMMA TurnsTyped ==
    ASSUME NEW j \in Jobs, NEW x,
           \/ x = "stage" /\ Job[j].kind \in {"repaint", "push"}
           \/ x = "rebuild" /\ Job[j].kind \in {"repaint", "combine", "transcode", "pyramid"}
           \/ x \in {"capture", "release"} /\ Job[j].kind = "pack"
    PROVE  /\ Turns(Job[j], x) \in Seq(Dirs) /\ Len(Turns(Job[j], x)) >= 1
           /\ x = "stage" => Turns(Job[j], x) = Job[j].layers /\ Turns(Job[j], x) \in Seq(Layers)
           /\ x = "rebuild" => Turns(Job[j], x) = Rebuilds(Job[j])
           /\ x \in {"capture", "release"} =>
                 /\ Turns(Job[j], x) = SetToSeq(ValidationScope(Job[j].layers))
                 /\ Job[j].layers # <<>>
<1>1. CASE x = "stage"
  BY <1>1, JobTyped DEF Turns, JobAssumption
<1>2. CASE x = "rebuild"
  <2>1. Turns(Job[j], x) = Rebuilds(Job[j])
    BY <1>2 DEF Turns
  <2>2. Rebuilds(Job[j]) \in Seq(Dirs) /\ Len(Rebuilds(Job[j])) >= 1
    <3>1. CASE Job[j].kind = "repaint"
      BY <3>1, JobTyped DEF Rebuilds, Dirs
    <3>2. CASE Job[j].kind = "combine"
      BY <3>2 DEF Rebuilds, Dirs
    <3>3. CASE Job[j].kind \in {"transcode", "pyramid"}
      <4>1. Rebuilds(Job[j]) = Job[j].layers
        BY <3>3 DEF Rebuilds
      <4>2. Job[j].layers \in Seq(Dirs) /\ Len(Job[j].layers) = 1
        BY <3>3, JobTyped DEF JobAssumption
      <4> QED
        BY <4>1, <4>2
    <3> QED
      BY <1>2, <3>1, <3>2, <3>3
  <2> QED
    BY <1>2, <2>1, <2>2
<1>3. CASE x \in {"capture", "release"}
  BY <1>3, JobTyped, CanonicalOrder DEF Turns, JobAssumption
<1> QED
  BY <1>1, <1>2, <1>3

\* What a rebuild at each layer is, and where it starts.
LEMMA RebuildKinds ==
    ASSUME NEW j \in Jobs, Job[j].kind \in {"repaint", "combine", "transcode", "pyramid"},
           NEW i \in 1 .. Len(Rebuilds(Job[j]))
    PROVE  LET d == Rebuilds(Job[j])[i]  op == Operation(Job[j], d) IN
           /\ d \in Dirs /\ FirstLevel(Job[j], d) \in {0, 1}
           /\ Job[j].kind = "transcode" => d \in Layers /\ FirstLevel(Job[j], d) = 0
           /\ Job[j].kind = "pyramid" => FirstLevel(Job[j], d) = 1
           /\ Job[j].kind \in {"repaint", "combine"} =>
                 (FirstLevel(Job[j], d) = 0 <=> d = Total)
           /\ d = Total => (op = "combine" <=> FirstLevel(Job[j], d) = 0)
           /\ Job[j].kind = "combine" => d = Total
           /\ Job[j].kind = "repaint" =>
                 IF i = Len(Job[j].layers) + 1 THEN d = Total
                 ELSE i \in 1 .. Len(Job[j].layers) /\ d = Job[j].layers[i] /\ d \in Layers
           /\ Job[j].kind = "repaint" => Len(Rebuilds(Job[j])) = Len(Job[j].layers) + 1
           /\ op \in {"transcode", "combine", "pyramid"}
<1> DEFINE d == Rebuilds(Job[j])[i]
<1>0. Total \notin Layers /\ Root \notin Dirs
  BY TransactionAssumption
<1>1. CASE Job[j].kind = "repaint"
  <2>1. Job[j].layers \in Seq(Layers)
    BY <1>1, JobTyped DEF JobAssumption
  <2>2. Rebuilds(Job[j]) = Append(Job[j].layers, Total)
    BY <1>1 DEF Rebuilds
  <2>3. CASE i = Len(Job[j].layers) + 1
    <3>1. d = Total
      BY <2>1, <2>2, <2>3
    <3> QED
      BY <1>0, <1>1, <2>1, <2>2, <2>3, <3>1 DEF FirstLevel, Operation, Dirs
  <2>4. CASE i \in 1 .. Len(Job[j].layers)
    <3>1. d = Job[j].layers[i] /\ d \in Layers
      BY <2>1, <2>2, <2>4
    <3> QED
      BY <1>0, <1>1, <2>1, <2>2, <2>4, <3>1 DEF FirstLevel, Operation, Dirs
  <2> QED
    BY <2>1, <2>2, <2>3, <2>4
<1>2. CASE Job[j].kind = "combine"
  <2>1. d = Total
    BY <1>2 DEF Rebuilds
  <2> QED
    BY <1>0, <1>2, <2>1 DEF FirstLevel, Operation, Dirs
<1>3. CASE Job[j].kind = "transcode"
  <2>1. d \in Layers
    BY <1>3, JobTyped DEF Rebuilds, JobAssumption
  <2> QED
    BY <1>0, <1>3, <2>1 DEF FirstLevel, Operation, Dirs
<1>4. CASE Job[j].kind = "pyramid"
  <2>1. d \in Dirs
    BY <1>4, JobTyped DEF Rebuilds
  <2> QED
    BY <1>0, <1>4, <2>1 DEF FirstLevel, Operation, Dirs
<1> QED
  BY <1>1, <1>2, <1>3, <1>4
------------------------------------------------------------------------------
(* From one call to the next *)

\* A job is inside its program.
LEMMA PcTyped ==
    ASSUME NEW j \in Jobs, Placed(j)
    PROVE  /\ Job[j].kind \in Kinds /\ at[j].pc \in 1 .. Len(Program(Job[j].kind))
           /\ Len(Program(Job[j].kind)) \in Nat
  BY JobTyped, ProgramLength DEF Placed

\* The label a job is at.
LEMMA Where ==
    ASSUME NEW j \in Jobs, Placed(j)
    PROVE  LabelTable(Job[j].kind, at[j].pc, Step(j))
  BY PcTyped, Labels DEF Step

\* The layers of the step a job is at.
LEMMA WhereTurns ==
    ASSUME NEW j \in Jobs, Placed(j), Step(j) \in {"stage", "rebuild", "capture", "release"}
    PROVE  /\ Turns(Job[j], Step(j)) \in Seq(Dirs)
           /\ at[j].turn \in 1 .. Len(Turns(Job[j], Step(j)))
           /\ Dir(j) = Turns(Job[j], Step(j))[at[j].turn] /\ Dir(j) \in Dirs
           /\ Step(j) = "stage" => /\ Job[j].kind \in {"repaint", "push"}
                                   /\ Turns(Job[j], Step(j)) = Job[j].layers
                                   /\ Dir(j) \in Layers
           /\ Step(j) = "rebuild" =>
                 /\ Job[j].kind \in {"repaint", "combine", "transcode", "pyramid"}
                 /\ Turns(Job[j], Step(j)) = Rebuilds(Job[j])
<1>1. \/ Step(j) = "stage" /\ Job[j].kind \in {"repaint", "push"}
      \/ Step(j) = "rebuild" /\ Job[j].kind \in {"repaint", "combine", "transcode", "pyramid"}
      \/ Step(j) \in {"capture", "release"} /\ Job[j].kind = "pack"
  BY Where DEF LabelTable
<1>2. at[j].turn \in 1 .. Len(Turns(Job[j], Step(j)))
  BY DEF Placed
<1>3. /\ Turns(Job[j], Step(j)) \in Seq(Dirs)
      /\ Step(j) = "stage" => /\ Turns(Job[j], Step(j)) = Job[j].layers
                              /\ Turns(Job[j], Step(j)) \in Seq(Layers)
      /\ Step(j) = "rebuild" => Turns(Job[j], Step(j)) = Rebuilds(Job[j])
  BY <1>1, TurnsTyped
<1>4. Dir(j) = Turns(Job[j], Step(j))[at[j].turn]
  BY DEF Dir
<1>5. Dir(j) \in Dirs
  BY <1>2, <1>3, <1>4
<1>6. Step(j) = "stage" => Dir(j) \in Layers
  BY <1>2, <1>3, <1>4
<1> QED
  BY <1>1, <1>2, <1>3, <1>4, <1>5, <1>6

\* Whether the call is the last one of its turn.
LastCall(j) ==
    \/ Step(j) = "stage" /\ at[j].call = "close"
    \/ Step(j) = "rebuild" /\ at[j].call = "leave"
    \/ Step(j) \in {"capture", "release"} /\ at[j].zoom = Depth
    \/ Step(j) \notin {"stage", "rebuild", "capture", "release"}

Looping == {"stage", "rebuild", "capture", "release"}

NextCallOf(j, q) ==
    \/ at[j].call = "open" /\ Step(j) \in {"stage", "rebuild"} /\ q.zoom = at[j].zoom
       /\ q.call = IF Job[j].scope = Full THEN "create" ELSE "put"
    \/ at[j].call = "create" /\ q.call = "put" /\ q.zoom = at[j].zoom
    \/ at[j].call = "put" /\ q.call = "close" /\ q.zoom = at[j].zoom
    \/ at[j].call = "mutex" /\ q.call = "begin" /\ q.zoom = at[j].zoom
    \/ at[j].call = "begin" /\ q.call = "open" /\ q.zoom = FirstLevel(Job[j], Dir(j))
    \/ /\ at[j].call = "close" /\ Step(j) = "rebuild"
       /\ IF at[j].zoom < Depth THEN q.call = "open" /\ q.zoom = at[j].zoom + 1
                                ELSE q.call = "finish" /\ q.zoom = at[j].zoom
    \/ at[j].call = "finish" /\ q.call = "leave" /\ q.zoom = at[j].zoom
    \/ at[j].call = "do" /\ Step(j) \in {"capture", "release"}
       /\ at[j].zoom < Depth /\ q.call = "do" /\ q.zoom = at[j].zoom + 1

\* A job goes on in its turn, to the next turn, or to the next step.
LEMMA AfterTyped ==
    ASSUME NEW j \in Jobs, Placed(j), ~Done(j)
    PROVE  /\ After(j) \in Position
           /\ \/ /\ After(j).pc = at[j].pc /\ After(j).turn = at[j].turn
                 /\ ~LastCall(j) /\ NextCallOf(j, After(j))
              \/ /\ LastCall(j) /\ Step(j) \in Looping
                 /\ at[j].turn < Len(Turns(Job[j], Step(j)))
                 /\ After(j) = [pc |-> at[j].pc, turn |-> at[j].turn + 1, zoom |-> 0,
                                call |-> FirstCall(Step(j))]
              \/ /\ LastCall(j)
                 /\ Step(j) \in Looping => at[j].turn = Len(Turns(Job[j], Step(j)))
                 /\ at[j].pc + 1 \in 1 .. Len(Program(Job[j].kind))
                 /\ After(j) = Enter(j, at[j].pc + 1)
<1> DEFINE p == at[j]  q == After(j)
<1> USE DepthTyped
<1>1. /\ p \in Position /\ p.pc \in 1 .. Len(Program(Job[j].kind)) /\ Job[j].kind \in Kinds
      /\ p = [pc |-> p.pc, turn |-> p.turn, zoom |-> p.zoom, call |-> p.call]
      /\ Len(Program(Job[j].kind)) \in Nat
  BY PcTyped DEF Placed, Position
<1>2. p.pc + 1 \in 1 .. Len(Program(Job[j].kind))
  <2>1. p.pc # Len(Program(Job[j].kind))
    BY PcTyped, LastLabel DEF Step, Done
  <2> QED
    BY <1>1, <2>1
<1>3. \A s : FirstCall(s) \in {"open", "mutex", "do"}
  BY DEF FirstCall
<1>4. Enter(j, p.pc + 1) \in Position
  BY <1>1, <1>3 DEF Enter, Position, Writing, Fencing
<1>5. NextTurn(j) \in Position /\
      \/ /\ p.turn < Len(Turns(Job[j], Step(j)))
         /\ NextTurn(j) = [pc |-> p.pc, turn |-> p.turn + 1, zoom |-> 0, call |-> FirstCall(Step(j))]
      \/ ~(p.turn < Len(Turns(Job[j], Step(j)))) /\ NextTurn(j) = Enter(j, p.pc + 1)
  <2>1. CASE p.turn < Len(Turns(Job[j], Step(j)))
    <3>1. NextTurn(j) = [pc |-> p.pc, turn |-> p.turn + 1, zoom |-> 0, call |-> FirstCall(Step(j))]
      BY <1>1, <2>1 DEF NextTurn, Position
    <3> QED
      BY <1>1, <1>3, <2>1, <3>1 DEF Position, Writing, Fencing
  <2>2. CASE ~(p.turn < Len(Turns(Job[j], Step(j))))
    BY <1>4, <2>2 DEF NextTurn
  <2> QED
    BY <2>1, <2>2
<1>6. CASE p.call \in {"open", "create", "put", "mutex", "finish"}
  <2>1. q = [p EXCEPT !.call = NextCall(j)]
    BY <1>6 DEF After
  <2>2. Step(j) \in {"stage", "rebuild"}
    BY <1>6 DEF Placed
  <2>3. ~LastCall(j)
    BY <1>6, <2>2 DEF LastCall
  <2>4. /\ p.call = "open" => NextCall(j) = IF Job[j].scope = Full THEN "create" ELSE "put"
        /\ p.call = "create" => NextCall(j) = "put"
        /\ p.call = "put" => NextCall(j) = "close"
        /\ p.call = "mutex" => NextCall(j) = "begin"
        /\ p.call = "finish" => NextCall(j) = "leave"
    BY DEF NextCall
  <2>5. NextCall(j) \in Writing \cup Fencing
    BY <1>6, <2>4 DEF Writing, Fencing
  <2>6. q = [pc |-> p.pc, turn |-> p.turn, zoom |-> p.zoom, call |-> NextCall(j)]
    BY <1>1, <2>1
  <2> QED
    BY <1>1, <1>6, <2>2, <2>3, <2>4, <2>5, <2>6 DEF NextCallOf, Position
<1>7. CASE p.call = "begin"
  <2>1. Step(j) = "rebuild"
    BY <1>7 DEF Placed, Writing
  <2>2. FirstLevel(Job[j], Dir(j)) \in 0 .. Depth
    BY DEF FirstLevel
  <2>3. q = [pc |-> p.pc, turn |-> p.turn, zoom |-> FirstLevel(Job[j], Dir(j)), call |-> "open"]
    BY <1>1, <1>7 DEF After
  <2> QED
    BY <1>1, <1>7, <2>1, <2>2, <2>3 DEF NextCallOf, Position, LastCall, Writing
<1>8. CASE p.call = "close" /\ Step(j) = "rebuild"
  <2>1. q = IF p.zoom < Depth
            THEN [pc |-> p.pc, turn |-> p.turn, zoom |-> p.zoom + 1, call |-> "open"]
            ELSE [pc |-> p.pc, turn |-> p.turn, zoom |-> p.zoom, call |-> "finish"]
    <3>1. q = IF p.zoom < Depth
              THEN [p EXCEPT !.call = "open", !.zoom = @ + 1] ELSE [p EXCEPT !.call = "finish"]
      BY <1>8 DEF After
    <3> QED
      BY <1>1, <3>1
  <2> QED
    BY <1>1, <1>8, <2>1 DEF NextCallOf, Position, LastCall, Writing, Fencing
<1>9. CASE p.call = "do" /\ Step(j) \in {"capture", "release"} /\ p.zoom < Depth
  <2>1. q = [pc |-> p.pc, turn |-> p.turn, zoom |-> p.zoom + 1, call |-> "do"]
    BY <1>1, <1>9 DEF After
  <2> QED
    BY <1>1, <1>9, <2>1 DEF NextCallOf, Position, LastCall
<1>10. CASE /\ p.call \in {"close", "leave", "do"}
            /\ ~(p.call = "close" /\ Step(j) = "rebuild")
            /\ ~(p.call = "do" /\ Step(j) \in {"capture", "release"} /\ p.zoom < Depth)
  <2>1. q = NextTurn(j)
    BY <1>10 DEF After
  <2>2. LastCall(j)
    BY <1>1, <1>10 DEF LastCall, Placed, Position, Writing, Fencing
  <2>3. Step(j) \notin Looping => Turns(Job[j], Step(j)) = <<>>
    BY DEF Turns, Looping
  <2>4. Step(j) \in Looping => p.turn \in 1 .. Len(Turns(Job[j], Step(j)))
    BY DEF Placed, Looping
  <2>5. Step(j) \in Looping => Len(Turns(Job[j], Step(j))) \in Nat
    <3>1. Step(j) \in Looping => Turns(Job[j], Step(j)) \in Seq(Dirs)
      BY WhereTurns DEF Looping
    <3> QED
      BY <3>1
  <2>6. CASE Step(j) \in Looping
    BY <1>1, <1>2, <1>5, <2>1, <2>2, <2>4, <2>5, <2>6 DEF Position
  <2>7. CASE Step(j) \notin Looping
    <3>1. ~(p.turn < Len(Turns(Job[j], Step(j))))
      BY <1>1, <2>3, <2>7 DEF Position
    <3> QED
      BY <1>2, <1>5, <2>1, <2>2, <2>7, <3>1
  <2> QED
    BY <2>6, <2>7
<1> QED
  BY <1>1, <1>6, <1>7, <1>8, <1>9, <1>10 DEF Position, Writing, Fencing
------------------------------------------------------------------------------
(* Positions are kept *)

AllPlaced == \A j \in Jobs : Placed(j)

\* What moves job j leaves the others where they are.
LEMMA OthersStand ==
    ASSUME NEW j \in Jobs, NEW i \in Jobs, i # j, NEW q, at \in [Jobs -> Position],
           at' = [at EXCEPT ![j] = q]
    PROVE  /\ at'[i] = at[i] /\ Step(i)' = Step(i) /\ Dir(i)' = Dir(i) /\ Done(i)' = Done(i)
           /\ Placed(i) /\ rolled'[i] = rolled[i] => Placed(i)'
<1>1. at'[i] = at[i]
  OBVIOUS
<1>2. Step(i)' = Step(i)
  BY <1>1 DEF Step
<1>3. Dir(i)' = Dir(i) /\ Done(i)' = Done(i)
  BY <1>1, <1>2 DEF Dir, Done
<1> QED
  BY <1>1, <1>2, <1>3 DEF Placed

\* Where a step of a program begins.
LEMMA EnterPlaced ==
    ASSUME NEW j \in Jobs, NEW p \in 1 .. Len(Program(Job[j].kind)), at \in [Jobs -> Position],
           at' = [at EXCEPT ![j] = Enter(j, p)], rolled'[j] = {}
    PROVE  Placed(j)' /\ at' \in [Jobs -> Position]
<1> DEFINE x == Program(Job[j].kind)[p]
<1>1. Job[j].kind \in Kinds /\ Len(Program(Job[j].kind)) \in Nat
  BY JobTyped, ProgramLength
<1>2. at'[j] = [pc |-> p, turn |-> 1, zoom |-> 0, call |-> FirstCall(x)]
  BY DEF Enter
<1>3. Step(j)' = x
  BY <1>2 DEF Step
<1>4. /\ x = "stage" => FirstCall(x) = "open"
      /\ x = "rebuild" => FirstCall(x) = "mutex"
      /\ x \notin {"stage", "rebuild"} => FirstCall(x) = "do"
  BY DEF FirstCall
<1>5. at'[j] \in Position
  BY <1>1, <1>2, <1>4, DepthTyped DEF Position, Writing, Fencing
<1>6. x \in Looping => Len(Turns(Job[j], x)) >= 1 /\ Len(Turns(Job[j], x)) \in Nat
  <2>1. LabelTable(Job[j].kind, p, x)
    BY <1>1, Labels
  <2>2. x \in Looping =>
        \/ x = "stage" /\ Job[j].kind \in {"repaint", "push"}
        \/ x = "rebuild" /\ Job[j].kind \in {"repaint", "combine", "transcode", "pyramid"}
        \/ x \in {"capture", "release"} /\ Job[j].kind = "pack"
    BY <2>1 DEF LabelTable, Looping
  <2>3. x \in Looping => Turns(Job[j], x) \in Seq(Dirs) /\ Len(Turns(Job[j], x)) >= 1
    BY <2>2, TurnsTyped
  <2> QED
    BY <2>3
<1>7. x \in Looping => 1 \in 1 .. Len(Turns(Job[j], x))
  BY <1>6
<1> QED
  BY <1>2, <1>3, <1>4, <1>5, <1>7 DEF Placed, Looping, Writing

\* A job that goes on stays in its program.
LEMMA AdvancePlaced ==
    ASSUME NEW j \in Jobs, at \in [Jobs -> Position], Placed(j), ~Done(j), Advance(j),
           rolled'[j] = {}
    PROVE  Placed(j)' /\ at' \in [Jobs -> Position]
<1> DEFINE q == After(j)
<1>1. at'[j] = q /\ at' = [at EXCEPT ![j] = q]
  BY DEF Advance
<1>2. q \in Position
  BY AfterTyped
<1>3. at' \in [Jobs -> Position]
  BY <1>1, <1>2
<1>4. CASE q.pc = at[j].pc /\ q.turn = at[j].turn /\ ~LastCall(j) /\ NextCallOf(j, q)
  <2>1. Step(j)' = Step(j) /\ Dir(j)' = Dir(j)
    BY <1>1, <1>4 DEF Step, Dir
  <2>2. q.zoom \in 0 .. Depth /\ at[j].zoom \in 0 .. Depth
    BY <1>2 DEF Placed, Position
  <2>3. FirstLevel(Job[j], Dir(j)) \in {0, 1}
    BY DEF FirstLevel
  <2>4. Step(j) = "stage" => q.call \in Writing \ {"create"} /\ q.zoom = 0
    BY <1>4, JobTyped, WhereTurns, <2>2 DEF LastCall, NextCallOf, Placed, Writing, JobAssumption
  <2>5. Step(j) = "rebuild" =>
          q.call # "do" /\ (q.call \in Writing => q.zoom >= FirstLevel(Job[j], Dir(j)))
    BY <1>4, <2>2, <2>3 DEF LastCall, NextCallOf, Placed, Writing
  <2>6. Step(j) \notin {"stage", "rebuild"} => q.call = "do"
    BY <1>4 DEF NextCallOf, Placed
  <2>7. q.call = "create" => Job[j].scope = Full
    BY <1>4 DEF NextCallOf
  <2> QED
    BY <1>1, <1>2, <1>4, <2>1, <2>4, <2>5, <2>6, <2>7 DEF Placed
<1>5. CASE /\ Step(j) \in Looping /\ at[j].turn < Len(Turns(Job[j], Step(j)))
           /\ q = [pc |-> at[j].pc, turn |-> at[j].turn + 1, zoom |-> 0, call |-> FirstCall(Step(j))]
  <2>1. Step(j)' = Step(j)
    BY <1>1, <1>5 DEF Step
  <2>2. /\ Step(j) = "stage" => FirstCall(Step(j)) = "open"
        /\ Step(j) = "rebuild" => FirstCall(Step(j)) = "mutex"
        /\ Step(j) \notin {"stage", "rebuild"} => FirstCall(Step(j)) = "do"
    BY DEF FirstCall
  <2>3. q.turn \in 1 .. Len(Turns(Job[j], Step(j)))
    BY <1>5, WhereTurns DEF Looping
  <2> QED
    BY <1>1, <1>2, <1>5, <2>1, <2>2, <2>3 DEF Placed, Writing, Looping
<1>6. CASE at[j].pc + 1 \in 1 .. Len(Program(Job[j].kind)) /\ q = Enter(j, at[j].pc + 1)
  BY <1>1, <1>6, EnterPlaced
<1> QED
  BY <1>3, <1>4, <1>5, <1>6, AfterTyped
------------------------------------------------------------------------------
(* Locks *)

\* The locks are locks, and different from each other.
LEMMA LockNames ==
    /\ MasterLock # IngestLock /\ MasterLock \in Locks /\ IngestLock \in Locks
    /\ \A d \in Dirs : /\ RebuildMutex(d) \in Locks
                       /\ RebuildMutex(d) # MasterLock /\ RebuildMutex(d) # IngestLock
    /\ \A d \in Dirs, k \in 0 .. Depth : /\ ZoomLock(d, k) \in Locks
                                         /\ ZoomLock(d, k) # MasterLock /\ ZoomLock(d, k) # IngestLock
    /\ \A d, e, k : RebuildMutex(d) # ZoomLock(e, k)
    /\ \A d, e : RebuildMutex(d) = RebuildMutex(e) => d = e
    /\ \A d, e, k, m : ZoomLock(d, k) = ZoomLock(e, m) => d = e /\ k = m
  BY DEF MasterLock, IngestLock, RebuildMutex, ZoomLock, Locks

\* Which lock a call is about.
LEMMA LockAtIs ==
    ASSUME NEW j \in Jobs, Placed(j)
    PROVE  /\ Step(j) \in {"take master", "drop master"} => LockAt(j) = MasterLock
           /\ Step(j) \in {"take ingest", "drop ingest"} => LockAt(j) = IngestLock
           /\ at[j].call \in {"mutex", "leave"} => LockAt(j) = RebuildMutex(Dir(j))
           /\ at[j].call \in Writing => LockAt(j) = ZoomLock(Dir(j), at[j].zoom)
           /\ Step(j) \in {"capture", "release"} => LockAt(j) = ZoomLock(Dir(j), at[j].zoom)
<1>1. at[j].call \in {"mutex", "leave"} \cup Writing => Step(j) \in {"stage", "rebuild"}
  BY DEF Placed, Writing
<1>2. Step(j) \in {"capture", "release"} => at[j].call = "do"
  BY DEF Placed
<1> QED
  BY <1>1, <1>2 DEF LockAt, Writing

\* A job takes and drops locks of the store, and drops what it holds.
LEMMA LockAtTyped ==
    ASSUME NEW j \in Jobs, Placed(j), Takes(j) \/ Drops(j)
    PROVE  LockAt(j) \in Locks /\ ~Done(j) /\ at[j].call \notin {"begin", "create", "put", "finish"}
<1>1. /\ \/ Step(j) \in {"take master", "drop master", "take ingest", "drop ingest"}
         \/ Step(j) \in {"capture", "release"}
         \/ at[j].call \in {"mutex", "open", "close", "leave"} /\ Step(j) \in {"stage", "rebuild"}
      /\ at[j].call \notin {"begin", "create", "put", "finish"}
  BY DEF Takes, Drops, Placed
<1>2. Step(j) \in Looping => Dir(j) \in Dirs /\ at[j].zoom \in 0 .. Depth
  BY WhereTurns DEF Looping, Placed, Position
<1>3. CASE Step(j) \in {"take master", "drop master", "take ingest", "drop ingest"}
  BY <1>1, <1>3, LockAtIs, LockNames DEF Done
<1>4. CASE Step(j) \in Looping
  <2>1. LockAt(j) \in {RebuildMutex(Dir(j)), ZoomLock(Dir(j), at[j].zoom)}
    BY <1>1, <1>4, LockAtIs DEF Looping, Writing
  <2>2. Dir(j) \in Dirs /\ at[j].zoom \in 0 .. Depth
    BY <1>2, <1>4
  <2>3. LockAt(j) \in Locks
    BY <2>1, <2>2, LockNames
  <2> QED
    BY <1>1, <1>4, <2>3 DEF Done, Looping
<1> QED
  BY <1>1, <1>3, <1>4 DEF Looping

\* A job drops only what it holds.
LEMMA DropsHeld ==
    ASSUME NEW j \in Jobs, Placed(j), Drops(j)
    PROVE  Holds(j, LockAt(j))
<1>1. CASE Step(j) = "drop master"
  <2>1. HoldsMaster(j)
    <3>1. Job[j].kind \in {"repaint", "combine", "transcode", "pack"} /\ at[j].pc \in {3, 5, 9, 10}
      BY <1>1, Where DEF LabelTable
    <3>2. at[j].pc > 1
      BY <3>1
    <3>3. Job[j].kind \notin {"push", "pyramid"}
      BY <3>1
    <3>4. ~Done(j)
      BY <1>1 DEF Done
    <3> QED
      BY <3>2, <3>3, <3>4 DEF HoldsMaster
  <2> QED
    BY <1>1, <2>1, LockAtIs DEF Holds
<1>2. CASE Step(j) = "drop ingest"
  <2>1. HoldsIngest(j)
    <3>1. \/ Job[j].kind = "repaint" /\ at[j].pc \in {5, 9}
          \/ Job[j].kind = "push" /\ at[j].pc = 3
          \/ Job[j].kind = "transcode" /\ at[j].pc = 4
          \/ Job[j].kind = "pack" /\ at[j].pc = 8
      BY <1>2, Where DEF LabelTable
    <3> QED
      BY <3>1 DEF HoldsIngest
  <2> QED
    BY <1>2, <2>1, LockAtIs DEF Holds
<1>3. CASE Step(j) = "release"
  <2>1. /\ at[j].turn \in 1 .. Len(Turns(Job[j], Step(j)))
        /\ Dir(j) = Turns(Job[j], Step(j))[at[j].turn] /\ Dir(j) \in Dirs
    BY <1>3, WhereTurns
  <2>2. at[j].zoom \in 0 .. Depth
    BY DEF Placed, Position
  <2>3. HoldsZoom(j, Dir(j), at[j].zoom)
    BY <1>3, <2>1, <2>2 DEF HoldsZoom, ToRelease
  <2> QED
    BY <1>3, <2>1, <2>2, <2>3, LockAtIs DEF Holds
<1>4. CASE at[j].call \in {"close", "leave"}
  <2>1. Step(j) \in {"stage", "rebuild"} /\ (at[j].call = "leave" => Step(j) = "rebuild")
    BY <1>4 DEF Placed, Writing
  <2>2. Dir(j) \in Dirs /\ at[j].zoom \in 0 .. Depth
    BY <2>1, WhereTurns DEF Placed, Position
  <2>3. at[j].call = "close" => HoldsZoom(j, Dir(j), at[j].zoom)
    BY DEF HoldsZoom, WritesAt
  <2>4. at[j].call = "leave" => HoldsMutex(j, Dir(j))
    BY <2>1 DEF HoldsMutex
  <2> QED
    BY <1>4, <2>2, <2>3, <2>4, LockAtIs DEF Holds, Writing
<1> QED
  BY <1>1, <1>2, <1>3, <1>4 DEF Drops

\* A job that is at the beginning holds nothing.
LEMMA StartHoldsNothing ==
    ASSUME NEW j \in Jobs, at[j] = Enter(j, 1), NEW r
    PROVE  ~Holds(j, r)
<1>1. Job[j].kind \in Kinds /\ 1 \in 1 .. Len(Program(Job[j].kind))
  <2>1. Job[j].kind \in Kinds /\ Len(Program(Job[j].kind)) >= 1
    BY JobTyped DEF Kinds, Program, Repaint, Combine, Transcode, Pyramid, Push, Pack
  <2> QED
    BY <2>1, ProgramLength
<1>2. LabelTable(Job[j].kind, 1, Step(j))
  BY <1>1, Labels DEF Enter, Step
<1>3. /\ at[j].pc = 1 /\ at[j].call \in {"open", "mutex", "do"}
      /\ Step(j) = "rebuild" => at[j].call = "mutex"
  BY DEF Enter, FirstCall, Step
<1>4. Step(j) \notin {"capture", "release"}
  BY <1>2 DEF LabelTable
<1> QED
  BY <1>3, <1>4 DEF Holds, HoldsMaster, HoldsIngest, HoldsMutex, HoldsZoom, WritesAt, Captured, InBody, ToRelease

\* Nor does a restarted job hold anything.
LEMMA RestartHoldsNothing ==
    ASSUME NEW j \in Jobs, at'[j] = Enter(j, 1), NEW r
    PROVE  ~Holds(j, r)'
<1>1. Job[j].kind \in Kinds /\ 1 \in 1 .. Len(Program(Job[j].kind))
  <2>1. Job[j].kind \in Kinds /\ Len(Program(Job[j].kind)) >= 1
    BY JobTyped DEF Kinds, Program, Repaint, Combine, Transcode, Pyramid, Push, Pack
  <2> QED
    BY <2>1, ProgramLength
<1>2. LabelTable(Job[j].kind, 1, Step(j)')
  BY <1>1, Labels DEF Enter, Step
<1>3. /\ at'[j].pc = 1 /\ at'[j].call \in {"open", "mutex", "do"}
      /\ Step(j)' = "rebuild" => at'[j].call = "mutex"
  BY DEF Enter, FirstCall, Step
<1>4. Step(j)' \notin {"capture", "release"}
  BY <1>2 DEF LabelTable
<1> QED
  BY <1>3, <1>4 DEF Holds, HoldsMaster, HoldsIngest, HoldsMutex, HoldsZoom, WritesAt, Captured, InBody, ToRelease

\* The number of a step grows by one or not at all, and then only in a loop.
LEMMA PcMoves ==
    ASSUME NEW j \in Jobs, Placed(j), ~Done(j)
    PROVE  \/ After(j).pc = at[j].pc /\ Step(j) \in Looping
           \/ After(j).pc = at[j].pc + 1 /\ After(j) = Enter(j, at[j].pc + 1) /\ LastCall(j)
<1>1. Enter(j, at[j].pc + 1).pc = at[j].pc + 1
  BY DEF Enter
<1>2. ~LastCall(j) => Step(j) \in Looping
  BY DEF LastCall, Looping
<1> QED
  BY <1>1, <1>2, AfterTyped

\* The label a job comes to.
LEMMA WhereNext ==
    ASSUME NEW j \in Jobs, Placed(j)'
    PROVE  LabelTable(Job[j].kind, at'[j].pc, Step(j)')
<1>1. at'[j].pc \in 1 .. Len(Program(Job[j].kind))
  BY DEF Placed
<1> QED
  BY <1>1, JobTyped, Labels DEF Step

\* What a job comes to hold it takes, and what it drops it holds no longer.
MasterMoves(j) ==
    /\ HoldsMaster(j)' => HoldsMaster(j) \/ Step(j) = "take master"
    /\ Step(j) = "drop master" => ~HoldsMaster(j)'

\* The master lock is held from its taking to its dropping, ...
LEMMA MasterLemma ==
    ASSUME NEW j \in Jobs, Placed(j), ~Done(j), at'[j] = After(j), Placed(j)'
    PROVE  MasterMoves(j)
<1> DEFINE k == Job[j].kind  p == at[j].pc  p2 == at'[j].pc
<1>1. LabelTable(k, p, Step(j)) /\ k \in Kinds
  BY Where, JobTyped
<1>2. LabelTable(k, p2, Step(j)')
  BY WhereNext
<1>3. p2 = p + 1 \/ (p2 = p /\ Step(j) \in Looping)
  BY PcMoves
<1>4. ASSUME HoldsMaster(j)' PROVE HoldsMaster(j) \/ Step(j) = "take master"
  <2>1. k \in {"repaint", "combine", "transcode", "pack"}
    BY <1>1, <1>4 DEF HoldsMaster, Kinds
  <2>2. p = 1 => Step(j) = "take master"
    BY <1>1, <2>1 DEF LabelTable
  <2>3. p >= 1 /\ p \in Nat
    BY DEF Placed, Position
  <2>4. CASE p = 1
    BY <2>2, <2>4
  <2>5. CASE p # 1
    <3>1. p > 1
      BY <2>3, <2>5
    <3> QED
      BY <2>1, <3>1 DEF HoldsMaster
  <2> QED
    BY <2>4, <2>5
<1>5. ASSUME Step(j) = "drop master" PROVE ~HoldsMaster(j)'
  <2>1. \/ k = "repaint" /\ p = 10
        \/ k = "combine" /\ p = 3
        \/ k = "transcode" /\ p = 5
        \/ k = "pack" /\ p = 9
    BY <1>1, <1>5 DEF LabelTable
  <2>2. p2 = p + 1
    BY <1>3, <1>5 DEF Looping
  <2>3. \/ k = "repaint" /\ p2 = 11
        \/ k = "combine" /\ p2 = 4
        \/ k = "transcode" /\ p2 = 6
        \/ k = "pack" /\ p2 = 10
    BY <2>1, <2>2
  <2>4. Step(j)' = "done"
    BY <1>2, <2>3 DEF LabelTable
  <2> QED
    BY <2>4 DEF HoldsMaster, Done
<1> QED
  BY <1>4, <1>5 DEF MasterMoves

IngestMoves(j) ==
    /\ HoldsIngest(j)' => HoldsIngest(j) \/ Step(j) = "take ingest"
    /\ Step(j) = "drop ingest" => ~HoldsIngest(j)'

\* ... and so is the ingest lock, ...
LEMMA IngestLemma ==
    ASSUME NEW j \in Jobs, Placed(j), ~Done(j), at'[j] = After(j), Placed(j)'
    PROVE  IngestMoves(j)
<1> DEFINE k == Job[j].kind  p == at[j].pc  p2 == at'[j].pc
<1>0. p \in Nat
  BY DEF Placed, Position
<1>1. LabelTable(k, p, Step(j)) /\ k \in Kinds
  BY Where, JobTyped
<1>2. p2 = p + 1 \/ (p2 = p /\ Step(j) \in Looping)
  BY PcMoves
<1>3. HoldsIngest(j)' => HoldsIngest(j) \/ Step(j) = "take ingest"
  <2>1. CASE p2 = p
    BY <2>1 DEF HoldsIngest
  <2>2. CASE p2 = p + 1
    <3>1. SUFFICES ASSUME HoldsIngest(j)', Step(j) # "take ingest" PROVE HoldsIngest(j)
      OBVIOUS
    <3>3. CASE k = "repaint"
      <4>1. p \notin {3, 6}
        BY <1>1, <3>1, <3>3 DEF LabelTable
      <4>2. p2 \in {4, 5, 7, 8, 9}
        BY <3>1, <3>3 DEF HoldsIngest
      <4>3. p \in {4, 5, 7, 8, 9}
        BY <1>0, <2>2, <4>1, <4>2
      <4> QED
        BY <3>3, <4>3 DEF HoldsIngest
    <3>4. CASE k = "push"
      <4>1. p # 1
        BY <1>1, <3>1, <3>4 DEF LabelTable
      <4>2. p2 \in {2, 3}
        BY <3>1, <3>4 DEF HoldsIngest
      <4>3. p \in {2, 3}
        BY <1>0, <2>2, <4>1, <4>2
      <4> QED
        BY <3>4, <4>3 DEF HoldsIngest
    <3>5. CASE k = "transcode"
      <4>1. p # 2
        BY <1>1, <3>1, <3>5 DEF LabelTable
      <4>2. p2 \in {3, 4}
        BY <3>1, <3>5 DEF HoldsIngest
      <4>3. p \in {3, 4}
        BY <1>0, <2>2, <4>1, <4>2
      <4> QED
        BY <3>5, <4>3 DEF HoldsIngest
    <3>6. CASE k = "pack"
      <4>1. p # 2
        BY <1>1, <3>1, <3>6 DEF LabelTable
      <4>2. p2 \in 3 .. 8
        BY <3>1, <3>6 DEF HoldsIngest
      <4>3. p \in 3 .. 8
        BY <1>0, <2>2, <4>1, <4>2
      <4> QED
        BY <3>6, <4>3 DEF HoldsIngest
    <3> QED
      BY <1>1, <3>1, <3>3, <3>4, <3>5, <3>6 DEF HoldsIngest
  <2> QED
    BY <1>2, <2>1, <2>2
<1>4. ASSUME Step(j) = "drop ingest" PROVE ~HoldsIngest(j)'
  <2>1. p2 = p + 1
    BY <1>2, <1>4 DEF Looping
  <2>2. \/ k = "repaint" /\ p \in {5, 9}
        \/ k = "push" /\ p = 3
        \/ k = "transcode" /\ p = 4
        \/ k = "pack" /\ p = 8
    BY <1>1, <1>4 DEF LabelTable
  <2> QED
    BY <2>1, <2>2 DEF HoldsIngest
<1> QED
  BY <1>3, <1>4 DEF IngestMoves

\* The three ways a job goes on: to another call of its turn, to the first call
\* of the next turn, or to the first call of the next step.
StaysInTurn(j) ==
    /\ at'[j].pc = at[j].pc /\ at'[j].turn = at[j].turn
    /\ Step(j)' = Step(j) /\ Dir(j)' = Dir(j)
    /\ ~LastCall(j) /\ NextCallOf(j, at'[j])

NextTurnStarts(j) ==
    /\ LastCall(j) /\ Step(j) \in Looping
    /\ at[j].turn < Len(Turns(Job[j], Step(j)))
    /\ at'[j].pc = at[j].pc /\ at'[j].turn = at[j].turn + 1
    /\ Step(j)' = Step(j)
    /\ at'[j].zoom = 0 /\ at'[j].call = FirstCall(Step(j)')

NextStepStarts(j) ==
    /\ LastCall(j)
    /\ Step(j) \in Looping => at[j].turn = Len(Turns(Job[j], Step(j)))
    /\ at'[j].pc = at[j].pc + 1 /\ at'[j].turn = 1
    /\ at'[j].zoom = 0 /\ at'[j].call = FirstCall(Step(j)')

\* A job goes on in one of the three ways.
LEMMA Moves ==
    ASSUME NEW j \in Jobs, Placed(j), ~Done(j), at'[j] = After(j)
    PROVE  \/ StaysInTurn(j)
           \/ NextTurnStarts(j)
           \/ NextStepStarts(j)
<1>1. CASE /\ After(j).pc = at[j].pc /\ After(j).turn = at[j].turn
           /\ ~LastCall(j) /\ NextCallOf(j, After(j))
  <2>1. Step(j)' = Step(j)
    BY <1>1 DEF Step
  <2>2. Dir(j)' = Dir(j)
    BY <1>1, <2>1 DEF Dir
  <2> QED
    BY <1>1, <2>1, <2>2 DEF StaysInTurn
<1>2. CASE /\ LastCall(j) /\ Step(j) \in Looping
           /\ at[j].turn < Len(Turns(Job[j], Step(j)))
           /\ After(j) = [pc |-> at[j].pc, turn |-> at[j].turn + 1, zoom |-> 0,
                          call |-> FirstCall(Step(j))]
  <2>1. Step(j)' = Step(j)
    BY <1>2 DEF Step
  <2> QED
    BY <1>2, <2>1 DEF NextTurnStarts
<1>3. CASE /\ LastCall(j)
           /\ Step(j) \in Looping => at[j].turn = Len(Turns(Job[j], Step(j)))
           /\ After(j) = Enter(j, at[j].pc + 1)
  <2>1. /\ at'[j].pc = at[j].pc + 1 /\ at'[j].turn = 1 /\ at'[j].zoom = 0
        /\ at'[j].call = FirstCall(Program(Job[j].kind)[at[j].pc + 1])
    BY <1>3 DEF Enter
  <2>2. Step(j)' = Program(Job[j].kind)[at[j].pc + 1]
    BY <2>1 DEF Step
  <2> QED
    BY <1>3, <2>1, <2>2 DEF NextStepStarts
<1> QED
  BY <1>1, <1>2, <1>3, AfterTyped

\* The first call of a step.
LEMMA FirstCalls ==
    ASSUME NEW x
    PROVE  /\ x = "stage" => FirstCall(x) = "open"
           /\ x = "rebuild" => FirstCall(x) = "mutex"
           /\ x \notin {"stage", "rebuild"} => FirstCall(x) = "do"
           /\ FirstCall(x) \in {"open", "mutex", "do"}
  BY DEF FirstCall

MutexMoves(j) ==
    /\ \A d \in Dirs : HoldsMutex(j, d)' => HoldsMutex(j, d) \/ (at[j].call = "mutex" /\ d = Dir(j))
    /\ at[j].call = "leave" => \A d \in Dirs : ~HoldsMutex(j, d)'

\* ... the rebuild lock of a layer from its taking to the end of its turn, ...
LEMMA MutexLemma ==
    ASSUME NEW j \in Jobs, Placed(j), ~Done(j), at'[j] = After(j)
    PROVE  MutexMoves(j)
<1>1. ASSUME NEW d \in Dirs, HoldsMutex(j, d)'
      PROVE  /\ at[j].call # "leave"
             /\ HoldsMutex(j, d) \/ (at[j].call = "mutex" /\ d = Dir(j))
  <2>1. Step(j)' = "rebuild" /\ at'[j].call # "mutex" /\ Dir(j)' = d
    BY <1>1 DEF HoldsMutex
  <2>2. FirstCall(Step(j)') = "mutex"
    BY <2>1, FirstCalls
  <2>3. StaysInTurn(j)
    BY <2>1, <2>2, Moves DEF NextTurnStarts, NextStepStarts
  <2>4. Step(j) = "rebuild" /\ Dir(j) = d /\ ~LastCall(j)
    BY <2>1, <2>3 DEF StaysInTurn
  <2> QED
    BY <2>4 DEF HoldsMutex, LastCall
<1> QED
  BY <1>1 DEF MutexMoves

ZoomMoves(j) ==
    /\ \A d \in Dirs, k \in 0 .. Depth :
          HoldsZoom(j, d, k)' =>
             \/ HoldsZoom(j, d, k)
             \/ /\ Step(j) = "capture" \/ at[j].call = "open"
                /\ d = Dir(j) /\ k = at[j].zoom
    /\ Step(j) = "release" \/ at[j].call = "close" =>
          \A d \in Dirs, k \in 0 .. Depth :
             d = Dir(j) /\ k = at[j].zoom => ~HoldsZoom(j, d, k)'

\* ... the lock of a level while it is written, ...
LEMMA WritesMoves ==
    ASSUME NEW j \in Jobs, Placed(j), ~Done(j), at'[j] = After(j), NEW d, NEW k, WritesAt(j, d, k)'
    PROVE  /\ WritesAt(j, d, k) \/ (at[j].call = "open" /\ d = Dir(j) /\ k = at[j].zoom)
           /\ at[j].call \in {"open", "create", "put"}
<1>1. FirstCall(Step(j)') \in {"open", "mutex", "do"}
  BY FirstCalls
<1>2. at'[j].call \in {"create", "put", "close"} /\ Dir(j)' = d /\ at'[j].zoom = k
  BY DEF WritesAt
<1>3. StaysInTurn(j)
  BY <1>1, <1>2, Moves DEF NextTurnStarts, NextStepStarts
<1>4. Dir(j) = d /\ NextCallOf(j, at'[j])
  BY <1>2, <1>3 DEF StaysInTurn
<1>5. at[j].call \in {"open", "create", "put"} /\ at'[j].zoom = at[j].zoom
  BY <1>2, <1>4 DEF NextCallOf
<1> QED
  BY <1>2, <1>4, <1>5 DEF WritesAt

\* Where a pack is, and the canonical order it goes through.
LEMMA PackTurns ==
    ASSUME NEW j \in Jobs, Placed(j), Step(j) \in {"capture", "release"}
    PROVE  /\ Job[j].kind = "pack" /\ at[j].call = "do" /\ at[j].zoom \in 0 .. Depth
           /\ Step(j) = "capture" <=> at[j].pc = 4
           /\ Step(j) = "release" <=> at[j].pc = 7
           /\ LET q == Turns(Job[j], Step(j)) IN
              /\ q \in Seq(Dirs) /\ at[j].turn \in 1 .. Len(q) /\ Dir(j) = q[at[j].turn]
              /\ \A i \in 1 .. Len(q) : q[i] \in ValidationScope(Job[j].layers)
              /\ \A d \in ValidationScope(Job[j].layers) : \E i \in 1 .. Len(q) : q[i] = d
              /\ \A i, k \in 1 .. Len(q) : q[i] = q[k] => i = k
<1>1. Job[j].kind = "pack" /\ (Step(j) = "capture" <=> at[j].pc = 4) /\ (Step(j) = "release" <=> at[j].pc = 7)
  BY Where DEF LabelTable
<1>2. at[j].call = "do" /\ at[j].zoom \in 0 .. Depth
  BY DEF Placed, Position
<1>3. /\ Turns(Job[j], Step(j)) = SetToSeq(ValidationScope(Job[j].layers))
      /\ Job[j].layers # <<>> /\ Job[j].layers \in Seq(Dirs)
  BY <1>1, TurnsTyped, JobTyped
<1>4. at[j].turn \in 1 .. Len(Turns(Job[j], Step(j))) /\ Dir(j) = Turns(Job[j], Step(j))[at[j].turn]
  BY WhereTurns
<1> QED
  BY <1>1, <1>2, <1>3, <1>4, CanonicalOrder

\* ... and those of a pack from its capture ...
LEMMA CapturedMoves ==
    ASSUME NEW j \in Jobs, Placed(j), ~Done(j), at'[j] = After(j), NEW d, NEW k \in 0 .. Depth,
           Captured(j, d, k)', Placed(j)'
    PROVE  Captured(j, d, k) \/ (Step(j) = "capture" /\ d = Dir(j) /\ k = at[j].zoom)
<1> DEFINE q == Turns(Job[j], "capture")
<1>1. PICK i \in 1 .. Len(q) : q[i] = d /\ (i < at'[j].turn \/ (i = at'[j].turn /\ k < at'[j].zoom))
  BY DEF Captured
<1>2. Step(j)' = "capture"
  BY DEF Captured
<1>3. CASE StaysInTurn(j)
  <2>1. Step(j) = "capture" /\ at'[j].turn = at[j].turn /\ NextCallOf(j, at'[j])
    BY <1>2, <1>3 DEF StaysInTurn
  <2>2. at[j].call = "do" /\ Dir(j) = q[at[j].turn] /\ at[j].zoom \in 0 .. Depth
    BY <2>1, PackTurns
  <2>3. at'[j].zoom = at[j].zoom + 1
    BY <2>1, <2>2 DEF NextCallOf
  <2>4. i < at[j].turn \/ (i = at[j].turn /\ k < at[j].zoom) \/ (i = at[j].turn /\ k = at[j].zoom)
    BY <1>1, <2>1, <2>2, <2>3
  <2> QED
    BY <1>1, <2>1, <2>2, <2>4 DEF Captured
<1>4. CASE NextTurnStarts(j)
  <2>1. Step(j) = "capture" /\ at'[j].turn = at[j].turn + 1 /\ at'[j].zoom = 0 /\ LastCall(j)
    BY <1>2, <1>4 DEF NextTurnStarts
  <2>2. at[j].zoom = Depth
    BY <2>1 DEF LastCall
  <2>3. Dir(j) = q[at[j].turn] /\ at[j].turn \in Nat
    BY <2>1, PackTurns
  <2>4. i < at[j].turn \/ (i = at[j].turn /\ k < at[j].zoom) \/ (i = at[j].turn /\ k = at[j].zoom)
    BY <1>1, <2>1, <2>2, <2>3, DepthTyped
  <2> QED
    BY <1>1, <2>1, <2>3, <2>4 DEF Captured
<1>5. CASE NextStepStarts(j)
  BY <1>1, <1>5 DEF NextStepStarts
<1> QED
  BY <1>3, <1>4, <1>5, Moves

\* ... through its body ...
LEMMA BodyMoves ==
    ASSUME NEW j \in Jobs, Placed(j), ~Done(j), at'[j] = After(j), NEW d, NEW k \in 0 .. Depth,
           InBody(j, d)'
    PROVE  \/ InBody(j, d) \/ Captured(j, d, k)
           \/ (Step(j) = "capture" /\ d = Dir(j) /\ k = at[j].zoom)
<1>1. /\ Job[j].kind = "pack" /\ at'[j].pc \in {5, 6} /\ d \in ValidationScope(Job[j].layers)
      /\ at[j].pc \in Nat
  BY DEF InBody, Placed, Position
<1>2. CASE at[j].pc \in {5, 6}
  BY <1>1, <1>2 DEF InBody
<1>3. CASE at[j].pc \notin {5, 6}
  <2>1. NextStepStarts(j)
    BY <1>1, <1>3, Moves DEF StaysInTurn, NextTurnStarts
  <2>2. at[j].pc = 4
    BY <1>1, <1>3, <2>1 DEF NextStepStarts
  <2>3. Step(j) = "capture"
    BY <1>1, <2>2, Where DEF LabelTable
  <2>4. at[j].zoom = Depth /\ at[j].turn = Len(Turns(Job[j], Step(j)))
    BY <2>1, <2>3 DEF NextStepStarts, LastCall, Looping
  <2>5. PICK i \in 1 .. Len(Turns(Job[j], Step(j))) : Turns(Job[j], Step(j))[i] = d
    BY <1>1, <2>3, PackTurns
  <2>6. Turns(Job[j], Step(j)) \in Seq(Dirs) /\ Dir(j) = Turns(Job[j], Step(j))[at[j].turn]
    BY <2>3, PackTurns
  <2>7. i < at[j].turn \/ (i = at[j].turn /\ k < at[j].zoom) \/ (i = at[j].turn /\ k = at[j].zoom)
    BY <2>4, <2>5, <2>6, DepthTyped
  <2> QED
    BY <2>3, <2>5, <2>6, <2>7 DEF Captured
<1> QED
  BY <1>2, <1>3

\* ... until it has released them.
LEMMA ReleaseMoves ==
    ASSUME NEW j \in Jobs, Placed(j), ~Done(j), at'[j] = After(j), NEW d, NEW k \in 0 .. Depth,
           ToRelease(j, d, k)', Placed(j)'
    PROVE  /\ InBody(j, d) \/ ToRelease(j, d, k)
           /\ Step(j) = "release" => ~(d = Dir(j) /\ k = at[j].zoom)
<1> DEFINE q == Turns(Job[j], "release")
<1>1. PICK i \in 1 .. Len(q) : q[i] = d /\ (i > at'[j].turn \/ (i = at'[j].turn /\ k >= at'[j].zoom))
  BY DEF ToRelease
<1>2. Step(j)' = "release"
  BY DEF ToRelease
<1>3. CASE StaysInTurn(j)
  <2>1. Step(j) = "release" /\ at'[j].turn = at[j].turn /\ NextCallOf(j, at'[j])
    BY <1>2, <1>3 DEF StaysInTurn
  <2>2. /\ at[j].call = "do" /\ Dir(j) = q[at[j].turn] /\ at[j].zoom \in 0 .. Depth
        /\ at[j].turn \in 1 .. Len(q) /\ Len(q) \in Nat
        /\ \A a, b \in 1 .. Len(q) : q[a] = q[b] => a = b
    BY <2>1, PackTurns
  <2>3. at'[j].zoom = at[j].zoom + 1
    BY <2>1, <2>2 DEF NextCallOf
  <2>4. i > at[j].turn \/ (i = at[j].turn /\ k > at[j].zoom)
    BY <1>1, <2>1, <2>2, <2>3
  <2>5. ~(d = Dir(j) /\ k = at[j].zoom)
    <3>1. SUFFICES ASSUME d = Dir(j), k = at[j].zoom PROVE FALSE
      OBVIOUS
    <3>2. i = at[j].turn
      BY <1>1, <2>2, <3>1
    <3> QED
      BY <2>2, <2>4, <3>1, <3>2
  <2>6. i > at[j].turn \/ (i = at[j].turn /\ k >= at[j].zoom)
    BY <2>2, <2>4
  <2> QED
    BY <1>1, <2>1, <2>5, <2>6 DEF ToRelease
<1>4. CASE NextTurnStarts(j)
  <2>1. Step(j) = "release" /\ at'[j].turn = at[j].turn + 1
    BY <1>2, <1>4 DEF NextTurnStarts
  <2>2. /\ Dir(j) = q[at[j].turn] /\ at[j].turn \in 1 .. Len(q) /\ Len(q) \in Nat
        /\ \A a, b \in 1 .. Len(q) : q[a] = q[b] => a = b
    BY <2>1, PackTurns
  <2>3. i > at[j].turn
    BY <1>1, <2>1, <2>2
  <2>4. d # Dir(j)
    <3>1. SUFFICES ASSUME d = Dir(j) PROVE FALSE
      OBVIOUS
    <3>2. i = at[j].turn
      BY <1>1, <2>2, <3>1
    <3> QED
      BY <2>2, <2>3, <3>2
  <2> QED
    BY <1>1, <2>1, <2>3, <2>4 DEF ToRelease
<1>5. CASE NextStepStarts(j)
  <2>1. at'[j].pc = at[j].pc + 1 /\ at[j].pc \in Nat
    BY <1>5 DEF NextStepStarts, Placed, Position
  <2>2. Job[j].kind = "pack" /\ at'[j].pc = 7
    <3>1. LabelTable(Job[j].kind, at'[j].pc, Step(j)')
      BY WhereNext
    <3> QED
      BY <1>2, <3>1 DEF LabelTable
  <2>3. d \in ValidationScope(Job[j].layers)
    <3>1. q = SetToSeq(ValidationScope(Job[j].layers)) /\ Job[j].layers # <<>> /\ Job[j].layers \in Seq(Dirs)
      BY <2>2, TurnsTyped, JobTyped
    <3> QED
      BY <1>1, <3>1, CanonicalOrder
  <2>4. at[j].pc = 6
    BY <2>1, <2>2
  <2>5. Step(j) = "publish"
    BY <2>2, <2>4, Where DEF LabelTable
  <2> QED
    BY <2>2, <2>3, <2>4, <2>5 DEF InBody
<1> QED
  BY <1>3, <1>4, <1>5, Moves

\* The locks of the levels change hands one at a time.
LEMMA ZoomLemma ==
    ASSUME NEW j \in Jobs, Placed(j), ~Done(j), at'[j] = After(j), Placed(j)'
    PROVE  ZoomMoves(j)
<1>1. ASSUME NEW d \in Dirs, NEW k \in 0 .. Depth, HoldsZoom(j, d, k)'
      PROVE  \/ HoldsZoom(j, d, k)
             \/ (Step(j) = "capture" \/ at[j].call = "open") /\ d = Dir(j) /\ k = at[j].zoom
  <2>1. CASE WritesAt(j, d, k)'
    BY <2>1, WritesMoves DEF HoldsZoom
  <2>2. CASE Captured(j, d, k)'
    BY <2>2, CapturedMoves DEF HoldsZoom
  <2>3. CASE InBody(j, d)'
    BY <2>3, BodyMoves DEF HoldsZoom
  <2>4. CASE ToRelease(j, d, k)'
    BY <2>4, ReleaseMoves DEF HoldsZoom
  <2> QED
    BY <1>1, <2>1, <2>2, <2>3, <2>4 DEF HoldsZoom
<1>2. ASSUME Step(j) = "release" \/ at[j].call = "close",
             NEW d \in Dirs, NEW k \in 0 .. Depth, d = Dir(j), k = at[j].zoom, HoldsZoom(j, d, k)'
      PROVE  FALSE
  <2>1. Step(j) \in {"release", "stage", "rebuild"}
    BY <1>2 DEF Placed
  <2>2. Step(j) = "release" => at[j].call = "do"
    BY DEF Placed
  <2>3. ~WritesAt(j, d, k)'
    BY <1>2, <2>2, WritesMoves DEF WritesAt
  <2>4. ~Captured(j, d, k)'
    BY <2>1, CapturedMoves DEF Captured
  <2>5. ~InBody(j, d)'
    <3>1. InBody(j, d)' => InBody(j, d) \/ Captured(j, d, k) \/ Step(j) = "capture"
      BY <2>1, BodyMoves
    <3>2. ~InBody(j, d)
      <4>1. Job[j].kind = "pack" => at[j].pc \notin {5, 6}
        BY <2>1, Where DEF LabelTable
      <4> QED
        BY <4>1 DEF InBody
    <3> QED
      BY <2>1, <3>1, <3>2 DEF Captured
  <2>6. ~ToRelease(j, d, k)'
    <3>1. SUFFICES ASSUME ToRelease(j, d, k)' PROVE FALSE
      OBVIOUS
    <3>2. Step(j) # "release"
      BY <1>2, <3>1, ReleaseMoves
    <3>3. ToRelease(j, d, k) \/ InBody(j, d)
      BY <2>1, <3>1, ReleaseMoves
    <3>4. Job[j].kind = "pack" => at[j].pc \notin {5, 6}
      BY <2>1, Where DEF LabelTable
    <3> QED
      BY <3>2, <3>3, <3>4 DEF ToRelease, InBody
  <2> QED
    BY <1>2, <2>3, <2>4, <2>5, <2>6 DEF HoldsZoom
<1> QED
  BY <1>1, <1>2 DEF ZoomMoves

\* What a job comes to hold as it goes on, it takes; what it drops it held alone
\* for the call, and holds no more.
LEMMA LockMoves ==
    ASSUME NEW j \in Jobs, Placed(j), ~Done(j), at'[j] = After(j), Placed(j)'
    PROVE  /\ \A r \in Locks : Holds(j, r)' => Holds(j, r) \/ (Takes(j) /\ r = LockAt(j))
           /\ \A r \in Locks : Drops(j) /\ r = LockAt(j) => ~Holds(j, r)'
<1>1. MasterMoves(j) /\ IngestMoves(j) /\ MutexMoves(j) /\ ZoomMoves(j)
  BY MasterLemma, IngestLemma, MutexLemma, ZoomLemma
<1>2. /\ at[j].call \in {"mutex", "leave"} => Dir(j) \in Dirs
      /\ Step(j) \in {"capture", "release"} \/ at[j].call \in {"open", "close"} =>
            Dir(j) \in Dirs /\ at[j].zoom \in 0 .. Depth
  <2>1. at[j].call \in {"mutex", "leave", "open", "close"} => Step(j) \in {"stage", "rebuild"}
    BY DEF Placed
  <2>2. Step(j) \in {"stage", "rebuild", "capture", "release"} => Dir(j) \in Dirs
    BY WhereTurns
  <2>3. at[j].zoom \in 0 .. Depth
    BY DEF Placed, Position
  <2> QED
    BY <2>1, <2>2, <2>3
<1>3. ASSUME NEW r \in Locks, Holds(j, r)'
      PROVE  Holds(j, r) \/ (Takes(j) /\ r = LockAt(j))
  <2>1. CASE r = MasterLock /\ HoldsMaster(j)'
    BY <1>1, <2>1, LockAtIs DEF MasterMoves, Holds, Takes
  <2>2. CASE r = IngestLock /\ HoldsIngest(j)'
    BY <1>1, <2>2, LockAtIs DEF IngestMoves, Holds, Takes
  <2>3. ASSUME NEW d \in Dirs, r = RebuildMutex(d), HoldsMutex(j, d)'
        PROVE  Holds(j, r) \/ (Takes(j) /\ r = LockAt(j))
    BY <1>1, <2>3, LockAtIs DEF MutexMoves, Holds, Takes
  <2>4. ASSUME NEW d \in Dirs, NEW k \in 0 .. Depth, r = ZoomLock(d, k), HoldsZoom(j, d, k)'
        PROVE  Holds(j, r) \/ (Takes(j) /\ r = LockAt(j))
    BY <1>1, <2>4, LockAtIs DEF ZoomMoves, Holds, Takes, Writing
  <2> QED
    BY <1>3, <2>1, <2>2, <2>3, <2>4 DEF Holds, MasterLock, IngestLock, RebuildMutex, ZoomLock
<1>4. ASSUME NEW r \in Locks, Drops(j), r = LockAt(j), Holds(j, r)' PROVE FALSE
  <2>1. /\ Step(j) = "drop master" => r = MasterLock
        /\ Step(j) = "drop ingest" => r = IngestLock
        /\ at[j].call = "leave" => r = RebuildMutex(Dir(j))
        /\ at[j].call = "close" \/ Step(j) = "release" => r = ZoomLock(Dir(j), at[j].zoom)
    BY <1>4, LockAtIs DEF Writing
  <2>2. CASE Step(j) = "drop master"
    BY <1>1, <1>4, <2>1, <2>2, LockNames DEF MasterMoves, Holds
  <2>3. CASE Step(j) = "drop ingest"
    BY <1>1, <1>4, <2>1, <2>3, LockNames DEF IngestMoves, Holds
  <2>4. CASE at[j].call = "leave"
    BY <1>1, <1>2, <1>4, <2>1, <2>4, LockNames DEF MutexMoves, Holds
  <2>5. CASE at[j].call = "close" \/ Step(j) = "release"
    <3>1. r = ZoomLock(Dir(j), at[j].zoom) /\ Dir(j) \in Dirs /\ at[j].zoom \in 0 .. Depth
      BY <1>2, <2>1, <2>5
    <3>2. r # MasterLock /\ r # IngestLock /\ \A d \in Dirs : r # RebuildMutex(d)
      BY <3>1, LockNames
    <3>3. PICK d \in Dirs, k \in 0 .. Depth : r = ZoomLock(d, k) /\ HoldsZoom(j, d, k)'
      BY <1>4, <3>2 DEF Holds, MasterLock, IngestLock, RebuildMutex, ZoomLock
    <3>4. d = Dir(j) /\ k = at[j].zoom
      BY <3>1, <3>3 DEF ZoomLock
    <3> QED
      BY <1>1, <2>5, <3>3, <3>4 DEF ZoomMoves
  <2> QED
    BY <1>4, <2>2, <2>3, <2>4, <2>5 DEF Drops
<1> QED
  BY <1>3, <1>4
------------------------------------------------------------------------------
(* Steps and the positions and locks they leave *)

\* Who has something to do is not done.
LEMMA NotDone ==
    ASSUME NEW j \in Jobs, Placed(j),
           \/ Takes(j) \/ Drops(j) \/ Begins(j) \/ Finishes(j)
           \/ at[j].call \in {"create", "put"} \/ Step(j) \in {"reject", "publish"}
    PROVE  ~Done(j)
<1>1. SUFFICES ASSUME Step(j) = "done" PROVE FALSE
  BY DEF Done
<1>2. at[j].call = "do"
  BY <1>1 DEF Placed
<1> QED
  BY <1>1, <1>2 DEF Takes, Drops, Begins, Finishes

\* A job goes on, the others stay.
GoesOn(j) ==
    /\ ~Done(j) /\ Advance(j) /\ rolled'[j] = {}
    /\ \A i \in Jobs : i # j => rolled'[i] = rolled[i]

\* A step keeps every job in its program, ...
LEMMA GoesOnPlaced ==
    ASSUME Typed, AllPlaced, NEW j \in Jobs, GoesOn(j)
    PROVE  AllPlaced' /\ at' \in [Jobs -> Position]
<1>1. /\ Placed(j) /\ at \in [Jobs -> Position] /\ ~Done(j) /\ Advance(j) /\ rolled'[j] = {}
      /\ at' = [at EXCEPT ![j] = After(j)]
  BY DEF Typed, AllPlaced, GoesOn, Advance
<1>2. Placed(j)' /\ at' \in [Jobs -> Position]
  BY <1>1, AdvancePlaced
<1>3. ASSUME NEW i \in Jobs, i # j PROVE Placed(i)'
  <2>1. Placed(i) /\ rolled'[i] = rolled[i]
    BY <1>3 DEF AllPlaced, GoesOn
  <2> QED
    BY <1>1, <1>3, <2>1, OthersStand
<1> QED
  BY <1>2, <1>3 DEF AllPlaced

\* ... and so does a restart.
LEMMA RestartPlaced ==
    ASSUME Typed, AllPlaced, NEW j \in Jobs, Restart(j)
    PROVE  AllPlaced' /\ at' \in [Jobs -> Position]
<1>1. /\ at \in [Jobs -> Position] /\ at' = [at EXCEPT ![j] = Enter(j, 1)]
      /\ rolled \in [Jobs -> SUBSET Areas] /\ rolled' = [rolled EXCEPT ![j] = {}]
  BY DEF Typed, Restart
<1>2. 1 \in 1 .. Len(Program(Job[j].kind))
  <2>1. Placed(j) /\ Job[j].kind \in Kinds
    BY JobTyped DEF AllPlaced
  <2> QED
    BY <2>1, ProgramLength DEF Placed
<1>3. Placed(j)' /\ at' \in [Jobs -> Position]
  BY <1>1, <1>2, EnterPlaced
<1>4. ASSUME NEW i \in Jobs, i # j PROVE Placed(i)'
  <2>1. Placed(i) /\ rolled'[i] = rolled[i]
    BY <1>1, <1>4 DEF AllPlaced
  <2> QED
    BY <1>1, <1>4, <2>1, OthersStand
<1> QED
  BY <1>3, <1>4 DEF AllPlaced

\* What a job holds depends on where it is only.
LEMMA SameHolds ==
    ASSUME NEW i \in Jobs, at'[i] = at[i]
    PROVE  \A r : Holds(i, r)' <=> Holds(i, r)
<1>1. Step(i)' = Step(i)
  BY DEF Step
<1>2. Dir(i)' = Dir(i) /\ Done(i)' = Done(i)
  BY <1>1 DEF Dir, Done
<1>3. HoldsMaster(i)' <=> HoldsMaster(i)
  BY <1>2 DEF HoldsMaster
<1>4. HoldsIngest(i)' <=> HoldsIngest(i)
  BY DEF HoldsIngest
<1>5. \A d : HoldsMutex(i, d)' <=> HoldsMutex(i, d)
  BY <1>1, <1>2 DEF HoldsMutex
<1>6. \A d, k : HoldsZoom(i, d, k)' <=> HoldsZoom(i, d, k)
  BY <1>1, <1>2 DEF HoldsZoom, WritesAt, Captured, InBody, ToRelease
<1> QED
  BY <1>3, <1>4, <1>5, <1>6 DEF Holds, MasterLock, IngestLock, RebuildMutex, ZoomLock

\* Who goes on holds what its new place implies, and takes nothing from others.
LEMMA HeldWhenGoing ==
    ASSUME Typed, AllPlaced, Held, NEW j \in Jobs, GoesOn(j),
           \/ Takes(j) /\ holder[LockAt(j)] = None /\ holder' = [holder EXCEPT ![LockAt(j)] = j]
           \/ Drops(j) /\ holder' = [holder EXCEPT ![LockAt(j)] = None]
           \/ ~Takes(j) /\ holder' = holder
    PROVE  Held'
<1>1. /\ Placed(j) /\ Placed(j)' /\ ~Done(j) /\ at'[j] = After(j)
      /\ \A i \in Jobs : i # j => at'[i] = at[i]
      /\ holder \in [Locks -> Jobs \cup {None}]
  BY GoesOnPlaced DEF AllPlaced, GoesOn, Advance, Typed
<1>2. /\ \A r \in Locks : Holds(j, r)' => Holds(j, r) \/ (Takes(j) /\ r = LockAt(j))
      /\ \A r \in Locks : Drops(j) /\ r = LockAt(j) => ~Holds(j, r)'
  BY <1>1, LockMoves
<1>3. ASSUME NEW i \in Jobs, i # j, NEW r \in Locks, Holds(i, r)' PROVE holder[r] = i
  BY <1>1, <1>3, SameHolds DEF Held
<1>4. CASE Takes(j) /\ holder[LockAt(j)] = None /\ holder' = [holder EXCEPT ![LockAt(j)] = j]
  <2>1. LockAt(j) \in Locks
    BY <1>1, <1>4, LockAtTyped
  <2>2. ASSUME NEW r \in Locks, Holds(j, r)' PROVE holder'[r] = j
    BY <1>1, <1>2, <1>4, <2>1, <2>2 DEF Held
  <2>3. ASSUME NEW i \in Jobs, i # j, NEW r \in Locks, Holds(i, r)' PROVE holder'[r] = i
    <3>1. holder[r] = i /\ r # LockAt(j)
      BY <1>3, <1>4, <2>3, TransactionAssumption
    <3> QED
      BY <1>1, <1>4, <3>1
  <2> QED
    BY <2>2, <2>3 DEF Held
<1>5. CASE Drops(j) /\ holder' = [holder EXCEPT ![LockAt(j)] = None]
  <2>1. LockAt(j) \in Locks /\ holder[LockAt(j)] = j
    BY <1>1, <1>5, LockAtTyped, DropsHeld DEF Held
  <2>2. ASSUME NEW r \in Locks, Holds(j, r)' PROVE holder'[r] = j
    <3>1. r # LockAt(j) /\ Holds(j, r)
      BY <1>2, <1>5, <2>2
    <3> QED
      BY <1>1, <1>5, <3>1 DEF Held
  <2>3. ASSUME NEW i \in Jobs, i # j, NEW r \in Locks, Holds(i, r)' PROVE holder'[r] = i
    <3>1. holder[r] = i /\ r # LockAt(j)
      BY <1>3, <2>1, <2>3
    <3> QED
      BY <1>1, <1>5, <3>1
  <2> QED
    BY <2>2, <2>3 DEF Held
<1>6. CASE ~Takes(j) /\ holder' = holder
  BY <1>2, <1>3, <1>6 DEF Held
<1> QED
  BY <1>4, <1>5, <1>6

\* The locks of a process that died are no longer implied by its place.
LEMMA HeldWhenRestarted ==
    ASSUME Typed, AllPlaced, Held, NEW j \in Jobs, Restart(j)
    PROVE  Held'
<1>1. /\ holder' = [r \in Locks |-> IF holder[r] = j THEN None ELSE holder[r]]
      /\ at'[j] = Enter(j, 1) /\ \A i \in Jobs : i # j => at'[i] = at[i]
  BY DEF Restart, Typed
<1>2. \A r : ~Holds(j, r)'
  BY <1>1, RestartHoldsNothing
<1>3. ASSUME NEW i \in Jobs, i # j, NEW r \in Locks, Holds(i, r)' PROVE holder'[r] = i
  <2>1. holder[r] = i
    BY <1>1, <1>3, SameHolds DEF Held
  <2> QED
    BY <1>1, <1>3, <2>1
<1> QED
  BY <1>2, <1>3 DEF Held
------------------------------------------------------------------------------
(* The actions *)

\* Every action but a put and a restart lets its job go on.
LEMMA ActionsGoOn ==
    ASSUME Typed, AllPlaced, NEW j \in Jobs,
           \/ AcquireLock(j) \/ ReleaseLock(j) \/ BeginFence(j) \/ FinishFence(j)
           \/ CreateLevel(j) \/ CheckFences(j) \/ PublishSnapshots(j)
    PROVE  GoesOn(j) /\ rolled' = rolled /\ aborts' = aborts /\ at[j].call # "put"
<1>1. /\ Takes(j) \/ Drops(j) \/ Begins(j) \/ Finishes(j) \/ at[j].call = "create"
         \/ Step(j) \in {"reject", "publish"}
      /\ Advance(j) /\ rolled' = rolled /\ aborts' = aborts
  BY DEF AcquireLock, ReleaseLock, BeginFence, FinishFence, CreateLevel, CheckFences, PublishSnapshots
<1>2. Placed(j)
  BY DEF AllPlaced
<1>3. ~Done(j)
  BY <1>1, <1>2, NotDone
<1>4. at[j].call # "put"
  <2>1. SUFFICES ASSUME at[j].call = "put" PROVE FALSE
    OBVIOUS
  <2>2. Step(j) \in {"stage", "rebuild"}
    BY <1>2, <2>1 DEF Placed
  <2> QED
    BY <1>1, <2>1, <2>2 DEF Takes, Drops, Begins, Finishes
<1>5. rolled[j] = {}
  BY <1>2, <1>4 DEF Placed
<1> QED
  BY <1>1, <1>3, <1>4, <1>5 DEF GoesOn

\* A put either ends the level's write or leaves the job where it is.
LEMMA PutGoesOn ==
    ASSUME Typed, AllPlaced, NEW j \in Jobs, PutTiles(j)
    PROVE  /\ marker' = marker /\ holder' = holder /\ aborts' = aborts
           /\ at[j].call = "put" /\ Placed(j) /\ ~Done(j)
           /\ \E a \in Scope(j) \ rolled[j] :
                 /\ level' = [level EXCEPT ![Dir(j)][at[j].zoom][a] =
                                 NewContent(j, Dir(j), at[j].zoom, a)]
                 /\ \/ GoesOn(j) /\ rolled[j] \cup {a} = Scope(j)
                    \/ at' = at /\ rolled' = [rolled EXCEPT ![j] = rolled[j] \cup {a}]
<1>1. at[j].call = "put" /\ Placed(j)
  BY DEF PutTiles, AllPlaced
<1>2. ~Done(j)
  BY <1>1, NotDone
<1>3. PICK a \in Scope(j) \ rolled[j] :
        /\ level' = [level EXCEPT ![Dir(j)][at[j].zoom][a] = NewContent(j, Dir(j), at[j].zoom, a)]
        /\ IF rolled[j] \cup {a} = Scope(j)
           THEN rolled' = [rolled EXCEPT ![j] = {}] /\ Advance(j)
           ELSE rolled' = [rolled EXCEPT ![j] = rolled[j] \cup {a}] /\ UNCHANGED at
  BY DEF PutTiles
<1>4. marker' = marker /\ holder' = holder /\ aborts' = aborts
  BY DEF PutTiles
<1>5. \/ GoesOn(j) /\ rolled[j] \cup {a} = Scope(j)
      \/ at' = at /\ rolled' = [rolled EXCEPT ![j] = rolled[j] \cup {a}]
  <2>1. rolled \in [Jobs -> SUBSET Areas]
    BY DEF Typed
  <2>2. CASE rolled[j] \cup {a} = Scope(j)
    <3>1. rolled' = [rolled EXCEPT ![j] = {}] /\ Advance(j)
      BY <1>3, <2>2
    <3>2. rolled'[j] = {} /\ \A i \in Jobs : i # j => rolled'[i] = rolled[i]
      BY <2>1, <3>1
    <3>3. GoesOn(j)
      BY <1>2, <3>1, <3>2 DEF GoesOn
    <3> QED
      BY <2>2, <3>3
  <2>3. CASE rolled[j] \cup {a} # Scope(j)
    BY <1>3, <2>3
  <2> QED
    BY <2>2, <2>3
<1> QED
  BY <1>1, <1>2, <1>3, <1>4, <1>5

\* A job stays where it is, in the middle of a write.
LEMMA StayPlaced ==
    ASSUME AllPlaced, NEW j \in Jobs, at' = at, at[j].call = "put",
           \A i \in Jobs : i # j => rolled'[i] = rolled[i]
    PROVE  AllPlaced'
<1>1. ASSUME NEW i \in Jobs PROVE Placed(i)'
  <2>1. Placed(i) /\ (rolled'[i] = rolled[i] \/ at[i].call = "put")
    BY DEF AllPlaced
  <2>2. Step(i)' = Step(i)
    BY DEF Step
  <2>3. Dir(i)' = Dir(i)
    BY <2>2 DEF Dir
  <2> QED
    BY <2>1, <2>2, <2>3 DEF Placed
<1> QED
  BY <1>1 DEF AllPlaced
------------------------------------------------------------------------------
(* The fences have one owner *)

\* No lock is implied by the places of two jobs.
LEMMA Exclusive ==
    ASSUME Held, NEW i \in Jobs, NEW j \in Jobs, NEW r \in Locks, Holds(i, r), Holds(j, r)
    PROVE  i = j
  BY DEF Held

\* Who is about to begin a fence, is in it or leaves it holds its lock.
LEMMA FenceHolds ==
    ASSUME NEW j \in Jobs, Placed(j)
    PROVE  /\ at[j].call \in {"begin", "finish"} \/ InFence(j) =>
                 Dir(j) \in Dirs /\ Holds(j, RebuildMutex(Dir(j))) /\ Step(j) = "rebuild"
           /\ Step(j) \in {"mark", "unmark"} \/ InUpdate(j) => Holds(j, MasterLock)
<1>1. ASSUME at[j].call \in {"begin", "finish"} \/ InFence(j)
      PROVE  Dir(j) \in Dirs /\ Holds(j, RebuildMutex(Dir(j))) /\ Step(j) = "rebuild"
  <2>1. Step(j) = "rebuild" /\ at[j].call # "mutex"
    BY <1>1 DEF InFence, Placed, Writing
  <2>2. Dir(j) \in Dirs
    BY <2>1, WhereTurns
  <2> QED
    BY <2>1, <2>2 DEF Holds, HoldsMutex
<1>2. ASSUME Step(j) \in {"mark", "unmark"} \/ InUpdate(j)
      PROVE  Holds(j, MasterLock)
  <2>1. Job[j].kind = "repaint" /\ at[j].pc \in 2 .. 8
    <3>1. CASE Step(j) \in {"mark", "unmark"}
      <4>1. Job[j].kind = "repaint" /\ (at[j].pc = 2 \/ at[j].pc = 8)
        BY <3>1, Where DEF LabelTable
      <4> QED
        BY <4>1
    <3>2. CASE InUpdate(j)
      BY <3>2 DEF InUpdate
    <3> QED
      BY <1>2, <3>1, <3>2
  <2>2. ~Done(j)
    <3>1. at[j].pc # 11
      BY <2>1
    <3> QED
      BY <2>1, <3>1, Where DEF LabelTable, Done
  <2>3. HoldsMaster(j)
    <3>1. at[j].pc > 1
      BY <2>1
    <3> QED
      BY <2>1, <2>2, <3>1 DEF HoldsMaster
  <2> QED
    BY <2>3 DEF Holds
<1> QED
  BY <1>1, <1>2

\* A job comes into a fence by its begin and leaves it by its finish.
LEMMA FenceMoves ==
    ASSUME NEW j \in Jobs, Placed(j), ~Done(j), at'[j] = After(j), Placed(j)'
    PROVE  /\ InFence(j)' =>
                 /\ Dir(j)' = Dir(j) /\ Step(j) = "rebuild" /\ at[j].call # "finish"
                 /\ InFence(j) \/ at[j].call = "begin"
           /\ InUpdate(j)' =>
                 \/ InUpdate(j) /\ Step(j) # "unmark"
                 \/ Step(j) = "mark"
<1>1. ASSUME InFence(j)'
      PROVE  /\ Dir(j)' = Dir(j) /\ Step(j) = "rebuild" /\ at[j].call # "finish"
             /\ InFence(j) \/ at[j].call = "begin"
  <2>1. Step(j)' = "rebuild" /\ at'[j].call \in Writing \cup {"finish"}
    BY <1>1 DEF InFence
  <2>2. FirstCall(Step(j)') = "mutex"
    BY <2>1, FirstCalls
  <2>3. StaysInTurn(j)
    BY <2>1, <2>2, Moves DEF NextTurnStarts, NextStepStarts, Writing
  <2>4. Step(j) = "rebuild" /\ Dir(j)' = Dir(j) /\ NextCallOf(j, at'[j])
    BY <2>1, <2>3 DEF StaysInTurn
  <2>5. at[j].call # "finish" /\ (at[j].call \in Writing \cup {"finish"} \/ at[j].call = "begin")
    BY <2>1, <2>4 DEF NextCallOf, Writing
  <2> QED
    BY <2>4, <2>5 DEF InFence
<1>2. ASSUME InUpdate(j)'
      PROVE  (InUpdate(j) /\ Step(j) # "unmark") \/ Step(j) = "mark"
  <2>1. Job[j].kind = "repaint" /\ at'[j].pc \in 3 .. 8 /\ at[j].pc \in Nat
    BY <1>2 DEF InUpdate, Placed, Position
  <2>2. at'[j].pc = at[j].pc + 1 \/ (at'[j].pc = at[j].pc /\ Step(j) \in Looping)
    BY PcMoves
  <2>3. at[j].pc = 2 \/ at[j].pc \in 3 .. 8
    BY <2>1, <2>2
  <2>4. CASE at[j].pc = 2
    BY <2>1, <2>4, Where DEF LabelTable
  <2>5. CASE at[j].pc \in 3 .. 8
    <3>1. InUpdate(j)
      BY <2>1, <2>5 DEF InUpdate
    <3>2. ASSUME Step(j) = "unmark" PROVE FALSE
      <4>1. at[j].pc = 8
        BY <3>2, Where DEF LabelTable
      <4>2. at'[j].pc = 9
        BY <2>2, <3>2, <4>1 DEF Looping
      <4> QED
        BY <2>1, <4>2
    <3> QED
      BY <3>1, <3>2
  <2> QED
    BY <2>3, <2>4, <2>5
<1> QED
  BY <1>1, <1>2

\* Who stays stays in the same fences.
LEMMA SamePlaces ==
    ASSUME NEW i \in Jobs, at'[i] = at[i]
    PROVE  /\ Step(i)' = Step(i) /\ Dir(i)' = Dir(i) /\ Done(i)' = Done(i)
           /\ InFence(i)' <=> InFence(i)
           /\ InUpdate(i)' <=> InUpdate(i)
<1>1. Step(i)' = Step(i)
  BY DEF Step
<1>2. Dir(i)' = Dir(i) /\ Done(i)' = Done(i)
  BY <1>1 DEF Dir, Done
<1> QED
  BY <1>1, <1>2 DEF InFence, InUpdate

\* The fences that job j is in are its own.
OwnedBy(j) ==
    /\ InFence(j) => marker[Dir(j)] = [desc |-> Descriptor(Job[j], Dir(j)), owner |-> j]
    /\ InUpdate(j) => marker[Root] = [desc |-> Descriptor(Job[j], Root), owner |-> j]

\* Who touches a fence touches none of another job's.
LEMMA FencedApart ==
    ASSUME AllPlaced, Held, NEW j \in Jobs, Begins(j) \/ Finishes(j), NEW i \in Jobs, i # j
    PROVE  /\ InFence(i) => Dir(i) # Fenced(j)
           /\ InUpdate(i) => Root # Fenced(j)
<1>1. Placed(i) /\ Placed(j) /\ Root \notin Dirs
  BY TransactionAssumption DEF AllPlaced
<1>2. Fenced(j) = Root \/ Fenced(j) = Dir(j)
  BY DEF Fenced
<1>3. CASE Step(j) \in {"mark", "unmark"}
  <2>1. Fenced(j) = Root /\ Holds(j, MasterLock)
    BY <1>1, <1>3, FenceHolds DEF Fenced
  <2>2. InFence(i) => Dir(i) \in Dirs
    BY <1>1, FenceHolds
  <2>3. InUpdate(i) => Holds(i, MasterLock)
    BY <1>1, FenceHolds
  <2> QED
    BY <1>1, <2>1, <2>2, <2>3, Exclusive, LockNames
<1>4. CASE Step(j) \notin {"mark", "unmark"}
  <2>1. at[j].call \in {"begin", "finish"}
    BY <1>4 DEF Begins, Finishes
  <2>2. Fenced(j) = Dir(j) /\ Dir(j) \in Dirs /\ Holds(j, RebuildMutex(Dir(j)))
    BY <1>1, <1>4, <2>1, FenceHolds DEF Fenced
  <2>3. InFence(i) => Dir(i) \in Dirs /\ Holds(i, RebuildMutex(Dir(i)))
    BY <1>1, FenceHolds
  <2>4. InFence(i) => Dir(i) # Dir(j)
    BY <2>2, <2>3, Exclusive, LockNames
  <2> QED
    BY <1>1, <2>2, <2>4
<1> QED
  BY <1>3, <1>4

\* A fence is that of a layer, of the total or of the root.
LEMMA FencedIsMarked ==
    ASSUME NEW j \in Jobs, Placed(j), Begins(j) \/ Finishes(j)
    PROVE  Fenced(j) \in Dirs \cup {Root}
<1>1. CASE Step(j) \in {"mark", "unmark"}
  BY <1>1 DEF Fenced
<1>2. CASE Step(j) \notin {"mark", "unmark"}
  <2>1. at[j].call \in {"begin", "finish"}
    BY <1>2 DEF Begins, Finishes
  <2> QED
    BY <1>2, <2>1, FenceHolds DEF Fenced
<1> QED
  BY <1>1, <1>2

\* The markers that a step of j leaves alone or changes.
LEMMA OwnedWhenGoing ==
    ASSUME Typed, AllPlaced, Held, Owned, NEW j \in Jobs, GoesOn(j),
           \/ Begins(j) /\ marker' = [marker EXCEPT ![Fenced(j)] = [desc |-> Descriptor(Job[j], Fenced(j)), owner |-> j]]
           \/ Finishes(j) /\ marker' = [marker EXCEPT ![Fenced(j)] = NoMarker]
           \/ ~Begins(j) /\ ~Finishes(j) /\ marker' = marker
    PROVE  Owned'
<1>1. /\ Placed(j) /\ Placed(j)' /\ ~Done(j) /\ at'[j] = After(j)
      /\ \A i \in Jobs : i # j => at'[i] = at[i]
      /\ marker \in [Dirs \cup {Root} -> {NoMarker} \cup Marks]
      /\ \A i \in Jobs : OwnedBy(i) /\ Placed(i)
      /\ Root \notin Dirs
  BY GoesOnPlaced, TransactionAssumption DEF AllPlaced, GoesOn, Advance, Typed, Owned, OwnedBy
<1>2. ASSUME NEW i \in Jobs, i # j PROVE OwnedBy(i)'
  <2>1. /\ Dir(i)' = Dir(i) /\ (InFence(i)' <=> InFence(i)) /\ (InUpdate(i)' <=> InUpdate(i))
    BY <1>1, <1>2, SamePlaces
  <2>2. InFence(i) => Dir(i) \in Dirs
    BY <1>1, FenceHolds
  <2>3. (Begins(j) \/ Finishes(j)) => /\ InFence(i) => Dir(i) # Fenced(j)
                                      /\ InUpdate(i) => Root # Fenced(j)
    BY <1>2, FencedApart
  <2>4. InFence(i) => marker'[Dir(i)] = marker[Dir(i)]
    BY <1>1, <2>2, <2>3
  <2>5. InUpdate(i) => marker'[Root] = marker[Root]
    BY <1>1, <2>3
  <2> QED
    BY <1>1, <2>1, <2>4, <2>5 DEF OwnedBy
<1>3. InFence(j)' => marker'[Dir(j)'] = [desc |-> Descriptor(Job[j], Dir(j)'), owner |-> j]
  <2>1. SUFFICES ASSUME InFence(j)'
                 PROVE  marker'[Dir(j)'] = [desc |-> Descriptor(Job[j], Dir(j)'), owner |-> j]
    OBVIOUS
  <2>2. /\ Dir(j)' = Dir(j) /\ Step(j) = "rebuild" /\ at[j].call # "finish"
        /\ InFence(j) \/ at[j].call = "begin"
    BY <1>1, <2>1, FenceMoves
  <2>3. Fenced(j) = Dir(j) /\ ~Finishes(j)
    BY <2>2 DEF Fenced, Finishes
  <2>4. Dir(j) \in Dirs
    BY <1>1, <2>2, WhereTurns
  <2>5. CASE at[j].call = "begin"
    <3>1. Begins(j)
      BY <2>5 DEF Begins
    <3> QED
      BY <1>1, <2>2, <2>3, <2>4, <3>1
  <2>6. CASE at[j].call # "begin"
    <3>1. ~Begins(j)
      BY <2>2, <2>6 DEF Begins
    <3> QED
      BY <1>1, <2>2, <2>3, <2>6, <3>1 DEF OwnedBy
  <2> QED
    BY <2>5, <2>6
<1>4. InUpdate(j)' => marker'[Root] = [desc |-> Descriptor(Job[j], Root), owner |-> j]
  <2>1. SUFFICES ASSUME InUpdate(j)'
                 PROVE  marker'[Root] = [desc |-> Descriptor(Job[j], Root), owner |-> j]
    OBVIOUS
  <2>2. (InUpdate(j) /\ Step(j) # "unmark") \/ Step(j) = "mark"
    BY <1>1, <2>1, FenceMoves
  <2>3. CASE Step(j) = "mark"
    <3>1. Begins(j) /\ Fenced(j) = Root /\ at[j].call = "do"
      BY <1>1, <2>3 DEF Begins, Fenced, Placed
    <3>2. ~Finishes(j)
      BY <2>3, <3>1 DEF Finishes
    <3> QED
      BY <1>1, <3>1, <3>2
  <2>4. CASE InUpdate(j) /\ Step(j) \notin {"mark", "unmark"}
    <3>1. Begins(j) \/ Finishes(j) => at[j].call \in {"begin", "finish"}
      BY <2>4 DEF Begins, Finishes
    <3>2. Begins(j) \/ Finishes(j) => Fenced(j) \in Dirs
      BY <1>1, <2>4, <3>1, FenceHolds DEF Fenced
    <3>3. marker'[Root] = marker[Root]
      BY <1>1, <3>2
    <3> QED
      BY <1>1, <2>4, <3>3 DEF OwnedBy
  <2> QED
    BY <2>2, <2>3, <2>4
<1>5. OwnedBy(j)'
  BY <1>3, <1>4 DEF OwnedBy, Descriptor, Operation
<1> QED
  BY <1>2, <1>5 DEF Owned, OwnedBy

\* A process that died is in no fence; its markers stay.
LEMMA OwnedWhenRestarted ==
    ASSUME Typed, Owned, NEW j \in Jobs, Restart(j)
    PROVE  Owned'
<1>1. /\ marker' = marker /\ at'[j] = Enter(j, 1) /\ \A i \in Jobs : i # j => at'[i] = at[i]
  BY DEF Restart, Typed
<1>2. ~InFence(j)' /\ ~InUpdate(j)'
  <2>1. at'[j].pc = 1 /\ at'[j].call = FirstCall(Step(j)')
    BY <1>1 DEF Enter, Step
  <2>2. FirstCall("rebuild") = "mutex"
    BY FirstCalls
  <2> QED
    BY <2>1, <2>2 DEF InFence, InUpdate, Writing
<1>3. ASSUME NEW i \in Jobs, i # j PROVE OwnedBy(i)'
  BY <1>1, <1>3, SamePlaces DEF Owned, OwnedBy
<1> QED
  BY <1>2, <1>3 DEF Owned, OwnedBy
------------------------------------------------------------------------------
(* What a step adds to what is done *)

\* Job j has done the areas R of the level it writes, and goes on or stays.
Does(j, R) ==
    /\ at[j].call = "put" \/ (R = {} /\ rolled[j] = {})
    /\ \/ /\ at'[j] = After(j) /\ rolled'[j] = {}
          /\ at[j].call = "put" => rolled[j] \cup R = Scope(j)
       \/ at'[j] = at[j] /\ rolled'[j] = rolled[j] \cup R

\* Does, in terms of the three ways of going on.
LEMMA DoesMoves ==
    ASSUME NEW j \in Jobs, Placed(j), ~Done(j), NEW R, Does(j, R)
    PROVE  \/ at'[j] = at[j] /\ rolled'[j] = rolled[j] \cup R /\ Step(j)' = Step(j) /\ Dir(j)' = Dir(j)
           \/ /\ StaysInTurn(j) \/ NextTurnStarts(j) \/ NextStepStarts(j)
              /\ at'[j] = After(j) /\ rolled'[j] = {}
              /\ at[j].call = "put" => rolled[j] \cup R = Scope(j)
<1>1. CASE at'[j] = at[j] /\ rolled'[j] = rolled[j] \cup R
  <2>1. Step(j)' = Step(j)
    BY <1>1 DEF Step
  <2>2. Dir(j)' = Dir(j)
    BY <1>1, <2>1 DEF Dir
  <2> QED
    BY <1>1, <2>1, <2>2
<1>2. CASE at'[j] = After(j) /\ rolled'[j] = {} /\ (at[j].call = "put" => rolled[j] \cup R = Scope(j))
  BY <1>2, Moves
<1> QED
  BY <1>1, <1>2 DEF Does

\* A level becomes written in an area only by a put.
LEMMA WrittenNews ==
    ASSUME NEW j \in Jobs, Placed(j), ~Done(j), NEW R, Does(j, R),
           NEW d, NEW k \in 0 .. Depth, NEW a, Written(j, d, k, a)'
    PROVE  \/ Written(j, d, k, a)
           \/ at[j].call = "put" /\ Step(j) = "rebuild" /\ d = Dir(j) /\ k = at[j].zoom /\ a \in R
<1>1. /\ Step(j)' = "rebuild" /\ Dir(j)' = d /\ a \in Scope(j) /\ k >= FirstLevel(Job[j], d)
      /\ \/ at'[j].call = "finish"
         \/ at'[j].call \in Writing /\ at'[j].zoom > k
         \/ at'[j].call = "close" /\ at'[j].zoom = k
         \/ at'[j].call = "put" /\ at'[j].zoom = k /\ a \in rolled'[j]
  BY DEF Written, Scope
<1>2. CASE at'[j] = at[j] /\ rolled'[j] = rolled[j] \cup R /\ Step(j)' = Step(j) /\ Dir(j)' = Dir(j)
  BY <1>1, <1>2 DEF Written
<1>3. CASE /\ StaysInTurn(j)
           /\ rolled'[j] = {}
           /\ at[j].call = "put" => rolled[j] \cup R = Scope(j)
  <2>1. Step(j) = "rebuild" /\ Dir(j) = d /\ NextCallOf(j, at'[j])
    BY <1>1, <1>3 DEF StaysInTurn
  <2>2. at[j].zoom \in 0 .. Depth /\ FirstLevel(Job[j], Dir(j)) \in {0, 1}
    BY DEF Placed, Position, FirstLevel
  <2>3. at'[j].call # "put" \/ a \notin rolled'[j]
    BY <1>3
  <2>4. \/ at'[j].call = "finish"
        \/ at'[j].call \in Writing /\ at'[j].zoom > k
        \/ at'[j].call = "close" /\ at'[j].zoom = k
    BY <1>1, <2>3
  <2>5. CASE at[j].call \in {"open", "create"}
    <3>1. at'[j].call \in {"put", "create"} /\ at'[j].zoom = at[j].zoom
      BY <2>1, <2>5 DEF NextCallOf
    <3>2. at[j].zoom > k
      BY <2>4, <3>1
    <3> QED
      BY <1>1, <2>1, <2>5, <3>2 DEF Written, Writing
  <2>6. CASE at[j].call = "put"
    <3>1. at'[j].call = "close" /\ at'[j].zoom = at[j].zoom
      BY <2>1, <2>6 DEF NextCallOf
    <3>2. at[j].zoom > k \/ at[j].zoom = k
      BY <2>4, <3>1
    <3>3. a \in rolled[j] \/ a \in R
      BY <1>1, <1>3, <2>6
    <3> QED
      BY <1>1, <2>1, <2>6, <3>2, <3>3 DEF Written, Writing
  <2>7. CASE at[j].call = "close"
    <3>1. IF at[j].zoom < Depth THEN at'[j].call = "open" /\ at'[j].zoom = at[j].zoom + 1
          ELSE at'[j].call = "finish"
      BY <2>1, <2>7 DEF NextCallOf
    <3>2. ASSUME at[j].zoom < Depth PROVE at[j].zoom > k \/ at[j].zoom = k
      <4>1. at'[j].zoom = at[j].zoom + 1 /\ at'[j].zoom > k
        BY <2>4, <3>1, <3>2
      <4> QED
        BY <2>2, <4>1
    <3>3. at[j].zoom > k \/ at[j].zoom = k
      BY <2>2, <3>2, DepthTyped
    <3> QED
      BY <1>1, <2>1, <2>7, <3>3 DEF Written, Writing
  <2>8. CASE at[j].call \in {"mutex", "begin", "finish"}
    <3>1. \/ at'[j].call \in {"begin", "leave"}
          \/ at'[j].call = "open" /\ at'[j].zoom = FirstLevel(Job[j], Dir(j))
      BY <2>1, <2>8 DEF NextCallOf
    <3> QED
      BY <1>1, <2>1, <2>2, <2>4, <3>1 DEF Writing
  <2> QED
    BY <2>1, <2>5, <2>6, <2>7, <2>8 DEF NextCallOf
<1>4. CASE NextTurnStarts(j) \/ NextStepStarts(j)
  <2>1. at'[j].call = "mutex"
    BY <1>1, <1>4, FirstCalls DEF NextTurnStarts, NextStepStarts
  <2> QED
    BY <1>1, <2>1 DEF Writing
<1> QED
  BY <1>2, <1>3, <1>4, DoesMoves

\* Where a scoped repaint is.
LEMMA RepaintAt ==
    ASSUME NEW j \in Jobs, Placed(j), Job[j].kind = "repaint"
    PROVE  /\ Step(j) = "stage" <=> at[j].pc = 4
           /\ Step(j) = "rebuild" <=> at[j].pc = 7
           /\ Scope(j) = Job[j].scope
           /\ at[j].pc = 4 => /\ at[j].turn \in 1 .. Len(Job[j].layers)
                              /\ Dir(j) = Job[j].layers[at[j].turn]
           /\ at[j].pc = 7 => /\ Turns(Job[j], Step(j)) = Rebuilds(Job[j])
                              /\ at[j].turn \in 1 .. Len(Job[j].layers) + 1
                              /\ Len(Rebuilds(Job[j])) = Len(Job[j].layers) + 1
                              /\ at[j].turn \in 1 .. Len(Job[j].layers) => Dir(j) = Job[j].layers[at[j].turn]
                              /\ at[j].turn = Len(Job[j].layers) + 1 => Dir(j) = Total
           /\ Len(Job[j].layers) \in Nat /\ Job[j].layers \in Seq(Layers)
<1>1. (Step(j) = "stage" <=> at[j].pc = 4) /\ (Step(j) = "rebuild" <=> at[j].pc = 7)
  BY Where DEF LabelTable
<1>2. Job[j].layers \in Seq(Layers) /\ Job[j].scope # Full
  BY JobTyped DEF JobAssumption
<1>3. Scope(j) = Job[j].scope
  BY <1>2 DEF Scope
<1>4. ASSUME at[j].pc = 4
      PROVE  at[j].turn \in 1 .. Len(Job[j].layers) /\ Dir(j) = Job[j].layers[at[j].turn]
  BY <1>1, <1>4, WhereTurns
<1>5. ASSUME at[j].pc = 7
      PROVE  /\ Turns(Job[j], Step(j)) = Rebuilds(Job[j])
             /\ at[j].turn \in 1 .. Len(Job[j].layers) + 1
             /\ Len(Rebuilds(Job[j])) = Len(Job[j].layers) + 1
             /\ at[j].turn \in 1 .. Len(Job[j].layers) => Dir(j) = Job[j].layers[at[j].turn]
             /\ at[j].turn = Len(Job[j].layers) + 1 => Dir(j) = Total
  <2>1. /\ Turns(Job[j], Step(j)) = Rebuilds(Job[j])
        /\ at[j].turn \in 1 .. Len(Rebuilds(Job[j])) /\ Dir(j) = Rebuilds(Job[j])[at[j].turn]
    BY <1>1, <1>5, WhereTurns
  <2>2. Rebuilds(Job[j]) = Append(Job[j].layers, Total)
    BY DEF Rebuilds
  <2>3. Len(Rebuilds(Job[j])) = Len(Job[j].layers) + 1
    BY <1>2, <2>2
  <2> QED
    BY <1>2, <2>1, <2>2, <2>3
<1> QED
  BY <1>1, <1>2, <1>3, <1>4, <1>5

StagedHere(j, l, a) ==
    \E i \in 1 .. Len(Job[j].layers) :
        /\ Job[j].layers[i] = l
        /\ \/ i < at[j].turn
           \/ i = at[j].turn /\ (at[j].call = "close" \/ (at[j].call = "put" /\ a \in rolled[j]))

\* An area becomes staged only by a put at its base.
LEMMA StagedNews ==
    ASSUME NEW j \in Jobs, Placed(j), Placed(j)', ~Done(j), NEW R, Does(j, R), NEW l, NEW a,
           Staged(j, l, a)'
    PROVE  \/ Staged(j, l, a)
           \/ at[j].call = "put" /\ Step(j) = "stage" /\ l = Dir(j) /\ a \in R
<1>1. /\ Job[j].kind = "repaint" /\ a \in Job[j].scope
      /\ \/ at'[j].pc \in 5 .. 8 /\ l \in Range(Job[j].layers)
         \/ at'[j].pc = 4 /\ StagedHere(j, l, a)'
  BY DEF Staged, StagedHere
<1>2. Staged(j, l, a) <=> \/ at[j].pc \in 5 .. 8 /\ l \in Range(Job[j].layers)
                          \/ at[j].pc = 4 /\ StagedHere(j, l, a)
  BY <1>1 DEF Staged, StagedHere
<1>3. at[j].pc \in Nat /\ Scope(j) = Job[j].scope /\ Len(Job[j].layers) \in Nat
  BY <1>1, RepaintAt DEF Placed, Position
<1>4. CASE at'[j] = at[j] /\ rolled'[j] = rolled[j] \cup R
  <2>1. CASE at[j].pc \in 5 .. 8 /\ l \in Range(Job[j].layers)
    BY <1>2, <2>1
  <2>2. CASE at[j].pc = 4 /\ StagedHere(j, l, a)'
    <3>1. PICK i \in 1 .. Len(Job[j].layers) :
            /\ Job[j].layers[i] = l
            /\ \/ i < at[j].turn
               \/ i = at[j].turn /\ (at[j].call = "close" \/ (at[j].call = "put" /\ a \in rolled[j] \cup R))
      BY <1>4, <2>2 DEF StagedHere
    <3>2. CASE i = at[j].turn /\ at[j].call = "put" /\ a \in R
      <4>1. Step(j) = "stage" /\ Dir(j) = Job[j].layers[at[j].turn]
        BY <1>1, <2>2, RepaintAt
      <4> QED
        BY <3>1, <3>2, <4>1
    <3>3. CASE ~(i = at[j].turn /\ at[j].call = "put" /\ a \in R)
      <4>1. StagedHere(j, l, a)
        BY <3>1, <3>3 DEF StagedHere
      <4> QED
        BY <1>2, <2>2, <4>1
    <3> QED
      BY <3>2, <3>3
  <2> QED
    BY <1>1, <1>4, <2>1, <2>2
<1>5. CASE /\ StaysInTurn(j) /\ rolled'[j] = {}
           /\ at[j].call = "put" => rolled[j] \cup R = Scope(j)
  <2>0. at'[j].pc = at[j].pc /\ at'[j].turn = at[j].turn /\ NextCallOf(j, at'[j])
    BY <1>5 DEF StaysInTurn
  <2>1. CASE at[j].pc \in 5 .. 8 /\ l \in Range(Job[j].layers)
    BY <1>2, <2>1
  <2>2. CASE at[j].pc = 4 /\ StagedHere(j, l, a)'
    <3>0. Step(j) = "stage" /\ Dir(j) = Job[j].layers[at[j].turn]
      BY <1>1, <2>2, RepaintAt
    <3>1. PICK i \in 1 .. Len(Job[j].layers) :
            /\ Job[j].layers[i] = l
            /\ i < at[j].turn \/ (i = at[j].turn /\ at'[j].call = "close")
      BY <1>5, <2>0, <2>2 DEF StagedHere
    <3>2. at'[j].call = "close" => at[j].call = "put"
      BY <2>0 DEF NextCallOf
    <3>3. at'[j].call = "close" => a \in rolled[j] \/ a \in R
      BY <1>1, <1>3, <1>5, <3>2
    <3>4. CASE i < at[j].turn \/ (i = at[j].turn /\ at'[j].call = "close" /\ a \in rolled[j])
      <4>1. StagedHere(j, l, a)
        BY <3>1, <3>2, <3>4 DEF StagedHere
      <4> QED
        BY <1>2, <2>2, <4>1
    <3>5. CASE i = at[j].turn /\ at'[j].call = "close" /\ a \in R
      BY <3>0, <3>1, <3>2, <3>5
    <3> QED
      BY <3>1, <3>3, <3>4, <3>5
  <2> QED
    BY <1>1, <2>0, <2>1, <2>2
<1>6. CASE NextTurnStarts(j)
  <2>0. /\ at'[j].pc = at[j].pc /\ at'[j].turn = at[j].turn + 1 /\ LastCall(j)
        /\ at'[j].call \in {"open", "mutex", "do"}
    BY <1>6, FirstCalls DEF NextTurnStarts
  <2>1. CASE at[j].pc \in 5 .. 8 /\ l \in Range(Job[j].layers)
    BY <1>2, <2>1
  <2>2. CASE at[j].pc = 4 /\ StagedHere(j, l, a)'
    <3>0. Step(j) = "stage" /\ at[j].turn \in Nat
      BY <1>1, <2>2, RepaintAt DEF Placed, Position
    <3>1. at[j].call = "close"
      BY <2>0, <3>0 DEF LastCall
    <3>2. PICK i \in 1 .. Len(Job[j].layers) : Job[j].layers[i] = l /\ i < at[j].turn + 1
      BY <2>0, <2>2 DEF StagedHere
    <3>3. StagedHere(j, l, a)
      BY <3>0, <3>1, <3>2, <1>3 DEF StagedHere
    <3> QED
      BY <1>2, <2>2, <3>3
  <2> QED
    BY <1>1, <2>0, <2>1, <2>2
<1>7. CASE NextStepStarts(j)
  <2>0. /\ at'[j].pc = at[j].pc + 1 /\ at'[j].turn = 1 /\ LastCall(j)
        /\ Step(j) \in Looping => at[j].turn = Len(Turns(Job[j], Step(j)))
        /\ at'[j].call \in {"open", "mutex", "do"}
    BY <1>7, FirstCalls DEF NextStepStarts
  <2>1. ~(at'[j].pc = 4 /\ StagedHere(j, l, a)')
    BY <2>0 DEF StagedHere
  <2>2. at[j].pc = 4 \/ at[j].pc \in 5 .. 8
    BY <1>1, <1>3, <2>0, <2>1
  <2>3. CASE at[j].pc = 4
    <3>1. /\ Step(j) = "stage" /\ Job[j].layers \in Seq(Layers)
      BY <1>1, <2>3, RepaintAt
    <3>2. at[j].call = "close"
      BY <2>0, <3>1 DEF LastCall
    <3>3. at[j].turn = Len(Job[j].layers)
      BY <2>0, <3>1 DEF Looping, Turns
    <3>4. l \in Range(Job[j].layers)
      BY <1>1, <2>1
    <3>5. PICK i \in 1 .. Len(Job[j].layers) : Job[j].layers[i] = l
      BY <3>1, <3>4 DEF Range
    <3>6. StagedHere(j, l, a)
      BY <3>2, <3>3, <3>5, <1>3 DEF StagedHere
    <3> QED
      BY <1>2, <2>3, <3>6
  <2>4. CASE at[j].pc \in 5 .. 8
    BY <1>1, <1>2, <2>1, <2>4
  <2> QED
    BY <2>2, <2>3, <2>4
<1> QED
  BY <1>4, <1>5, <1>6, <1>7, DoesMoves

SettledHere(j, l, a) ==
    \E i \in 1 .. Len(Job[j].layers) :
        /\ Job[j].layers[i] = l
        /\ i < at[j].turn \/ (i = at[j].turn /\ (at[j].call = "leave" \/ Written(j, l, 1, a)))

\* A cascade that is about to give back its mutex has written its levels.
LEMMA WrittenAtFinish ==
    ASSUME NEW j \in Jobs, Step(j) = "rebuild", at[j].call = "finish", NEW a \in Scope(j), NEW k,
           k >= FirstLevel(Job[j], Dir(j))
    PROVE  Written(j, Dir(j), k, a)
  BY DEF Written

\* An area becomes settled only by a put at its layer's first level.
LEMMA SettledNews ==
    ASSUME NEW j \in Jobs, Placed(j), Placed(j)', ~Done(j), NEW R, Does(j, R), NEW l, NEW a,
           Settled(j, l, a)'
    PROVE  \/ Settled(j, l, a)
           \/ /\ at[j].call = "put" /\ Step(j) = "rebuild"
              /\ l = Dir(j) /\ at[j].zoom = 1 /\ a \in R
<1>1. /\ Job[j].kind = "repaint" /\ a \in Job[j].scope
      /\ \/ at'[j].pc = 8 /\ l \in Range(Job[j].layers)
         \/ at'[j].pc = 7 /\ SettledHere(j, l, a)'
  BY DEF Settled, SettledHere
<1>2. Settled(j, l, a) <=> \/ at[j].pc = 8 /\ l \in Range(Job[j].layers)
                           \/ at[j].pc = 7 /\ SettledHere(j, l, a)
  BY <1>1 DEF Settled, SettledHere
<1>3. at[j].pc \in Nat /\ Scope(j) = Job[j].scope /\ Len(Job[j].layers) \in Nat
  BY <1>1, RepaintAt DEF Placed, Position
<1>4. CASE at[j].pc = 8 /\ l \in Range(Job[j].layers)
  BY <1>2, <1>4
<1>5. CASE /\ at[j].pc = 7 /\ at'[j].pc = 7 /\ at'[j].turn = at[j].turn /\ SettledHere(j, l, a)'
           /\ at'[j].call = "leave" => at[j].call \in {"leave", "finish"}
  <2>0. /\ Step(j) = "rebuild"
        /\ at[j].turn \in 1 .. Len(Job[j].layers) => Dir(j) = Job[j].layers[at[j].turn]
    BY <1>1, <1>5, RepaintAt
  <2>1. PICK i \in 1 .. Len(Job[j].layers) :
          /\ Job[j].layers[i] = l
          /\ i < at[j].turn \/ (i = at[j].turn /\ (at'[j].call = "leave" \/ Written(j, l, 1, a)'))
    BY <1>5 DEF SettledHere
  <2>2. CASE i < at[j].turn
    <3>1. SettledHere(j, l, a)
      BY <2>1, <2>2 DEF SettledHere
    <3> QED
      BY <1>2, <1>5, <3>1
  <2>3. CASE i = at[j].turn /\ at'[j].call = "leave"
    <3>1. Dir(j) = l
      BY <2>0, <2>1, <2>3
    <3>2. at[j].call = "leave" \/ Written(j, l, 1, a)
      <4>1. at[j].call = "finish" => Written(j, Dir(j), 1, a)
        <5>1. 1 >= FirstLevel(Job[j], Dir(j))
          BY DEF FirstLevel
        <5> QED
          BY <1>1, <1>3, <2>0, <5>1, WrittenAtFinish
      <4> QED
        BY <1>5, <2>3, <3>1, <4>1
    <3>3. SettledHere(j, l, a)
      BY <2>1, <2>3, <3>2 DEF SettledHere
    <3> QED
      BY <1>2, <1>5, <3>3
  <2>4. CASE i = at[j].turn /\ Written(j, l, 1, a)'
    <3>1. \/ Written(j, l, 1, a)
          \/ at[j].call = "put" /\ Step(j) = "rebuild" /\ l = Dir(j) /\ 1 = at[j].zoom /\ a \in R
      BY <2>4, WrittenNews, DepthTyped
    <3>2. CASE Written(j, l, 1, a)
      <4>1. SettledHere(j, l, a)
        BY <2>1, <2>4, <3>2 DEF SettledHere
      <4> QED
        BY <1>2, <1>5, <4>1
    <3> QED
      BY <3>1, <3>2
  <2> QED
    BY <2>1, <2>2, <2>3, <2>4
<1>6. CASE at'[j] = at[j]
  BY <1>1, <1>4, <1>5, <1>6
<1>7. CASE StaysInTurn(j)
  <2>1. /\ at'[j].pc = at[j].pc /\ at'[j].turn = at[j].turn
        /\ at'[j].call = "leave" => at[j].call \in {"leave", "finish"}
    BY <1>7 DEF StaysInTurn, NextCallOf
  <2> QED
    BY <1>1, <1>4, <1>5, <2>1
<1>8. CASE NextTurnStarts(j)
  <2>0. /\ at'[j].pc = at[j].pc /\ at'[j].turn = at[j].turn + 1 /\ LastCall(j)
    BY <1>8 DEF NextTurnStarts
  <2>1. CASE at[j].pc = 7 /\ SettledHere(j, l, a)'
    <3>0. Step(j) = "rebuild" /\ at[j].turn \in Nat /\ Step(j)' = "rebuild"
      BY <1>1, <1>8, <2>1, RepaintAt DEF Placed, Position, NextTurnStarts
    <3>1. at[j].call = "leave"
      BY <2>0, <3>0 DEF LastCall
    <3>2. ~Written(j, l, 1, a)' /\ at'[j].call # "leave"
      <4>1. at'[j].call = "mutex"
        BY <1>8, <3>0, FirstCalls DEF NextTurnStarts
      <4> QED
        BY <4>1 DEF Written, Writing
    <3>3. PICK i \in 1 .. Len(Job[j].layers) : Job[j].layers[i] = l /\ i < at[j].turn + 1
      BY <2>0, <2>1, <3>2 DEF SettledHere
    <3>4. SettledHere(j, l, a)
      BY <3>0, <3>1, <3>3, <1>3 DEF SettledHere
    <3> QED
      BY <1>2, <2>1, <3>4
  <2> QED
    BY <1>1, <1>4, <2>0, <2>1
<1>9. CASE NextStepStarts(j)
  <2>0. /\ at'[j].pc = at[j].pc + 1 /\ at'[j].turn = 1 /\ LastCall(j)
        /\ Step(j) \in Looping => at[j].turn = Len(Turns(Job[j], Step(j)))
        /\ at'[j].call = FirstCall(Step(j)')
    BY <1>9 DEF NextStepStarts
  <2>1. ~(at'[j].pc = 7 /\ SettledHere(j, l, a)')
    <3>1. SUFFICES ASSUME at'[j].pc = 7, SettledHere(j, l, a)' PROVE FALSE
      OBVIOUS
    <3>2. Step(j)' = "rebuild"
      BY <1>1, <3>1, WhereNext DEF LabelTable
    <3>3. at'[j].call = "mutex"
      BY <2>0, <3>2, FirstCalls
    <3>4. ~Written(j, l, 1, a)' /\ at'[j].call # "leave"
      BY <3>3 DEF Written, Writing
    <3> QED
      BY <2>0, <3>1, <3>4 DEF SettledHere
  <2>2. at[j].pc = 7
    BY <1>1, <1>3, <2>0, <2>1
  <2>3. /\ Step(j) = "rebuild" /\ Turns(Job[j], Step(j)) = Rebuilds(Job[j])
        /\ Len(Rebuilds(Job[j])) = Len(Job[j].layers) + 1
        /\ Job[j].layers \in Seq(Layers)
    BY <1>1, <2>2, RepaintAt
  <2>4. at[j].turn = Len(Job[j].layers) + 1
    BY <2>0, <2>3 DEF Looping
  <2>5. l \in Range(Job[j].layers)
    BY <1>1, <2>1
  <2>6. PICK i \in 1 .. Len(Job[j].layers) : Job[j].layers[i] = l
    BY <2>3, <2>5 DEF Range
  <2>7. SettledHere(j, l, a)
    BY <2>4, <2>6, <1>3 DEF SettledHere
  <2> QED
    BY <1>2, <2>2, <2>7
<1> QED
  BY <1>6, <1>7, <1>8, <1>9, DoesMoves

\* An area becomes summed only by a put at the total's base.
LEMMA SummedNews ==
    ASSUME NEW j \in Jobs, Placed(j), Placed(j)', ~Done(j), NEW R, Does(j, R), NEW a,
           Summed(j, a)'
    PROVE  \/ Summed(j, a)
           \/ /\ at[j].call = "put" /\ Step(j) = "rebuild"
              /\ Dir(j) = Total /\ at[j].zoom = 0 /\ a \in R
<1>1. /\ Job[j].kind = "repaint" /\ a \in Job[j].scope
      /\ \/ at'[j].pc = 8
         \/ /\ at'[j].pc = 7 /\ at'[j].turn = Len(Job[j].layers) + 1
            /\ at'[j].call = "leave" \/ Written(j, Total, 0, a)'
  BY DEF Summed
<1>2. Summed(j, a) <=> \/ at[j].pc = 8
                       \/ /\ at[j].pc = 7 /\ at[j].turn = Len(Job[j].layers) + 1
                          /\ at[j].call = "leave" \/ Written(j, Total, 0, a)
  BY <1>1 DEF Summed
<1>3. at[j].pc \in Nat /\ Scope(j) = Job[j].scope /\ Len(Job[j].layers) \in Nat
  BY <1>1, RepaintAt DEF Placed, Position
<1>4. CASE at[j].pc = 8
  BY <1>2, <1>4
<1>5. CASE /\ at[j].pc = 7 /\ at'[j].pc = 7 /\ at'[j].turn = at[j].turn
           /\ at'[j].call = "leave" => at[j].call \in {"leave", "finish"}
  <2>0. at[j].turn = Len(Job[j].layers) + 1 /\ Step(j) = "rebuild" /\ Dir(j) = Total
    BY <1>1, <1>5, RepaintAt
  <2>1. CASE at'[j].call = "leave"
    <3>1. at[j].call = "finish" => Written(j, Dir(j), 0, a)
      <4>1. FirstLevel(Job[j], Dir(j)) = 0
        BY <1>1, <2>0, TransactionAssumption DEF FirstLevel, Operation, Dirs
      <4> QED
        BY <1>1, <1>3, <2>0, <4>1, WrittenAtFinish
    <3> QED
      BY <1>2, <1>5, <2>0, <2>1, <3>1
  <2>2. CASE Written(j, Total, 0, a)'
    <3>1. \/ Written(j, Total, 0, a)
          \/ at[j].call = "put" /\ Step(j) = "rebuild" /\ Total = Dir(j) /\ 0 = at[j].zoom /\ a \in R
      BY <2>2, WrittenNews, DepthTyped
    <3> QED
      BY <1>2, <1>5, <2>0, <3>1
  <2> QED
    BY <1>1, <1>5, <2>1, <2>2
<1>6. CASE at'[j] = at[j]
  BY <1>1, <1>4, <1>5, <1>6
<1>7. CASE StaysInTurn(j)
  <2>1. /\ at'[j].pc = at[j].pc /\ at'[j].turn = at[j].turn
        /\ at'[j].call = "leave" => at[j].call \in {"leave", "finish"}
    BY <1>7 DEF StaysInTurn, NextCallOf
  <2> QED
    BY <1>1, <1>4, <1>5, <2>1
<1>8. CASE NextTurnStarts(j)
  <2>1. CASE at[j].pc = 7
    <3>1. Step(j) = "rebuild"
      BY <1>1, <2>1, RepaintAt
    <3>2. at'[j].call = "mutex" /\ at'[j].pc = 7
      BY <1>8, <2>1, <3>1, FirstCalls DEF NextTurnStarts
    <3> QED
      BY <1>1, <3>2 DEF Written, Writing
  <2> QED
    BY <1>1, <1>4, <1>8, <2>1 DEF NextTurnStarts
<1>9. CASE NextStepStarts(j)
  <2>1. at'[j].pc = at[j].pc + 1 /\ at'[j].turn = 1 /\ LastCall(j) /\ at'[j].call = FirstCall(Step(j)')
    BY <1>9 DEF NextStepStarts
  <2>2. CASE at'[j].pc = 8
    <3>1. at[j].pc = 7
      BY <1>3, <2>1, <2>2
    <3>2. /\ Step(j) = "rebuild" /\ Turns(Job[j], Step(j)) = Rebuilds(Job[j])
          /\ Len(Rebuilds(Job[j])) = Len(Job[j].layers) + 1
      BY <1>1, <3>1, RepaintAt
    <3>3. at[j].turn = Len(Job[j].layers) + 1 /\ at[j].call = "leave"
      BY <1>9, <2>1, <3>2 DEF NextStepStarts, LastCall, Looping
    <3> QED
      BY <1>2, <3>1, <3>3
  <2>3. CASE at'[j].pc = 7
    <3>1. Step(j)' = "rebuild"
      BY <1>1, <2>3, WhereNext DEF LabelTable
    <3>2. at'[j].call = "mutex"
      BY <2>1, <3>1, FirstCalls
    <3> QED
      BY <1>1, <2>3, <3>2 DEF Written, Writing
  <2> QED
    BY <1>1, <2>2, <2>3
<1> QED
  BY <1>6, <1>7, <1>8, <1>9, DoesMoves
------------------------------------------------------------------------------
(* Steps that write no tile *)

\* Nothing becomes done by who stays.
LEMMA SameNews ==
    ASSUME NEW i \in Jobs, at'[i] = at[i], rolled'[i] = rolled[i]
    PROVE  /\ \A d, k, a : Written(i, d, k, a)' <=> Written(i, d, k, a)
           /\ \A l, a : Staged(i, l, a)' <=> Staged(i, l, a)
           /\ \A l, a : Settled(i, l, a)' <=> Settled(i, l, a)
           /\ \A a : Summed(i, a)' <=> Summed(i, a)
<1>1. Step(i)' = Step(i) /\ Dir(i)' = Dir(i)
  BY SamePlaces
<1>2. \A d, k, a : Written(i, d, k, a)' <=> Written(i, d, k, a)
  BY <1>1 DEF Written, Scope
<1>3. \A l, a : Staged(i, l, a)' <=> Staged(i, l, a)
  BY DEF Staged
<1>4. \A l, a : Settled(i, l, a)' <=> Settled(i, l, a)
  BY <1>2 DEF Settled
<1>5. \A a : Summed(i, a)' <=> Summed(i, a)
  BY <1>2 DEF Summed
<1> QED
  BY <1>2, <1>3, <1>4, <1>5

NoNews(i) ==
    /\ \A d \in Dirs, k \in 0 .. Depth, a \in Areas : Written(i, d, k, a)' => Written(i, d, k, a)
    /\ \A l \in Layers, a \in Areas : Staged(i, l, a)' => Staged(i, l, a)
    /\ \A l \in Layers, a \in Areas : Settled(i, l, a)' => Settled(i, l, a)
    /\ \A a \in Areas : Summed(i, a)' => Summed(i, a)

\* Only a put brings news.
LEMMA GoesOnNews ==
    ASSUME Typed, AllPlaced, NEW j \in Jobs, GoesOn(j), at[j].call # "put", NEW i \in Jobs
    PROVE  NoNews(i)
<1>1. CASE i # j
  <2>1. at'[i] = at[i] /\ rolled'[i] = rolled[i]
    BY <1>1 DEF GoesOn, Advance, Typed
  <2> QED
    BY <2>1, SameNews DEF NoNews
<1>2. CASE i = j
  <2>1. Placed(j) /\ Placed(j)' /\ ~Done(j)
    BY GoesOnPlaced DEF AllPlaced, GoesOn
  <2>2. Does(j, {})
    <3>1. rolled[j] = {}
      BY <2>1 DEF Placed
    <3>2. at'[j] = After(j) /\ rolled'[j] = {}
      BY DEF GoesOn, Advance, Typed
    <3> QED
      BY <3>1, <3>2 DEF Does
  <2> QED
    BY <1>2, <2>1, <2>2, WrittenNews, StagedNews, SettledNews, SummedNews DEF NoNews
<1> QED
  BY <1>1, <1>2

\* A restart brings no news.
LEMMA RestartNews ==
    ASSUME Typed, NEW j \in Jobs, Restart(j), NEW i \in Jobs
    PROVE  NoNews(i)
<1>1. CASE i # j
  <2>1. at'[i] = at[i] /\ rolled'[i] = rolled[i]
    BY <1>1 DEF Restart, Typed
  <2> QED
    BY <2>1, SameNews DEF NoNews
<1>2. CASE i = j
  <2>1. at'[j] = Enter(j, 1)
    BY DEF Restart, Typed
  <2>2. at'[j].pc = 1 /\ at'[j].call = FirstCall(Step(j)')
    BY <2>1 DEF Enter, Step
  <2>3. \A d, k, a : ~Written(j, d, k, a)'
    <3>1. FirstCall("rebuild") = "mutex"
      BY FirstCalls
    <3> QED
      BY <2>2, <3>1 DEF Written, Writing
  <2>4. (\A l, a : ~Staged(j, l, a)' /\ ~Settled(j, l, a)') /\ \A a : ~Summed(j, a)'
    BY <2>2 DEF Staged, Settled, Summed
  <2> QED
    BY <1>2, <2>3, <2>4 DEF NoNews
<1> QED
  BY <1>1, <1>2

\* No marker goes or changes what it says.
MarkerKept(d) == marker[d] # NoMarker => marker'[d] # NoMarker /\ marker'[d].desc = marker[d].desc

\* What is pending stays so while its marker stays and nobody writes it.
LEMMA PendingKept ==
    ASSUME NEW d, NEW k, NEW a, MarkerKept(d),
           \A i \in Jobs : Written(i, d, k, a)' => Written(i, d, k, a)
    PROVE  Pending(d, k, a) => Pending(d, k, a)'
  BY DEF Pending, Covered, MarkerKept

\* A scoped update is under way while the root's marker stays.
LEMMA UpdatingKept ==
    ASSUME NEW l, NEW a, MarkerKept(Root)
    PROVE  Updating(l, a) => Updating(l, a)'
  BY DEF Updating, MarkerKept

\* A step that writes no tile, removes no marker and brings no news keeps the content.
LEMMA Quiet ==
    ASSUME Content, level' = level, \A d \in Dirs \cup {Root} : MarkerKept(d),
           \A i \in Jobs : NoNews(i)
    PROVE  Content'
<1>1. ASSUME NEW d \in Dirs, NEW k \in 0 .. Depth, NEW a \in Areas, Pending(d, k, a)
      PROVE  Pending(d, k, a)'
  BY <1>1, PendingKept DEF NoNews
<1>2. ASSUME NEW l, NEW a, Updating(l, a) PROVE Updating(l, a)'
  BY <1>2, UpdatingKept
<1>3. FirstRolled'
  <2>1. ASSUME NEW d \in Dirs, NEW a \in Areas PROVE FirstRolledAt(d, a)'
    <3>1. FirstRolledAt(d, a)
      BY DEF Content, FirstRolled
    <3> QED
      BY <1>1, <1>2, <3>1, DepthTyped DEF FirstRolledAt, Pushes
  <2> QED
    BY <2>1 DEF FirstRolled
<1>4. RestRolled'
  <2>1. ASSUME NEW d \in Dirs, NEW k \in 2 .. Depth, NEW a \in Areas PROVE RestRolledAt(d, k, a)'
    <3>1. RestRolledAt(d, k, a) /\ k \in 0 .. Depth
      BY DepthTyped DEF Content, RestRolled
    <3> QED
      BY <1>1, <3>1 DEF RestRolledAt
  <2> QED
    BY <2>1 DEF RestRolled
<1>5. TotalSums'
  <2>1. ASSUME NEW l \in Layers, NEW a \in Areas PROVE TotalSumsAt(l, a)'
    <3>1. TotalSumsAt(l, a)
      BY DEF Content, TotalSums
    <3>2. ToCombine(a) => ToCombine(a)'
      BY <1>1, DepthTyped DEF ToCombine, MarkerKept, Dirs
    <3> QED
      BY <1>2, <3>1, <3>2 DEF TotalSumsAt, Repaints
  <2> QED
    BY <2>1 DEF TotalSums
<1>6. UpdateStands'
  <2>1. ASSUME NEW i \in Jobs, NEW l \in Layers, NEW a \in Areas PROVE StandsAt(i, l, a)'
    <3>1. StandsAt(i, l, a) /\ NoNews(i) /\ l \in Dirs
      BY DEF Content, UpdateStands, Dirs
    <3> QED
      BY <1>1, <3>1, DepthTyped DEF StandsAt, NoNews
  <2> QED
    BY <2>1 DEF UpdateStands
<1> QED
  BY <1>3, <1>4, <1>5, <1>6 DEF Content
------------------------------------------------------------------------------
(* The end of a fence *)

\* Two different jobs are not in the fence of one layer, so only its owner has
\* written there.
LEMMA WrittenIsOwn ==
    ASSUME AllPlaced, Held, NEW j \in Jobs, NEW i \in Jobs, NEW d, NEW k, NEW a,
           InFence(j), Dir(j) = d, Written(i, d, k, a)
    PROVE  i = j
<1>1. Placed(i) /\ Placed(j)
  BY DEF AllPlaced
<1>2. InFence(i) /\ Dir(i) = d
  BY DEF Written, InFence, Writing
<1>3. d \in Dirs /\ Holds(i, RebuildMutex(d)) /\ Holds(j, RebuildMutex(d))
  BY <1>1, <1>2, FenceHolds
<1> QED
  BY <1>3, Exclusive, LockNames

\* In a fence, the marker covers the areas of the job's scope.
LEMMA FenceCovers ==
    ASSUME AllPlaced, Owned, NEW j \in Jobs, InFence(j)
    PROVE  /\ Dir(j) \in Dirs /\ marker[Dir(j)] # NoMarker
           /\ marker[Dir(j)].desc = Descriptor(Job[j], Dir(j)) /\ marker[Dir(j)].owner = j
           /\ \A a \in Areas : Covered(Dir(j), a) <=> a \in Scope(j)
<1>1. Placed(j) /\ marker[Dir(j)] = [desc |-> Descriptor(Job[j], Dir(j)), owner |-> j]
  BY DEF AllPlaced, Owned
<1>2. Dir(j) \in Dirs
  BY <1>1, FenceHolds
<1>3. marker[Dir(j)] # NoMarker
  <2>1. marker[Dir(j)].owner = j /\ NoMarker.owner = None /\ j # None
    BY <1>1, TransactionAssumption DEF NoMarker
  <2> QED
    BY <2>1
<1>4. marker[Dir(j)].desc.scope = Job[j].scope
  BY <1>1 DEF Descriptor
<1>5. \A a \in Areas : Covered(Dir(j), a) <=> a \in Scope(j)
  <2>1. Job[j].scope = Full \/ Job[j].scope \in SUBSET Areas
    BY JobTyped DEF Scopes
  <2> QED
    BY <1>3, <1>4, <2>1 DEF Covered, Scope
<1> QED
  BY <1>1, <1>2, <1>3, <1>5

\* In a scoped update, the root's marker names the layers and areas of the job.
LEMMA UpdateCovers ==
    ASSUME Owned, NEW j \in Jobs, InUpdate(j)
    PROVE  /\ marker[Root] # NoMarker
           /\ \A l, a : Updating(l, a) <=> l \in Range(Job[j].layers) /\ a \in Job[j].scope
<1>1. marker[Root] = [desc |-> Descriptor(Job[j], Root), owner |-> j]
  BY DEF Owned
<1>2. marker[Root] # NoMarker
  <2>1. marker[Root].owner = j /\ NoMarker.owner = None /\ j # None
    BY <1>1, TransactionAssumption DEF NoMarker
  <2> QED
    BY <2>1
<1>3. marker[Root].desc.scope = Job[j].scope /\ marker[Root].desc.layers = Job[j].layers
  BY <1>1 DEF Descriptor
<1> QED
  BY <1>2, <1>3 DEF Updating

\* Who is to remove the root marker has staged, settled and summed everything.
LEMMA UnmarkDone ==
    ASSUME AllPlaced, NEW j \in Jobs, Step(j) = "unmark"
    PROVE  /\ InUpdate(j) /\ Job[j].kind = "repaint" /\ Job[j].layers \in Seq(Layers)
           /\ \A l, a : l \in Range(Job[j].layers) /\ a \in Job[j].scope =>
                 Staged(j, l, a) /\ Settled(j, l, a) /\ Summed(j, a)
<1>1. Job[j].kind = "repaint" /\ at[j].pc = 8
  BY Where DEF LabelTable, AllPlaced
<1>2. Job[j].layers \in Seq(Layers)
  BY <1>1, JobTyped DEF JobAssumption
<1>3. \A l, a : l \in Range(Job[j].layers) /\ a \in Job[j].scope =>
         Staged(j, l, a) /\ Settled(j, l, a) /\ Summed(j, a)
  BY <1>1 DEF Staged, Settled, Summed
<1> QED
  BY <1>1, <1>2, <1>3 DEF InUpdate

\* The end of a fence keeps the content: what it covered is written.
LEMMA FinishContent ==
    ASSUME Typed, AllPlaced, Held, Owned, Content, NEW j \in Jobs, FinishFence(j)
    PROVE  Content'
<1>1. /\ GoesOn(j) /\ level' = level /\ Finishes(j) /\ Placed(j)
      /\ marker' = [marker EXCEPT ![Fenced(j)] = NoMarker]
      /\ \A i \in Jobs : NoNews(i)
  BY ActionsGoOn, GoesOnNews DEF FinishFence, AllPlaced
<1>2. \A d \in Dirs \cup {Root} : d # Fenced(j) => marker'[d] = marker[d]
  BY <1>1, FencedIsMarked DEF Typed
<1>3. ASSUME NEW d \in Dirs, d # Fenced(j), NEW k \in 0 .. Depth, NEW a \in Areas, Pending(d, k, a)
      PROVE  Pending(d, k, a)'
  BY <1>1, <1>2, <1>3, PendingKept DEF NoNews, MarkerKept
<1>4. CASE Step(j) = "unmark"
  <2>1. Fenced(j) = Root /\ Root \notin Dirs
    BY <1>4, TransactionAssumption DEF Fenced
  <2>2. ASSUME NEW l, NEW a, Updating(l, a)
        PROVE  Settled(j, l, a) /\ Summed(j, a) /\ l \in Range(Job[j].layers)
    BY <1>4, <2>2, UnmarkDone, UpdateCovers
  <2>3. ASSUME NEW d \in Dirs, NEW k \in 0 .. Depth, NEW a \in Areas, Pending(d, k, a)
        PROVE  Pending(d, k, a)'
    BY <1>3, <2>1, <2>3
  <2>4. FirstRolled'
    <3>1. ASSUME NEW d \in Dirs, NEW a \in Areas PROVE FirstRolledAt(d, a)'
      <4>1. FirstRolledAt(d, a)
        BY DEF Content, FirstRolled
      <4>2. CASE d # Total /\ Updating(d, a)
        <5>1. Settled(j, d, a) /\ d \in Layers
          BY <2>2, <4>2 DEF Dirs
        <5>2. level[d][1][a] = level[d][0][a] \/ Pending(d, 1, a)
          BY <5>1 DEF Content, UpdateStands, StandsAt
        <5> QED
          BY <1>1, <2>3, <5>2, DepthTyped DEF FirstRolledAt
      <4> QED
        BY <1>1, <2>3, <4>1, <4>2, DepthTyped DEF FirstRolledAt, Pushes
    <3> QED
      BY <3>1 DEF FirstRolled
  <2>5. RestRolled'
    <3>1. ASSUME NEW d \in Dirs, NEW k \in 2 .. Depth, NEW a \in Areas PROVE RestRolledAt(d, k, a)'
      <4>1. RestRolledAt(d, k, a) /\ k \in 0 .. Depth
        BY DepthTyped DEF Content, RestRolled
      <4> QED
        BY <1>1, <2>3, <4>1 DEF RestRolledAt
    <3> QED
      BY <3>1 DEF RestRolled
  <2>6. TotalSums'
    <3>1. ASSUME NEW l \in Layers, NEW a \in Areas PROVE TotalSumsAt(l, a)'
      <4>1. TotalSumsAt(l, a)
        BY DEF Content, TotalSums
      <4>2. ToCombine(a) => ToCombine(a)'
        <5>1. Total \in Dirs /\ marker'[Total] = marker[Total]
          BY <1>2, <2>1 DEF Dirs
        <5> QED
          BY <2>3, <5>1, DepthTyped DEF ToCombine
      <4>3. CASE Updating(l, a)
        <5>1. Summed(j, a) /\ l \in Range(Job[j].layers)
          BY <2>2, <4>3
        <5>2. level[Total][0][a][l] = level[l][0][a]
          BY <5>1 DEF Content, UpdateStands, StandsAt
        <5> QED
          BY <1>1, <5>2 DEF TotalSumsAt
      <4> QED
        BY <1>1, <4>1, <4>2, <4>3 DEF TotalSumsAt, Repaints
    <3> QED
      BY <3>1 DEF TotalSums
  <2>7. UpdateStands'
    <3>1. ASSUME NEW i \in Jobs, NEW l \in Layers, NEW a \in Areas PROVE StandsAt(i, l, a)'
      <4>1. StandsAt(i, l, a) /\ NoNews(i) /\ l \in Dirs
        BY <1>1 DEF Content, UpdateStands, Dirs
      <4> QED
        BY <1>1, <2>3, <4>1, DepthTyped DEF StandsAt, NoNews
    <3> QED
      BY <3>1 DEF UpdateStands
  <2> QED
    BY <2>4, <2>5, <2>6, <2>7 DEF Content
<1>5. CASE Step(j) # "unmark"
  <2> DEFINE e == Dir(j)
  <2>1. at[j].call = "finish" /\ Step(j) = "rebuild" /\ InFence(j) /\ Fenced(j) = e
    <3>1. at[j].call = "finish"
      BY <1>1, <1>5 DEF Finishes
    <3>2. Step(j) = "rebuild"
      BY <1>1, <3>1 DEF Placed, Writing
    <3> QED
      BY <3>1, <3>2 DEF InFence, Fenced
  <2>2. /\ e \in Dirs /\ marker[e].desc = Descriptor(Job[j], e)
        /\ \A a \in Areas : Covered(e, a) <=> a \in Scope(j)
    BY <2>1, FenceCovers
  <2>3. ASSUME NEW k, k >= FirstLevel(Job[j], e), NEW a \in Areas PROVE ~Pending(e, k, a)
    BY <2>1, <2>2, <2>3, WrittenAtFinish DEF Pending
  <2>4. ASSUME NEW d \in Dirs, NEW k \in 1 .. Depth, NEW a \in Areas, Pending(d, k, a)
        PROVE  Pending(d, k, a)'
    <3>1. d # e
      <4>1. FirstLevel(Job[j], e) \in {0, 1}
        BY DEF FirstLevel
      <4>2. k >= FirstLevel(Job[j], e)
        BY <4>1
      <4> QED
        BY <2>3, <2>4, <4>2
    <3> QED
      BY <1>3, <2>1, <2>4, <3>1, DepthTyped
  <2>5. ASSUME NEW l, NEW a, Updating(l, a) PROVE Updating(l, a)'
    <3>1. marker'[Root] = marker[Root]
      BY <1>2, <2>1, <2>2, TransactionAssumption
    <3> QED
      BY <2>5, <3>1 DEF Updating
  <2>6. FirstRolled'
    <3>1. ASSUME NEW d \in Dirs, NEW a \in Areas PROVE FirstRolledAt(d, a)'
      <4>1. FirstRolledAt(d, a) /\ 1 \in 1 .. Depth
        BY DepthTyped DEF Content, FirstRolled
      <4> QED
        BY <1>1, <2>4, <2>5, <4>1 DEF FirstRolledAt, Pushes
    <3> QED
      BY <3>1 DEF FirstRolled
  <2>7. RestRolled'
    <3>1. ASSUME NEW d \in Dirs, NEW k \in 2 .. Depth, NEW a \in Areas PROVE RestRolledAt(d, k, a)'
      <4>1. RestRolledAt(d, k, a) /\ k \in 1 .. Depth
        BY DepthTyped DEF Content, RestRolled
      <4> QED
        BY <1>1, <2>4, <4>1 DEF RestRolledAt
    <3> QED
      BY <3>1 DEF RestRolled
  <2>8. TotalSums'
    <3>1. ASSUME NEW l \in Layers, NEW a \in Areas PROVE TotalSumsAt(l, a)'
      <4>1. TotalSumsAt(l, a) /\ Total \in Dirs
        BY DEF Content, TotalSums, Dirs
      <4>2. ASSUME ToCombine(a) PROVE ToCombine(a)'
        <5>1. e # Total
          <6>1. SUFFICES ASSUME e = Total PROVE FALSE
            OBVIOUS
          <6>2. Operation(Job[j], e) = "combine"
            BY <2>2, <4>2, <6>1 DEF ToCombine, Descriptor
          <6>3. FirstLevel(Job[j], e) = 0
            BY <6>2 DEF FirstLevel
          <6> QED
            BY <2>3, <4>2, <6>1, <6>3 DEF ToCombine
        <5>2. Pending(Total, 0, a)'
          BY <1>3, <2>1, <4>1, <4>2, <5>1, DepthTyped DEF ToCombine
        <5> QED
          BY <1>2, <2>1, <4>1, <4>2, <5>1, <5>2 DEF ToCombine
      <4> QED
        BY <1>1, <2>5, <4>1, <4>2 DEF TotalSumsAt, Repaints
    <3> QED
      BY <3>1 DEF TotalSums
  <2>9. UpdateStands'
    <3>1. ASSUME NEW i \in Jobs, NEW l \in Layers, NEW a \in Areas PROVE StandsAt(i, l, a)'
      <4>1. StandsAt(i, l, a) /\ NoNews(i) /\ l \in Dirs /\ 1 \in 1 .. Depth
        BY <1>1, DepthTyped DEF Content, UpdateStands, Dirs
      <4> QED
        BY <1>1, <2>4, <4>1 DEF StandsAt, NoNews
    <3> QED
      BY <3>1 DEF UpdateStands
  <2> QED
    BY <2>6, <2>7, <2>8, <2>9 DEF Content
<1> QED
  BY <1>4, <1>5
------------------------------------------------------------------------------
(* The writes of a rebuild *)

\* What the locks keep apart: a repaint that has staged, settled or summed.
LEMMA RepaintHolds ==
    ASSUME NEW i \in Jobs, Placed(i), NEW l, NEW a
    PROVE  /\ Staged(i, l, a) \/ Settled(i, l, a) \/ Summed(i, a) =>
                 Job[i].kind = "repaint" /\ Holds(i, MasterLock)
           /\ Settled(i, l, a) \/ Summed(i, a) => Holds(i, IngestLock) /\ at[i].pc \in {7, 8}
<1>1. Staged(i, l, a) \/ Settled(i, l, a) \/ Summed(i, a) => InUpdate(i) /\ Job[i].kind = "repaint"
  <2>1. Staged(i, l, a) \/ Settled(i, l, a) \/ Summed(i, a) =>
          Job[i].kind = "repaint" /\ (at[i].pc = 4 \/ at[i].pc \in 5 .. 8 \/ at[i].pc = 8 \/ at[i].pc = 7)
    BY DEF Staged, Settled, Summed
  <2> QED
    BY <2>1 DEF InUpdate
<1>2. ASSUME Settled(i, l, a) \/ Summed(i, a) PROVE Holds(i, IngestLock) /\ at[i].pc \in {7, 8}
  <2>1. Job[i].kind = "repaint" /\ at[i].pc \in {7, 8}
    BY <1>2 DEF Settled, Summed
  <2> QED
    BY <2>1 DEF Holds, HoldsIngest
<1> QED
  BY <1>1, <1>2, FenceHolds

\* Who stages, and who rebuilds a base, holds the lock of all who do.
LEMMA BaseHolds ==
    ASSUME NEW j \in Jobs, Placed(j)
    PROVE  /\ Step(j) = "stage" =>
                 /\ Holds(j, IngestLock) /\ Dir(j) \in Layers /\ at[j].zoom = 0
                 /\ \/ Job[j].kind = "push"
                    \/ Job[j].kind = "repaint" /\ at[j].pc = 4
           /\ Step(j) = "rebuild" /\ at[j].call \in Writing /\ at[j].zoom = 0 =>
                 /\ Holds(j, MasterLock)
                 /\ Dir(j) \in Layers => Job[j].kind = "transcode"
                 /\ Dir(j) = Total => Job[j].kind \in {"repaint", "combine"}
                 /\ Operation(Job[j], Dir(j)) # "pyramid"
<1>1. ASSUME Step(j) = "stage"
      PROVE  /\ Holds(j, IngestLock) /\ Dir(j) \in Layers /\ at[j].zoom = 0
             /\ \/ Job[j].kind = "push"
                \/ Job[j].kind = "repaint" /\ at[j].pc = 4
  <2>1. \/ Job[j].kind = "repaint" /\ at[j].pc = 4
        \/ Job[j].kind = "push" /\ at[j].pc = 2
    BY <1>1, Where DEF LabelTable
  <2>2. Holds(j, IngestLock)
    BY <2>1 DEF Holds, HoldsIngest
  <2>3. Dir(j) \in Layers /\ at[j].zoom = 0
    BY <1>1, WhereTurns DEF Placed
  <2> QED
    BY <2>1, <2>2, <2>3
<1>2. ASSUME Step(j) = "rebuild", at[j].call \in Writing, at[j].zoom = 0
      PROVE  /\ Holds(j, MasterLock)
             /\ Dir(j) \in Layers => Job[j].kind = "transcode"
             /\ Dir(j) = Total => Job[j].kind \in {"repaint", "combine"}
             /\ Operation(Job[j], Dir(j)) # "pyramid"
  <2>1. FirstLevel(Job[j], Dir(j)) = 0
    BY <1>2 DEF Placed, FirstLevel
  <2>2. Job[j].kind \in {"repaint", "combine", "transcode", "pyramid"}
    BY <1>2, WhereTurns
  <2>3. /\ Job[j].kind # "pyramid"
        /\ Job[j].kind = "transcode" => Dir(j) \in Layers
        /\ Job[j].kind \in {"repaint", "combine"} => Dir(j) = Total
    <3>1. at[j].turn \in 1 .. Len(Rebuilds(Job[j])) /\ Dir(j) = Rebuilds(Job[j])[at[j].turn]
      BY <1>2, WhereTurns
    <3> QED
      BY <2>1, <2>2, <3>1, RebuildKinds
  <2>4. Total \notin Layers
    BY TransactionAssumption
  <2>5. HoldsMaster(j)
    <3>1. \/ Job[j].kind = "repaint" /\ at[j].pc = 7
          \/ Job[j].kind = "combine" /\ at[j].pc = 2
          \/ Job[j].kind = "transcode" /\ at[j].pc = 3
      BY <1>2, <2>2, <2>3, Where DEF LabelTable
    <3>2. at[j].pc > 1 /\ Job[j].kind \notin {"push", "pyramid"}
      BY <3>1
    <3>3. ~Done(j)
      BY <1>2 DEF Done
    <3> QED
      BY <3>2, <3>3 DEF HoldsMaster
  <2>6. Holds(j, MasterLock)
    BY <2>5 DEF Holds
  <2>7. Operation(Job[j], Dir(j)) # "pyramid"
    BY <2>1 DEF FirstLevel
  <2> QED
    BY <2>2, <2>3, <2>4, <2>6, <2>7
<1> QED
  BY <1>1, <1>2

\* Levels that a fence has still to write are pending.
LEMMA PendingBelow ==
    ASSUME Typed, AllPlaced, Held, Owned, NEW j \in Jobs, Step(j) = "rebuild", at[j].call \in Writing,
           NEW a \in Areas, a \in Scope(j), NEW k \in 0 .. Depth,
           \/ k > at[j].zoom
           \/ k = at[j].zoom /\ at[j].call \in {"open", "create"}
    PROVE  Pending(Dir(j), k, a)
<1>1. InFence(j)
  BY DEF InFence
<1>2. Covered(Dir(j), a)
  BY <1>1, FenceCovers
<1>3. at[j].zoom \in 0 .. Depth
  BY DEF Typed, Position
<1>4. ~Written(j, Dir(j), k, a)
  BY <1>3 DEF Written, Writing
<1>5. \A i \in Jobs : ~Written(i, Dir(j), k, a)
  BY <1>1, <1>4, WrittenIsOwn
<1> QED
  BY <1>2, <1>5 DEF Pending

\* An emptied level keeps the content: all of it is pending.
LEMMA CreateContent ==
    ASSUME Typed, AllPlaced, Held, Owned, Content, NEW j \in Jobs, CreateLevel(j)
    PROVE  Content'
<1> DEFINE e == Dir(j)  z == at[j].zoom
<1>1. /\ GoesOn(j) /\ marker' = marker /\ at[j].call = "create" /\ Placed(j)
      /\ level' = [level EXCEPT ![e][z] = [a \in Areas |-> None]]
      /\ \A i \in Jobs : NoNews(i)
  BY ActionsGoOn, GoesOnNews DEF CreateLevel, AllPlaced
<1>2. /\ Step(j) = "rebuild" /\ at[j].call \in Writing /\ z \in 0 .. Depth /\ e \in Dirs
      /\ Scope(j) = Areas
  <2>1. Step(j) = "rebuild" /\ Job[j].scope = Full
    BY <1>1 DEF Placed, Writing
  <2> QED
    BY <1>1, <2>1, WhereTurns DEF Placed, Position, Writing, Scope
<1>3. /\ \A d \in Dirs, k \in 0 .. Depth, a \in Areas :
            d # e \/ k # z => level'[d][k][a] = level[d][k][a]
      /\ \A a \in Areas : level'[e][z][a] = None
  BY <1>1, <1>2 DEF Typed
<1>4. ASSUME NEW d \in Dirs, NEW k \in 0 .. Depth, NEW a \in Areas, Pending(d, k, a)
      PROVE  Pending(d, k, a)'
  BY <1>1, <1>4, PendingKept DEF NoNews, MarkerKept
<1>5. ASSUME NEW d \in Dirs, d = e, NEW k \in 0 .. Depth, k >= z, NEW a \in Areas
      PROVE  Pending(d, k, a)'
  <2>1. Pending(d, k, a)
    BY <1>1, <1>2, <1>5, PendingBelow
  <2> QED
    BY <1>2, <1>4, <2>1
<1>6. ASSUME NEW l, NEW a, Updating(l, a) PROVE Updating(l, a)'
  BY <1>1, <1>6 DEF Updating
<1>7. FirstRolled'
  <2>1. ASSUME NEW d \in Dirs, NEW a \in Areas PROVE FirstRolledAt(d, a)'
    <3>1. FirstRolledAt(d, a) /\ 1 \in 0 .. Depth /\ 0 \in 0 .. Depth
      BY DepthTyped DEF Content, FirstRolled
    <3>2. CASE d = e /\ z <= 1
      BY <1>2, <1>5, <3>1, <3>2 DEF FirstRolledAt
    <3>3. CASE ~(d = e /\ z <= 1)
      <4>1. level'[d][1][a] = level[d][1][a] /\ level'[d][0][a] = level[d][0][a]
        BY <1>3, <3>1, <3>3
      <4> QED
        BY <1>4, <1>6, <3>1, <4>1 DEF FirstRolledAt, Pushes
    <3> QED
      BY <3>2, <3>3
  <2> QED
    BY <2>1 DEF FirstRolled
<1>8. RestRolled'
  <2>1. ASSUME NEW d \in Dirs, NEW k \in 2 .. Depth, NEW a \in Areas PROVE RestRolledAt(d, k, a)'
    <3>1. RestRolledAt(d, k, a) /\ k \in 0 .. Depth /\ 1 \in 0 .. Depth
      BY DepthTyped DEF Content, RestRolled
    <3>2. CASE d = e /\ k >= z
      BY <1>5, <3>1, <3>2 DEF RestRolledAt
    <3>3. CASE ~(d = e /\ k >= z)
      <4>1. level'[d][k][a] = level[d][k][a] /\ level'[d][1][a] = level[d][1][a]
        BY <1>2, <1>3, <3>1, <3>3
      <4> QED
        BY <1>4, <3>1, <4>1 DEF RestRolledAt
    <3> QED
      BY <3>2, <3>3
  <2> QED
    BY <2>1 DEF RestRolled
<1>9. TotalSums'
  <2>1. ASSUME NEW l \in Layers, NEW a \in Areas PROVE TotalSumsAt(l, a)'
    <3>1. TotalSumsAt(l, a) /\ l \in Dirs /\ Total \in Dirs /\ 0 \in 0 .. Depth
      BY DepthTyped DEF Content, TotalSums, Dirs
    <3>2. ToCombine(a) => ToCombine(a)'
      BY <1>1, <1>4, <3>1 DEF ToCombine
    <3>3. CASE level'[l][0][a] = None
      BY <3>3, TransactionAssumption DEF TotalSumsAt, Repaints
    <3>4. CASE level'[Total][0][a] = None
      BY <3>4 DEF TotalSumsAt
    <3>5. CASE level'[l][0][a] # None /\ level'[Total][0][a] # None
      <4>1. level'[l][0][a] = level[l][0][a] /\ level'[Total][0][a] = level[Total][0][a]
        BY <1>3, <3>1, <3>5
      <4> QED
        BY <1>6, <3>1, <3>2, <4>1 DEF TotalSumsAt, Repaints
    <3> QED
      BY <3>3, <3>4, <3>5
  <2> QED
    BY <2>1 DEF TotalSums
<1>10. UpdateStands'
  <2>1. ASSUME NEW i \in Jobs, NEW l \in Layers, NEW a \in Areas PROVE StandsAt(i, l, a)'
    <3>1. /\ StandsAt(i, l, a) /\ NoNews(i) /\ Placed(i)
          /\ l \in Dirs /\ Total \in Dirs /\ 0 \in 0 .. Depth /\ 1 \in 0 .. Depth
      BY <1>1, DepthTyped DEF Content, UpdateStands, AllPlaced, Dirs
    <3>2. ASSUME Staged(i, l, a) \/ Settled(i, l, a) \/ Summed(i, a)
          PROVE  level'[l][0][a] = level[l][0][a]
      <4>1. SUFFICES ASSUME e = l, z = 0 PROVE FALSE
        BY <1>3, <3>1
      <4>2. Holds(j, MasterLock) /\ Job[j].kind = "transcode"
        BY <1>1, <1>2, <4>1, BaseHolds
      <4>3. Holds(i, MasterLock) /\ Job[i].kind = "repaint"
        BY <3>1, <3>2, RepaintHolds
      <4> QED
        BY <4>2, <4>3, Exclusive, LockNames
    <3>3. ASSUME Summed(i, a) PROVE level'[Total][0][a] = level[Total][0][a]
      <4>1. SUFFICES ASSUME e = Total, z = 0 PROVE FALSE
        BY <1>3, <3>1
      <4>2. Holds(j, MasterLock) /\ Holds(i, MasterLock) /\ Job[i].kind = "repaint" /\ at[i].pc \in {7, 8}
        BY <1>1, <1>2, <3>1, <3>3, <4>1, BaseHolds, RepaintHolds
      <4>3. i = j
        BY <4>2, Exclusive, LockNames
      <4>4. at[j].pc = 7
        BY <1>1, <1>2, <4>2, <4>3, RepaintAt
      <4>5. Written(j, Total, 0, a)
        BY <1>1, <3>3, <4>3, <4>4 DEF Summed
      <4> QED
        BY <1>1, <4>1, <4>5 DEF Written, Writing
    <3>4. Settled(i, l, a)' => level'[l][1][a] = level'[l][0][a] \/ Pending(l, 1, a)'
      <4>1. SUFFICES ASSUME Settled(i, l, a)'
                     PROVE  level'[l][1][a] = level'[l][0][a] \/ Pending(l, 1, a)'
        OBVIOUS
      <4>2. Settled(i, l, a)
        BY <3>1, <4>1 DEF NoNews
      <4>3. CASE e = l /\ z <= 1
        BY <1>2, <1>5, <3>1, <4>3
      <4>4. CASE ~(e = l /\ z <= 1)
        <5>1. level'[l][1][a] = level[l][1][a]
          BY <1>3, <3>1, <4>4
        <5> QED
          BY <1>4, <3>1, <3>2, <4>2, <5>1 DEF StandsAt
      <4> QED
        BY <4>3, <4>4
    <3>5. Staged(i, l, a)' => level'[l][0][a] # None
      BY <3>1, <3>2 DEF NoNews, StandsAt
    <3>6. Summed(i, a)' /\ l \in Range(Job[i].layers) =>
            level'[Total][0][a] # None /\ level'[Total][0][a][l] = level'[l][0][a]
      BY <3>1, <3>2, <3>3 DEF NoNews, StandsAt
    <3> QED
      BY <3>4, <3>5, <3>6 DEF StandsAt
  <2> QED
    BY <2>1 DEF UpdateStands
<1> QED
  BY <1>7, <1>8, <1>9, <1>10 DEF Content
------------------------------------------------------------------------------
(* The put of one area *)

\* Job j puts area b of the level it is at, and that is all the news.
PutAt(j, b) ==
    /\ at[j].call = "put" /\ Placed(j) /\ b \in Scope(j) /\ b \in Areas
    /\ Step(j) \in {"stage", "rebuild"} /\ Dir(j) \in Dirs /\ at[j].zoom \in 0 .. Depth
    /\ marker' = marker
    /\ \A d \in Dirs, k \in 0 .. Depth, a \in Areas :
          level'[d][k][a] = IF d = Dir(j) /\ k = at[j].zoom /\ a = b
                            THEN NewContent(j, Dir(j), at[j].zoom, b) ELSE level[d][k][a]
    /\ \A i \in Jobs, d \in Dirs, k \in 0 .. Depth, a \in Areas :
          Written(i, d, k, a)' =>
             \/ Written(i, d, k, a)
             \/ Step(j) = "rebuild" /\ d = Dir(j) /\ k = at[j].zoom /\ a = b
    /\ \A i \in Jobs, l \in Layers, a \in Areas :
          /\ Staged(i, l, a)' =>
                Staged(i, l, a) \/ (Step(j) = "stage" /\ l = Dir(j) /\ a = b)
          /\ Settled(i, l, a)' =>
                \/ Settled(i, l, a)
                \/ Step(j) = "rebuild" /\ l = Dir(j) /\ at[j].zoom = 1 /\ a = b
    /\ \A i \in Jobs, a \in Areas :
          Summed(i, a)' =>
             \/ Summed(i, a)
             \/ i = j /\ Step(j) = "rebuild" /\ Dir(j) = Total /\ at[j].zoom = 0 /\ a = b

\* A put is one of some area.
LEMMA PutIs ==
    ASSUME Typed, AllPlaced, NEW j \in Jobs, PutTiles(j)
    PROVE  \E b \in Areas : PutAt(j, b)
<1>1. /\ marker' = marker /\ at[j].call = "put" /\ Placed(j) /\ ~Done(j)
      /\ Step(j) \in {"stage", "rebuild"} /\ at[j].zoom \in 0 .. Depth
  BY PutGoesOn DEF Placed, Position
<1>2. Dir(j) \in Dirs
  BY <1>1, WhereTurns
<1>3. PICK b \in Scope(j) \ rolled[j] :
        /\ level' = [level EXCEPT ![Dir(j)][at[j].zoom][b] = NewContent(j, Dir(j), at[j].zoom, b)]
        /\ \/ GoesOn(j) /\ rolled[j] \cup {b} = Scope(j)
           \/ at' = at /\ rolled' = [rolled EXCEPT ![j] = rolled[j] \cup {b}]
  BY PutGoesOn
<1>4. b \in Areas
  <2>1. Job[j].scope = Full \/ Job[j].scope \in SUBSET Areas
    BY JobTyped DEF Scopes
  <2> QED
    BY <2>1 DEF Scope
<1>5. \A d \in Dirs, k \in 0 .. Depth, a \in Areas :
         level'[d][k][a] = IF d = Dir(j) /\ k = at[j].zoom /\ a = b
                           THEN NewContent(j, Dir(j), at[j].zoom, b) ELSE level[d][k][a]
  <2>1. level \in [Dirs -> [0 .. Depth -> [Areas -> Tiles]]]
    BY DEF Typed
  <2>2. PICK e \in Dirs : e = Dir(j)
    BY <1>2
  <2>3. PICK z \in 0 .. Depth : z = at[j].zoom
    BY <1>1
  <2> DEFINE v == NewContent(j, Dir(j), at[j].zoom, b)
  <2>4. level' = [level EXCEPT ![e][z][b] = v]
    BY <1>3, <2>2, <2>3
  <2> HIDE DEF v
  <2>5. ASSUME NEW d \in Dirs, d # e PROVE level'[d] = level[d]
    BY <2>1, <2>4, <2>5
  <2>6. ASSUME NEW k \in 0 .. Depth, k # z PROVE level'[e][k] = level[e][k]
    BY <2>1, <2>4, <2>6
  <2>7. ASSUME NEW a \in Areas PROVE level'[e][z][a] = IF a = b THEN v ELSE level[e][z][a]
    BY <2>1, <2>4, <2>7
  <2>8. \A d \in Dirs, k \in 0 .. Depth, a \in Areas :
           level'[d][k][a] = IF d = e /\ k = z /\ a = b THEN v ELSE level[d][k][a]
    BY <2>5, <2>6, <2>7
  <2> QED
    BY <2>2, <2>3, <2>8 DEF v
<1>6. Placed(j)'
  <2>1. CASE GoesOn(j)
    BY <2>1, GoesOnPlaced DEF AllPlaced
  <2>2. CASE at' = at /\ rolled' = [rolled EXCEPT ![j] = rolled[j] \cup {b}]
    <3>1. \A i \in Jobs : i # j => rolled'[i] = rolled[i]
      BY <2>2 DEF Typed
    <3> QED
      BY <1>1, <2>2, <3>1, StayPlaced DEF AllPlaced
  <2> QED
    BY <1>3, <2>1, <2>2
<1>7. Does(j, {b})
  <2>1. CASE GoesOn(j) /\ rolled[j] \cup {b} = Scope(j)
    <3>1. at'[j] = After(j) /\ rolled'[j] = {}
      BY <2>1 DEF GoesOn, Advance, Typed
    <3> QED
      BY <1>1, <2>1, <3>1 DEF Does
  <2>2. CASE at' = at /\ rolled' = [rolled EXCEPT ![j] = rolled[j] \cup {b}]
    <3>1. at'[j] = at[j] /\ rolled'[j] = rolled[j] \cup {b}
      BY <2>2 DEF Typed
    <3> QED
      BY <1>1, <3>1 DEF Does
  <2> QED
    BY <1>3, <2>1, <2>2
<1>8. ASSUME NEW i \in Jobs, i # j PROVE at'[i] = at[i] /\ rolled'[i] = rolled[i]
  <2>1. CASE GoesOn(j)
    BY <1>8, <2>1 DEF GoesOn, Advance, Typed
  <2>2. CASE at' = at /\ rolled' = [rolled EXCEPT ![j] = rolled[j] \cup {b}]
    BY <1>8, <2>2 DEF Typed
  <2> QED
    BY <1>3, <2>1, <2>2
<1>9. ASSUME NEW i \in Jobs, NEW d \in Dirs, NEW k \in 0 .. Depth, NEW a \in Areas,
             Written(i, d, k, a)'
      PROVE  \/ Written(i, d, k, a)
             \/ Step(j) = "rebuild" /\ d = Dir(j) /\ k = at[j].zoom /\ a = b
  <2>1. CASE i = j
    BY <1>1, <1>7, <1>9, <2>1, WrittenNews
  <2>2. CASE i # j
    BY <1>8, <1>9, <2>2, SameNews
  <2> QED
    BY <2>1, <2>2
<1>10. ASSUME NEW i \in Jobs, NEW l \in Layers, NEW a \in Areas
       PROVE  /\ Staged(i, l, a)' =>
                    Staged(i, l, a) \/ (Step(j) = "stage" /\ l = Dir(j) /\ a = b)
              /\ Settled(i, l, a)' =>
                    \/ Settled(i, l, a)
                    \/ Step(j) = "rebuild" /\ l = Dir(j) /\ at[j].zoom = 1 /\ a = b
              /\ Summed(i, a)' =>
                    \/ Summed(i, a)
                    \/ i = j /\ Step(j) = "rebuild" /\ Dir(j) = Total /\ at[j].zoom = 0 /\ a = b
  <2>1. CASE i = j
    <3>1. Staged(j, l, a)' => Staged(j, l, a) \/ (Step(j) = "stage" /\ l = Dir(j) /\ a = b)
      BY <1>1, <1>6, <1>7, StagedNews
    <3>2. Settled(j, l, a)' =>
             Settled(j, l, a) \/ (Step(j) = "rebuild" /\ l = Dir(j) /\ at[j].zoom = 1 /\ a = b)
      BY <1>1, <1>6, <1>7, SettledNews
    <3>3. Summed(j, a)' =>
             Summed(j, a) \/ (Step(j) = "rebuild" /\ Dir(j) = Total /\ at[j].zoom = 0 /\ a = b)
      BY <1>1, <1>6, <1>7, SummedNews
    <3> QED
      BY <2>1, <3>1, <3>2, <3>3
  <2>2. CASE i # j
    BY <1>8, <2>2, SameNews
  <2> QED
    BY <2>1, <2>2
<1>11. ASSUME NEW i \in Jobs, NEW a \in Areas
       PROVE  Summed(i, a)' =>
                 \/ Summed(i, a)
                 \/ i = j /\ Step(j) = "rebuild" /\ Dir(j) = Total /\ at[j].zoom = 0 /\ a = b
  <2>1. CASE i = j
    BY <1>1, <1>6, <1>7, <2>1, SummedNews
  <2>2. CASE i # j
    BY <1>8, <2>2, SameNews
  <2> QED
    BY <2>1, <2>2
<1>12. PutAt(j, b)
  BY <1>1, <1>2, <1>3, <1>4, <1>5, <1>9, <1>10, <1>11 DEF PutAt
<1> QED
  BY <1>4, <1>12

\* What a put leaves pending, and what it does not touch.
LEMMA PutKeeps ==
    ASSUME NEW j \in Jobs, NEW b \in Areas, PutAt(j, b)
    PROVE  /\ \A l, a : Updating(l, a) => Updating(l, a)'
           /\ \A d \in Dirs, k \in 0 .. Depth, a \in Areas :
                 /\ ~(Step(j) = "rebuild" /\ d = Dir(j) /\ k = at[j].zoom /\ a = b) =>
                       (Pending(d, k, a) => Pending(d, k, a)')
                 /\ ~(d = Dir(j) /\ k = at[j].zoom /\ a = b) => level'[d][k][a] = level[d][k][a]
           /\ \A a \in Areas : ~(Dir(j) = Total /\ at[j].zoom = 0 /\ a = b) =>
                 (ToCombine(a) => ToCombine(a)')
<1>1. \A l, a : Updating(l, a) => Updating(l, a)'
  BY DEF PutAt, Updating
<1>2. ASSUME NEW d \in Dirs, NEW k \in 0 .. Depth, NEW a \in Areas,
             ~(Step(j) = "rebuild" /\ d = Dir(j) /\ k = at[j].zoom /\ a = b), Pending(d, k, a)
      PROVE  Pending(d, k, a)'
  <2>1. \A i \in Jobs : Written(i, d, k, a)' => Written(i, d, k, a)
    BY <1>2 DEF PutAt
  <2>2. MarkerKept(d)
    BY DEF PutAt, MarkerKept
  <2> QED
    BY <1>2, <2>1, <2>2, PendingKept
<1>3. ASSUME NEW d \in Dirs, NEW k \in 0 .. Depth, NEW a \in Areas,
             ~(d = Dir(j) /\ k = at[j].zoom /\ a = b)
      PROVE  level'[d][k][a] = level[d][k][a]
  BY <1>3 DEF PutAt
<1>4. ASSUME NEW a \in Areas, ~(Dir(j) = Total /\ at[j].zoom = 0 /\ a = b), ToCombine(a)
      PROVE  ToCombine(a)'
  <2>1. Pending(Total, 0, a)'
    BY <1>2, <1>4, DepthTyped DEF ToCombine, Dirs
  <2> QED
    BY <1>4, <2>1 DEF ToCombine, PutAt
<1> QED
  BY <1>1, <1>2, <1>3, <1>4

\* A push or a scoped repaint stages a tile.
LEMMA StageContent ==
    ASSUME Typed, AllPlaced, Held, Owned, Content, NEW j \in Jobs, NEW b \in Areas, PutAt(j, b),
           Step(j) = "stage"
    PROVE  Content'
<1> DEFINE e == Dir(j)
<1>1. /\ Placed(j) /\ e \in Layers /\ e # Total /\ at[j].zoom = 0 /\ Holds(j, IngestLock)
      /\ \/ Job[j].kind = "push"
         \/ Job[j].kind = "repaint" /\ at[j].pc = 4
  BY BaseHolds, TransactionAssumption DEF PutAt
<1>2. /\ \A l, a : Updating(l, a) => Updating(l, a)'
      /\ \A d \in Dirs, k \in 0 .. Depth, a \in Areas : Pending(d, k, a) => Pending(d, k, a)'
      /\ \A d \in Dirs, k \in 0 .. Depth, a \in Areas :
            ~(d = e /\ k = 0 /\ a = b) => level'[d][k][a] = level[d][k][a]
      /\ \A a \in Areas : ToCombine(a) => ToCombine(a)'
  BY <1>1, PutKeeps
<1>3. e \in Dirs /\ level'[e][0][b] = j
  <2>1. level'[e][0][b] = NewContent(j, e, 0, b)
    BY <1>1, DepthTyped DEF PutAt
  <2> QED
    BY <1>1, <2>1 DEF NewContent, Dirs
<1>4. j \in Pushes \/ (j \in Repaints /\ j \notin Pushes /\ Updating(e, b))
  <2>1. CASE Job[j].kind = "push"
    BY <2>1 DEF Pushes
  <2>2. CASE Job[j].kind = "repaint" /\ at[j].pc = 4
    <3>1. InUpdate(j)
      BY <2>2 DEF InUpdate
    <3>2. /\ at[j].turn \in 1 .. Len(Job[j].layers) /\ e = Job[j].layers[at[j].turn]
          /\ Job[j].layers \in Seq(Layers) /\ b \in Job[j].scope
      BY <1>1, <2>2, RepaintAt DEF PutAt
    <3>3. e \in Range(Job[j].layers)
      BY <3>2 DEF Range
    <3> QED
      BY <2>2, <3>1, <3>2, <3>3, UpdateCovers DEF Repaints, Pushes
  <2> QED
    BY <1>1, <2>1, <2>2
<1>5. FirstRolled'
  <2>1. ASSUME NEW d \in Dirs, NEW a \in Areas PROVE FirstRolledAt(d, a)'
    <3>1. FirstRolledAt(d, a) /\ 1 \in 0 .. Depth /\ 0 \in 0 .. Depth
      BY DepthTyped DEF Content, FirstRolled
    <3>2. CASE d = e /\ a = b
      BY <1>1, <1>2, <1>3, <1>4, <3>2 DEF FirstRolledAt, Pushes
    <3>3. CASE ~(d = e /\ a = b)
      <4>1. level'[d][1][a] = level[d][1][a] /\ level'[d][0][a] = level[d][0][a]
        BY <1>2, <3>1, <3>3
      <4> QED
        BY <1>2, <3>1, <4>1 DEF FirstRolledAt, Pushes
    <3> QED
      BY <3>2, <3>3
  <2> QED
    BY <2>1 DEF FirstRolled
<1>6. RestRolled'
  <2>1. ASSUME NEW d \in Dirs, NEW k \in 2 .. Depth, NEW a \in Areas PROVE RestRolledAt(d, k, a)'
    <3>1. RestRolledAt(d, k, a) /\ k \in 0 .. Depth /\ 1 \in 0 .. Depth /\ k # 0
      BY DepthTyped DEF Content, RestRolled
    <3> QED
      BY <1>2, <3>1 DEF RestRolledAt
  <2> QED
    BY <2>1 DEF RestRolled
<1>7. TotalSums'
  <2>1. ASSUME NEW l \in Layers, NEW a \in Areas PROVE TotalSumsAt(l, a)'
    <3>1. TotalSumsAt(l, a) /\ l \in Dirs /\ Total \in Dirs /\ 0 \in 0 .. Depth
      BY DepthTyped DEF Content, TotalSums, Dirs
    <3>2. level'[Total][0][a] = level[Total][0][a]
      BY <1>1, <1>2, <3>1
    <3>3. CASE l = e /\ a = b
      <4>1. j \in Repaints => Updating(l, a)'
        BY <1>2, <1>4, <3>3 DEF Pushes, Repaints
      <4> QED
        BY <1>3, <3>3, <4>1 DEF TotalSumsAt, Repaints
    <3>4. CASE ~(l = e /\ a = b)
      <4>1. level'[l][0][a] = level[l][0][a]
        BY <1>2, <3>1, <3>4
      <4> QED
        BY <1>2, <3>1, <3>2, <4>1 DEF TotalSumsAt, Repaints
    <3> QED
      BY <3>3, <3>4
  <2> QED
    BY <2>1 DEF TotalSums
<1>8. UpdateStands'
  <2>1. ASSUME NEW i \in Jobs, NEW l \in Layers, NEW a \in Areas PROVE StandsAt(i, l, a)'
    <3>1. StandsAt(i, l, a) /\ Placed(i) /\ l \in Dirs /\ Total \in Dirs /\ 0 \in 0 .. Depth
      BY DepthTyped DEF Content, UpdateStands, AllPlaced, Dirs
    <3>2. /\ Staged(i, l, a)' => Staged(i, l, a) \/ (l = e /\ a = b)
          /\ Settled(i, l, a)' => Settled(i, l, a)
          /\ Summed(i, a)' => Summed(i, a)
      BY <1>1 DEF PutAt
    <3>3. ~Settled(i, l, a) /\ ~Summed(i, a)
      <4>1. SUFFICES ASSUME Settled(i, l, a) \/ Summed(i, a) PROVE FALSE
        OBVIOUS
      <4>2. Holds(i, IngestLock) /\ at[i].pc \in {7, 8} /\ Job[i].kind = "repaint"
        BY <3>1, <4>1, RepaintHolds
      <4>3. i = j
        BY <1>1, <4>2, Exclusive, LockNames
      <4> QED
        BY <1>1, <4>2, <4>3
    <3>4. Staged(i, l, a)' => level'[l][0][a] # None
      <4>1. CASE l = e /\ a = b
        BY <1>3, <4>1, TransactionAssumption
      <4>2. CASE ~(l = e /\ a = b)
        BY <1>2, <3>1, <3>2, <4>2 DEF StandsAt
      <4> QED
        BY <4>1, <4>2
    <3> QED
      BY <3>2, <3>3, <3>4 DEF StandsAt
  <2> QED
    BY <2>1 DEF UpdateStands
<1> QED
  BY <1>5, <1>6, <1>7, <1>8 DEF Content

\* The areas that a cascade has still to write in the levels below stay pending.
LEMMA PutPendingBelow ==
    ASSUME Typed, AllPlaced, Held, Owned, NEW j \in Jobs, NEW b \in Areas, PutAt(j, b),
           Step(j) = "rebuild", NEW d \in Dirs, d = Dir(j), NEW k \in 0 .. Depth, k > at[j].zoom
    PROVE  Pending(d, k, b)'
<1>1. Pending(d, k, b)
  BY PendingBelow DEF PutAt, Writing
<1>2. k # at[j].zoom
  BY DEF PutAt
<1> QED
  BY <1>1, <1>2, PutKeeps

\* A cascade puts a tile of an overview level.
LEMMA AncestorContent ==
    ASSUME Typed, AllPlaced, Held, Owned, Content, NEW j \in Jobs, NEW b \in Areas, PutAt(j, b),
           Step(j) = "rebuild", at[j].zoom > 0
    PROVE  Content'
<1> DEFINE e == Dir(j)  z == at[j].zoom
<1>1. e \in Dirs /\ z \in 1 .. Depth /\ z # 0 /\ at[j].call = "put" /\ b \in Scope(j) /\ z - 1 \in 0 .. Depth
  BY DepthTyped DEF PutAt
<1>2. /\ \A l, a : Updating(l, a) => Updating(l, a)'
      /\ \A d \in Dirs, k \in 0 .. Depth, a \in Areas :
            ~(d = e /\ k = z /\ a = b) =>
               /\ Pending(d, k, a) => Pending(d, k, a)'
               /\ level'[d][k][a] = level[d][k][a]
      /\ \A a \in Areas : ToCombine(a) => ToCombine(a)'
  BY <1>1, PutKeeps
<1>3. level'[e][z][b] = level[e][z - 1][b]
  <2>1. level'[e][z][b] = NewContent(j, e, z, b)
    BY <1>1 DEF PutAt
  <2> QED
    BY <1>1, <2>1 DEF NewContent
<1>4. \A d \in Dirs, a \in Areas : level'[d][0][a] = level[d][0][a]
  BY <1>1, <1>2, DepthTyped
<1>5. FirstRolled'
  <2>1. ASSUME NEW d \in Dirs, NEW a \in Areas PROVE FirstRolledAt(d, a)'
    <3>1. FirstRolledAt(d, a) /\ 1 \in 0 .. Depth
      BY DepthTyped DEF Content, FirstRolled
    <3>2. CASE d = e /\ z = 1 /\ a = b
      <4>1. level'[e][1][b] = level[e][0][b] /\ level'[e][0][b] = level[e][0][b]
        BY <1>1, <1>3, <1>4, <3>2
      <4> QED
        BY <3>2, <4>1 DEF FirstRolledAt
    <3>3. CASE ~(d = e /\ z = 1 /\ a = b)
      BY <1>2, <1>4, <3>1, <3>3 DEF FirstRolledAt, Pushes
    <3> QED
      BY <3>2, <3>3
  <2> QED
    BY <2>1 DEF FirstRolled
<1>6. RestRolled'
  <2>1. ASSUME NEW d \in Dirs, NEW k \in 2 .. Depth, NEW a \in Areas PROVE RestRolledAt(d, k, a)'
    <3>1. RestRolledAt(d, k, a) /\ k \in 0 .. Depth /\ 1 \in 0 .. Depth /\ k >= 2
      BY DepthTyped DEF Content, RestRolled
    <3>2. CASE d = e /\ a = b /\ z < k
      BY <1>1, <3>1, <3>2, PutPendingBelow DEF RestRolledAt
    <3>3. CASE d = e /\ a = b /\ z = k
      <4>1. level'[d][k][a] = level[d][k - 1][a] /\ level'[d][1][a] = level[d][1][a]
        BY <1>2, <1>3, <3>1, <3>3
      <4>2. level[d][k - 1][a] = level[d][1][a]
        <5>1. CASE k = 2
          BY <5>1
        <5>2. CASE k > 2
          <6>1. k - 1 \in 2 .. Depth
            BY <5>2, DepthTyped
          <6>2. RestRolledAt(d, k - 1, a)
            BY <6>1 DEF Content, RestRolled
          <6>3. Written(j, d, k - 1, a)
            <7>1. FirstLevel(Job[j], d) \in {0, 1}
              BY DEF FirstLevel
            <7>2. z > k - 1 /\ k - 1 >= FirstLevel(Job[j], d)
              BY <3>3, <6>1, <7>1
            <7> QED
              BY <1>1, <3>3, <7>2 DEF Written, Writing
          <6> QED
            BY <6>2, <6>3 DEF RestRolledAt, Pending
        <5> QED
          BY <3>1, <5>1, <5>2
      <4> QED
        BY <4>1, <4>2 DEF RestRolledAt
    <3>4. CASE ~(d = e /\ a = b /\ z <= k)
      <4>1. level'[d][k][a] = level[d][k][a] /\ (Pending(d, k, a) => Pending(d, k, a)')
        BY <1>1, <1>2, <3>1, <3>4
      <4>2. level'[d][1][a] = level[d][1][a]
        BY <1>1, <1>2, <3>1, <3>4
      <4> QED
        BY <3>1, <4>1, <4>2 DEF RestRolledAt
    <3> QED
      BY <1>1, <3>1, <3>2, <3>3, <3>4
  <2> QED
    BY <2>1 DEF RestRolled
<1>7. TotalSums'
  <2>1. ASSUME NEW l \in Layers, NEW a \in Areas PROVE TotalSumsAt(l, a)'
    <3>1. TotalSumsAt(l, a) /\ l \in Dirs /\ Total \in Dirs
      BY DEF Content, TotalSums, Dirs
    <3> QED
      BY <1>2, <1>4, <3>1 DEF TotalSumsAt, Repaints
  <2> QED
    BY <2>1 DEF TotalSums
<1>8. UpdateStands'
  <2>1. ASSUME NEW i \in Jobs, NEW l \in Layers, NEW a \in Areas PROVE StandsAt(i, l, a)'
    <3>1. StandsAt(i, l, a) /\ l \in Dirs /\ Total \in Dirs /\ 1 \in 0 .. Depth
      BY DepthTyped DEF Content, UpdateStands, Dirs
    <3>2. /\ Staged(i, l, a)' => Staged(i, l, a)
          /\ Settled(i, l, a)' => Settled(i, l, a) \/ (l = e /\ z = 1 /\ a = b)
          /\ Summed(i, a)' => Summed(i, a)
      BY <1>1 DEF PutAt
    <3>3. Settled(i, l, a)' => level'[l][1][a] = level'[l][0][a] \/ Pending(l, 1, a)'
      <4>1. CASE l = e /\ z = 1 /\ a = b
        BY <1>3, <1>4, <3>1, <4>1
      <4>2. CASE ~(l = e /\ z = 1 /\ a = b)
        BY <1>2, <1>4, <3>1, <3>2, <4>2 DEF StandsAt
      <4> QED
        BY <4>1, <4>2
    <3> QED
      BY <1>4, <3>1, <3>2, <3>3 DEF StandsAt
  <2> QED
    BY <2>1 DEF UpdateStands
<1> QED
  BY <1>5, <1>6, <1>7, <1>8 DEF Content

\* A rebuild puts a tile of a base: a transcode of a layer's, a combine of the
\* total's.
LEMMA BaseContent ==
    ASSUME Typed, AllPlaced, Held, Owned, Content, NEW j \in Jobs, NEW b \in Areas, PutAt(j, b),
           Step(j) = "rebuild", at[j].zoom = 0
    PROVE  Content'
<1> DEFINE e == Dir(j)
<1>1. /\ e \in Dirs /\ Placed(j) /\ at[j].call = "put" /\ b \in Scope(j) /\ Holds(j, MasterLock)
      /\ e \in Layers => Job[j].kind = "transcode"
      /\ e = Total => Job[j].kind \in {"repaint", "combine"}
      /\ Total \notin Layers
  BY BaseHolds, TransactionAssumption DEF PutAt, Writing
<1>2. /\ \A l, a : Updating(l, a) => Updating(l, a)'
      /\ \A d \in Dirs, k \in 0 .. Depth, a \in Areas :
            ~(d = e /\ k = 0 /\ a = b) =>
               /\ Pending(d, k, a) => Pending(d, k, a)'
               /\ level'[d][k][a] = level[d][k][a]
      /\ \A a \in Areas : ~(e = Total /\ a = b) => (ToCombine(a) => ToCombine(a)')
  BY <1>1, PutKeeps DEF PutAt
<1>3. level'[e][0][b] = NewContent(j, e, 0, b)
  BY <1>1, DepthTyped DEF PutAt
<1>4. ASSUME NEW d \in Dirs, d = e, NEW k \in 1 .. Depth PROVE Pending(d, k, b)'
  BY <1>4, PutPendingBelow, DepthTyped
<1>5. FirstRolled'
  <2>1. ASSUME NEW d \in Dirs, NEW a \in Areas PROVE FirstRolledAt(d, a)'
    <3>1. FirstRolledAt(d, a) /\ 1 \in 0 .. Depth /\ 0 \in 0 .. Depth /\ 1 \in 1 .. Depth
      BY DepthTyped DEF Content, FirstRolled
    <3>2. CASE d = e /\ a = b
      BY <1>4, <3>1, <3>2 DEF FirstRolledAt
    <3>3. CASE ~(d = e /\ a = b)
      BY <1>2, <3>1, <3>3 DEF FirstRolledAt, Pushes
    <3> QED
      BY <3>2, <3>3
  <2> QED
    BY <2>1 DEF FirstRolled
<1>6. RestRolled'
  <2>1. ASSUME NEW d \in Dirs, NEW k \in 2 .. Depth, NEW a \in Areas PROVE RestRolledAt(d, k, a)'
    <3>1. RestRolledAt(d, k, a) /\ k \in 0 .. Depth /\ 1 \in 0 .. Depth /\ k # 0
      BY DepthTyped DEF Content, RestRolled
    <3> QED
      BY <1>2, <3>1 DEF RestRolledAt
  <2> QED
    BY <2>1 DEF RestRolled
<1>7. ASSUME e = Total
      PROVE  /\ \A l \in Layers : level'[Total][0][b] # None => level'[Total][0][b][l] = level[l][0][b]
             /\ \A l \in Layers : level[l][0][b] # None => level'[Total][0][b] # None
  <2> DEFINE sum == [l \in Layers |-> level[l][0][b]]
  <2>1. level'[Total][0][b] = IF \A l \in Layers : level[l][0][b] = None THEN None ELSE sum
    BY <1>3, <1>7 DEF NewContent
  <2>2. sum # None
    <3>1. \A l \in Layers : level[l][0][b] \in Contents
      <4>1. ASSUME NEW l \in Layers PROVE level[l][0][b] \in TilesOf(l) /\ l # Total
        BY DepthTyped, TransactionAssumption DEF Typed, Painted, Dirs
      <4> QED
        BY <4>1 DEF TilesOf
    <3>2. sum \in [Layers -> Contents]
      BY <3>1
    <3> QED
      BY <3>2, TransactionAssumption
  <2> QED
    BY <2>1, <2>2
<1>8. TotalSums'
  <2>1. ASSUME NEW l \in Layers, NEW a \in Areas PROVE TotalSumsAt(l, a)'
    <3>1. TotalSumsAt(l, a) /\ l \in Dirs /\ Total \in Dirs /\ 0 \in 0 .. Depth
      BY DepthTyped DEF Content, TotalSums, Dirs
    <3>2. CASE l = e /\ a = b
      <4>1. level'[l][0][a] = j /\ j \notin Repaints
        BY <1>1, <1>3, <3>2 DEF NewContent, Repaints
      <4> QED
        BY <4>1 DEF TotalSumsAt, Repaints
    <3>3. CASE e = Total /\ a = b
      <4>1. level'[l][0][a] = level[l][0][a]
        BY <1>1, <1>2, <3>1, <3>3
      <4> QED
        BY <1>7, <3>3, <4>1 DEF TotalSumsAt
    <3>4. CASE ~(l = e /\ a = b) /\ ~(e = Total /\ a = b)
      <4>1. level'[l][0][a] = level[l][0][a] /\ level'[Total][0][a] = level[Total][0][a]
        BY <1>2, <3>1, <3>4
      <4> QED
        BY <1>2, <3>1, <3>4, <4>1 DEF TotalSumsAt, Repaints
    <3> QED
      BY <3>2, <3>3, <3>4
  <2> QED
    BY <2>1 DEF TotalSums
<1>9. UpdateStands'
  <2>1. ASSUME NEW i \in Jobs, NEW l \in Layers, NEW a \in Areas PROVE StandsAt(i, l, a)'
    <3>1. /\ StandsAt(i, l, a) /\ Placed(i)
          /\ l \in Dirs /\ Total \in Dirs /\ 0 \in 0 .. Depth /\ 1 \in 0 .. Depth
      BY DepthTyped DEF Content, UpdateStands, AllPlaced, Dirs
    <3>2. /\ Staged(i, l, a)' => Staged(i, l, a)
          /\ Settled(i, l, a)' => Settled(i, l, a)
          /\ Summed(i, a)' => Summed(i, a) \/ (i = j /\ e = Total /\ a = b)
      BY <1>1 DEF PutAt
    <3>3. ASSUME Staged(i, l, a) \/ Settled(i, l, a) \/ Summed(i, a)
          PROVE  i = j /\ Job[j].kind = "repaint" /\ e = Total
      <4>1. Holds(i, MasterLock) /\ Job[i].kind = "repaint"
        BY <3>1, <3>3, RepaintHolds
      <4>2. i = j
        BY <1>1, <4>1, Exclusive, LockNames
      <4> QED
        BY <1>1, <4>1, <4>2 DEF Dirs
    <3>4. CASE ~(i = j /\ Job[j].kind = "repaint" /\ e = Total)
      <4>1. ~Staged(i, l, a)' /\ ~Settled(i, l, a)'
        BY <3>2, <3>3, <3>4
      <4>2. ~Summed(i, a)'
        <5>1. SUFFICES ASSUME Summed(i, a)' PROVE FALSE
          OBVIOUS
        <5>2. i = j /\ e = Total
          BY <3>2, <3>3, <5>1
        <5>3. Job[i].kind = "repaint"
          BY <5>1 DEF Summed
        <5> QED
          BY <3>4, <5>2, <5>3
      <4> QED
        BY <4>1, <4>2 DEF StandsAt
    <3>5. CASE i = j /\ Job[j].kind = "repaint" /\ e = Total
      <4>1. /\ level'[l][0][a] = level[l][0][a] /\ level'[l][1][a] = level[l][1][a]
            /\ Pending(l, 1, a) => Pending(l, 1, a)'
        BY <1>1, <1>2, <3>1, <3>5
      <4>2. Summed(i, a)' /\ l \in Range(Job[i].layers) =>
              level'[Total][0][a] # None /\ level'[Total][0][a][l] = level'[l][0][a]
        <5>1. SUFFICES ASSUME Summed(i, a)', l \in Range(Job[i].layers)
                       PROVE  level'[Total][0][a] # None /\ level'[Total][0][a][l] = level'[l][0][a]
          OBVIOUS
        <5>2. CASE a = b
          <6>1. at[j].pc = 7 /\ Scope(j) = Job[j].scope
            BY <1>1, <3>5, RepaintAt
          <6>2. Staged(i, l, a)
            BY <1>1, <3>5, <5>1, <5>2, <6>1 DEF Staged
          <6>3. level[l][0][a] # None
            BY <3>1, <6>2 DEF StandsAt
          <6> QED
            BY <1>7, <3>5, <4>1, <5>2, <6>3
        <5>3. CASE a # b
          <6>1. Summed(i, a) /\ level'[Total][0][a] = level[Total][0][a]
            BY <1>2, <3>1, <3>2, <5>1, <5>3
          <6> QED
            BY <3>1, <4>1, <5>1, <6>1 DEF StandsAt
        <5> QED
          BY <5>2, <5>3
      <4>3. Staged(i, l, a)' => level'[l][0][a] # None
        BY <3>1, <3>2, <4>1 DEF StandsAt
      <4>4. Settled(i, l, a)' => level'[l][1][a] = level'[l][0][a] \/ Pending(l, 1, a)'
        BY <3>1, <3>2, <4>1 DEF StandsAt
      <4> QED
        BY <4>2, <4>3, <4>4 DEF StandsAt
    <3> QED
      BY <3>4, <3>5
  <2> QED
    BY <2>1 DEF UpdateStands
<1> QED
  BY <1>5, <1>6, <1>8, <1>9 DEF Content

\* A put keeps the content.
LEMMA PutContent ==
    ASSUME Typed, AllPlaced, Held, Owned, Content, NEW j \in Jobs, PutTiles(j)
    PROVE  Content'
<1>1. PICK b \in Areas : PutAt(j, b)
  BY PutIs
<1>2. Step(j) \in {"stage", "rebuild"} /\ (at[j].zoom = 0 \/ at[j].zoom > 0)
  BY <1>1, DepthTyped DEF PutAt
<1> QED
  BY <1>1, <1>2, StageContent, AncestorContent, BaseContent
------------------------------------------------------------------------------
(* Every step keeps the content *)

\* A marker that was put up is there.
LEMMA NewMark ==
    ASSUME NEW j \in Jobs, NEW desc
    PROVE  [desc |-> desc, owner |-> j] # NoMarker
  BY TransactionAssumption DEF NoMarker

\* A fence that is begun adopts a marker only of the same descriptor.
LEMMA BeginContent ==
    ASSUME Typed, AllPlaced, Content, NEW j \in Jobs, BeginFence(j)
    PROVE  Content'
<1>1. GoesOn(j) /\ at[j].call # "put" /\ level' = level
  BY ActionsGoOn DEF BeginFence
<1>2. \A i \in Jobs : NoNews(i)
  BY <1>1, GoesOnNews
<1>3. ASSUME NEW d \in Dirs \cup {Root} PROVE MarkerKept(d)
  <2> DEFINE desc == Descriptor(Job[j], Fenced(j))
             m == [desc |-> desc, owner |-> j]
  <2>1. marker' = [marker EXCEPT ![Fenced(j)] = m] /\ MayBegin(Fenced(j), desc)
    BY DEF BeginFence
  <2>2. m # NoMarker /\ m.desc = desc
    BY NewMark
  <2>3. marker \in [Dirs \cup {Root} -> {NoMarker} \cup Marks]
    BY DEF Typed
  <2> HIDE DEF m, desc
  <2> QED
    BY <2>1, <2>2, <2>3 DEF MarkerKept, MayBegin
<1> QED
  BY <1>1, <1>2, <1>3, Quiet

\* Locks, checks and the body of a pack change neither tiles nor markers.
LEMMA LockContent ==
    ASSUME Typed, AllPlaced, Content, NEW j \in Jobs,
           AcquireLock(j) \/ ReleaseLock(j) \/ CheckFences(j) \/ PublishSnapshots(j)
    PROVE  Content'
<1>1. GoesOn(j) /\ at[j].call # "put" /\ level' = level /\ marker' = marker
  BY ActionsGoOn DEF AcquireLock, ReleaseLock, CheckFences, PublishSnapshots
<1>2. \A i \in Jobs : NoNews(i)
  BY <1>1, GoesOnNews
<1>3. \A d \in Dirs \cup {Root} : MarkerKept(d)
  BY <1>1 DEF MarkerKept
<1> QED
  BY <1>1, <1>2, <1>3, Quiet

\* The death of a process keeps the content.
LEMMA RestartContent ==
    ASSUME Typed, AllPlaced, Content, NEW j \in Jobs, Restart(j)
    PROVE  Content'
<1>1. level' = level /\ marker' = marker
  BY DEF Restart
<1>2. \A i \in Jobs : NoNews(i)
  BY RestartNews
<1>3. \A d \in Dirs \cup {Root} : MarkerKept(d)
  BY <1>1 DEF MarkerKept
<1> QED
  BY <1>1, <1>2, <1>3, Quiet
------------------------------------------------------------------------------
(* Every step keeps the types *)

\* What a job puts up is a marker.
LEMMA DescriptorTyped ==
    ASSUME NEW j \in Jobs, NEW d
    PROVE  [desc |-> Descriptor(Job[j], d), owner |-> j] \in Marks
<1>1. Job[j].scope \in Scopes /\ Job[j].layers \in Seq(Dirs) /\ <<>> \in Seq(Dirs)
  BY JobTyped
<1>2. Operation(Job[j], d) \in {"scoped update", "transcode", "combine", "pyramid"}
  BY DEF Operation
<1> QED
  BY <1>1, <1>2 DEF Descriptor, Marks

\* Fences keep the types of the markers.
LEMMA MarkerTyped ==
    ASSUME Typed, NEW j \in Jobs, NEW d \in Dirs \cup {Root},
           \/ marker' = [marker EXCEPT ![d] = NoMarker]
           \/ marker' = [marker EXCEPT ![d] = [desc |-> Descriptor(Job[j], d), owner |-> j]]
    PROVE  marker' \in [Dirs \cup {Root} -> {NoMarker} \cup Marks]
<1> DEFINE m == [desc |-> Descriptor(Job[j], d), owner |-> j]
<1>1. m \in Marks
  BY DescriptorTyped
<1>2. marker \in [Dirs \cup {Root} -> {NoMarker} \cup Marks]
  BY DEF Typed
<1>3. marker' = [marker EXCEPT ![d] = NoMarker] \/ marker' = [marker EXCEPT ![d] = m]
  OBVIOUS
<1> HIDE DEF m
<1> QED
  BY <1>1, <1>2, <1>3

\* A tile that is put keeps the types of the tiles, ...
LEMMA TileTyped ==
    ASSUME Typed, NEW d \in Dirs, NEW k \in 0 .. Depth, NEW a \in Areas, NEW c \in TilesOf(d),
           level' = [level EXCEPT ![d][k][a] = c]
    PROVE  level' \in [Dirs -> [0 .. Depth -> [Areas -> Tiles]]] /\ Painted'
<1>1. level \in [Dirs -> [0 .. Depth -> [Areas -> Tiles]]] /\ c \in Tiles
  BY DEF Typed, TilesOf, Tiles, Contents
<1>2. level' \in [Dirs -> [0 .. Depth -> [Areas -> Tiles]]]
  BY <1>1
<1>3. ASSUME NEW e \in Dirs, NEW m \in 0 .. Depth, NEW b \in Areas
      PROVE  level'[e][m][b] = IF e = d /\ m = k /\ b = a THEN c ELSE level[e][m][b]
  BY <1>1
<1>4. ASSUME NEW e \in Dirs, NEW m \in 0 .. Depth, NEW b \in Areas
      PROVE  level'[e][m][b] \in TilesOf(e)
  BY <1>3 DEF Typed, Painted
<1> QED
  BY <1>2, <1>4 DEF Painted

\* ... and so does a level that is emptied.
LEMMA LevelTyped ==
    ASSUME Typed, NEW d \in Dirs, NEW k \in 0 .. Depth,
           level' = [level EXCEPT ![d][k] = [a \in Areas |-> None]]
    PROVE  level' \in [Dirs -> [0 .. Depth -> [Areas -> Tiles]]] /\ Painted'
<1>1. level \in [Dirs -> [0 .. Depth -> [Areas -> Tiles]]] /\ None \in Tiles
  BY DEF Typed, Tiles, Contents
<1>2. level' \in [Dirs -> [0 .. Depth -> [Areas -> Tiles]]]
  BY <1>1
<1>3. ASSUME NEW e \in Dirs, NEW m \in 0 .. Depth, NEW b \in Areas
      PROVE  level'[e][m][b] = IF e = d /\ m = k THEN None ELSE level[e][m][b]
  BY <1>1
<1>4. ASSUME NEW e \in Dirs, NEW m \in 0 .. Depth, NEW b \in Areas
      PROVE  level'[e][m][b] \in TilesOf(e)
  BY <1>3 DEF Typed, Painted, TilesOf, Contents
<1> QED
  BY <1>2, <1>4 DEF Painted

\* What is put is a tile of its layer.
LEMMA NewContentTyped ==
    ASSUME Typed, NEW j \in Jobs, NEW d \in Dirs, NEW k \in 0 .. Depth, NEW a \in Areas
    PROVE  NewContent(j, d, k, a) \in TilesOf(d)
<1>1. CASE k > 0
  <2>1. k - 1 \in 0 .. Depth /\ NewContent(j, d, k, a) = level[d][k - 1][a]
    BY <1>1, DepthTyped DEF NewContent
  <2>2. level[d][k - 1][a] \in TilesOf(d)
    BY <2>1 DEF Typed, Painted
  <2> QED
    BY <2>1, <2>2
<1>2. CASE ~(k > 0) /\ d # Total
  BY <1>2 DEF NewContent, TilesOf, Contents
<1>3. CASE ~(k > 0) /\ d = Total
  <2>1. 0 \in 0 .. Depth /\ \A l \in Layers : l \in Dirs /\ l # Total
    BY DepthTyped, TransactionAssumption DEF Dirs
  <2>2. ASSUME NEW l \in Layers PROVE level[l][0][a] \in Contents
    <3>1. level[l][0][a] \in TilesOf(l) /\ l # Total
      BY <2>1 DEF Typed, Painted
    <3> QED
      BY <3>1 DEF TilesOf
  <2>3. [l \in Layers |-> level[l][0][a]] \in [Layers -> Contents]
    BY <2>2
  <2> QED
    BY <1>3, <2>3 DEF NewContent, TilesOf
<1> QED
  BY <1>1, <1>2, <1>3

\* Taking and dropping keep the types of the locks.
LEMMA HolderTyped ==
    ASSUME Typed, AllPlaced, NEW j \in Jobs, Takes(j) \/ Drops(j), NEW x \in Jobs \cup {None},
           holder' = [holder EXCEPT ![LockAt(j)] = x]
    PROVE  holder' \in [Locks -> Jobs \cup {None}]
<1>1. LockAt(j) \in Locks
  BY LockAtTyped DEF AllPlaced
<1> QED
  BY <1>1 DEF Typed

\* Where a job that writes is.
LEMMA WritesHere ==
    ASSUME NEW j \in Jobs, Placed(j), at[j].call \in Writing
    PROVE  Dir(j) \in Dirs /\ at[j].zoom \in 0 .. Depth
<1>1. Step(j) \in {"stage", "rebuild"}
  BY DEF Placed, Writing
<1> QED
  BY <1>1, WhereTurns DEF Placed, Position

\* Every step keeps the types.
LEMMA StepTyped ==
    ASSUME Typed, AllPlaced, NEW j \in Jobs, AcquireLock(j) \/ Progress(j) \/ Abort(j)
    PROVE  Typed'
<1>1. CASE AcquireLock(j) \/ ReleaseLock(j)
  <2>1. GoesOn(j) /\ rolled' = rolled /\ aborts' = aborts /\ level' = level /\ marker' = marker
    BY <1>1, ActionsGoOn DEF AcquireLock, ReleaseLock
  <2>2. holder' \in [Locks -> Jobs \cup {None}]
    BY <1>1, HolderTyped DEF AcquireLock, ReleaseLock
  <2>3. at' \in [Jobs -> Position]
    BY <2>1, GoesOnPlaced
  <2> QED
    BY <2>1, <2>2, <2>3 DEF Typed, Painted
<1>2. CASE BeginFence(j) \/ FinishFence(j)
  <2>1. GoesOn(j) /\ rolled' = rolled /\ aborts' = aborts /\ level' = level /\ holder' = holder
    BY <1>2, ActionsGoOn DEF BeginFence, FinishFence
  <2>2. Fenced(j) \in Dirs \cup {Root}
    BY <1>2, FencedIsMarked DEF BeginFence, FinishFence, AllPlaced
  <2>3. marker' \in [Dirs \cup {Root} -> {NoMarker} \cup Marks]
    BY <1>2, <2>2, MarkerTyped DEF BeginFence, FinishFence
  <2>4. at' \in [Jobs -> Position]
    BY <2>1, GoesOnPlaced
  <2> QED
    BY <2>1, <2>3, <2>4 DEF Typed, Painted
<1>3. CASE CreateLevel(j)
  <2>1. GoesOn(j) /\ rolled' = rolled /\ aborts' = aborts /\ marker' = marker /\ holder' = holder
    BY <1>3, ActionsGoOn DEF CreateLevel
  <2>2. Dir(j) \in Dirs /\ at[j].zoom \in 0 .. Depth
    BY <1>3, WritesHere DEF CreateLevel, AllPlaced, Writing
  <2>3. level' \in [Dirs -> [0 .. Depth -> [Areas -> Tiles]]] /\ Painted'
    BY <1>3, <2>2, LevelTyped DEF CreateLevel
  <2>4. at' \in [Jobs -> Position]
    BY <2>1, GoesOnPlaced
  <2> QED
    BY <2>1, <2>3, <2>4 DEF Typed
<1>4. CASE PutTiles(j)
  <2>1. PICK a \in Scope(j) \ rolled[j] :
            /\ level' = [level EXCEPT ![Dir(j)][at[j].zoom][a] = NewContent(j, Dir(j), at[j].zoom, a)]
            /\ \/ GoesOn(j) /\ rolled[j] \cup {a} = Scope(j)
               \/ at' = at /\ rolled' = [rolled EXCEPT ![j] = rolled[j] \cup {a}]
    BY <1>4, PutGoesOn
  <2>2. marker' = marker /\ holder' = holder /\ aborts' = aborts /\ at[j].call = "put"
    BY <1>4, PutGoesOn
  <2>3. a \in Areas
    BY JobTyped DEF Scope, Scopes
  <2>4. Dir(j) \in Dirs /\ at[j].zoom \in 0 .. Depth
    BY <2>2, WritesHere DEF AllPlaced, Writing
  <2>5. level' \in [Dirs -> [0 .. Depth -> [Areas -> Tiles]]] /\ Painted'
    <3> DEFINE d == Dir(j)  k == at[j].zoom
    <3>1. NewContent(j, d, k, a) \in TilesOf(d)
      BY <2>3, <2>4, NewContentTyped
    <3>2. PICK c \in TilesOf(d) : c = NewContent(j, d, k, a)
      BY <3>1
    <3>3. level' = [level EXCEPT ![d][k][a] = c]
      BY <2>1, <3>2
    <3> QED
      BY <2>3, <2>4, <3>3, TileTyped
  <2>6. at' \in [Jobs -> Position] /\ rolled' \in [Jobs -> SUBSET Areas]
    <3>1. CASE GoesOn(j) /\ rolled[j] \cup {a} = Scope(j)
      <4>1. rolled' = [rolled EXCEPT ![j] = {}] \/ rolled' = [rolled EXCEPT ![j] = rolled[j] \cup {a}]
        BY <1>4, <2>1 DEF PutTiles
      <4> QED
        BY <2>3, <3>1, <4>1, GoesOnPlaced DEF Typed
    <3>2. CASE at' = at /\ rolled' = [rolled EXCEPT ![j] = rolled[j] \cup {a}]
      BY <2>3, <3>2 DEF Typed
    <3> QED
      BY <2>1, <3>1, <3>2
  <2> QED
    BY <2>2, <2>5, <2>6 DEF Typed
<1>5. CASE CheckFences(j) \/ PublishSnapshots(j)
  <2>1. /\ GoesOn(j) /\ rolled' = rolled /\ aborts' = aborts /\ level' = level
        /\ marker' = marker /\ holder' = holder
    BY <1>5, ActionsGoOn DEF CheckFences, PublishSnapshots
  <2>2. at' \in [Jobs -> Position]
    BY <2>1, GoesOnPlaced
  <2> QED
    BY <2>1, <2>2 DEF Typed, Painted
<1>6. CASE Refused(j) \/ Abort(j)
  <2>1. Restart(j) /\ aborts' \in 0 .. MaxAborts
    BY <1>6, TransactionAssumption DEF Refused, Abort, Typed
  <2>2. at' \in [Jobs -> Position]
    BY <2>1, RestartPlaced
  <2>3. /\ level' = level /\ marker' = marker
        /\ holder' \in [Locks -> Jobs \cup {None}] /\ rolled' \in [Jobs -> SUBSET Areas]
    BY <2>1 DEF Restart, Typed
  <2> QED
    BY <2>1, <2>2, <2>3 DEF Typed, Painted
<1> QED
  BY <1>1, <1>2, <1>3, <1>4, <1>5, <1>6 DEF Progress
------------------------------------------------------------------------------
(* Every step keeps the locks and the fences *)

\* A call does one thing.
LEMMA OneThing ==
    ASSUME NEW j \in Jobs, Placed(j)
    PROVE  /\ \/ Begins(j) \/ Finishes(j)
              \/ at[j].call \in {"create", "put"}
              \/ Step(j) \in {"reject", "publish"}
              => ~Takes(j)
           /\ \/ Takes(j) \/ Drops(j)
              \/ at[j].call \in {"create", "put"}
              \/ Step(j) \in {"reject", "publish"}
              => ~Begins(j) /\ ~Finishes(j)
<1>1. CASE Step(j) = "stage"
  BY <1>1 DEF Placed, Writing, Begins, Finishes, Takes, Drops
<1>2. CASE Step(j) = "rebuild"
  BY <1>2 DEF Placed, Begins, Finishes, Takes, Drops
<1>3. CASE Step(j) \notin {"stage", "rebuild"}
  <2>1. at[j].call = "do"
    BY <1>3 DEF Placed
  <2> QED
    BY <2>1 DEF Begins, Finishes, Takes, Drops
<1> QED
  BY <1>1, <1>2, <1>3

\* A put keeps places, locks and fences, ...
LEMMA PutHeld ==
    ASSUME Typed, AllPlaced, Held, Owned, NEW j \in Jobs, PutTiles(j)
    PROVE  AllPlaced' /\ Held' /\ Owned'
<1>1. /\ marker' = marker /\ holder' = holder /\ at[j].call = "put" /\ Placed(j)
      /\ \/ GoesOn(j)
         \/ \E a \in Areas : at' = at /\ rolled' = [rolled EXCEPT ![j] = rolled[j] \cup {a}]
  <2>1. Scope(j) \subseteq Areas
    BY JobTyped DEF Scope, Scopes
  <2> QED
    BY <2>1, PutGoesOn
<1>2. ~Takes(j) /\ ~Begins(j) /\ ~Finishes(j)
  BY <1>1, OneThing
<1>3. CASE GoesOn(j)
  BY <1>1, <1>2, <1>3, GoesOnPlaced, HeldWhenGoing, OwnedWhenGoing
<1>4. CASE \E a \in Areas : at' = at /\ rolled' = [rolled EXCEPT ![j] = rolled[j] \cup {a}]
  <2>1. at' = at /\ \A i \in Jobs : i # j => rolled'[i] = rolled[i]
    BY <1>4 DEF Typed
  <2>2. AllPlaced'
    BY <1>1, <2>1, StayPlaced
  <2>3. Held'
    BY <1>1, <2>1, SameHolds DEF Held
  <2>4. Owned'
    <3>1. ASSUME NEW i \in Jobs
          PROVE  /\ Dir(i)' = Dir(i) /\ (InFence(i)' <=> InFence(i)) /\ (InUpdate(i)' <=> InUpdate(i))
      BY <2>1, SamePlaces
    <3>2. ASSUME NEW i \in Jobs
          PROVE  /\ InFence(i)' => marker'[Dir(i)'] = [desc |-> Descriptor(Job[i], Dir(i)'), owner |-> i]
                 /\ InUpdate(i)' => marker'[Root] = [desc |-> Descriptor(Job[i], Root), owner |-> i]
      BY <1>1, <3>1 DEF Owned
    <3> QED
      BY <3>2 DEF Owned
  <2> QED
    BY <2>2, <2>3, <2>4
<1> QED
  BY <1>1, <1>3, <1>4

\* ... and so does every step.
LEMMA StepHeld ==
    ASSUME Typed, AllPlaced, Held, Owned, NEW j \in Jobs, AcquireLock(j) \/ Progress(j) \/ Abort(j)
    PROVE  AllPlaced' /\ Held' /\ Owned'
<1>0. Placed(j)
  BY DEF AllPlaced
<1>1. CASE AcquireLock(j) \/ ReleaseLock(j)
  <2>1. GoesOn(j) /\ ~Begins(j) /\ ~Finishes(j) /\ marker' = marker
    BY <1>0, <1>1, ActionsGoOn, OneThing DEF AcquireLock, ReleaseLock
  <2>2. \/ Takes(j) /\ holder[LockAt(j)] = None /\ holder' = [holder EXCEPT ![LockAt(j)] = j]
        \/ Drops(j) /\ holder' = [holder EXCEPT ![LockAt(j)] = None]
    BY <1>1 DEF AcquireLock, ReleaseLock
  <2> QED
    BY <2>1, <2>2, GoesOnPlaced, HeldWhenGoing, OwnedWhenGoing
<1>2. CASE BeginFence(j) \/ FinishFence(j)
  <2>1. GoesOn(j) /\ ~Takes(j) /\ holder' = holder
    BY <1>0, <1>2, ActionsGoOn, OneThing DEF BeginFence, FinishFence
  <2>2. \/ Begins(j) /\ marker' = [marker EXCEPT ![Fenced(j)] = [desc |-> Descriptor(Job[j], Fenced(j)), owner |-> j]]
        \/ Finishes(j) /\ marker' = [marker EXCEPT ![Fenced(j)] = NoMarker]
    BY <1>2 DEF BeginFence, FinishFence
  <2> QED
    BY <2>1, <2>2, GoesOnPlaced, HeldWhenGoing, OwnedWhenGoing
<1>3. CASE CreateLevel(j) \/ CheckFences(j) \/ PublishSnapshots(j)
  <2>1. /\ GoesOn(j) /\ ~Takes(j) /\ ~Begins(j) /\ ~Finishes(j)
        /\ holder' = holder /\ marker' = marker
    BY <1>0, <1>3, ActionsGoOn, OneThing DEF CreateLevel, CheckFences, PublishSnapshots
  <2> QED
    BY <2>1, GoesOnPlaced, HeldWhenGoing, OwnedWhenGoing
<1>4. CASE PutTiles(j)
  BY <1>4, PutHeld
<1>5. CASE Refused(j) \/ Abort(j)
  <2>1. Restart(j)
    BY <1>5 DEF Refused, Abort
  <2> QED
    BY <2>1, RestartPlaced, HeldWhenRestarted, OwnedWhenRestarted
<1> QED
  BY <1>1, <1>2, <1>3, <1>4, <1>5 DEF Progress

\* Every step keeps the content.
LEMMA StepContent ==
    ASSUME Typed, AllPlaced, Held, Owned, Content, NEW j \in Jobs,
           AcquireLock(j) \/ Progress(j) \/ Abort(j)
    PROVE  Content'
<1>1. CASE AcquireLock(j) \/ ReleaseLock(j) \/ CheckFences(j) \/ PublishSnapshots(j)
  BY <1>1, LockContent
<1>2. CASE BeginFence(j)
  BY <1>2, BeginContent
<1>3. CASE FinishFence(j)
  BY <1>3, FinishContent
<1>4. CASE CreateLevel(j)
  BY <1>4, CreateContent
<1>5. CASE PutTiles(j)
  BY <1>5, PutContent
<1>6. CASE Refused(j) \/ Abort(j)
  <2>1. Restart(j)
    BY <1>6 DEF Refused, Abort
  <2> QED
    BY <2>1, RestartContent
<1> QED
  BY <1>1, <1>2, <1>3, <1>4, <1>5, <1>6 DEF Progress
------------------------------------------------------------------------------
(* What a pack publishes *)

\* The layers a pack validates are layers of the store; with the total, all.
LEMMA ScopeOf ==
    ASSUME NEW j \in Jobs
    PROVE  /\ ValidationScope(Job[j].layers) \subseteq Dirs
           /\ Total \in ValidationScope(Job[j].layers) => Layers \subseteq ValidationScope(Job[j].layers)
<1>1. Range(Job[j].layers) \subseteq Dirs
  BY JobTyped DEF Range
<1> QED
  BY <1>1, TransactionAssumption DEF ValidationScope, Dirs

\* Where a pack's body is.
LEMMA BodyAt ==
    ASSUME NEW j \in Jobs, Placed(j)
    PROVE  Step(j) = "publish" <=> Job[j].kind = "pack" /\ at[j].pc = 6
<1>1. LabelTable(Job[j].kind, at[j].pc, Step(j)) /\ Job[j].kind \in Kinds
  BY Where, JobTyped
<1> QED
  BY <1>1 DEF LabelTable, Kinds

\* With no marker left on what it validates, a pack finds whole cascades, ...
LEMMA UnmarkedWhole ==
    ASSUME Content, NEW d \in Dirs, marker[d] = NoMarker, marker[Root] = NoMarker,
           NEW k \in 1 .. Depth, NEW a \in Areas, k = 1 /\ d # Total => level[d][0][a] \notin Pushes
    PROVE  level[d][k][a] = level[d][k - 1][a]
<1>1. ~Updating(d, a) /\ \A m : ~Pending(d, m, a)
  BY DEF Updating, Pending, Covered
<1>2. k = 1 => level[d][1][a] = level[d][0][a]
  <2>1. FirstRolledAt(d, a)
    BY DEF Content, FirstRolled
  <2> QED
    BY <1>1, <2>1 DEF FirstRolledAt
<1>3. ASSUME NEW m \in 2 .. Depth PROVE level[d][m][a] = level[d][1][a]
  <2>1. RestRolledAt(d, m, a)
    BY DEF Content, RestRolled
  <2> QED
    BY <1>1, <2>1 DEF RestRolledAt
<1>4. CASE k = 1
  BY <1>2, <1>4
<1>5. CASE k = 2
  BY <1>3, <1>5, DepthTyped
<1>6. CASE k > 2
  <2>1. k \in 2 .. Depth /\ k - 1 \in 2 .. Depth
    BY <1>6, DepthTyped
  <2> QED
    BY <1>3, <2>1
<1> QED
  BY <1>4, <1>5, <1>6, DepthTyped

\* ... and every scoped repaint in the total.
LEMMA UnmarkedSummed ==
    ASSUME Content, marker[Total] = NoMarker, marker[Root] = NoMarker,
           NEW l \in Layers, NEW a \in Areas,
           level[l][0][a] \in Repaints, level[Total][0][a] # None
    PROVE  level[Total][0][a][l] = level[l][0][a]
<1>1. ~Updating(l, a) /\ ~ToCombine(a) /\ TotalSumsAt(l, a)
  BY DEF Updating, ToCombine, Content, TotalSums
<1> QED
  BY <1>1 DEF TotalSumsAt
\* Tiles change only where a job writes, under the lock of that level.
LEMMA WritesOwnLevel ==
    ASSUME Typed, AllPlaced, NEW j \in Jobs, AcquireLock(j) \/ Progress(j) \/ Abort(j)
    PROVE  \/ level' = level
           \/ /\ at[j].call \in {"create", "put"}
              /\ \A d \in Dirs, k \in 0 .. Depth, a \in Areas :
                    ~WritesAt(j, d, k) => level'[d][k][a] = level[d][k][a]
<1>1. CASE CreateLevel(j)
  <2>1. /\ at[j].call = "create"
        /\ level' = [level EXCEPT ![Dir(j)][at[j].zoom] = [a \in Areas |-> None]]
    BY <1>1 DEF CreateLevel
  <2>2. ASSUME NEW d \in Dirs, NEW k \in 0 .. Depth, NEW a \in Areas, ~WritesAt(j, d, k)
        PROVE  level'[d][k][a] = level[d][k][a]
    <3>1. d # Dir(j) \/ k # at[j].zoom
      BY <2>1, <2>2 DEF WritesAt
    <3> QED
      BY <2>1, <3>1 DEF Typed
  <2> QED
    BY <2>1, <2>2
<1>2. CASE PutTiles(j)
  <2>1. at[j].call = "put"
    BY <1>2 DEF PutTiles
  <2>2. PICK b \in Areas : PutAt(j, b)
    BY <1>2, PutIs
  <2>3. ASSUME NEW d \in Dirs, NEW k \in 0 .. Depth, NEW a \in Areas, ~WritesAt(j, d, k)
        PROVE  level'[d][k][a] = level[d][k][a]
    <3>1. d # Dir(j) \/ k # at[j].zoom
      BY <2>1, <2>3 DEF WritesAt
    <3> QED
      BY <2>2, <3>1, PutKeeps
  <2> QED
    BY <2>1, <2>3
<1>3. CASE AcquireLock(j) \/ ReleaseLock(j) \/ BeginFence(j) \/ FinishFence(j)
             \/ CheckFences(j) \/ PublishSnapshots(j) \/ Refused(j) \/ Abort(j)
  BY <1>3 DEF AcquireLock, ReleaseLock, BeginFence, FinishFence, CheckFences,
              PublishSnapshots, Refused, Abort, Restart
<1> QED
  BY <1>1, <1>2, <1>3 DEF Progress

\* A job in its body was there before and its layers stood still, or it has
\* just found no marker on them.
LEMMA BodyStep ==
    ASSUME Typed, AllPlaced, Held, Owned, NEW j \in Jobs, AcquireLock(j) \/ Progress(j) \/ Abort(j),
           NEW i \in Jobs, Step(i)' = "publish"
    PROVE  \/ /\ Step(i) = "publish"
              /\ \A d \in ValidationScope(Job[i].layers), k \in 0 .. Depth, a \in Areas :
                    level'[d][k][a] = level[d][k][a]
           \/ level' = level /\ ~Incomplete(ValidationScope(Job[i].layers))
<1>1. Placed(i) /\ Placed(j) /\ Placed(i)' /\ at \in [Jobs -> Position]
  BY StepHeld DEF AllPlaced, Typed
<1>2. Job[i].kind = "pack" /\ at'[i].pc = 6
  BY <1>1, WhereNext DEF LabelTable
<1>3. CASE i # j
  <2>1. at'[i] = at[i]
    BY <1>1, <1>3 DEF AcquireLock, Progress, ReleaseLock, BeginFence, FinishFence, CreateLevel,
        PutTiles, CheckFences, PublishSnapshots, Refused, Abort, Restart, Advance
  <2>2. Step(i) = "publish" /\ at[i].pc = 6
    BY <1>2, <2>1 DEF Step
  <2>3. ASSUME NEW d \in ValidationScope(Job[i].layers), NEW k \in 0 .. Depth, NEW a \in Areas
        PROVE  level'[d][k][a] = level[d][k][a]
    <3>1. d \in Dirs
      BY ScopeOf
    <3>2. Holds(i, ZoomLock(d, k)) /\ ZoomLock(d, k) \in Locks
      <4>1. InBody(i, d)
        BY <1>2, <2>2 DEF InBody
      <4> QED
        BY <3>1, <4>1, LockNames DEF Holds, HoldsZoom
    <3>3. WritesAt(j, d, k) => Holds(j, ZoomLock(d, k))
      BY <3>1 DEF Holds, HoldsZoom
    <3>4. ~WritesAt(j, d, k)
      BY <1>3, <3>2, <3>3, Exclusive
    <3> QED
      BY <3>1, <3>4, WritesOwnLevel
  <2> QED
    BY <2>2, <2>3
<1>4. CASE i = j
  <2>1. ~Restart(j)
    <3>1. ASSUME Restart(j) PROVE at'[j].pc = 1
      BY <1>1, <3>1 DEF Restart, Enter
    <3> QED
      BY <1>2, <1>4, <3>1
  <2>2. at[j].call # "put"
    <3>1. ASSUME at[j].call = "put" PROVE FALSE
      <4>1. PutTiles(j)
        BY <1>1, <2>1, <3>1, OneThing DEF Progress, AcquireLock, ReleaseLock, Drops, CreateLevel,
           BeginFence, FinishFence, CheckFences, PublishSnapshots, Refused, Abort, Placed
      <4>2. at' = at \/ GoesOn(j)
        BY <4>1, PutGoesOn
      <4>3. Step(j) \in {"stage", "rebuild"}
        BY <1>1, <3>1 DEF Placed
      <4>4. at' # at
        BY <1>4, <4>3 DEF Step
      <4>5. ~Done(j) /\ at'[j] = After(j)
        BY <1>1, <4>2, <4>4 DEF GoesOn, Advance
      <4>6. at'[j].pc = at[j].pc \/ at'[j].pc = at[j].pc + 1
        BY <1>1, <4>5, PcMoves
      <4>7. at[j].pc \in {5, 6}
        BY <1>1, <1>2, <1>4, <4>6 DEF Position
      <4> QED
        BY <1>1, <1>2, <1>4, <4>3, <4>7, Where DEF LabelTable
    <3> QED
      BY <3>1
  <2>3. GoesOn(j) /\ ~PutTiles(j)
    BY <2>1, <2>2, ActionsGoOn DEF Progress, Refused, Abort, PutTiles
  <2>4. ~Done(j) /\ at'[j] = After(j)
    BY <1>1, <2>3 DEF GoesOn, Advance
  <2>5. CASE at[j].pc = 6
    <3>1. Step(j) = "publish" /\ at[j].call = "do"
      BY <1>1, <1>2, <1>4, <2>5, Where DEF LabelTable, Placed
    <3>2. level' = level
      BY <3>1, WritesOwnLevel
    <3> QED
      BY <1>4, <3>1, <3>2
  <2>6. CASE at[j].pc = 5
    <3>1. Step(j) = "reject" /\ at[j].call = "do"
      BY <1>1, <1>2, <1>4, <2>6, Where DEF LabelTable, Placed
    <3>2. ~Drops(j) /\ ~Takes(j) /\ ~Begins(j) /\ ~Finishes(j)
      BY <1>1, <3>1, OneThing DEF Drops
    <3>3. CheckFences(j)
      BY <2>1, <2>3, <3>1, <3>2 DEF Progress, AcquireLock, ReleaseLock, CreateLevel, BeginFence,
         FinishFence, PublishSnapshots, Refused, Abort
    <3> QED
      BY <1>4, <3>3 DEF CheckFences
  <2>7. at[j].pc = 5 \/ at[j].pc = 6
    <3>1. at'[j].pc = at[j].pc \/ at'[j].pc = at[j].pc + 1
      BY <1>1, <2>4, PcMoves
    <3> QED
      BY <1>1, <1>2, <1>4, <3>1 DEF Position
  <2> QED
    BY <2>5, <2>6, <2>7
<1> QED
  BY <1>3, <1>4

\* Every step keeps what the packs in their bodies publish.
LEMMA StepPublished ==
    ASSUME Typed, AllPlaced, Held, Owned, Content, PublishedCascadesWhole, PublishedRepaintsSummed,
           NEW j \in Jobs, AcquireLock(j) \/ Progress(j) \/ Abort(j)
    PROVE  PublishedCascadesWhole' /\ PublishedRepaintsSummed'
<1>1. ASSUME NEW i \in Jobs, Step(i)' = "publish",
             NEW d \in ValidationScope(Job[i].layers), NEW k \in 1 .. Depth, NEW a \in Areas,
             k = 1 /\ d # Total => level'[d][0][a] \notin Pushes
      PROVE  level'[d][k][a] = level'[d][k - 1][a]
  <2>1. d \in Dirs /\ k \in 0 .. Depth /\ k - 1 \in 0 .. Depth /\ 0 \in 0 .. Depth
    BY ScopeOf, DepthTyped
  <2>2. CASE /\ Step(i) = "publish"
             /\ \A e \in ValidationScope(Job[i].layers), m \in 0 .. Depth, b \in Areas :
                   level'[e][m][b] = level[e][m][b]
    <3>1. /\ level'[d][k][a] = level[d][k][a] /\ level'[d][k - 1][a] = level[d][k - 1][a]
          /\ level'[d][0][a] = level[d][0][a]
      BY <2>1, <2>2
    <3> QED
      BY <1>1, <2>2, <3>1 DEF PublishedCascadesWhole
  <2>3. CASE level' = level /\ ~Incomplete(ValidationScope(Job[i].layers))
    <3>1. marker[d] = NoMarker /\ marker[Root] = NoMarker
      BY <2>3 DEF Incomplete
    <3> QED
      BY <1>1, <2>1, <2>3, <3>1, UnmarkedWhole
  <2> QED
    BY <1>1, <2>2, <2>3, BodyStep
<1>2. ASSUME NEW i \in Jobs, Step(i)' = "publish", Total \in ValidationScope(Job[i].layers),
             NEW l \in Layers, NEW a \in Areas,
             level'[l][0][a] \in Repaints, level'[Total][0][a] # None
      PROVE  level'[Total][0][a][l] = level'[l][0][a]
  <2>1. l \in ValidationScope(Job[i].layers) /\ 0 \in 0 .. Depth
    BY <1>2, ScopeOf, DepthTyped
  <2>2. CASE /\ Step(i) = "publish"
             /\ \A e \in ValidationScope(Job[i].layers), m \in 0 .. Depth, b \in Areas :
                   level'[e][m][b] = level[e][m][b]
    <3>1. level'[l][0][a] = level[l][0][a] /\ level'[Total][0][a] = level[Total][0][a]
      BY <1>2, <2>1, <2>2
    <3> QED
      BY <1>2, <2>2, <3>1 DEF PublishedRepaintsSummed
  <2>3. CASE level' = level /\ ~Incomplete(ValidationScope(Job[i].layers))
    <3>1. marker[Total] = NoMarker /\ marker[Root] = NoMarker
      BY <1>2, <2>3 DEF Incomplete
    <3> QED
      BY <1>2, <2>3, <3>1, UnmarkedSummed
  <2> QED
    BY <1>2, <2>2, <2>3, BodyStep
<1> QED
  BY <1>1, <1>2 DEF PublishedCascadesWhole, PublishedRepaintsSummed, Pushes, Repaints
------------------------------------------------------------------------------
(* The theorems *)

\* At the start every job is at the first step of its program.
LEMMA StartPlaced ==
    ASSUME Init
    PROVE  AllPlaced /\ at \in [Jobs -> Position]
<1>1. ASSUME NEW j \in Jobs PROVE Placed(j) /\ at[j] \in Position
  <2> DEFINE x == Program(Job[j].kind)[1]
  <2>1. /\ at[j] = Enter(j, 1) /\ rolled[j] = {}
        /\ at[j] = [pc |-> 1, turn |-> 1, zoom |-> 0, call |-> FirstCall(x)]
    BY <1>1 DEF Init, Enter
  <2>2. Step(j) = x /\ Job[j].kind \in Kinds
    BY <2>1, JobTyped DEF Step
  <2>3. Len(Program(Job[j].kind)) \in Nat /\ Len(Program(Job[j].kind)) >= 1
    BY <2>2, ProgramLength
  <2>4. LabelTable(Job[j].kind, 1, x)
    BY <2>2, <2>3, Labels
  <2>5. /\ x = "stage" => FirstCall(x) = "open"
        /\ x = "rebuild" => FirstCall(x) = "mutex"
        /\ x \notin {"stage", "rebuild"} => FirstCall(x) = "do"
    BY FirstCalls
  <2>6. at[j] \in Position
    BY <2>1, <2>5, DepthTyped DEF Position, Writing, Fencing
  <2>7. x \notin {"stage", "capture", "release"}
    BY <2>4 DEF LabelTable
  <2>8. x = "rebuild" => 1 \in 1 .. Len(Turns(Job[j], x))
    <3>1. ASSUME x = "rebuild" PROVE 1 \in 1 .. Len(Turns(Job[j], x))
      <4>1. Job[j].kind = "pyramid"
        BY <2>4, <3>1 DEF LabelTable
      <4>2. Turns(Job[j], x) \in Seq(Dirs) /\ Len(Turns(Job[j], x)) >= 1
        BY <3>1, <4>1, TurnsTyped
      <4> QED
        BY <4>2
    <3> QED
      BY <3>1
  <2>9. 1 \in 1 .. Len(Program(Job[j].kind))
    BY <2>3
  <2> HIDE DEF x
  <2> QED
    BY <2>1, <2>2, <2>5, <2>6, <2>7, <2>8, <2>9 DEF Placed, Writing
<1> QED
  BY <1>1 DEF Init, AllPlaced

\* The types hold at the start.
LEMMA StartTyped ==
    ASSUME Init
    PROVE  Typed
<1>1. at \in [Jobs -> Position]
  BY StartPlaced
<1>2. level \in [Dirs -> [0 .. Depth -> [Areas -> Tiles]]] /\ Painted
  <2>1. [l \in Layers |-> Original] \in [Layers -> Contents] /\ Original \in Contents
    BY DEF Contents
  <2>2. level = [d \in Dirs |-> [k \in 0 .. Depth |-> [a \in Areas |->
                    IF d = Total THEN [l \in Layers |-> Original] ELSE Original]]]
    BY DEF Init
  <2> QED
    BY <2>1, <2>2 DEF Painted, TilesOf, Tiles
<1>3. marker \in [Dirs \cup {Root} -> {NoMarker} \cup Marks]
  BY DEF Init
<1>4. /\ holder \in [Locks -> Jobs \cup {None}] /\ rolled \in [Jobs -> SUBSET Areas]
      /\ aborts \in 0 .. MaxAborts
  BY TransactionAssumption DEF Init
<1> QED
  BY <1>1, <1>2, <1>3, <1>4 DEF Typed

\* At the start nobody holds a lock or has a fence.
LEMMA StartFree ==
    ASSUME Init
    PROVE  Held /\ Owned
<1>1. ASSUME NEW j \in Jobs PROVE at[j] = Enter(j, 1) /\ at[j].pc = 1 /\ at[j].call \in {"open", "mutex", "do"}
  BY FirstCalls DEF Init, Enter
<1>2. Held
  BY <1>1, StartHoldsNothing DEF Held
<1>3. ASSUME NEW j \in Jobs PROVE ~InFence(j) /\ ~InUpdate(j)
  <2>1. ~InUpdate(j)
    BY <1>1 DEF InUpdate
  <2>2. ASSUME Step(j) = "rebuild" PROVE at[j].call = "mutex"
    BY <2>2, StartPlaced, FirstCalls DEF Init, Enter, Step
  <2> QED
    BY <2>1, <2>2 DEF InFence, Writing
<1> QED
  BY <1>2, <1>3 DEF Owned

\* At the start all levels hold the original tiles.
LEMMA StartContent ==
    ASSUME Init
    PROVE  Content /\ PublishedCascadesWhole /\ PublishedRepaintsSummed
<1>1. ASSUME NEW d \in Dirs, NEW k \in 0 .. Depth, NEW a \in Areas
      PROVE  level[d][k][a] = IF d = Total THEN [l \in Layers |-> Original] ELSE Original
  BY DEF Init
<1>2. /\ \A d \in Dirs, k \in 0 .. Depth, m \in 0 .. Depth, a \in Areas : level[d][k][a] = level[d][m][a]
  BY <1>1
<1>3. \A l \in Layers, a \in Areas : level[l][0][a] \notin Repaints
  <2>1. ASSUME NEW l \in Layers, NEW a \in Areas PROVE level[l][0][a] = Original
    BY <1>1, DepthTyped, TransactionAssumption DEF Dirs
  <2> QED
    BY <2>1, TransactionAssumption DEF Repaints
<1>4. FirstRolled /\ RestRolled /\ TotalSums
  BY <1>2, <1>3, DepthTyped DEF FirstRolled, FirstRolledAt, RestRolled, RestRolledAt, TotalSums, TotalSumsAt
<1>5. UpdateStands
  <2>1. ASSUME NEW j \in Jobs PROVE at[j].pc = 1
    BY <2>1 DEF Init, Enter
  <2>2. \A j \in Jobs, l \in Layers, a \in Areas : ~Staged(j, l, a) /\ ~Settled(j, l, a) /\ ~Summed(j, a)
    BY <2>1 DEF Staged, Settled, Summed
  <2> QED
    BY <2>2 DEF UpdateStands, StandsAt
<1>6. ASSUME NEW j \in Jobs PROVE Step(j) # "publish"
  <2>1. Placed(j) /\ at[j].pc = 1
    BY <1>6, StartPlaced DEF Init, Enter, AllPlaced
  <2> QED
    BY <2>1, BodyAt
<1> QED
  BY <1>4, <1>5, <1>6 DEF Content, PublishedCascadesWhole, PublishedRepaintsSummed

\* The invariant holds at the start, ...
LEMMA Started ==
    ASSUME Init
    PROVE  IInv
  BY StartPlaced, StartTyped, StartFree, StartContent DEF IInv, AllPlaced

\* ... through steps that change nothing, ...
LEMMA Stands ==
    ASSUME IInv, UNCHANGED vars
    PROVE  IInv'
<1>1. /\ level' = level /\ marker' = marker /\ holder' = holder
      /\ at' = at /\ rolled' = rolled /\ aborts' = aborts
  BY DEF vars
<1>2. Typed'
  BY <1>1 DEF IInv, Typed, Painted
<1>3. ASSUME NEW j \in Jobs
      PROVE  /\ Step(j)' = Step(j) /\ Dir(j)' = Dir(j) /\ NoNews(j)
             /\ (InFence(j)' <=> InFence(j)) /\ (InUpdate(j)' <=> InUpdate(j))
  BY <1>1, <1>3, SamePlaces, SameNews DEF NoNews
<1>4. ASSUME NEW j \in Jobs PROVE Placed(j)'
  BY <1>1, <1>3, <1>4 DEF IInv, Placed
<1>5. Held'
  BY <1>1, SameHolds DEF IInv, Held
<1>6. Owned'
  <2>1. ASSUME NEW j \in Jobs
        PROVE  /\ InFence(j)' => marker'[Dir(j)'] = [desc |-> Descriptor(Job[j], Dir(j)'), owner |-> j]
               /\ InUpdate(j)' => marker'[Root] = [desc |-> Descriptor(Job[j], Root), owner |-> j]
    BY <1>1, <1>3 DEF IInv, Owned
  <2> QED
    BY <2>1 DEF Owned
<1>7. Content'
  <2>1. \A d \in Dirs \cup {Root} : MarkerKept(d)
    BY <1>1 DEF MarkerKept
  <2> QED
    BY <1>1, <1>3, <2>1, Quiet DEF IInv
<1>8. PublishedCascadesWhole' /\ PublishedRepaintsSummed'
  BY <1>1, <1>3 DEF IInv, PublishedCascadesWhole, PublishedRepaintsSummed, Pushes, Repaints
<1> QED
  BY <1>2, <1>4, <1>5, <1>6, <1>7, <1>8 DEF IInv

\* ... and through every step.
LEMMA Steps ==
    ASSUME IInv, [Next]_vars
    PROVE  IInv'
<1>1. CASE UNCHANGED vars
  BY <1>1, Stands
<1>2. CASE \E j \in Jobs : AcquireLock(j) \/ Progress(j) \/ Abort(j)
  <2>1. PICK j \in Jobs : AcquireLock(j) \/ Progress(j) \/ Abort(j)
    BY <1>2
  <2>2. /\ Typed /\ AllPlaced /\ Held /\ Owned /\ Content
        /\ PublishedCascadesWhole /\ PublishedRepaintsSummed
    BY DEF IInv, AllPlaced
  <2>3. Typed'
    BY <2>1, <2>2, StepTyped
  <2>4. AllPlaced' /\ Held' /\ Owned'
    BY <2>1, <2>2, StepHeld
  <2>5. Content'
    BY <2>1, <2>2, StepContent
  <2>6. PublishedCascadesWhole' /\ PublishedRepaintsSummed'
    BY <2>1, <2>2, StepPublished
  <2> QED
    BY <2>3, <2>4, <2>5, <2>6 DEF IInv, AllPlaced
<1> QED
  BY <1>1, <1>2 DEF Next

\* The states a store root can be in, for any jobs that crash at any point: each
\* job at a place of its program, with the flocks and the fence markers of that
\* place; and wherever two levels, or a layer and the total, disagree, a marker
\* on the disk says so and covers the area.
THEOREM StoreStates == Spec => []IInv
<1>1. Init => IInv
  BY Started
<1>2. IInv /\ [Next]_vars => IInv'
  BY Steps
<1> QED
  BY <1>1, <1>2, PTL DEF Spec

\* A pack publishes no half-finished cascade: tile-store-pack takes every
\* z-lock of the layers it validates and checks their fences once more, and what
\* it then finds holds until it has published, whoever crashed before.
THEOREM PackPublishesWhole == Spec => []PublishedCascadesWhole
<1>1. IInv => PublishedCascadesWhole
  BY DEF IInv
<1> QED
  BY <1>1, StoreStates, PTL

\* A pack of the total shows no scoped repaint that the total does not include:
\* the root's marker stays from before the first tile of build-heatmap.sh's
\* scoped branch until its combine is done, through every crash and adoption.
THEOREM PackPublishesSums == Spec => []PublishedRepaintsSummed
<1>1. IInv => PublishedRepaintsSummed
  BY DEF IInv
<1> QED
  BY <1>1, StoreStates, PTL

\* No marker and a marker differ in what they say.
LEMMA Described ==
    ASSUME NEW job, NEW d
    PROVE  Descriptor(job, d) # NoMarker.desc
<1> DEFINE r == Descriptor(job, d)
<1>1. DOMAIN r = {"op", "scope", "layers"}
  BY DEF Descriptor
<1>2. DOMAIN NoMarker.desc = {}
  BY DEF NoMarker
<1> QED
  BY <1>1, <1>2

\* Who removes the root's marker has done its scoped update.
LEMMA UnmarkedByOwner ==
    ASSUME IInv, NEW j \in Repaints, NEW i \in Jobs,
           AcquireLock(i) \/ Progress(i) \/ Abort(i),
           marker[Root].desc = Descriptor(Job[j], Root), marker'[Root] = NoMarker
    PROVE  /\ Step(i) = "unmark"
           /\ Job[i].layers = Job[j].layers /\ Job[i].scope = Job[j].scope
<1>1. Placed(i) /\ marker[Root] # NoMarker /\ marker \in [Dirs \cup {Root} -> {NoMarker} \cup Marks]
  BY Described DEF IInv, Typed
<1>2. FinishFence(i) /\ Fenced(i) = Root
  <2>1. CASE BeginFence(i)
    <3> DEFINE m == [desc |-> Descriptor(Job[i], Fenced(i)), owner |-> i]
    <3>1. marker' = [marker EXCEPT ![Fenced(i)] = m] /\ m # NoMarker
      BY <2>1, NewMark DEF BeginFence
    <3> HIDE DEF m
    <3> QED
      BY <1>1, <3>1
  <2>2. CASE FinishFence(i)
    BY <1>1, <2>2 DEF FinishFence
  <2>3. CASE ~BeginFence(i) /\ ~FinishFence(i)
    <3>1. marker' = marker
      BY <2>3 DEF Progress, AcquireLock, ReleaseLock, CreateLevel, PutTiles, CheckFences,
         PublishSnapshots, Refused, Abort, Restart
    <3> QED
      BY <1>1, <3>1
  <2> QED
    BY <2>1, <2>2, <2>3
<1>3. Step(i) = "unmark"
  <2>1. ASSUME at[i].call = "finish" PROVE FALSE
    <3>1. Step(i) = "rebuild" /\ Dir(i) \in Dirs
      BY <1>1, <2>1, FenceHolds
    <3> QED
      BY <1>2, <3>1, TransactionAssumption DEF Fenced
  <2> QED
    BY <1>2, <2>1 DEF FinishFence, Finishes
<1>4. marker[Root].desc = Descriptor(Job[i], Root)
  <2>1. InUpdate(i)
    BY <1>3, UnmarkDone DEF IInv, AllPlaced
  <2>2. marker[Root] = [desc |-> Descriptor(Job[i], Root), owner |-> i]
    BY <2>1 DEF IInv, Owned
  <2> QED
    BY <2>2
<1>5. Job[i].layers = Job[j].layers /\ Job[i].scope = Job[j].scope
  BY <1>4 DEF Descriptor
<1> QED
  BY <1>3, <1>5

\* Who is to remove the root marker leaves its scoped update complete.
LEMMA CompleteWhenUnmarked ==
    ASSUME IInv, NEW i \in Jobs, Step(i) = "unmark"
    PROVE  RepaintComplete(Job[i].layers, Job[i].scope)
<1>1. /\ InUpdate(i) /\ Job[i].kind = "repaint" /\ Job[i].layers \in Seq(Layers)
      /\ \A l, a : l \in Range(Job[i].layers) /\ a \in Job[i].scope =>
            Staged(i, l, a) /\ Settled(i, l, a) /\ Summed(i, a)
  BY UnmarkDone DEF IInv, AllPlaced
<1>2. Job[i].scope \subseteq Areas /\ Range(Job[i].layers) \subseteq Layers
  BY <1>1, JobTyped DEF JobAssumption, Scopes, Range
<1>3. ASSUME NEW d \in Dirs, marker[d] = NoMarker, NEW k \in 0 .. Depth, NEW a \in Areas
      PROVE  k = 0 \/ level[d][k][a] = level[d][1][a]
  <2>1. CASE k \in 2 .. Depth
    <3>1. RestRolledAt(d, k, a)
      BY <2>1 DEF IInv, Content, RestRolled
    <3> QED
      BY <1>3, <3>1 DEF RestRolledAt, Pending, Covered
  <2>2. k = 0 \/ k = 1 \/ k \in 2 .. Depth
    BY DepthTyped
  <2> QED
    BY <2>1, <2>2
<1>4. ASSUME NEW l \in Range(Job[i].layers), NEW a \in Job[i].scope, NEW k \in 0 .. Depth
      PROVE  /\ marker[l] = NoMarker => level[l][k][a] = level[l][0][a]
             /\ marker[Total] = NoMarker =>
                   level[Total][k][a] # None /\ level[Total][k][a][l] = level[l][0][a]
  <2>1. StandsAt(i, l, a) /\ FirstRolledAt(Total, a) /\ l \in Dirs /\ Total \in Dirs
    BY <1>2 DEF IInv, Content, UpdateStands, FirstRolled, Dirs
  <2>2. marker[l] = NoMarker => level[l][1][a] = level[l][0][a]
    BY <1>1, <2>1 DEF StandsAt, Pending, Covered
  <2>3. marker[Total] = NoMarker => level[Total][1][a] = level[Total][0][a]
    BY <2>1 DEF FirstRolledAt, Pending, Covered
  <2>4. level[Total][0][a] # None /\ level[Total][0][a][l] = level[l][0][a]
    BY <1>1, <2>1 DEF StandsAt
  <2> QED
    BY <1>2, <1>3, <2>1, <2>2, <2>3, <2>4
<1> QED
  BY <1>4 DEF RepaintComplete

\* When the root's marker goes, the scoped update it was for is complete:
\* build-heatmap.sh removes it only when its own run, or the run it adopted the
\* marker from and repeated, has staged, rolled up and combined every area.
THEOREM MarkerGoesWhenComplete == Spec => MarkerMeansIncomplete
<1> DEFINE Complete == \A j \in Repaints :
                          /\ marker[Root].desc = Descriptor(Job[j], Root)
                          /\ marker'[Root] = NoMarker
                          => RepaintComplete(Job[j].layers, Job[j].scope)
<1>1. IInv /\ [Next]_vars => [Complete]_vars
  <2>1. SUFFICES ASSUME IInv, Next, ~UNCHANGED vars, NEW j \in Repaints,
                        marker[Root].desc = Descriptor(Job[j], Root), marker'[Root] = NoMarker
                 PROVE  RepaintComplete(Job[j].layers, Job[j].scope)
    OBVIOUS
  <2>2. PICK i \in Jobs : AcquireLock(i) \/ Progress(i) \/ Abort(i)
    BY <2>1 DEF Next
  <2>3. Step(i) = "unmark" /\ Job[i].layers = Job[j].layers /\ Job[i].scope = Job[j].scope
    BY <2>1, <2>2, UnmarkedByOwner
  <2>4. RepaintComplete(Job[i].layers, Job[i].scope)
    BY <2>1, <2>3, CompleteWhenUnmarked
  <2> QED
    BY <2>3, <2>4
<1> QED
  BY <1>1, StoreStates, PTL DEF Spec, MarkerMeansIncomplete

\* Whatever crashes, the tiles of a layer stay tiles, those of the total sums of
\* one tile for each layer; a marker has an owner that is a job, a lock at most
\* one holder, and no process is at a layer or a level it does not have.
THEOREM StoreTyped == Spec => []TypeOK
<1>1. ASSUME IInv PROVE TypeOK
  <2>1. \A d \in Dirs, k \in 0 .. Depth, a \in Areas :
           level[d][k][a] \in IF d = Total THEN [Layers -> Contents] \cup {None} ELSE Contents
    BY <1>1 DEF IInv, Typed, Painted, TilesOf
  <2>2. \A d \in Dirs \cup {Root} : marker[d] = NoMarker \/ marker[d].owner \in Jobs
    BY <1>1 DEF IInv, Typed, Marks
  <2>3. ASSUME NEW j \in Jobs
        PROVE  /\ at[j].pc \in 1 .. Len(Program(Job[j].kind))
               /\ at[j].turn \in 1 .. Len(Turns(Job[j], Step(j))) \/ at[j].turn = 1
               /\ at[j].zoom \in 0 .. Depth
    BY <1>1 DEF IInv, Placed, Position
  <2>4. holder \in [Locks -> Jobs \cup {None}] /\ rolled \in [Jobs -> SUBSET Areas] /\ aborts \in 0 .. MaxAborts
    BY <1>1 DEF IInv, Typed
  <2> QED
    BY <2>1, <2>2, <2>3, <2>4 DEF TypeOK
<1> QED
  BY <1>1, StoreStates, PTL

\* No job writes a level that another one writes, or that a pack has captured
\* and not yet released, although the level locks are taken one at a time and
\* vanish with their process.
OneWriterPerLevel ==
    \A i \in Jobs, j \in Jobs, d \in Dirs, k \in 0 .. Depth :
        WritesAt(i, d, k) /\ HoldsZoom(j, d, k) => i = j

\* The z-locks, the rebuild locks and the root's locks together give every level
\* of every layer one writer, and none while a pack holds it.
THEOREM LevelsHaveOneWriter == Spec => []OneWriterPerLevel
<1>1. ASSUME IInv PROVE OneWriterPerLevel
  <2>1. ASSUME NEW i \in Jobs, NEW j \in Jobs, NEW d \in Dirs, NEW k \in 0 .. Depth,
               WritesAt(i, d, k), HoldsZoom(j, d, k)
        PROVE  i = j
    <3>1. Holds(i, ZoomLock(d, k)) /\ Holds(j, ZoomLock(d, k)) /\ ZoomLock(d, k) \in Locks
      BY <2>1, LockNames DEF Holds, HoldsZoom
    <3> QED
      BY <1>1, <3>1, Exclusive DEF IInv
  <2> QED
    BY <2>1 DEF OneWriterPerLevel
<1> QED
  BY <1>1, StoreStates, PTL
==============================================================================
