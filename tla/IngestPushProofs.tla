-------------------------- MODULE IngestPushProofs --------------------------
(***************************************************************************)
(* What a run of the ingest leaves behind, for any layers, tiles, rebuilds *)
(* and number of runs.                                                     *)
(***************************************************************************)
EXTENDS IngestPush, TLAPS

Running(n) == pc[n] \notin Ended

\* The part of the type invariant that is about runs.
RunTyped ==
    /\ run \in [Attempts -> Trees \cup {None}]
    /\ \A n \in Attempts : pc[n] # "unstarted" => run[n] \in Trees
    /\ pc \in [Attempts -> Ended \cup {"group", "create", "write", "sweep"}]

\* The flock lets one run at a time past its preflight.
OneRunning == \A m, n \in Attempts : Running(m) /\ Running(n) => m = n

\* The groups of a staged tree are the layers that it has files for, at least.
StagedTrees ==
    \A n \in Attempts : pc[n] # "unstarted" =>
        /\ run[n].corrupt \subseteq run[n].loud
        /\ \A p \in run[n].loud : p[1] \in run[n].groups

\* What the preflight has found out of every group stays true of the tree.
Preflighted ==
    \A n \in Attempts : Running(n) =>
        /\ left \subseteq run[n].groups
        /\ run[n].corrupt = {}
        /\ \A l \in run[n].groups : Bounded(n, l) => Staged(n, l) \subseteq run[n].rebuild.box

\* Whoever wrote a tile had nothing corrupt staged.
WritersSound ==
    \A l \in Layers, t \in Tiles : tiles[l][t] # None =>
        pc[tiles[l][t]] # "unstarted" /\ run[tiles[l][t]].corrupt = {}

\* Only a store with both of its files holds tiles.
StoresWhole ==
    /\ \A l \in Layers, t \in Tiles : files[l] # "whole" => tiles[l][t] = None
    /\ \A n \in Attempts, l \in Layers :
          /\ pc[n] \in {"write", "sweep"} /\ Group(l) => files[l] = "whole"
          /\ pc[n] = "create" /\ Group(l) => files[l] = "partial"

\* How far the running attempt has come: finished groups are imported, and of
\* the current one all but todo is written, or written and swept.
ImportedSoFar ==
    \A n \in Attempts : Running(n) =>
        /\ \A l \in run[n].groups \ left : Imported(n, l, tiles)
        /\ \A l \in left : pc[n] = "write" /\ Group(l) =>
              /\ todo \subseteq Staged(n, l)
              /\ \A t \in Staged(n, l) \ todo : tiles[l][t] = n
        /\ \A l \in left : pc[n] = "sweep" /\ Group(l) =>
              /\ todo \subseteq run[n].rebuild.box \ Staged(n, l)
              /\ todo # {} => Bounded(n, l)
              /\ \A t \in Staged(n, l) : tiles[l][t] = n
              /\ Bounded(n, l) =>
                    \A t \in run[n].rebuild.box \ Staged(n, l) : t \notin todo => tiles[l][t] = None

IInv ==
    /\ TypeOK
    /\ OneRunning
    /\ StagedTrees
    /\ Preflighted
    /\ WritersSound
    /\ StoresWhole
    /\ ImportedSoFar
------------------------------------------------------------------------------
(* Facts about the types and the current group *)

LEMMA AttemptNumbers == Attempts \subseteq Nat /\ Layers \subseteq Nat /\ None \notin Attempts
BY IngestAssumption DEF Attempts, Layers

\* At most one group is the current one.
LEMMA OneGroup ==
    ASSUME left \subseteq Layers, NEW k, NEW l, Group(k), Group(l)
    PROVE  k = l
<1>1. k \in Nat /\ l \in Nat
    BY AttemptNumbers DEF Group
<1>2. k <= l /\ l <= k
    BY DEF Group
<1> QED
    BY <1>1, <1>2

LEMMA InitIInv == Init => IInv
<1> SUFFICES ASSUME Init PROVE IInv
    OBVIOUS
<1>1. TypeOK
    BY DEF Init, TypeOK, Ended
<1>2. \A n \in Attempts : ~Running(n)
    BY DEF Init, Running, Ended
<1>3. OneRunning /\ StagedTrees /\ Preflighted /\ WritersSound /\ StoresWhole
    BY <1>2 DEF Init, OneRunning, StagedTrees, Preflighted, WritersSound, StoresWhole
<1>4. ImportedSoFar
    BY <1>2 DEF ImportedSoFar
<1> QED
    BY <1>1, <1>3, <1>4 DEF IInv

------------------------------------------------------------------------------
(* Every action preserves the invariant *)

LEMMA StageIInv ==
    ASSUME IInv, NEW n \in Attempts, NEW rebuild \in Rebuilds,
           NEW loud \in SUBSET Paintable(rebuild), NEW corrupt \in SUBSET loud,
           Stage(n, rebuild, loud, corrupt)
    PROVE  IInv'
<1> USE DEF IInv
<1>1. loud \subseteq Layers \X Tiles
    BY IngestAssumption DEF Paintable
<1>2. run'[n] \in Trees /\ run'[n].corrupt = corrupt /\ run'[n].loud = loud
      /\ \A p \in loud : p[1] \in run'[n].groups
    <2>1. rebuild.layers \subseteq Layers
        BY IngestAssumption
    <2>2. {p[1] : p \in loud} \subseteq Layers
        BY <1>1
    <2> QED
        BY <1>1, <2>1, <2>2 DEF Stage, TypeOK, Trees, Declared
<1>3. \A m \in Attempts : m # n => run'[m] = run[m] /\ pc'[m] = pc[m]
    BY DEF Stage, TypeOK
<1>4. pc[n] = "unstarted" /\ pc'[n] = "staged" /\ UNCHANGED <<files, tiles, left, todo>>
    BY DEF Stage, TypeOK
<1>5. \A m \in Attempts : Running(m)' => m # n /\ Running(m)
    BY <1>3, <1>4 DEF Running, Ended
<1>6. TypeOK'
    BY <1>2, <1>3, <1>4 DEF TypeOK, Stage, Ended
<1>7. OneRunning' /\ StagedTrees'
    BY <1>2, <1>3, <1>4, <1>5 DEF OneRunning, StagedTrees
<1>8. Preflighted'
    BY <1>3, <1>4, <1>5 DEF Preflighted, Staged, Bounded
<1>9. WritersSound'
    BY <1>3, <1>4 DEF WritersSound, TypeOK
<1>10. StoresWhole'
    BY <1>3, <1>4 DEF StoresWhole, Group
<1>11. ImportedSoFar'
    BY <1>3, <1>4, <1>5 DEF ImportedSoFar, Imported, Staged, Bounded, Group
<1> QED
    BY <1>6, <1>7, <1>8, <1>9, <1>10, <1>11

LEMMA StartIInv ==
    ASSUME IInv, NEW n \in Attempts, Start(n) PROVE IInv'
<1> USE DEF IInv
<1>1. /\ pc[n] = "staged" /\ \A m \in Attempts : ~Running(m)
      /\ UNCHANGED <<files, tiles, run, todo>>
    BY DEF Start, Locked, Running
<1>2. \A m \in Attempts : m # n => pc'[m] = pc[m]
    BY DEF Start, Goto, TypeOK
<1>3. CASE Preflight(n)
    <2>1. pc'[n] = "group" /\ left' = run[n].groups
        BY <1>3 DEF Start, Goto, TypeOK
    <2>2. run[n] \in Trees
        BY <1>1 DEF TypeOK
    <2>3. \A m \in Attempts : Running(m)' => m = n
        BY <1>1, <1>2 DEF Running, Ended
    <2>4. TypeOK'
        BY <1>1, <2>1, <2>2, <1>3 DEF TypeOK, Trees, Start, Goto, Ended
    <2>5. OneRunning' /\ StagedTrees'
        BY <1>1, <1>2, <2>1, <2>3 DEF OneRunning, StagedTrees
    <2>6. Preflighted'
        <3>1. run[n].corrupt = {}
            <4> SUFFICES ASSUME NEW p \in run[n].corrupt PROVE FALSE
                OBVIOUS
            <4>1. p \in run[n].loud /\ p[1] \in run[n].groups /\ p \in Layers \X Tiles
                BY <1>1, <2>2 DEF StagedTrees, Trees
            <4>2. p = <<p[1], p[2]>> /\ p[2] \in Staged(n, p[1])
                BY <4>1 DEF Staged
            <4> QED
                BY <1>3, <4>1, <4>2 DEF Preflight, ValidGroup
        <3>2. \A l \in run[n].groups : Bounded(n, l) => Staged(n, l) \subseteq run[n].rebuild.box
            BY <1>3 DEF Preflight, ValidGroup
        <3> QED
            BY <1>1, <2>1, <2>3, <3>1, <3>2 DEF Preflighted, Staged, Bounded
    <2>7. WritersSound'
        BY <1>1, <1>2, <2>1 DEF WritersSound, TypeOK
    <2>8. StoresWhole'
        BY <1>1, <1>2, <2>1 DEF StoresWhole, Running, Ended
    <2>9. ImportedSoFar'
        BY <1>1, <2>1, <2>3 DEF ImportedSoFar
    <2> QED
        BY <2>4, <2>5, <2>6, <2>7, <2>8, <2>9
<1>4. CASE ~Preflight(n)
    <2>1. pc'[n] = "refused" /\ left' = left
        BY <1>4 DEF Start, Goto, TypeOK
    <2>2. \A m \in Attempts : ~Running(m)'
        BY <1>1, <1>2, <2>1 DEF Running, Ended
    <2>3. TypeOK'
        BY <1>1, <1>4, <2>1 DEF TypeOK, Start, Goto, Ended
    <2>4. OneRunning' /\ StagedTrees' /\ Preflighted'
        BY <1>1, <1>2, <2>1, <2>2 DEF OneRunning, StagedTrees, Preflighted
    <2>5. WritersSound' /\ StoresWhole'
        BY <1>1, <1>2, <2>1 DEF WritersSound, StoresWhole, TypeOK, Running, Ended
    <2>6. ImportedSoFar'
        BY <2>2 DEF ImportedSoFar
    <2> QED
        BY <2>3, <2>4, <2>5, <2>6
<1> QED
    BY <1>3, <1>4

\* What every step of a run has in common: the run stays the only one, the
\* staged trees stay, and what it writes bears its number.
LEMMA RunStep ==
    ASSUME IInv, NEW n \in Attempts, Running(n), UNCHANGED run,
           NEW label \in {"group", "create", "write", "sweep", "done", "refused", "dead"},
           Goto(n, label), left' \subseteq left,
           \A l \in Layers, t \in Tiles : tiles'[l][t] \in {tiles[l][t], n, None}
    PROVE  /\ pc'[n] = label
           /\ \A m \in Attempts : m # n => pc'[m] = pc[m] /\ ~Running(m) /\ ~Running(m)'
           /\ RunTyped'
           /\ OneRunning' /\ StagedTrees' /\ Preflighted' /\ WritersSound'
<1> USE DEF IInv
<1>1. pc'[n] = label /\ \A m \in Attempts : m # n => pc'[m] = pc[m]
    BY DEF Goto, TypeOK
<1>2. \A m \in Attempts : m # n => ~Running(m) /\ ~Running(m)'
    BY <1>1 DEF OneRunning, Running, Ended
<1>3. OneRunning'
    BY <1>2 DEF OneRunning
<1>4. pc[n] # "unstarted"
    BY DEF Running, Ended
<1>5. StagedTrees'
    BY <1>1, <1>4 DEF StagedTrees
<1>6. Preflighted'
    BY <1>1, <1>2 DEF Preflighted, Staged, Bounded
<1>7. WritersSound'
    <2>1. run[n].corrupt = {}
        BY DEF Preflighted
    <2> SUFFICES ASSUME NEW l \in Layers, NEW t \in Tiles, tiles'[l][t] # None
                 PROVE  pc'[tiles'[l][t]] # "unstarted" /\ run'[tiles'[l][t]].corrupt = {}
        BY DEF WritersSound
    <2>2. CASE tiles'[l][t] = n
        BY <1>1, <2>1, <2>2
    <2>3. CASE tiles'[l][t] = tiles[l][t]
        <3>1. tiles[l][t] \in Attempts
            BY <2>3 DEF TypeOK
        <3> QED
            BY <1>1, <2>3, <3>1 DEF WritersSound
    <2> QED
        BY <2>2, <2>3
<1>8. RunTyped'
    <2>1. label \in Ended \cup {"group", "create", "write", "sweep"}
        BY DEF Ended
    <2>2. pc' \in [Attempts -> Ended \cup {"group", "create", "write", "sweep"}]
        BY <2>1 DEF Goto, TypeOK
    <2> QED
        BY <1>1, <1>4, <2>2 DEF RunTyped, TypeOK
<1> QED
    BY <1>1, <1>2, <1>3, <1>5, <1>6, <1>7, <1>8

\* A run that goes on to its next group has imported the one it leaves.
LEMMA NextGroupIInv ==
    ASSUME IInv, NEW n \in Attempts, NEW l \in Layers, Running(n), Group(l),
           Imported(n, l, tiles), NextGroup(n, l), UNCHANGED <<files, tiles, run>>
    PROVE  IInv'
<1> USE DEF IInv
<1>1. PICK label \in {"done", "group"} : Goto(n, label)
    BY DEF NextGroup
<1>2. /\ pc'[n] = label
      /\ \A m \in Attempts : m # n => pc'[m] = pc[m] /\ ~Running(m) /\ ~Running(m)'
      /\ RunTyped' /\ OneRunning' /\ StagedTrees' /\ Preflighted' /\ WritersSound'
    <2>1. \A k \in Layers, t \in Tiles : tiles'[k][t] \in {tiles[k][t], n, None}
        OBVIOUS
    <2> QED
        BY <1>1, <2>1, RunStep DEF NextGroup
<1>3. TypeOK'
    BY <1>2 DEF TypeOK, RunTyped, NextGroup
<1>4. StoresWhole'
    BY <1>2 DEF StoresWhole, Running, Ended
<1>5. ImportedSoFar'
    BY <1>2 DEF NextGroup, ImportedSoFar, Imported, Staged, Bounded
<1> QED
    BY <1>2, <1>3, <1>4, <1>5

\* A layer without a store has nothing that a rebuild without tiles would remove.
LEMMA SkippedIsImported ==
    ASSUME IInv, NEW n \in Attempts, NEW l \in Layers, SkipGroup(n, l)
    PROVE  Imported(n, l, tiles)
<1>1. \A t \in Tiles : tiles[l][t] = None
    BY DEF IInv, StoresWhole, SkipGroup
<1>2. run[n].rebuild.box \subseteq Tiles
    <2>1. run[n].rebuild \in Rebuilds
        BY DEF IInv, TypeOK, Trees, SkipGroup
    <2> QED
        BY <2>1, IngestAssumption
<1> QED
    BY <1>1, <1>2 DEF SkipGroup, Imported

LEMMA SkipGroupIInv ==
    ASSUME IInv, NEW n \in Attempts, NEW l \in Layers, SkipGroup(n, l) PROVE IInv'
<1>1. Running(n)
    BY DEF SkipGroup, Running, Ended
<1> QED
    BY <1>1, SkippedIsImported, NextGroupIInv DEF SkipGroup

LEMMA OpenStoreIInv ==
    ASSUME IInv, NEW n \in Attempts, NEW l \in Layers,
           OpenStore(n, l) \/ CreateData(n, l)
    PROVE  IInv'
<1> USE DEF IInv
<1>1. /\ Running(n) /\ Group(l) /\ files' \in [Layers -> {"none", "partial", "whole"}]
      /\ files'[l] = "whole" /\ \A k \in Layers : k # l => files'[k] = files[k]
      /\ todo' = Staged(n, l) /\ Goto(n, "write") /\ UNCHANGED <<tiles, run, left>>
    BY DEF OpenStore, CreateData, Running, Ended, TypeOK
<1>2. /\ pc'[n] = "write"
      /\ \A m \in Attempts : m # n => pc'[m] = pc[m] /\ ~Running(m) /\ ~Running(m)'
      /\ RunTyped' /\ OneRunning' /\ StagedTrees' /\ Preflighted' /\ WritersSound'
    <2>1. \A k \in Layers, t \in Tiles : tiles'[k][t] \in {tiles[k][t], n, None}
        BY <1>1
    <2> QED
        BY <1>1, <2>1, RunStep
<1>3. \A k \in Layers : Group(k) => k = l
    BY <1>1, OneGroup DEF TypeOK
<1>4. TypeOK'
    BY <1>1, <1>2 DEF TypeOK, RunTyped, Staged
<1>5. StoresWhole'
    BY <1>1, <1>2, <1>3 DEF StoresWhole, Running, Ended, Group
<1>6. ImportedSoFar'
    BY <1>1, <1>2, <1>3 DEF ImportedSoFar, Imported, Staged, Bounded, Group, TypeOK
<1> QED
    BY <1>2, <1>4, <1>5, <1>6

LEMMA CreateIndexIInv ==
    ASSUME IInv, NEW n \in Attempts, NEW l \in Layers, CreateIndex(n, l) PROVE IInv'
<1> USE DEF IInv
<1>1. /\ Running(n) /\ Group(l) /\ files[l] = "none"
      /\ files' = [files EXCEPT ![l] = "partial"]
      /\ Goto(n, "create") /\ UNCHANGED <<tiles, run, left, todo>>
    BY DEF CreateIndex, Running, Ended
<1>2. /\ pc'[n] = "create"
      /\ \A m \in Attempts : m # n => pc'[m] = pc[m] /\ ~Running(m) /\ ~Running(m)'
      /\ RunTyped' /\ OneRunning' /\ StagedTrees' /\ Preflighted' /\ WritersSound'
    <2>1. \A k \in Layers, t \in Tiles : tiles'[k][t] \in {tiles[k][t], n, None}
        BY <1>1
    <2> QED
        BY <1>1, <2>1, RunStep
<1>3. \A k \in Layers : Group(k) => k = l
    BY <1>1, OneGroup DEF TypeOK
<1>4. TypeOK'
    BY <1>1, <1>2 DEF TypeOK, RunTyped
<1>5. StoresWhole'
    BY <1>1, <1>2, <1>3 DEF StoresWhole, Running, Ended, Group, TypeOK
<1>6. ImportedSoFar'
    BY <1>1, <1>2 DEF ImportedSoFar, Imported, Staged, Bounded
<1> QED
    BY <1>2, <1>4, <1>5, <1>6

LEMMA WriteTileIInv ==
    ASSUME IInv, NEW n \in Attempts, NEW l \in Layers, NEW t \in Tiles, WriteTile(n, l, t)
    PROVE  IInv'
<1> USE DEF IInv
<1>1. /\ Running(n) /\ pc[n] = "write" /\ Group(l) /\ t \in todo
      /\ tiles' = [tiles EXCEPT ![l][t] = n] /\ todo' = todo \ {t}
      /\ UNCHANGED <<files, run, pc, left>>
    BY DEF WriteTile, Running, Ended
<1>2. /\ \A k \in Layers, u \in Tiles : tiles'[k][u] = IF k = l /\ u = t THEN n ELSE tiles[k][u]
      /\ tiles' \in [Layers -> [Tiles -> Attempts \cup {None}]]
    BY <1>1 DEF TypeOK
<1>3. /\ \A m \in Attempts : m # n => ~Running(m) /\ ~Running(m)'
      /\ RunTyped' /\ OneRunning' /\ StagedTrees' /\ Preflighted' /\ WritersSound'
    <2>1. \A k \in Layers, u \in Tiles : tiles'[k][u] \in {tiles[k][u], n, None}
        BY <1>2
    <2>2. Goto(n, "write")
        BY <1>1 DEF Goto, TypeOK
    <2> QED
        BY <1>1, <2>1, <2>2, RunStep
<1>4. \A k \in Layers : Group(k) => k = l
    BY <1>1, OneGroup DEF TypeOK
<1>5. TypeOK'
    BY <1>1, <1>2, <1>3 DEF TypeOK, RunTyped
<1>6. StoresWhole'
    BY <1>1, <1>2 DEF StoresWhole, Group
<1>7. ImportedSoFar'
    <2>1. \A k \in run[n].groups \ left : Imported(n, k, tiles)'
        <3>1. l \in left /\ run[n].groups \subseteq Layers /\ run[n].rebuild.box \subseteq Tiles
            BY <1>1, IngestAssumption DEF Group, TypeOK, Trees
        <3> QED
            BY <1>1, <1>2, <3>1 DEF ImportedSoFar, Imported, Staged, Bounded
    <2>2. todo' \subseteq Staged(n, l) /\ \A u \in Staged(n, l) \ todo' : tiles'[l][u] = n
        BY <1>1, <1>2 DEF ImportedSoFar, Staged, Group
    <2>3. \A k \in left' : Group(k)' => k = l
        BY <1>1, <1>4 DEF Group, TypeOK
    <2>4. \A k \in run'[n].groups \ left' : Imported(n, k, tiles)'
        BY <1>1, <2>1
    <2>5. pc'[n] # "sweep"
        BY <1>1
    <2>6. Staged(n, l)' = Staged(n, l)
        BY <1>1 DEF Staged
    <2> SUFFICES ASSUME NEW m \in Attempts, Running(m)'
                 PROVE  /\ m = n
                        /\ \A k \in run'[m].groups \ left' : Imported(m, k, tiles)'
                        /\ \A k \in left' : Group(k)' =>
                              /\ todo' \subseteq Staged(m, k)'
                              /\ \A u \in Staged(m, k)' \ todo' : tiles'[k][u] = m
                        /\ pc'[m] # "sweep"
        BY DEF ImportedSoFar
    <2> QED
        BY <1>3, <2>2, <2>3, <2>4, <2>5, <2>6
<1> QED
    BY <1>3, <1>5, <1>6, <1>7

\* A run that ends early leaves no run going.
LEMMA EndsEarlyIInv ==
    ASSUME IInv, NEW n \in Attempts, Running(n), NEW label \in {"refused", "dead"},
           Goto(n, label), left' = {}, todo' = {}, UNCHANGED <<files, tiles, run>>
    PROVE  IInv'
<1> USE DEF IInv
<1>1. /\ pc'[n] = label
      /\ \A m \in Attempts : m # n => pc'[m] = pc[m] /\ ~Running(m) /\ ~Running(m)'
      /\ RunTyped' /\ OneRunning' /\ StagedTrees' /\ Preflighted' /\ WritersSound'
    <2>1. \A k \in Layers, t \in Tiles : tiles'[k][t] \in {tiles[k][t], n, None}
        OBVIOUS
    <2> QED
        BY <2>1, RunStep
<1>2. \A m \in Attempts : ~Running(m)'
    BY <1>1 DEF Running, Ended
<1>3. TypeOK'
    BY <1>1 DEF TypeOK, RunTyped
<1>4. StoresWhole' /\ ImportedSoFar'
    BY <1>2 DEF StoresWhole, ImportedSoFar, Running, Ended
<1> QED
    BY <1>1, <1>3, <1>4

LEMMA FindSilentIInv ==
    ASSUME IInv, NEW n \in Attempts, NEW l \in Layers, FindSilent(n, l) PROVE IInv'
<1> USE DEF IInv
<1>1. /\ Running(n) /\ pc[n] = "write" /\ Group(l) /\ l \in left /\ todo = {}
      /\ todo' = WentSilent(n, l) /\ Goto(n, "sweep") /\ UNCHANGED <<files, tiles, run, left>>
    BY DEF FindSilent, Running, Ended, Group
<1>2. /\ pc'[n] = "sweep"
      /\ \A m \in Attempts : m # n => pc'[m] = pc[m] /\ ~Running(m) /\ ~Running(m)'
      /\ RunTyped' /\ OneRunning' /\ StagedTrees' /\ Preflighted' /\ WritersSound'
    <2>1. \A k \in Layers, t \in Tiles : tiles'[k][t] \in {tiles[k][t], n, None}
        BY <1>1
    <2> QED
        BY <1>1, <2>1, RunStep
<1>3. \A k \in Layers : Group(k) => k = l
    BY <1>1, OneGroup DEF TypeOK
<1>4. run[n].rebuild.box \subseteq Tiles
    <2>1. run[n].rebuild \in Rebuilds
        BY <1>1 DEF TypeOK, Trees, Running, Ended
    <2> QED
        BY <2>1, IngestAssumption
<1>5. TypeOK'
    BY <1>1, <1>2, <1>4 DEF TypeOK, RunTyped, WentSilent
<1>6. StoresWhole'
    BY <1>1, <1>2, <1>3 DEF StoresWhole, Group, Running, Ended
<1>7. ImportedSoFar'
    <2>1. \A k \in run[n].groups \ left : Imported(n, k, tiles)'
        BY <1>1 DEF ImportedSoFar, Imported, Staged, Bounded
    <2>2. \A t \in Staged(n, l) : tiles[l][t] = n
        BY <1>1 DEF ImportedSoFar
    <2>3. /\ todo' \subseteq run[n].rebuild.box \ Staged(n, l)
          /\ todo' # {} => Bounded(n, l)
          /\ Bounded(n, l) =>
                \A t \in run[n].rebuild.box \ Staged(n, l) : t \notin todo' => tiles[l][t] = None
        BY <1>1 DEF WentSilent
    <2>4. /\ \A k \in left' : Group(k)' => k = l
          /\ Staged(n, l)' = Staged(n, l) /\ Bounded(n, l)' = Bounded(n, l)
        BY <1>1, <1>3 DEF Group, TypeOK, Staged, Bounded
    <2> QED
        BY <1>1, <1>2, <2>1, <2>2, <2>3, <2>4 DEF ImportedSoFar
<1> QED
    BY <1>2, <1>5, <1>6, <1>7

LEMMA TombstoneIInv ==
    ASSUME IInv, NEW n \in Attempts, NEW l \in Layers, NEW t \in Tiles, Tombstone(n, l, t)
    PROVE  IInv'
<1> USE DEF IInv
<1>1. /\ Running(n) /\ pc[n] = "sweep" /\ Group(l) /\ l \in left /\ t \in todo
      /\ tiles' = [tiles EXCEPT ![l][t] = None] /\ todo' = todo \ {t}
      /\ UNCHANGED <<files, run, pc, left>>
    BY DEF Tombstone, Running, Ended, Group
<1>2. /\ \A k \in Layers, u \in Tiles : tiles'[k][u] = IF k = l /\ u = t THEN None ELSE tiles[k][u]
      /\ tiles' \in [Layers -> [Tiles -> Attempts \cup {None}]]
    BY <1>1 DEF TypeOK
<1>3. /\ \A m \in Attempts : m # n => ~Running(m) /\ ~Running(m)'
      /\ RunTyped' /\ OneRunning' /\ StagedTrees' /\ Preflighted' /\ WritersSound'
    <2>1. \A k \in Layers, u \in Tiles : tiles'[k][u] \in {tiles[k][u], n, None}
        BY <1>2
    <2>2. Goto(n, "sweep")
        BY <1>1 DEF Goto, TypeOK
    <2> QED
        BY <1>1, <2>1, <2>2, RunStep
<1>4. \A k \in Layers : Group(k) => k = l
    BY <1>1, OneGroup DEF TypeOK
<1>5. TypeOK'
    BY <1>1, <1>2, <1>3 DEF TypeOK, RunTyped
<1>6. StoresWhole'
    BY <1>1, <1>2 DEF StoresWhole, Group
<1>7. ImportedSoFar'
    <2>1. run[n].groups \subseteq Layers /\ run[n].rebuild.box \subseteq Tiles
        <3>1. run[n].rebuild \in Rebuilds /\ run[n].groups \subseteq Layers
            BY <1>1 DEF TypeOK, Trees, Running, Ended
        <3> QED
            BY <3>1, IngestAssumption
    <2>2. \A k \in run[n].groups \ left : Imported(n, k, tiles)'
        BY <1>1, <1>2, <2>1 DEF ImportedSoFar, Imported, Staged, Bounded
    <2>3. t \notin Staged(n, l)
        BY <1>1 DEF ImportedSoFar
    <2>4. /\ todo' \subseteq run[n].rebuild.box \ Staged(n, l)
          /\ todo' # {} => Bounded(n, l)
          /\ \A u \in Staged(n, l) : tiles'[l][u] = n
        BY <1>1, <1>2, <2>3 DEF ImportedSoFar, Staged
    <2>5. Bounded(n, l) =>
              \A u \in run[n].rebuild.box \ Staged(n, l) : u \notin todo' => tiles'[l][u] = None
        BY <1>1, <1>2, <2>1 DEF ImportedSoFar
    <2>6. /\ \A k \in left' : Group(k)' => k = l
          /\ Staged(n, l)' = Staged(n, l) /\ Bounded(n, l)' = Bounded(n, l)
          /\ pc'[n] # "write"
        BY <1>1, <1>4 DEF Group, TypeOK, Staged, Bounded
    <2> SUFFICES ASSUME NEW m \in Attempts, Running(m)'
                 PROVE  /\ m = n
                        /\ \A k \in run'[m].groups \ left' : Imported(m, k, tiles)'
                        /\ pc'[m] # "write"
                        /\ \A k \in left' : Group(k)' =>
                              /\ todo' \subseteq run'[m].rebuild.box \ Staged(m, k)'
                              /\ todo' # {} => Bounded(m, k)'
                              /\ \A u \in Staged(m, k)' : tiles'[k][u] = m
                              /\ Bounded(m, k)' =>
                                    \A u \in run'[m].rebuild.box \ Staged(m, k)' :
                                        u \notin todo' => tiles'[k][u] = None
        BY DEF ImportedSoFar
    <2>7. m = n /\ run' = run /\ left' = left
        BY <1>1, <1>3
    <2> QED
        BY <2>2, <2>4, <2>5, <2>6, <2>7
<1> QED
    BY <1>3, <1>5, <1>6, <1>7

\* A group whose sweep has nothing left is imported.
LEMMA SweptIsImported ==
    ASSUME IInv, NEW n \in Attempts, NEW l \in Layers, FinishGroup(n, l)
    PROVE  Imported(n, l, tiles)
<1>1. Running(n) /\ pc[n] = "sweep" /\ Group(l) /\ l \in left /\ todo = {}
    BY DEF FinishGroup, Running, Ended, Group
<1> QED
    BY <1>1 DEF IInv, ImportedSoFar, Imported

LEMMA FinishGroupIInv ==
    ASSUME IInv, NEW n \in Attempts, NEW l \in Layers, FinishGroup(n, l) PROVE IInv'
<1>1. Running(n)
    BY DEF FinishGroup, Running, Ended
<1> QED
    BY <1>1, SweptIsImported, NextGroupIInv DEF FinishGroup

LEMMA NextIInv == ASSUME IInv, [Next]_vars PROVE IInv'
<1>1. CASE UNCHANGED vars
    BY <1>1 DEF vars, IInv, TypeOK, OneRunning, StagedTrees, Preflighted, WritersSound,
                StoresWhole, ImportedSoFar, Imported, Running, Staged, Bounded, Group
<1>2. CASE Next
    <2> PICK n \in Attempts : Step(n)
        BY <1>2 DEF Next
    <2>1. CASE \E rebuild \in Rebuilds : \E loud \in SUBSET Paintable(rebuild) :
                   \E corrupt \in {{}} \cup {{p} : p \in loud} : Stage(n, rebuild, loud, corrupt)
        BY <2>1, StageIInv
    <2>2. CASE Start(n)
        BY <2>2, StartIInv
    <2>3. ASSUME NEW l \in Layers, SkipGroup(n, l) \/ FinishGroup(n, l) PROVE IInv'
        BY <2>3, SkipGroupIInv, FinishGroupIInv
    <2>4. ASSUME NEW l \in Layers, OpenStore(n, l) \/ CreateData(n, l) \/ CreateIndex(n, l)
          PROVE  IInv'
        BY <2>4, OpenStoreIInv, CreateIndexIInv
    <2>5. ASSUME NEW l \in Layers, NEW t \in Tiles, WriteTile(n, l, t) \/ Tombstone(n, l, t)
          PROVE  IInv'
        BY <2>5, WriteTileIInv, TombstoneIInv
    <2>6. ASSUME NEW l \in Layers, FindSilent(n, l) PROVE IInv'
        BY <2>6, FindSilentIInv
    <2>7. CASE Die(n) \/ \E l \in Layers, t \in Tiles : WriteRefused(n, l, t)
        BY <2>7, EndsEarlyIInv DEF Die, WriteRefused, Running, Ended
    <2> QED
        BY <2>1, <2>2, <2>3, <2>4, <2>5, <2>6, <2>7 DEF Step
<1> QED
    BY <1>1, <1>2

LEMMA SpecIInv == Spec => []IInv
    BY InitIInv, NextIInv, PTL DEF Spec
------------------------------------------------------------------------------
(* What a single step does, given the invariant *)

\* A run ends well only by leaving its last group, which is imported by then.
LEMMA FinishesImported ==
    ASSUME IInv, Next, NEW n \in Attempts, Finishes(n)
    PROVE  \A k \in run[n].groups : Imported(n, k, tiles')
<1> PICK m \in Attempts : Step(m)
    BY DEF Next
<1> USE DEF IInv
<1>1. PICK l \in Layers : (SkipGroup(m, l) \/ FinishGroup(m, l)) /\ left = {l} /\ m = n
    <2>1. ASSUME NEW l \in Layers, SkipGroup(m, l) \/ FinishGroup(m, l)
          PROVE  left = {l} /\ m = n
        <3>1. CASE m = n
            BY <2>1, <3>1 DEF SkipGroup, FinishGroup, NextGroup, Goto, TypeOK, Finishes
        <3>2. CASE m # n
            <4>1. pc'[n] = pc[n]
                BY <2>1, <3>2 DEF SkipGroup, FinishGroup, NextGroup, Goto, TypeOK
            <4> QED
                BY <4>1 DEF Finishes
        <3> QED
            BY <3>1, <3>2
    <2>2. ASSUME NEW label, label # "done", pc' = [pc EXCEPT ![m] = label] PROVE FALSE
        BY <2>2 DEF Finishes, TypeOK
    <2>3. pc' # pc
        BY DEF Finishes
    <2> QED
        BY <2>1, <2>2, <2>3
        DEF Step, Stage, Start, Goto, OpenStore, CreateIndex, CreateData, WriteTile,
            WriteRefused, FindSilent, Tombstone, Die
<1>2. Running(n) /\ Group(l) /\ tiles' = tiles
    BY <1>1 DEF SkipGroup, FinishGroup, Running, Ended
<1>3. Imported(n, l, tiles)
    BY <1>1, SweptIsImported, SkippedIsImported
<1>4. \A k \in run[n].groups \ left : Imported(n, k, tiles)
    BY <1>2 DEF ImportedSoFar
<1> QED
    BY <1>1, <1>2, <1>3, <1>4

\* The preflight has kept the staged tiles within what is declared.
LEMMA StepOnlyTheRebuilt ==
    ASSUME IInv, Next, NEW l \in Layers, NEW t \in Tiles, tiles'[l][t] # tiles[l][t]
    PROVE  \E n \in Attempts :
              /\ pc[n] \notin Ended
              /\ t \in IF Bounded(n, l) THEN run[n].rebuild.box ELSE Staged(n, l)
<1> PICK n \in Attempts : Step(n)
    BY DEF Next
<1> USE DEF IInv
<1>1. PICK k \in Layers, u \in Tiles : WriteTile(n, k, u) \/ Tombstone(n, k, u)
    <2>1. CASE \E rebuild \in Rebuilds : \E loud \in SUBSET Paintable(rebuild) :
                   \E corrupt \in {{}} \cup {{p} : p \in loud} : Stage(n, rebuild, loud, corrupt)
        BY <2>1 DEF Stage
    <2>2. CASE Start(n) \/ Die(n)
        BY <2>2 DEF Start, Die
    <2>3. ASSUME NEW k \in Layers,
                 \/ SkipGroup(n, k) \/ OpenStore(n, k) \/ CreateIndex(n, k) \/ CreateData(n, k)
                 \/ FindSilent(n, k) \/ FinishGroup(n, k)
                 \/ \E u \in Tiles : WriteRefused(n, k, u)
          PROVE  FALSE
        BY <2>3 DEF SkipGroup, OpenStore, CreateIndex, CreateData, FindSilent, FinishGroup,
                    WriteRefused
    <2> QED
        BY <2>1, <2>2, <2>3 DEF Step
<1>2. /\ Running(n) /\ Group(k) /\ k \in left /\ u \in todo /\ k \in run[n].groups
      /\ WriteTile(n, k, u) => pc[n] = "write"
      /\ Tombstone(n, k, u) => pc[n] = "sweep"
    BY <1>1 DEF WriteTile, Tombstone, Running, Ended, Group, Preflighted
<1>3. k = l /\ u = t
    BY <1>1 DEF WriteTile, Tombstone, TypeOK
<1>4. CASE WriteTile(n, k, u)
    <2>1. u \in Staged(n, k)
        BY <1>2, <1>4 DEF WriteTile, ImportedSoFar
    <2>2. Bounded(n, k) => u \in run[n].rebuild.box
        BY <1>2, <2>1 DEF Preflighted
    <2> QED
        BY <1>2, <1>3, <2>1, <2>2 DEF Running
<1>5. CASE Tombstone(n, k, u)
    <2>1. Bounded(n, k) /\ u \in run[n].rebuild.box
        BY <1>2, <1>5 DEF Tombstone, ImportedSoFar
    <2> QED
        BY <1>2, <1>3, <2>1 DEF Running
<1> QED
    BY <1>1, <1>4, <1>5
------------------------------------------------------------------------------
(* The theorems *)

\* TypeOK holds of every run, whatever the rebuilds asked for.
THEOREM TypeCorrect == Spec => []TypeOK
<1>1. IInv => TypeOK
    BY DEF IInv
<1> QED
    BY <1>1, SpecIInv, PTL

\* preflight_ingest keeps a push with a corrupt blob from writing any tile: the
\* writer of a tile had nothing corrupt staged.
THEOREM CorruptPushWritesNothing == Spec => []CorruptWritesNothing
<1>1. IInv => CorruptWritesNothing
    BY AttemptNumbers DEF IInv, WritersSound, CorruptWritesNothing
<1> QED
    BY <1>1, SpecIInv, PTL

\* A run that ends well has imported all its groups, whatever runs before it
\* left half done.
THEOREM RunsImport == Spec => IngestedAsStaged
<1>1. ASSUME IInv, [Next]_vars
      PROVE  [\A n \in Attempts : Finishes(n) =>
                 \A l \in run[n].groups : Imported(n, l, tiles')]_vars
    <2>1. CASE UNCHANGED vars
        BY <2>1
    <2>2. CASE Next
        BY <2>2, <1>1, FinishesImported
    <2> QED
        BY <1>1, <2>1, <2>2
<1> QED
    BY <1>1, SpecIInv, PTL DEF Spec, IngestedAsStaged

\* No run changes a tile outside of its box or scope, or, where none is
\* declared, one that it has not staged.
THEOREM OnlyRebuiltChanges == Spec => OnlyTheRebuilt
<1>1. ASSUME IInv, [Next]_vars
      PROVE  [\A l \in Layers, t \in Tiles : tiles'[l][t] # tiles[l][t] =>
                 \E n \in Attempts :
                    /\ pc[n] \notin Ended
                    /\ t \in IF Bounded(n, l) THEN run[n].rebuild.box ELSE Staged(n, l)]_vars
    <2>1. CASE UNCHANGED vars
        BY <2>1
    <2>2. CASE Next
        BY <2>2, <1>1, StepOnlyTheRebuilt
    <2> QED
        BY <1>1, <2>1, <2>2
<1> QED
    BY <1>1, SpecIInv, PTL DEF Spec, OnlyTheRebuilt
=============================================================================
