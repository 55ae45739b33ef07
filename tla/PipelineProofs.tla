--------------------------- MODULE PipelineProofs ---------------------------
(***************************************************************************)
(* Proofs about the enrichment pipeline: the lock of an Arrow file, and    *)
(* the runner of the enrichment chain.                                     *)
(*                                                                         *)
(* The lock is proved for any number of writers and of processes killed    *)
(* at any step, and any registry: mutual exclusion and no lost update      *)
(* while recoveries are lone, that is while no two waiters go at once for  *)
(* a lock without a pid and no live reaper's file is unlinked.  Without    *)
(* that condition neither holds (ArrowOrphan.cfg, ArrowReapers.cfg).  The  *)
(* runner's gate, stamps and order are proved for any manifests, feeds,    *)
(* scopes and violations and any number of runs.                           *)
(***************************************************************************)
EXTENDS ArrowLock, ChainRunner, FiniteSetTheorems, SequenceTheorems, TLAPS

---------------------------------------------------------------------------
(* The lock of an Arrow file *)

Owning == {"writePid", "load", "openTmp", "writeTmp", "rename", "release", "unlinkOwn"}
HoldsReap == {"reapPid", "recheck", "unlinkLock", "unreap"}

Typed ==
    /\ lock \in LockFile /\ reap \in LockFile
    /\ seen = [w \in Writer |-> seen[w]]
    /\ buf = [w \in Writer |-> buf[w]]
    /\ alive \in [Writer -> BOOLEAN]
    /\ pc \in [Writer -> Location]
    /\ row \in Registered \cup {Unspecified}

\* The lockfile carries the writer that created it: empty before its pid, then its pid.
LockInv ==
    /\ \A w \in Writer : alive[w] /\ pc[w] \in Owning =>
          lock.by = w /\ lock.body = IF pc[w] = "writePid" THEN Empty ELSE w
    /\ lock.body = Empty => lock.by \in Writer /\ pc[lock.by] = "writePid"
    /\ lock.old => lock.body = Empty /\ ~alive[lock.by]

\* A lock whose creator died before the pid was written.
Orphan == lock.body = Empty /\ ~alive[lock.by]

\* What a live waiter is about to remove is a dead writer's lock, or an orphan that it
\* alone goes for.
Condemned(w) ==
    \/ seen[w] \in Writer /\ ~alive[seen[w]]
    \/ seen[w] = Empty /\ Orphan

\* Live reapers exclude each other, and remove the lock they condemned.
ReapInv ==
    /\ \A w \in Writer : alive[w] /\ pc[w] \in HoldsReap => reap.by = w
    /\ \A w \in Writer : alive[w] /\ pc[w] \in Removing => Condemned(w)
    /\ \A w \in Writer : alive[w] /\ pc[w] = "unlinkLock" => lock.body = seen[w]
    /\ \A v, w \in Writer : TakesOrphan(v) /\ TakesOrphan(w) => v = w

\* A writer inside works on the row it read, and one that has left finds its claim.
Serves(w) == row = Claim[w] \/ (row \in Registered /\ Outranks(row, Claim[w]))
RowInv ==
    \A w \in Writer :
        /\ alive[w] /\ pc[w] \in {"openTmp", "writeTmp", "rename"} =>
              /\ buf[w] = Claim[w]
              /\ row = Unspecified \/ ShouldOverwrite(row, Claim[w])
        /\ alive[w] /\ pc[w] = "rename" => tmp = Claim[w]
        /\ pc[w] \in {"release", "unlinkOwn", "done"} => Serves(w)

IInv == Typed /\ LockInv /\ ReapInv /\ RowInv
LoneInv == LoneRecovery => IInv

--------------------------------------------------------------------------

LEMMA Names ==
    /\ Nobody \notin Writer /\ Empty \notin Writer /\ Nobody # Empty
    /\ \A w \in Writer : Claim[w] \in Registered
    /\ Unspecified \notin Registered /\ Nobody \notin Registered
BY LockAssumption, RegistryAssumption DEF Unspecified

\* Of two registered ids the gate lets the one through that is the other or
\* outranks it, and outranking is transitive.
LEMMA Arbitration ==
    /\ \A old, new \in Registered :
          IF ShouldOverwrite(old, new) THEN old = new \/ Outranks(new, old) ELSE Outranks(old, new)
    /\ \A i, j, k \in Registered : Outranks(i, j) /\ Outranks(j, k) => Outranks(i, k)
<1>1. \A i \in Registered : Rank[i] \in Int /\ Year[i] \in Int /\ Year[i] # 0 /\ i \in Int /\ i # 0
  BY RegistryAssumption, YearsAssumption
<1>2. ASSUME NEW i \in Registered, NEW j \in Registered
      PROVE  Outranks(i, j) <=>
                \/ Rank[i] > Rank[j]
                \/ Rank[i] = Rank[j] /\ Year[i] > Year[j]
                \/ Rank[i] = Rank[j] /\ Year[i] = Year[j] /\ i > j
  BY <1>1, SMT DEF Outranks
<1>3. ASSUME NEW old \in Registered, NEW new \in Registered
      PROVE  ShouldOverwrite(old, new) <=> old = new \/ Outranks(new, old)
  BY <1>1 DEF ShouldOverwrite, Unspecified
<1>4. ASSUME NEW i \in Registered, NEW j \in Registered, i # j
      PROVE  Outranks(i, j) \/ Outranks(j, i)
  BY <1>1, <1>2, <1>4, SMT
<1>5. ASSUME NEW i \in Registered, NEW j \in Registered, NEW k \in Registered, Outranks(i, j), Outranks(j, k)
      PROVE  Outranks(i, k)
  BY <1>1, <1>2, <1>5, SMT
<1> QED BY <1>3, <1>4, <1>5

LEMMA LockFiles ==
    /\ NoFile \in LockFile /\ \A w \in Writer : Fresh(w) \in LockFile
    /\ NoFile.by = Nobody /\ NoFile.body = Nobody /\ ~NoFile.old
    /\ \A w \in Writer : Fresh(w).by = w /\ Fresh(w).body = Empty /\ ~Fresh(w).old
<1>1. NoFile \in LockFile /\ \A w \in Writer : Fresh(w) \in LockFile
  BY DEF NoFile, Fresh, LockFile
<1>2. /\ NoFile.by = Nobody /\ NoFile.body = Nobody /\ ~NoFile.old
      /\ \A w \in Writer : Fresh(w).by = w /\ Fresh(w).body = Empty /\ ~Fresh(w).old
  BY DEF NoFile, Fresh
<1> QED BY <1>1, <1>2

\* Of two live processes that own the lock, or that hold the reap file, both are one.
LEMMA OneOwner ==
    ASSUME IInv, NEW v \in Writer, NEW w \in Writer, alive[v], alive[w],
           pc[v] \in Owning, pc[w] \in Owning
    PROVE  v = w
BY DEF IInv, LockInv

LEMMA Initially == Init => IInv
<1> SUFFICES ASSUME Init PROVE IInv
  OBVIOUS
<1>1. Typed
  BY DEF Init, Typed, LockFile, NoFile, Location, Unspecified
<1>2. RowInv
  BY DEF Init, RowInv
<1>3. LockInv /\ ReapInv
  BY Names DEF Init, LockInv, ReapInv, NoFile, Owning, Removing, HoldsReap, TakesOrphan
<1> QED BY <1>1, <1>2, <1>3 DEF IInv

\* A step of a live process.
LEMMA PcMoves ==
    ASSUME Typed, NEW w \in Writer, NEW from, NEW to \in Location, Moves(w, from, to)
    PROVE  /\ alive[w] /\ pc[w] = from /\ alive' = alive
           /\ \A v \in Writer : pc'[v] = IF v = w THEN to ELSE pc[v]
           /\ pc' \in [Writer -> Location]
BY DEF Typed, Moves, life

\* A step of the waiting loop that leaves the lock, the reap file and the data alone.
LEMMA LooksKeep ==
    ASSUME IInv, NEW w \in Writer, NEW from, NEW to \in Location, Moves(w, from, to),
           UNCHANGED <<lock, reap, files>>,
           seen' = [v \in Writer |-> seen'[v]],
           \A v \in Writer \ {w} : seen'[v] = seen[v],
           from \in {"create", "read", "judge", "reap", "readReap", "judgeReap", "recheck"},
           to \in {"create", "read", "judge", "reap", "readReap", "judgeReap", "unlinkReap",
                   "unlinkLock", "unreap", "failed"},
           to \in Removing => Condemned(w)',
           to \in HoldsReap => reap.by = w,
           to = "unlinkLock" => lock.body = seen'[w],
           to \in Removing /\ seen'[w] = Empty => \A v \in Writer \ {w} : ~TakesOrphan(v)
    PROVE  IInv'
<1>1. /\ alive[w] /\ pc[w] = from /\ alive' = alive
      /\ \A v \in Writer : pc'[v] = IF v = w THEN to ELSE pc[v]
      /\ pc' \in [Writer -> Location]
  BY PcMoves DEF IInv
<1>2. Typed'
  BY <1>1 DEF IInv, Typed, files
<1>3. LockInv'
  <2>1. \A v \in Writer : pc'[v] \in Owning => pc'[v] = pc[v]
    BY <1>1 DEF Owning
  <2>2. lock.body = Empty => pc'[lock.by] = "writePid"
    BY <1>1 DEF IInv, LockInv
  <2> QED BY <1>1, <2>1, <2>2 DEF IInv, LockInv
<1>4. ReapInv'
  <2>1. \A v \in Writer \ {w} : (TakesOrphan(v)' <=> TakesOrphan(v)) /\ (Condemned(v)' <=> Condemned(v))
    BY <1>1 DEF TakesOrphan, Condemned, Orphan
  <2>2. \A u, v \in Writer : TakesOrphan(u)' /\ TakesOrphan(v)' => u = v
    <3>1. TakesOrphan(w)' => \A v \in Writer \ {w} : ~TakesOrphan(v)'
      BY <1>1, <2>1 DEF TakesOrphan
    <3> QED BY <2>1, <3>1 DEF IInv, ReapInv
  <2>3. \A v \in Writer : alive'[v] /\ pc'[v] \in Removing => Condemned(v)'
    BY <1>1, <2>1 DEF IInv, ReapInv
  <2> QED BY <1>1, <2>2, <2>3 DEF IInv, ReapInv, HoldsReap
<1>5. RowInv'
  BY <1>1 DEF IInv, RowInv, files, Serves
<1> QED BY <1>2, <1>3, <1>4, <1>5 DEF IInv

LEMMA LookingKeeps ==
    ASSUME IInv, LoneRecovery', NEW w \in Writer,
           \/ CreateExists(w) \/ Read(w) \/ Judge(w) \/ CreateReapExists(w)
           \/ ReadReap(w) \/ JudgeReap(w) \/ Recheck(w) \/ GiveUp(w)
    PROVE  IInv'
<1>1. CASE CreateExists(w)
  BY <1>1, LooksKeep DEF CreateExists, Goes, Location, Removing, HoldsReap, IInv, Typed
<1>2. CASE GiveUp(w)
  BY <1>2, LooksKeep DEF GiveUp, Goes, Location, Removing, HoldsReap, IInv, Typed
<1>3. CASE Read(w)
  BY <1>3, LooksKeep DEF Read, Goes, Location, Removing, HoldsReap, IInv, Typed
<1>4. CASE Judge(w)
  <2>1. CASE ~HolderDead(seen[w], lock)
    BY <1>4, <2>1, LooksKeep DEF Judge, Location, Removing, HoldsReap, IInv, Typed
  <2>2. CASE HolderDead(seen[w], lock)
    <3>1. Moves(w, "judge", "reap") /\ UNCHANGED <<lock, reap, seen, files>> /\ alive' = alive
      BY <1>4, <2>2 DEF Judge, Moves, life
    <3>2. Condemned(w)'
      BY <2>2, <3>1 DEF HolderDead, Condemned, Orphan, IInv, LockInv
    <3>3. seen[w] = Empty => \A v \in Writer : ~TakesOrphan(v)
      BY <1>4, <2>2 DEF Judge, LoneRecovery
    <3> QED BY <3>1, <3>2, <3>3, LooksKeep DEF Location, Removing, HoldsReap, IInv, Typed
  <2> QED BY <2>1, <2>2
<1>5. CASE CreateReapExists(w)
  BY <1>5, LooksKeep DEF CreateReapExists, Goes, Location, Removing, HoldsReap, IInv, Typed
<1>6. CASE ReadReap(w)
  BY <1>6, LooksKeep DEF ReadReap, Goes, Location, Removing, HoldsReap, IInv, Typed
<1>7. CASE JudgeReap(w)
  BY <1>7, LooksKeep DEF JudgeReap, Goes, Location, Removing, HoldsReap, IInv, Typed
<1>8. CASE Recheck(w)
  <2>1. /\ Moves(w, "recheck", IF lock.body = seen[w] THEN "unlinkLock" ELSE "unreap")
        /\ UNCHANGED <<lock, reap, seen, files>> /\ alive' = alive
        /\ alive[w] /\ pc[w] = "recheck"
    BY <1>8 DEF Recheck, Goes, Moves, life
  <2>2. Condemned(w)' /\ reap.by = w
    BY <2>1 DEF IInv, ReapInv, Removing, HoldsReap, Condemned, Orphan
  <2>3. seen[w] = Empty => \A v \in Writer \ {w} : ~TakesOrphan(v)
    BY <2>1 DEF IInv, ReapInv, TakesOrphan, Removing
  <2>4. CASE lock.body = seen[w]
    BY <2>1, <2>2, <2>3, <2>4, LooksKeep DEF Location, Removing, HoldsReap, IInv, Typed
  <2>5. CASE lock.body # seen[w]
    BY <2>1, <2>2, <2>3, <2>5, LooksKeep DEF Location, Removing, HoldsReap, IInv, Typed
  <2> QED BY <2>4, <2>5
<1> QED BY <1>1, <1>2, <1>3, <1>4, <1>5, <1>6, <1>7, <1>8

--------------------------------------------------------------------------
(* The reap file *)

\* A waiter unlinks the reap file under the hands of no live reaper while recoveries are
\* lone; the other steps are the holder's own.
LEMMA ReapFileKeeps ==
    ASSUME IInv, LoneRecovery', NEW w \in Writer,
           CreateReap(w) \/ WriteReapPid(w) \/ Unreap(w) \/ UnlinkReap(w)
    PROVE  IInv'
<1>1. UNCHANGED <<lock, seen, files>>
  BY DEF CreateReap, WriteReapPid, Unreap, UnlinkReap
<1>2. PICK from \in {"reap", "reapPid", "unreap", "unlinkReap"}, to \in {"reapPid", "recheck", "create"} :
        /\ Moves(w, from, to)
        /\ from = "reap" => CreateReap(w) /\ to = "reapPid"
        /\ from = "reapPid" => WriteReapPid(w) /\ to = "recheck"
        /\ from = "unreap" => Unreap(w) /\ to = "create"
        /\ from = "unlinkReap" => UnlinkReap(w) /\ to = "create"
  BY DEF CreateReap, WriteReapPid, Unreap, UnlinkReap, Goes
<1>3. /\ alive[w] /\ pc[w] = from /\ alive' = alive
      /\ \A v \in Writer : pc'[v] = IF v = w THEN to ELSE pc[v]
      /\ pc' \in [Writer -> Location]
  BY <1>2, PcMoves DEF IInv, Location
<1>4. LockInv'
  <2>1. \A v \in Writer : pc'[v] \in Owning => pc'[v] = pc[v]
    BY <1>3 DEF Owning
  <2>2. lock.body = Empty => pc'[lock.by] = "writePid"
    BY <1>3 DEF IInv, LockInv
  <2> QED BY <1>1, <1>3, <2>1, <2>2 DEF IInv, LockInv
<1>5. RowInv'
  BY <1>1, <1>3 DEF IInv, RowInv, files, Serves
<1>6. \A v \in Writer \ {w} : alive[v] /\ pc[v] \in HoldsReap => reap'.by = v
  <2>1. CASE from = "reap"
    BY <1>2, <2>1, Names, LockFiles DEF CreateReap, IInv, ReapInv
  <2>2. CASE from \in {"reapPid", "unreap"}
    BY <1>3, <2>2 DEF IInv, ReapInv, HoldsReap
  <2>3. CASE from = "unlinkReap"
    BY <1>2, <1>3, <2>3 DEF UnlinkReap, LoneRecovery, IInv, ReapInv
  <2> QED BY <2>1, <2>2, <2>3
<1>7. to \in HoldsReap => reap'.by = w
  <2>1. CASE from = "reap"
    BY <1>2, <2>1, LockFiles DEF CreateReap
  <2>2. CASE from = "reapPid"
    <3>1. reap.by = w /\ reap \in LockFile
      BY <1>3, <2>2 DEF IInv, Typed, ReapInv, HoldsReap
    <3> QED BY <1>2, <2>2, <3>1 DEF WriteReapPid, LockFile
  <2> QED BY <1>2, <2>1, <2>2 DEF HoldsReap
<1>8. reap' \in LockFile
  <2>1. CASE from = "reapPid"
    BY <1>2, <2>1 DEF WriteReapPid, LockFile, IInv, Typed
  <2>2. CASE from # "reapPid"
    BY <1>2, <2>2, LockFiles DEF CreateReap, Unreap, UnlinkReap
  <2> QED BY <2>1, <2>2
<1>9. ReapInv'
  <2>1. \A v \in Writer : Condemned(v)' <=> Condemned(v)
    BY <1>1, <1>3 DEF Condemned, Orphan
  <2>2. \A v \in Writer : pc'[v] \in Removing => pc[v] \in Removing
    BY <1>2, <1>3 DEF Removing
  <2>3. \A v \in Writer : TakesOrphan(v)' => TakesOrphan(v)
    BY <1>1, <1>3, <2>2 DEF TakesOrphan
  <2>4. \A v \in Writer : pc'[v] = "unlinkLock" => v # w /\ pc[v] = "unlinkLock"
    BY <1>2, <1>3
  <2>5. \A v \in Writer : alive'[v] /\ pc'[v] \in HoldsReap => reap'.by = v
    BY <1>3, <1>6, <1>7
  <2> QED BY <1>1, <1>3, <2>1, <2>2, <2>3, <2>4, <2>5 DEF IInv, ReapInv
<1>10. Typed'
  BY <1>1, <1>3, <1>8 DEF IInv, Typed, files
<1> QED BY <1>4, <1>5, <1>9, <1>10 DEF IInv

--------------------------------------------------------------------------
(* The lockfile *)

\* What every step that moves the lock and nothing else keeps.  It spares the lock that
\* some other live waiter has condemned.
LEMMA LockFileKeeps ==
    ASSUME IInv, NEW w \in Writer, NEW from, NEW to, Goes(w, from, to),
           UNCHANGED <<reap, seen, files>>, lock' \in LockFile, LockInv',
           \/ from = "create" /\ to = "writePid"
           \/ from = "writePid" /\ to = "load"
           \/ from = "unlinkLock" /\ to = "unreap"
           \/ from = "unlinkOwn" /\ to = "done",
           ~Orphan \/ lock' = lock \/ TakesOrphan(w),
           \A v \in Writer \ {w} : alive[v] /\ pc[v] = "unlinkLock" => lock'.body = lock.body
    PROVE  IInv'
<1>1. /\ alive[w] /\ pc[w] = from /\ alive' = alive
      /\ \A v \in Writer : pc'[v] = IF v = w THEN to ELSE pc[v]
      /\ pc' \in [Writer -> Location]
  BY PcMoves DEF IInv, Location, Goes
<1>2. Typed'
  BY <1>1 DEF IInv, Typed, files
<1>3. ReapInv'
  <2>1. \A v \in Writer : pc'[v] \in Removing => v # w /\ pc[v] \in Removing
    BY <1>1 DEF Removing
  <2>2. ASSUME NEW v \in Writer, alive'[v], pc'[v] \in Removing
        PROVE  Condemned(v)'
    <3>1. v # w /\ alive[v] /\ pc[v] \in Removing /\ Condemned(v)
      BY <1>1, <2>1, <2>2 DEF IInv, ReapInv
    <3>2. CASE seen[v] \in Writer /\ ~alive[seen[v]]
      BY <1>1, <3>2 DEF Condemned
    <3>3. CASE seen[v] = Empty /\ Orphan
      <4>1. lock' = lock
        BY <3>1, <3>3 DEF TakesOrphan, IInv, ReapInv
      <4> QED BY <1>1, <3>3, <4>1 DEF Condemned, Orphan
    <3> QED BY <3>1, <3>2, <3>3 DEF Condemned
  <2>3. \A v \in Writer : TakesOrphan(v)' => TakesOrphan(v)
    BY <1>1, <2>1 DEF TakesOrphan
  <2>4. \A v \in Writer : alive'[v] /\ pc'[v] \in HoldsReap => reap'.by = v
    BY <1>1 DEF IInv, ReapInv, HoldsReap
  <2>5. \A v \in Writer : alive'[v] /\ pc'[v] = "unlinkLock" => lock'.body = seen'[v]
    BY <1>1 DEF IInv, ReapInv
  <2> QED BY <2>2, <2>3, <2>4, <2>5 DEF IInv, ReapInv
<1>4. RowInv'
  BY <1>1 DEF IInv, RowInv, files, Serves
<1> QED BY <1>2, <1>3, <1>4 DEF IInv

LEMMA CreateKeeps == ASSUME IInv, NEW w \in Writer, Create(w) PROVE IInv'
<1>1. /\ lock = NoFile /\ Goes(w, "create", "writePid") /\ lock' = Fresh(w)
      /\ UNCHANGED <<reap, seen, files>>
  BY DEF Create
<1>2. /\ alive[w] /\ alive' = alive
      /\ \A v \in Writer : pc'[v] = IF v = w THEN "writePid" ELSE pc[v]
  BY <1>1, PcMoves DEF IInv, Location, Goes
<1>3. lock.by = Nobody /\ lock.body = Nobody
  BY <1>1, LockFiles
<1>4. \A v \in Writer : alive[v] => pc[v] \notin Owning
  BY <1>3, Names DEF IInv, LockInv
<1>5. lock'.by = w /\ lock'.body = Empty /\ ~lock'.old /\ lock' \in LockFile
  BY <1>1, LockFiles
<1>6. LockInv'
  <2>1. ASSUME NEW v \in Writer, alive[v], pc'[v] \in Owning
        PROVE  v = w
    BY <1>2, <1>4, <2>1
  <2>2. lock'.by \in Writer /\ pc'[lock'.by] = "writePid"
    BY <1>2, <1>5
  <2> QED BY <1>2, <1>5, <2>1, <2>2 DEF LockInv
<1>7. ~Orphan
  BY <1>3, Names DEF Orphan
<1>8. \A v \in Writer : alive[v] => pc[v] # "unlinkLock"
  BY <1>3, <1>7, Names DEF IInv, ReapInv, Removing, Condemned
<1> QED BY <1>1, <1>5, <1>6, <1>7, <1>8, LockFileKeeps

LEMMA WritePidKeeps == ASSUME IInv, NEW w \in Writer, WritePid(w) PROVE IInv'
<1>1. /\ Goes(w, "writePid", "load")
      /\ lock' = IF lock.by = w THEN [lock EXCEPT !.body = w, !.old = FALSE] ELSE lock
      /\ UNCHANGED <<reap, seen, files>>
  BY DEF WritePid
<1>2. /\ alive[w] /\ pc[w] = "writePid" /\ alive' = alive
      /\ \A v \in Writer : pc'[v] = IF v = w THEN "load" ELSE pc[v]
  BY <1>1, PcMoves DEF IInv, Location, Goes
<1>3. lock.by = w /\ lock.body = Empty /\ lock \in LockFile
  BY <1>2 DEF IInv, Typed, LockInv, Owning
<1>4. lock' = [lock EXCEPT !.body = w, !.old = FALSE]
  BY <1>1, <1>3
<1>5. lock'.by = w /\ lock'.body = w /\ ~lock'.old
  BY <1>3, <1>4 DEF LockFile
<1>6. lock' \in LockFile
  BY <1>3, <1>4 DEF LockFile
<1>7. LockInv'
  <2>1. ASSUME NEW v \in Writer, alive[v], pc'[v] \in Owning
        PROVE  v = w
    BY <1>2, <2>1, OneOwner DEF Owning
  <2> QED BY <1>2, <1>5, <2>1, Names DEF LockInv
<1>8. ~Orphan
  BY <1>2, <1>3 DEF Orphan
<1>9. \A v \in Writer : alive[v] => pc[v] # "unlinkLock"
  BY <1>3, <1>8, Names DEF IInv, ReapInv, Removing, Condemned
<1> QED BY <1>1, <1>6, <1>7, <1>8, <1>9, LockFileKeeps

\* Whatever a reaper unlinks belongs to the dead, and no other waiter goes for it as well
\* unless it carries a pid.
LEMMA UnlinkLockKeeps == ASSUME IInv, NEW w \in Writer, UnlinkLock(w) PROVE IInv'
<1>1. /\ Goes(w, "unlinkLock", "unreap") /\ lock' = NoFile
      /\ UNCHANGED <<reap, seen, files>>
  BY DEF UnlinkLock
<1>2. /\ alive[w] /\ pc[w] = "unlinkLock" /\ alive' = alive
      /\ \A v \in Writer : pc'[v] = IF v = w THEN "unreap" ELSE pc[v]
  BY <1>1, PcMoves DEF IInv, Location, Goes
<1>3. Condemned(w) /\ lock.body = seen[w]
  BY <1>2 DEF IInv, ReapInv, Removing
<1>4. \A v \in Writer : alive[v] => pc[v] \notin Owning
  BY <1>3, Names DEF IInv, LockInv, Condemned, Orphan
<1>5. lock'.by = Nobody /\ lock'.body = Nobody /\ ~lock'.old /\ lock' \in LockFile
  BY <1>1, LockFiles
<1>6. LockInv'
  <2>1. \A v \in Writer : alive[v] => pc'[v] \notin Owning
    BY <1>2, <1>4 DEF Owning
  <2> QED BY <1>2, <1>5, <2>1, Names DEF LockInv
<1>7. \A v \in Writer \ {w} : alive[v] => pc[v] # "unlinkLock"
  BY <1>2 DEF IInv, ReapInv, HoldsReap
<1>8. ~Orphan \/ TakesOrphan(w)
  BY <1>2, <1>3 DEF Orphan, TakesOrphan, Removing
<1> QED BY <1>1, <1>5, <1>6, <1>7, <1>8, LockFileKeeps

LEMMA UnlinkOwnKeeps == ASSUME IInv, NEW w \in Writer, UnlinkOwn(w) PROVE IInv'
<1>1. /\ Goes(w, "unlinkOwn", "done") /\ lock' = NoFile
      /\ UNCHANGED <<reap, seen, files>>
  BY DEF UnlinkOwn
<1>2. /\ alive[w] /\ pc[w] = "unlinkOwn" /\ alive' = alive
      /\ \A v \in Writer : pc'[v] = IF v = w THEN "done" ELSE pc[v]
  BY <1>1, PcMoves DEF IInv, Location, Goes
<1>3. lock.body = w
  BY <1>2 DEF IInv, LockInv, Owning
<1>4. lock'.by = Nobody /\ lock'.body = Nobody /\ ~lock'.old /\ lock' \in LockFile
  BY <1>1, LockFiles
<1>5. LockInv'
  <2>1. \A v \in Writer : alive[v] => pc'[v] \notin Owning
    BY <1>2, OneOwner DEF Owning
  <2> QED BY <1>2, <1>4, <2>1, Names DEF LockInv
<1>6. ~Orphan
  BY <1>3, Names DEF Orphan
<1>7. \A v \in Writer : alive[v] => pc[v] # "unlinkLock"
  BY <1>2, <1>3, <1>6 DEF IInv, ReapInv, Removing, Condemned
<1> QED BY <1>1, <1>4, <1>5, <1>6, <1>7, LockFileKeeps

--------------------------------------------------------------------------
(* The row *)

\* A registered id that replaces the row serves whoever the row served.
LEMMA ServesOn ==
    ASSUME IInv, NEW v \in Writer, NEW w \in Writer, Serves(v),
           row = Unspecified \/ ShouldOverwrite(row, Claim[w]), row' = Claim[w]
    PROVE  Serves(v)'
<1>1. row \in Registered /\ Claim[w] \in Registered /\ Claim[v] \in Registered
  BY Names DEF Serves
<1>2. ShouldOverwrite(row, Claim[w])
  BY <1>1, Names
<1>3. row = Claim[w] \/ Outranks(Claim[w], row)
  BY <1>1, <1>2, Arbitration
<1>4. Claim[w] = Claim[v] \/ Outranks(Claim[w], Claim[v])
  BY <1>1, <1>3, Arbitration DEF Serves
<1> QED BY <1>1, <1>4 DEF Serves

LEMMA WritingKeeps ==
    ASSUME IInv, NEW w \in Writer,
           Load(w) \/ OpenTmp(w) \/ WriteTmp(w) \/ Rename(w) \/ Release(w)
    PROVE  IInv'
<1>1. UNCHANGED <<lock, reap, seen>>
  BY DEF Load, OpenTmp, WriteTmp, Rename, Release
<1>2. PICK from \in {"load", "openTmp", "writeTmp", "rename", "release"},
           to \in {"openTmp", "writeTmp", "rename", "release", "unlinkOwn"} :
        /\ Goes(w, from, to)
        /\ from = "load" => Load(w) /\ to \in {"openTmp", "release"}
        /\ from = "openTmp" => OpenTmp(w) /\ to = "writeTmp"
        /\ from = "writeTmp" => WriteTmp(w) /\ to = "rename"
        /\ from = "rename" => Rename(w) /\ to = "release"
        /\ from = "release" => Release(w) /\ to = "unlinkOwn"
  <2>1. CASE Release(w)
    <3>1. alive[w] /\ pc[w] = "release"
      BY <2>1 DEF Release, Goes, Moves
    <3>2. lock.body = w
      BY <3>1 DEF IInv, LockInv, Owning
    <3> QED BY <2>1, <3>2 DEF Release
  <2>2. CASE ~Release(w)
    BY <2>2 DEF Load, OpenTmp, WriteTmp, Rename
  <2> QED BY <2>1, <2>2
<1>3. /\ alive[w] /\ pc[w] = from /\ alive' = alive
      /\ \A v \in Writer : pc'[v] = IF v = w THEN to ELSE pc[v]
      /\ pc' \in [Writer -> Location]
  BY <1>2, PcMoves DEF IInv, Location, Goes
<1>4. LockInv'
  <2>1. \A v \in Writer : pc'[v] = "writePid" <=> pc[v] = "writePid"
    BY <1>3
  <2>2. lock.body = Empty => lock.by \in Writer /\ pc'[lock.by] = "writePid"
    BY <1>3, <2>1 DEF IInv, LockInv
  <2>3. \A v \in Writer : pc'[v] \in Owning => pc[v] \in Owning
    BY <1>3 DEF Owning
  <2> QED BY <1>1, <1>3, <2>1, <2>2, <2>3 DEF IInv, LockInv
<1>5. ReapInv'
  <2>1. \A v \in Writer : pc'[v] \in Removing \cup HoldsReap => pc'[v] = pc[v]
    BY <1>2, <1>3 DEF Removing, HoldsReap
  <2>2. \A v \in Writer : (TakesOrphan(v)' => TakesOrphan(v)) /\ (Condemned(v)' <=> Condemned(v))
    BY <1>1, <1>3, <2>1 DEF TakesOrphan, Condemned, Orphan
  <2> QED BY <1>1, <1>3, <2>1, <2>2 DEF IInv, ReapInv, Removing, HoldsReap
<1>6. \A v \in Writer \ {w} : alive[v] => pc'[v] \notin {"openTmp", "writeTmp", "rename"}
  BY <1>3, OneOwner DEF Owning
<1>7. RowInv' /\ row' \in Registered \cup {Unspecified} /\ buf' = [v \in Writer |-> buf'[v]]
  <2>1. CASE from = "load"
    <3>1. PICK wins \in BOOLEAN : wins = (ShouldOverwrite(row, Claim[w]) /\ row # Claim[w])
      OBVIOUS
    <3>2. /\ to = IF wins THEN "openTmp" ELSE "release"
          /\ buf' = [buf EXCEPT ![w] = IF wins THEN Claim[w] ELSE row]
          /\ row' = row /\ tmp' = tmp
      <4>1. pc'[w] = IF wins THEN "openTmp" ELSE "release"
        BY <1>2, <2>1, <3>1 DEF Load, Goes, Moves, IInv, Typed
      <4> QED BY <1>2, <1>3, <2>1, <3>1, <4>1 DEF Load
    <3>3. ~wins => Serves(w)
      <4>1. ASSUME ~wins, row # Claim[w] PROVE row \in Registered /\ Outranks(row, Claim[w])
        <5>1. ~ShouldOverwrite(row, Claim[w])
          BY <3>1, <4>1
        <5>2. row \in Registered
          BY <5>1 DEF ShouldOverwrite, IInv, Typed
        <5> QED BY <5>1, <5>2, Names, Arbitration
      <4> QED BY <4>1 DEF Serves
    <3>4. buf'[w] = (IF wins THEN Claim[w] ELSE row) /\ buf' = [v \in Writer |-> buf'[v]]
      BY <3>2 DEF IInv, Typed
    <3> QED BY <1>3, <1>6, <3>1, <3>2, <3>3, <3>4 DEF IInv, Typed, RowInv, Serves
  <2>2. CASE from = "openTmp" \/ from = "writeTmp" \/ from = "release"
    <3>1. row' = row /\ buf' = buf /\ (from = "writeTmp" => tmp' = buf[w])
      BY <1>2, <2>2 DEF OpenTmp, WriteTmp, Release, files
    <3>2. from \in {"openTmp", "writeTmp"} =>
            buf[w] = Claim[w] /\ (row = Unspecified \/ ShouldOverwrite(row, Claim[w]))
      BY <1>3 DEF IInv, RowInv
    <3>3. from = "release" => Serves(w)
      BY <1>3 DEF IInv, RowInv
    <3> QED BY <1>2, <1>3, <1>6, <2>2, <3>1, <3>2, <3>3 DEF IInv, Typed, RowInv, Serves
  <2>3. CASE from = "rename"
    <3>1. /\ row' = (IF tmp = Nobody THEN row ELSE tmp) /\ buf' = buf
          /\ tmp = Claim[w] /\ (row = Unspecified \/ ShouldOverwrite(row, Claim[w]))
      BY <1>2, <1>3, <2>3 DEF Rename, IInv, RowInv
    <3>2. Serves(w)' /\ row' \in Registered
      BY <3>1, Names DEF Serves
    <3>3. \A v \in Writer : Serves(v) => Serves(v)'
      BY <3>1, ServesOn, Names
    <3> QED BY <1>2, <1>3, <1>6, <2>3, <3>1, <3>2, <3>3 DEF IInv, Typed, RowInv
  <2> QED BY <1>2, <2>1, <2>2, <2>3
<1>8. Typed'
  BY <1>1, <1>3, <1>7 DEF IInv, Typed
<1> QED BY <1>4, <1>5, <1>7, <1>8 DEF IInv

--------------------------------------------------------------------------
(* Time and death *)

LEMMA AgeKeeps == ASSUME IInv, Age PROVE IInv'
<1>1. UNCHANGED <<seen, row, tmp, buf, alive, pc>>
  BY DEF Age, AgeLock, AgeReap, files, life
<1>2. /\ lock'.by = lock.by /\ lock'.body = lock.body /\ lock' \in LockFile
      /\ lock'.old => lock.old \/ Orphan
  BY DEF Age, AgeLock, AgeReap, Orphan, IInv, Typed, LockFile
<1>3. reap'.by = reap.by /\ reap' \in LockFile
  BY DEF Age, AgeLock, AgeReap, IInv, Typed, LockFile
<1>4. Typed'
  BY <1>1, <1>2, <1>3 DEF IInv, Typed
<1>5. LockInv'
  BY <1>1, <1>2 DEF Orphan, IInv, LockInv
<1>6. ReapInv' /\ RowInv'
  BY <1>1, <1>2, <1>3 DEF IInv, ReapInv, TakesOrphan, Condemned, Orphan, RowInv, Serves
<1> QED BY <1>4, <1>5, <1>6 DEF IInv

\* Who dies stays what it is for the others: dead, with whatever it left behind.
LEMMA CrashKeeps == ASSUME IInv, NEW w \in Writer, Crash(w) PROVE IInv'
<1>1. UNCHANGED <<lock, reap, seen, row, tmp, buf, pc>> /\ alive' = [alive EXCEPT ![w] = FALSE]
  BY DEF Crash, files
<1>2. alive' \in [Writer -> BOOLEAN] /\ \A v \in Writer : alive'[v] => alive[v]
  BY <1>1 DEF IInv, Typed
<1>3. ~alive[lock.by] => ~alive'[lock.by]
  BY <1>1 DEF IInv, Typed
<1>4. Typed'
  BY <1>1, <1>2 DEF IInv, Typed
<1>5. LockInv'
  BY <1>1, <1>2, <1>3 DEF IInv, LockInv
<1>6. ReapInv'
  <2>1. \A v \in Writer : /\ Condemned(v) => Condemned(v)'
                          /\ TakesOrphan(v)' => TakesOrphan(v)
    BY <1>1, <1>2, <1>3 DEF Condemned, Orphan, TakesOrphan
  <2> QED BY <1>1, <1>2, <2>1 DEF IInv, ReapInv
<1>7. RowInv'
  BY <1>1, <1>2 DEF IInv, RowInv, Serves
<1> QED BY <1>4, <1>5, <1>6, <1>7 DEF IInv

\* Once a recovery was not lone, none counts as lone any more.
LEMMA LoneBefore == ASSUME [Next]_vars, LoneRecovery' PROVE LoneRecovery
<1>1. CASE UNCHANGED history
  BY <1>1 DEF history, LoneRecovery
<1>2. ASSUME NEW w \in Writer, Judge(w) PROVE LoneRecovery
  BY <1>2 DEF Judge, LoneRecovery
<1>3. ASSUME NEW w \in Writer, UnlinkReap(w) PROVE LoneRecovery
  BY <1>3 DEF UnlinkReap, LoneRecovery
<1>4. ASSUME NEW w \in Writer, Waiting(w) PROVE LoneRecovery
  BY <1>1, <1>2, <1>3, <1>4
     DEF Waiting, Goes, Create, CreateExists, WritePid, Read, CreateReap, CreateReapExists, WriteReapPid,
         ReadReap, JudgeReap, Recheck, UnlinkLock, Unreap
<1>5. ASSUME NEW w \in Writer, Writing(w) PROVE LoneRecovery
  BY <1>1, <1>5 DEF Writing, Goes, Load, OpenTmp, WriteTmp, Rename, Release, UnlinkOwn
<1>6. ASSUME NEW w \in Writer, GiveUp(w) \/ Crash(w) PROVE LoneRecovery
  BY <1>1, <1>6 DEF GiveUp, Goes, Crash
<1>7. CASE Age \/ UNCHANGED vars
  BY <1>1, <1>7 DEF Age, AgeLock, AgeReap, vars, history
<1> QED BY <1>4, <1>5, <1>6, <1>7 DEF Next

LEMMA Inductive == ASSUME LoneInv, [Next]_vars PROVE LoneInv'
<1> SUFFICES ASSUME IInv, LoneRecovery' PROVE IInv'
  BY LoneBefore DEF LoneInv
<1>1. ASSUME NEW w \in Writer, Waiting(w)
      PROVE  IInv'
  BY <1>1, LookingKeeps, ReapFileKeeps, CreateKeeps, WritePidKeeps, UnlinkLockKeeps DEF Waiting
<1>2. ASSUME NEW w \in Writer, Writing(w)
      PROVE  IInv'
  BY <1>2, WritingKeeps, UnlinkOwnKeeps DEF Writing
<1>3. CASE UNCHANGED vars
  <2>1. Typed' /\ LockInv' /\ RowInv'
    BY <1>3 DEF vars, IInv, Typed, LockInv, RowInv, Serves
  <2>2. ReapInv'
    BY <1>3 DEF vars, IInv, ReapInv, TakesOrphan, Condemned, Orphan
  <2> QED BY <2>1, <2>2 DEF IInv
<1> QED BY <1>1, <1>2, <1>3, LookingKeeps, AgeKeeps, CrashKeeps DEF Next

--------------------------------------------------------------------------
(* Theorems *)

\* Of any number of writers, killed at any step in any number, no two live ones are inside
\* the lock of one file, unless two of them once went at the same time for a lock without
\* a pid, or one unlinked a live reaper's file.
THEOREM LoneRecoveryKeepsTheLock == Spec => []RecoveryExcludes
<1>1. LoneInv => RecoveryExcludes
  BY OneOwner DEF LoneInv, RecoveryExcludes, MutualExclusion, Holding, Owning
<1>2. LoneInv /\ [Next]_vars => LoneInv'
  BY Inductive
<1>3. Init => LoneInv
  BY Initially DEF LoneInv
<1> QED BY <1>1, <1>2, <1>3, PTL DEF Spec

\* Under the same condition every writer that finished finds its claim on the row, or one
\* that outranks it, whichever processes were killed and whatever they left.
THEOREM LoneRecoveryLosesNothing == Spec => []RecoveryLosesNothing
<1>1. LoneInv => RecoveryLosesNothing
  BY DEF LoneInv, IInv, RowInv, RecoveryLosesNothing, Serves
<1>2. LoneInv /\ [Next]_vars => LoneInv'
  BY Inductive
<1>3. Init => LoneInv
  BY Initially DEF LoneInv
<1> QED BY <1>1, <1>2, <1>3, PTL DEF Spec

---------------------------------------------------------------------------
(* The chain runner *)

PlanOk(p) ==
  /\ p \in Seq(Step)
  /\ \A i, j \in DOMAIN p : p[i] = p[j] => i = j
  /\ \A i \in DOMAIN p : p[i] = Gate => i = Len(p)

\* todo is what is left of the plan p after its first k steps, which were passed or waived.
At(p, todo, waived, k) ==
  /\ Len(todo) = Len(p) - k
  /\ \A i \in 1..Len(todo) : todo[i] = p[i + k]
  /\ \A j \in 1..k : p[j] \in behind \cup waived

Digest == Seq(Step) \X SUBSET EnrichOnly

RunType ==
  [scope : Scopes, phase : Phases, digest : Digest, plan : Seq(Step), todo : Seq(Step), waived : SUBSET Step,
   allow : BOOLEAN, skips : SUBSET (Cached \cup TailRun), ran : SUBSET Step, whole : BOOLEAN,
   incomplete : SUBSET Step, gate : {None, 0, 1}]

FileType == [scope : Scopes, phase : Phases, digest : Digest]
HintType == [file : FileType, step : Step, waived : SUBSET Step]

WorldInv ==
  /\ manifest \in DOMAIN Plan
  /\ baseline = [s \in Scopes |-> baseline[s]]
  /\ plans \subseteq FileType

\* A run stands in its plan, and its incomplete steps are known.
RunInv ==
  run # None =>
    /\ run \in RunType /\ PlanOk(run.plan) /\ run.digest[1] = run.plan
    /\ \E k \in 0..Len(run.plan) : At(run.plan, run.todo, run.waived, k)
    /\ short \cap run.ran \subseteq run.incomplete

\* Past the gate nothing touches the tree.
GateInv ==
  run # None /\ run.gate # None =>
    /\ run.todo = <<>> /\ Gate \in behind
    /\ baseline[run.scope] # Unparsable => run.gate = 0 /\ Acceptable(harm, baseline[run.scope])

\* What the operator is told of a stopped run leads back to the place where it stopped.
HintInv ==
  hint # None =>
    /\ run = None
    /\ hint \in HintType /\ PlanOk(hint.file.digest[1])
    /\ \E k \in 1..Len(hint.file.digest[1]) :
         /\ hint.file.digest[1][k] = hint.step
         /\ \A j \in 1..(k - 1) : hint.file.digest[1][j] \in behind \cup hint.waived

ChainInv == WorldInv /\ RunInv /\ GateInv /\ HintInv

---------------------------------------------------------------------------

LEMMA StepsOk ==
  ASSUME WorldInv, NEW phase \in Phases
  PROVE  PlanOk(Steps(phase)) /\ PlanDigest(phase) \in Digest /\ PlanDigest(phase)[1] = Steps(phase)
<1>1. PlanOk(Steps(phase))
  BY PlanAssumption DEF WorldInv, PlanOk, Steps
<1> QED BY <1>1 DEF PlanOk, PlanDigest, Digest

\* The step in front of a run, and its place in the plan.
LEMMA CurrentStep ==
  ASSUME run # None, RunInv, run.todo # <<>>
  PROVE  /\ Current \in Step /\ Tail(run.todo) \in Seq(Step)
         /\ \E k \in 0..(Len(run.plan) - 1) :
              /\ At(run.plan, run.todo, run.waived, k)
              /\ Current = run.plan[k + 1]
              /\ Len(Tail(run.todo)) = Len(run.plan) - (k + 1)
              /\ \A i \in 1..Len(Tail(run.todo)) : Tail(run.todo)[i] = run.plan[i + (k + 1)]
<1>1. run.todo \in Seq(Step) /\ run.plan \in Seq(Step)
  BY DEF RunInv, RunType
<1>2. PICK k \in 0..Len(run.plan) : At(run.plan, run.todo, run.waived, k)
  BY DEF RunInv
<1>3. /\ Head(run.todo) = run.todo[1] /\ Len(run.todo) \in Nat /\ Len(run.todo) # 0
      /\ Len(run.plan) \in Nat
  BY <1>1
<1>4. /\ Current \in Step /\ Tail(run.todo) \in Seq(Step)
      /\ Len(Tail(run.todo)) = Len(run.todo) - 1
      /\ \A i \in 1..Len(Tail(run.todo)) : Tail(run.todo)[i] = run.todo[i + 1]
  BY <1>1, HeadTailProperties DEF Current
<1>5. k \in 0..(Len(run.plan) - 1) /\ Current = run.plan[k + 1]
  <2>1. Len(run.todo) = Len(run.plan) - k /\ \A i \in 1..Len(run.todo) : run.todo[i] = run.plan[i + k]
    BY <1>2 DEF At
  <2>2. 1 \in 1..Len(run.todo) /\ 1 + k = k + 1
    BY <1>3
  <2> QED BY <1>3, <2>1, <2>2 DEF Current
<1>6. ASSUME NEW i \in 1..Len(Tail(run.todo))
      PROVE  Tail(run.todo)[i] = run.plan[i + (k + 1)]
  <2>1. i + 1 \in 1..Len(run.todo) /\ (i + 1) + k = i + (k + 1)
    BY <1>3, <1>4
  <2> QED BY <1>2, <1>4, <2>1 DEF At
<1>7. Len(Tail(run.todo)) = Len(run.plan) - (k + 1)
  <2>1. Len(run.todo) = Len(run.plan) - k
    BY <1>2 DEF At
  <2> QED BY <1>3, <1>4, <2>1
<1>8. \E l \in 0..(Len(run.plan) - 1) :
         /\ At(run.plan, run.todo, run.waived, l)
         /\ Current = run.plan[l + 1]
         /\ Len(Tail(run.todo)) = Len(run.plan) - (l + 1)
         /\ \A i \in 1..Len(Tail(run.todo)) : Tail(run.todo)[i] = run.plan[i + (l + 1)]
  <2>1. k \in 0..(Len(run.plan) - 1)
    BY <1>5
  <2> WITNESS k \in 0..(Len(run.plan) - 1)
  <2> QED BY <1>2, <1>5, <1>6, <1>7
<1> QED BY <1>4, <1>8

\* A run that starts in its resolved plan, with what is in front of it passed or waived.
LEMMA StartKeeps ==
  ASSUME ChainInv, NEW r \in RunType, Start(r), PlanOk(r.plan), r.digest[1] = r.plan,
         r.ran = {}, r.gate = None, \E k \in 0..Len(r.plan) : At(r.plan, r.todo, r.waived, k)'
  PROVE  ChainInv'
<1>1. run' = r /\ hint' = None /\ plans' = plans \cup {PlanFile(r)} /\ UNCHANGED <<world, tree>>
  BY DEF Start
<1>2. RunInv'
  BY <1>1 DEF RunInv, At, PlanOk
<1>3. PlanFile(r) \in FileType
  BY DEF PlanFile, FileType, RunType
<1> QED BY <1>1, <1>2, <1>3 DEF ChainInv, WorldInv, GateInv, HintInv, world

LEMMA LaunchKeeps ==
  ASSUME ChainInv, NEW scope \in Scopes, NEW phase \in Phases, NEW allow \in BOOLEAN, NEW tail \in BOOLEAN,
         Launch(scope, phase, allow, tail)
  PROVE  ChainInv'
<1>1. PICK r : r = NewRun(scope, phase, Steps(phase), FALSE, {}, allow, tail)
  OBVIOUS
<1>2. Steps(phase) \in Seq(Step) /\ Len(Steps(phase)) \in Nat
  BY StepsOk DEF ChainInv, PlanOk
<1>3. /\ r \in RunType /\ PlanOk(r.plan) /\ r.digest[1] = r.plan
      /\ r.plan = Steps(phase) /\ r.todo = Steps(phase) /\ r.waived = {}
      /\ r.ran = {} /\ r.gate = None
  BY <1>1, <1>2, StepsOk DEF ChainInv, NewRun, RunType, SkipReasons
<1>4. Start(r)
  BY <1>1 DEF Launch
<1>5. 0 \in 0..Len(r.plan) /\ At(r.plan, r.todo, r.waived, 0)'
  BY <1>2, <1>3 DEF At
<1> QED BY <1>3, <1>4, <1>5, StartKeeps

\* The steps from one of the plan on, and those in front of it.
LEMMA SliceLeads ==
  ASSUME NEW p, PlanOk(p), NEW k \in 1..Len(p)
  PROVE  /\ SliceFrom(p, p[k]) \in Seq(Step)
         /\ Len(SliceFrom(p, p[k])) = Len(p) - (k - 1) /\ k - 1 \in 0..Len(p)
         /\ \A i \in 1..Len(SliceFrom(p, p[k])) : SliceFrom(p, p[k])[i] = p[i + (k - 1)]
         /\ \A j \in 1..(k - 1) : p[j] \in InFrontOf(p, p[k])
<1>1. p \in Seq(Step) /\ Len(p) \in Nat /\ DOMAIN p = 1..Len(p)
  BY DEF PlanOk
<1>2. PICK todo : todo = SubSeq(p, k, Len(p))
  OBVIOUS
<1>3. SliceFrom(p, p[k]) = todo
  <2>1. (CHOOSE i \in DOMAIN p : p[i] = p[k]) = k
    BY <1>1 DEF PlanOk
  <2> QED BY <1>2, <2>1 DEF SliceFrom
<1>4. /\ todo \in Seq(Step) /\ Len(todo) = Len(p) - (k - 1)
      /\ \A i \in 1..Len(todo) : todo[i] = p[i + (k - 1)]
  <2>1. \A i \in k..Len(p) : p[i] \in Step
    BY <1>1
  <2>2. /\ todo \in Seq(Step) /\ Len(todo) = Len(p) - k + 1
        /\ \A i \in 1..(Len(p) - k + 1) : todo[i] = p[k + i - 1]
    BY <1>1, <1>2, <2>1, SubSeqProperties
  <2>3. \A i \in 1..Len(todo) : k + i - 1 = i + (k - 1)
    BY <1>1
  <2>4. Len(p) - k + 1 = Len(p) - (k - 1)
    BY <1>1
  <2> QED BY <2>2, <2>3, <2>4
<1>5. ASSUME NEW j \in 1..(k - 1) PROVE p[j] \in InFrontOf(p, p[k])
  <2>1. j \in DOMAIN p /\ k \in DOMAIN p /\ j < k
    BY <1>1
  <2> QED BY <2>1 DEF InFrontOf
<1>6. k - 1 \in 0..Len(p)
  BY <1>1
<1> QED BY <1>3, <1>4, <1>5, <1>6

\* Whoever resumes as told continues the stopped run; anyone else waives what is in front.
LEMMA ResumeKeeps ==
  ASSUME ChainInv, NEW file \in plans, NEW step \in Step, NEW allow \in BOOLEAN, NEW tail \in BOOLEAN,
         Resume(file, step, allow, tail)
  PROVE  ChainInv'
<1>1. PICK p : p = Steps(file.phase)
  OBVIOUS
<1>2. PICK waived : waived = IF AsTold(file, step) THEN hint.waived ELSE InFrontOf(p, step)
  OBVIOUS
<1>3. /\ file.digest = PlanDigest(file.phase) /\ step \in StepSet(file.phase)
      /\ Start(NewRun(file.scope, file.phase, SliceFrom(p, step), TRUE, waived, allow, tail))
      /\ behind' = IF AsTold(file, step) THEN behind ELSE {}
  BY <1>1, <1>2 DEF Resume, ResumeAllowed
<1>4. file.scope \in Scopes /\ file.phase \in Phases
  BY DEF ChainInv, WorldInv, FileType
<1>5. PlanOk(p) /\ file.digest[1] = p
  BY <1>1, <1>3, <1>4, StepsOk DEF ChainInv
<1>6. p \in Seq(Step) /\ DOMAIN p = 1..Len(p)
  BY <1>5 DEF PlanOk
<1>7. PICK k \in 1..Len(p) : p[k] = step
  BY <1>1, <1>3, <1>6 DEF StepSet
<1>8. waived \in SUBSET Step /\ \A j \in 1..(k - 1) : p[j] \in behind' \cup waived
  <2>1. CASE AsTold(file, step)
    <3>1. hint # None /\ hint.file.digest[1] = p /\ hint.step = step /\ behind' = behind /\ waived = hint.waived
      BY <1>2, <1>3, <1>5, <2>1 DEF AsTold
    <3>2. PICK m \in 1..Len(p) : p[m] = step /\ \A j \in 1..(m - 1) : p[j] \in behind \cup waived
      BY <3>1 DEF ChainInv, HintInv
    <3>3. m = k
      BY <1>5, <1>6, <1>7, <3>2 DEF PlanOk
    <3>4. waived \in SUBSET Step
      BY <3>1 DEF ChainInv, HintInv, HintType
    <3> QED BY <3>1, <3>2, <3>3, <3>4
  <2>2. CASE ~AsTold(file, step)
    <3>1. waived = InFrontOf(p, step)
      BY <1>2, <2>2
    <3>2. waived \in SUBSET Step
      BY <1>6, <3>1 DEF InFrontOf
    <3> QED BY <1>5, <1>7, <3>1, <3>2, SliceLeads
  <2> QED BY <2>1, <2>2
<1>9. PICK todo : todo = SliceFrom(p, step)
  OBVIOUS
<1>10. /\ todo \in Seq(Step) /\ Len(todo) = Len(p) - (k - 1) /\ k - 1 \in 0..Len(p)
       /\ \A i \in 1..Len(todo) : todo[i] = p[i + (k - 1)]
  BY <1>5, <1>7, <1>9, SliceLeads
<1>11. PICK scope \in Scopes, phase \in Phases : scope = file.scope /\ phase = file.phase
  BY <1>4
<1>12. PICK r : r = NewRun(scope, phase, todo, TRUE, waived, allow, tail)
  OBVIOUS
<1>13. /\ r \in RunType /\ PlanOk(r.plan) /\ r.digest[1] = r.plan
       /\ r.plan = p /\ r.todo = todo /\ r.waived = waived
       /\ r.ran = {} /\ r.gate = None
  <2>1. PlanOk(p) /\ PlanDigest(phase) \in Digest /\ PlanDigest(phase)[1] = p /\ p = Steps(phase)
    BY <1>1, <1>11, StepsOk DEF ChainInv
  <2> QED BY <1>6, <1>8, <1>10, <1>12, <2>1 DEF NewRun, RunType, SkipReasons
<1>14. Start(r)
  BY <1>3, <1>9, <1>11, <1>12
<1>15. k - 1 \in 0..Len(r.plan) /\ At(r.plan, r.todo, r.waived, k - 1)'
  BY <1>8, <1>10, <1>13 DEF At
<1> QED BY <1>13, <1>14, <1>15, StartKeeps

\* A step that passes takes the run one place on.
LEMMA PassMoves ==
  ASSUME ChainInv, run # None, run.todo # <<>>,
         NEW r \in RunType, r.plan = run.plan, r.todo = run.todo, r.waived = run.waived,
         r.digest = run.digest, Pass(r)
  PROVE  /\ run' \in RunType /\ PlanOk(run'.plan) /\ run'.digest[1] = run'.plan
         /\ \E k \in 0..Len(run'.plan) : At(run.plan, run.todo, run.waived, k)'
         /\ run'.ran = r.ran /\ run'.incomplete = r.incomplete /\ run'.gate = r.gate
         /\ run'.scope = r.scope
         /\ Current \in Step /\ behind' = behind \cup {Current}
         /\ Current = Gate => run'.todo = <<>>
<1>1. PICK k \in 0..(Len(run.plan) - 1) :
        /\ At(run.plan, run.todo, run.waived, k)
        /\ Current = run.plan[k + 1]
        /\ Len(Tail(run.todo)) = Len(run.plan) - (k + 1)
        /\ \A i \in 1..Len(Tail(run.todo)) : Tail(run.todo)[i] = run.plan[i + (k + 1)]
  BY CurrentStep DEF ChainInv
<1>2. /\ Current \in Step /\ Tail(run.todo) \in Seq(Step)
      /\ PlanOk(run.plan) /\ run.digest[1] = run.plan /\ run.plan \in Seq(Step)
  BY CurrentStep DEF ChainInv, RunInv, PlanOk
<1>3. run' = [r EXCEPT !.todo = Tail(@)] /\ behind' = behind \cup {Current}
  BY DEF Pass
<1>4. /\ run' \in RunType /\ run'.plan = run.plan /\ run'.todo = Tail(run.todo)
      /\ run'.digest = run.digest /\ run'.ran = r.ran /\ run'.incomplete = r.incomplete
      /\ run'.gate = r.gate /\ run'.scope = r.scope /\ run'.waived = run.waived
  BY <1>2, <1>3 DEF RunType
<1>5. k + 1 \in 0..Len(run.plan) /\ k + 1 \in DOMAIN run.plan /\ Len(run.plan) \in Nat
  BY <1>2
<1>6. \A j \in 1..(k + 1) : run.plan[j] \in behind' \cup run.waived
  <2>1. \A j \in 1..(k + 1) : j \in 1..k \/ j = k + 1
    BY <1>5
  <2> QED BY <1>1, <1>3, <2>1 DEF At
<1>7. At(run.plan, run.todo, run.waived, k + 1)'
  BY <1>1, <1>4, <1>6 DEF At
<1>8. ASSUME Current = Gate PROVE run'.todo = <<>>
  <2>1. k + 1 = Len(run.plan)
    BY <1>1, <1>2, <1>5, <1>8 DEF PlanOk
  <2>2. Len(Tail(run.todo)) = 0
    <3>1. PICK n \in Nat : n = Len(run.plan)
      BY <1>5
    <3>2. Len(Tail(run.todo)) = n - n
      BY <1>1, <2>1, <3>1
    <3> QED BY <3>1, <3>2
  <2> QED BY <1>2, <1>4, <2>2, EmptySeq
<1> QED BY <1>2, <1>3, <1>4, <1>5, <1>7, <1>8 DEF PlanOk

\* A step that only ends the run, or leaves it and spoils at most a baseline.
LEMMA QuietKeeps ==
  ASSUME ChainInv, UNCHANGED <<plans, hint, behind, tree>>, run' \in {None, run},
         manifest' \in DOMAIN Plan, baseline' = [s \in Scopes |-> baseline'[s]],
         run' # None => \A s \in Scopes : baseline'[s] \in {baseline[s], Unparsable}
  PROVE  ChainInv'
<1>1. WorldInv'
  BY DEF ChainInv, WorldInv
<1>2. RunInv'
  <2>1. CASE run' = None
    BY <2>1 DEF RunInv
  <2>2. CASE run' = run /\ run # None
    <3>1. /\ run \in RunType /\ PlanOk(run.plan) /\ run.digest[1] = run.plan
          /\ short \cap run.ran \subseteq run.incomplete
      BY <2>2 DEF ChainInv, RunInv
    <3>2. PICK k \in 0..Len(run.plan) : At(run.plan, run.todo, run.waived, k)
      BY <2>2 DEF ChainInv, RunInv
    <3>3. At(run.plan, run.todo, run.waived, k)'
      BY <2>2, <3>2 DEF At
    <3> QED BY <2>2, <3>1, <3>2, <3>3 DEF RunInv, tree, PlanOk
  <2> QED BY <2>1, <2>2
<1>3. GateInv'
  BY DEF ChainInv, GateInv, RunInv, RunType, tree, Acceptable
<1>4. HintInv'
  BY DEF ChainInv, HintInv, PlanOk
<1> QED BY <1>1, <1>2, <1>3, <1>4 DEF ChainInv

LEMMA NotGatedYet ==
  ASSUME ChainInv, run # None, run.todo # <<>>
  PROVE  run.gate = None /\ run \in RunType /\ hint = None
BY DEF ChainInv, GateInv, RunInv, HintInv

LEMMA SkipKeeps == ASSUME ChainInv, SkipStep PROVE ChainInv'
<1>1. /\ run # None /\ run.todo # <<>> /\ Pass(run) /\ UNCHANGED tree
      /\ run.gate = None /\ run \in RunType /\ hint = None
  BY NotGatedYet DEF SkipStep
<1>2. hint' = None /\ UNCHANGED <<world, plans>>
  BY <1>1 DEF Pass
<1>3. short \cap run.ran \subseteq run.incomplete
  BY <1>1 DEF ChainInv, RunInv
<1> QED BY <1>1, <1>2, <1>3, PassMoves DEF ChainInv, WorldInv, RunInv, GateInv, HintInv, world, tree

LEMMA StepDoneKeeps ==
  ASSUME ChainInv, NEW got \in 0..Floor, NEW marker \in MarkersFor(got), StepDone(got, marker)
  PROVE  ChainInv'
<1>1. /\ run # None /\ run.todo # <<>> /\ run.gate = None /\ run \in RunType /\ hint = None
  BY NotGatedYet DEF StepDone, StepRuns
<1>2. PICK r : r = [run EXCEPT !.ran = @ \cup {Current},
                      !.incomplete = IF StepIsComplete(Current, marker) THEN @ ELSE @ \cup {Current}]
  OBVIOUS
<1>3. Current \in Step
  BY <1>1, CurrentStep DEF ChainInv
<1>4. /\ r \in RunType /\ r.plan = run.plan /\ r.todo = run.todo /\ r.digest = run.digest
      /\ r.waived = run.waived
      /\ r.gate = None /\ r.ran = run.ran \cup {Current}
      /\ run.incomplete \subseteq r.incomplete
      /\ StepIsComplete(Current, marker) \/ Current \in r.incomplete
  BY <1>1, <1>2, <1>3 DEF RunType
<1>5. Pass(r) /\ hint' = None /\ UNCHANGED <<world, plans>>
  BY <1>1, <1>2 DEF StepDone, Pass
<1>6. short' \cap r.ran \subseteq r.incomplete
  <2>1. short \cap run.ran \subseteq run.incomplete
    BY <1>1 DEF ChainInv, RunInv
  <2>2. CASE Current \in Floored /\ got < Floor
    <3>1. Floor \in Nat /\ got \in Nat /\ ~(got >= Floor) /\ ~(0 >= Floor)
      BY <2>2, ChainRunnerAssumption DEF ChainRunnerAssumption
    <3>2. marker = None \/ marker.actual = got
      BY DEF MarkersFor
    <3>3. ~StepIsComplete(Current, marker)
      BY <2>2, <3>1, <3>2 DEF StepIsComplete
    <3>4. short' = short \cup {Current}
      BY <2>2 DEF StepDone
    <3> QED BY <1>4, <2>1, <3>3, <3>4
  <2>3. CASE ~(Current \in Floored /\ got < Floor)
    <3>1. short' = short \ {Current}
      BY <2>3 DEF StepDone
    <3> QED BY <1>4, <2>1, <3>1
  <2> QED BY <2>2, <2>3
<1>7. RunInv'
  BY <1>1, <1>4, <1>5, <1>6, PassMoves DEF RunInv
<1> QED BY <1>1, <1>4, <1>5, <1>7, PassMoves DEF ChainInv, WorldInv, GateInv, HintInv, world

LEMMA LeaveLeadsBack ==
  ASSUME ChainInv, run # None, run.todo # <<>>, run' = None, hint' = Leave(run, Current), behind' = behind,
         UNCHANGED <<world, plans>>
  PROVE  ChainInv'
<1>1. PICK k \in 0..(Len(run.plan) - 1) : At(run.plan, run.todo, run.waived, k) /\ Current = run.plan[k + 1]
  BY CurrentStep DEF ChainInv
<1>2. run \in RunType /\ PlanOk(run.plan) /\ run.digest[1] = run.plan /\ Current \in Step
  BY CurrentStep DEF ChainInv, RunInv
<1>3. /\ hint' \in HintType /\ hint'.file.digest[1] = run.plan /\ hint'.step = Current
      /\ hint'.waived = run.waived
  BY <1>2 DEF Leave, PlanFile, HintType, FileType, RunType
<1>4. k + 1 \in 1..Len(run.plan) /\ \A j \in 1..((k + 1) - 1) : run.plan[j] \in behind \cup run.waived
  <2>1. Len(run.plan) \in Nat
    BY <1>2 DEF PlanOk
  <2>2. (k + 1) - 1 = k
    OBVIOUS
  <2> QED BY <1>1, <2>1, <2>2 DEF At
<1>5. HintInv'
  <2>1. PICK m \in 1..Len(run.plan) :
          run.plan[m] = Current /\ \A j \in 1..(m - 1) : run.plan[j] \in behind \cup run.waived
    BY <1>1, <1>4
  <2>2. PICK h : h = hint'
    OBVIOUS
  <2>3. /\ h \in HintType /\ h.file.digest[1] = run.plan /\ h.step = Current
        /\ h.waived = run.waived /\ PlanOk(h.file.digest[1])
    BY <1>2, <1>3, <2>2
  <2>4. \E i \in 1..Len(h.file.digest[1]) :
          /\ h.file.digest[1][i] = h.step
          /\ \A j \in 1..(i - 1) : h.file.digest[1][j] \in behind' \cup h.waived
    BY <2>1, <2>3
  <2> QED BY <2>2, <2>3, <2>4 DEF HintInv, PlanOk
<1>6. WorldInv' /\ RunInv' /\ GateInv'
  BY DEF ChainInv, WorldInv, RunInv, GateInv, world
<1> QED BY <1>5, <1>6 DEF ChainInv

LEMMA GateAuditsKeeps ==
  ASSUME ChainInv, NEW rep \in Reports(harm), GateAudits(rep)
  PROVE  ChainInv'
<1>1. /\ run # None /\ run.todo # <<>> /\ run.gate = None /\ run \in RunType /\ hint = None
      /\ Current = Gate /\ UNCHANGED tree
  BY NotGatedYet DEF GateAudits, GateRuns
<1>2. CASE ~GateVerdict(rep, baseline[run.scope])
  BY <1>1, <1>2, LeaveLeadsBack DEF GateAudits, Stop
<1>3. CASE GateVerdict(rep, baseline[run.scope])
  <2>1. /\ rep.code \in {0, 1} /\ rep.total # None /\ rep.io = 0
        /\ rep.code = 0 <=> rep.total = 0
        /\ rep.code = 1 => /\ baseline[run.scope] \in Multiset
                           /\ \A p \in Prints : rep.lines[p] <= baseline[run.scope][p]
    BY <1>3 DEF GateVerdict, ReadMachineOutputs
  <2>2. None # 0 /\ None # 1 /\ None # 3
    BY NoneAssumption
  <2>3. rep = Whole(harm)
    BY <2>1, <2>2 DEF Reports, Whole
  <2>4. Acceptable(harm, baseline[run.scope])
    BY <2>1, <2>3 DEF Whole, Acceptable
  <2>5. PICK r : r = [run EXCEPT !.gate = IF rep.io = None THEN 1 ELSE rep.io]
    OBVIOUS
  <2>6. /\ r \in RunType /\ r.plan = run.plan /\ r.todo = run.todo /\ r.digest = run.digest
      /\ r.waived = run.waived
        /\ r.gate = 0 /\ r.ran = run.ran /\ r.incomplete = run.incomplete /\ r.scope = run.scope
    BY <1>1, <2>1, <2>2, <2>5 DEF RunType
  <2>7. Pass(r) /\ hint' = None /\ UNCHANGED <<world, plans>>
    BY <1>1, <1>3, <2>5 DEF GateAudits, Pass
  <2>8. short \cap run.ran \subseteq run.incomplete
    BY <1>1 DEF ChainInv, RunInv
  <2>9. RunInv'
    BY <1>1, <2>6, <2>7, <2>8, PassMoves DEF RunInv, tree
  <2>10. GateInv'
    BY <1>1, <2>4, <2>6, <2>7, PassMoves DEF GateInv, tree, world, Acceptable
  <2> QED BY <2>7, <2>9, <2>10 DEF ChainInv, WorldInv, HintInv, world
<1> QED BY <1>2, <1>3

LEMMA ChainSteps == ASSUME ChainInv, [ChainNext]_chainVars PROVE ChainInv'
<1>1. CASE StepFails \/ GateRefuses
  BY <1>1, LeaveLeadsBack DEF StepFails, StepRuns, GateRefuses, GateRuns, Stop
<1>0. manifest \in DOMAIN Plan /\ baseline = [s \in Scopes |-> baseline[s]]
  BY DEF ChainInv, WorldInv
<1>2. CASE Finish
  BY <1>2, <1>0, QuietKeeps DEF Finish, world, tree
<1>3. CASE RunnerDies
  <2>1. CASE run.todo = <<>>
    <3>1. run # None /\ run' = None /\ hint' = None /\ UNCHANGED <<world, tree, plans, behind>>
      BY <1>3, <2>1 DEF RunnerDies
    <3>2. hint = None
      BY <3>1 DEF ChainInv, HintInv
    <3> QED BY <1>0, <3>1, <3>2, QuietKeeps DEF world, tree
  <2>2. CASE run.todo # <<>>
    BY <1>3, <2>2, LeaveLeadsBack DEF RunnerDies
  <2> QED BY <2>1, <2>2
<1>4. ASSUME NEW scope \in Scopes, SpoilBaseline(scope)
      PROVE  ChainInv'
  BY <1>4, <1>0, QuietKeeps DEF SpoilBaseline, tree
<1>5. ASSUME NEW scope \in Scopes, NEW r \in Reports(harm), UpdateGateBaseline(scope, r)
      PROVE  ChainInv'
  <2>1. run' = None /\ UNCHANGED <<plans, hint, behind, tree, manifest>>
    BY <1>5 DEF UpdateGateBaseline, tree
  <2>2. baseline' = [baseline EXCEPT ![scope] = r.lines]
    BY <1>5 DEF UpdateGateBaseline
  <2> QED BY <1>0, <2>1, <2>2, QuietKeeps
<1>6. CASE EditManifest
  BY <1>6, <1>0, QuietKeeps DEF EditManifest, tree
<1>7. ASSUME NEW s \in Cached, CacheChanges(s)
      PROVE  ChainInv'
  BY <1>7, <1>0, QuietKeeps DEF CacheChanges, tree
<1>8. CASE UNCHANGED chainVars
  BY <1>8, <1>0, QuietKeeps DEF chainVars, world, tree
<1> QED
  BY <1>1, <1>2, <1>3, <1>4, <1>5, <1>6, <1>7, <1>8, LaunchKeeps, ResumeKeeps, SkipKeeps,
     StepDoneKeeps, GateAuditsKeeps DEF ChainNext

LEMMA ChainStarts == ChainInit => ChainInv
BY ChainRunnerAssumption
   DEF ChainInit, ChainRunnerAssumption, ChainInv, WorldInv, RunInv, GateInv, HintInv

\* A run that has passed its gate stands on a tree whose violations are all, occurrence
\* by occurrence, in the sealed baseline, whatever part of its work the auditor got done
\* and however the run was resumed.
THEOREM GateIsFailClosed == ChainSpec => []GatePassesNoNewDamage
<1>1. ChainInv => GatePassesNoNewDamage
  BY DEF ChainInv, GateInv, GatePassesNoNewDamage
<1> QED BY <1>1, ChainStarts, ChainSteps, PTL DEF ChainSpec

\* A fresh full world run that is declared safe to sync was audited, and every floored
\* step it ran loaded its floor, whatever the steps claimed of themselves.
THEOREM SafeIsWhole == ChainSpec => SafeMeansWhole
<1>1. ChainInv /\ [ChainNext]_chainVars =>
        [status'.safe /\ status'.whole /\ ~status.safe =>
           short \cap run.ran = {} /\ run.gate = 0 /\ Gate \in behind]_chainVars
  <2> SUFFICES ASSUME ChainInv, [ChainNext]_chainVars, chainVars' # chainVars, status'.safe, ~status.safe
               PROVE  short \cap run.ran = {} /\ run.gate = 0 /\ Gate \in behind
    OBVIOUS
  <2>1. CASE Finish
    <3>1. run # None /\ run.gate = 0 /\ run.incomplete = {}
      BY <2>1 DEF Finish, Running, SafeToSync
    <3>2. None # 0
      BY NoneAssumption
    <3> QED BY <3>1, <3>2 DEF ChainInv, RunInv, GateInv
  <2>2. CASE status' = status
    BY <2>2
  <2>3. ASSUME NEW r, status' = Running(r) \/ status' = Failed(r)
        PROVE  FALSE
    BY <2>3 DEF Running, Failed
  <2>4. ASSUME NEW r, Start(r) PROVE FALSE
    BY <2>3, <2>4 DEF Start
  <2>5. /\ \A file \in plans, step \in Step, allow \in BOOLEAN, tail \in BOOLEAN :
              ~Resume(file, step, allow, tail)
        /\ \A scope \in Scopes, phase \in Phases, allow \in BOOLEAN, tail \in BOOLEAN :
              ~Launch(scope, phase, allow, tail)
    BY <2>4 DEF Resume, Launch
  <2> QED
    BY <2>1, <2>2, <2>3, <2>5
       DEF ChainNext, chainVars, SkipStep, StepDone, StepFails, GateRefuses, GateAudits,
           Pass, Stop, RunnerDies, SpoilBaseline, UpdateGateBaseline, EditManifest, CacheChanges
<1> QED BY <1>1, ChainStarts, ChainSteps, PTL DEF ChainSpec, SafeMeansWhole

\* No step passes before its predecessors in the plan its run resolved, over any number
\* of stops, edits of the manifest and resumptions, but for those an operator waived by a
\* --from that was not the step where the last run stopped.
THEOREM StepsPassInOrder == ChainSpec => PassesInOrder
<1>1. ChainInv /\ [ChainNext]_chainVars =>
        [\A s \in behind' \ behind : \A i \in DOMAIN run.plan :
           run.plan[i] = s => \A j \in 1..(i - 1) : run.plan[j] \in behind \cup run.waived]_chainVars
  <2> SUFFICES ASSUME ChainInv, [ChainNext]_chainVars, NEW s \in behind' \ behind,
                      NEW i \in DOMAIN run.plan, run.plan[i] = s
               PROVE  \A j \in 1..(i - 1) : run.plan[j] \in behind \cup run.waived
    OBVIOUS
  <2>1. PICK r : run # None /\ run.todo # <<>> /\ Pass(r)
    <3>1. /\ \A file \in plans, step \in Step, allow \in BOOLEAN, tail \in BOOLEAN :
                ~Resume(file, step, allow, tail)
          /\ \A scope \in Scopes, phase \in Phases, allow \in BOOLEAN, tail \in BOOLEAN :
                ~Launch(scope, phase, allow, tail)
      BY DEF Resume, Launch
    <3> QED
      BY <3>1 DEF ChainNext, chainVars, SkipStep, StepDone, StepRuns, StepFails, GateRefuses,
             GateRuns, GateAudits, Stop, Finish, RunnerDies, SpoilBaseline, UpdateGateBaseline,
             EditManifest, CacheChanges
  <2>2. s = Current
    BY <2>1 DEF Pass
  <2>3. PICK k \in 0..(Len(run.plan) - 1) : At(run.plan, run.todo, run.waived, k) /\ Current = run.plan[k + 1]
    BY <2>1, CurrentStep DEF ChainInv
  <2>4. PlanOk(run.plan)
    BY <2>1 DEF ChainInv, RunInv
  <2>5. k + 1 \in DOMAIN run.plan
    BY <2>4 DEF PlanOk
  <2>6. i = k + 1
    BY <2>2, <2>3, <2>4, <2>5 DEF PlanOk
  <2> QED BY <2>3, <2>6 DEF At
<1> QED BY <1>1, ChainStarts, ChainSteps, PTL DEF ChainSpec, PassesInOrder
=============================================================================
