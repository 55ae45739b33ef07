--------------------------- MODULE TileStoreProofs ---------------------------
(***************************************************************************)
(* The safety of the tile store for any number of processes, threads,      *)
(* readers, tiles and blobs, through at most one host crash.               *)
(***************************************************************************)
EXTENDS TileStore, TLAPS

------------------------------------------------------------------------------
(* The inductive invariant *)

\* Whoever is past the flock holds it, and only an open handle has puts.
LockInv ==
    /\ \A p \in Procs : pc[p] # "closed" => lock = p
    /\ \A w \in Procs \X Threads : thread[w] # Idle => pc[w[1]] = "open"

\* The tail of an open handle lies above everything it must not overwrite.
TailInv ==
    /\ \A p \in Procs : pc[p] = "open" =>
          /\ dataLen <= tail[p]
          /\ \A t \in Tiles : index[t] # NoEntry => End(index[t]) <= tail[p]
    /\ \A w \in Procs \X Threads : thread[w] # Idle => End(thread[w]) <= tail[w[1]]
    /\ \A t \in Tiles : index[t] # NoEntry => End(index[t]) <= MaxOffset

\* What a put has written so far is in the log and below its length.
PrefixInv ==
    \A w \in Procs \X Threads : thread[w] # Idle =>
        /\ thread[w].done <= BlobLen[thread[w].blob]
        /\ thread[w].done > 0 => thread[w].off + thread[w].done <= dataLen
        /\ \A o \in thread[w].off .. thread[w].off + thread[w].done - 1 :
              log[o] = <<thread[w].tile, thread[w].blob>>

\* The blob e of tile t lies in the log, whole, and no put is writing over it.
Whole(t, e) ==
    /\ End(e) <= dataLen
    /\ \A o \in Bytes(e) : log[o] = <<t, e.blob>>
    /\ \A w \in Procs \X Threads : thread[w] # Idle => Bytes(thread[w]) \cap Bytes(e) = {}

\* Until the host crashes, that holds of every entry the disk or a reader may
\* still name, not only of those the index names.
NoCrashInv ==
    hostCrashes = 0 =>
        /\ \A t \in Tiles : index[t] \in onDisk[t]
        /\ \A t \in Tiles : \A e \in onDisk[t] : e # NoEntry => Whole(t, e)
        /\ \A r \in Readers : reader[r].st = "entry" /\ ~reader[r].stale =>
              Whole(reader[r].tile, reader[r].entry)

\* While create() runs nothing points into the log it is about to truncate.
CreateInv ==
    \A p \in Procs : pc[p] \in {"indexTruncated", "indexReady", "dataTruncated"} =>
        /\ \A t \in Tiles : index[t] = NoEntry /\ onDisk[t] = {NoEntry}
        /\ \A r \in Readers : reader[r].st = "entry" => reader[r].stale
        /\ pc[p] = "dataTruncated" => dataLen = 0

IInv ==
    /\ TypeOK
    /\ LockInv
    /\ TailInv
    /\ PrefixInv
    /\ NoSharedBytes
    /\ CommittedBytes
    /\ NoCrashInv
    /\ WritesPreallocated
    /\ CreateInv
------------------------------------------------------------------------------
(* Facts about the ghost tags and the types *)

LEMMA Distinct ==
    /\ \A e \in Entry : e # NoEntry /\ e.blob \in Blobs /\ End(e) \in Nat /\ e.off \in Nat
                        /\ BlobLen[e.blob] \in Nat \ {0}
    /\ \A w \in Busy : w # Idle /\ w.blob \in Blobs /\ w.tile \in Tiles /\ End(w) \in Nat
                       /\ w.off \in Nat /\ BlobLen[w.blob] \in Nat \ {0}
    /\ \A rd \in Reading : rd # NotReading /\ rd.entry \in Entry /\ rd.st = "entry"
    /\ NotReading.st = "idle" /\ Idle.st = "idle"
    /\ \A t \in Tiles, b \in Blobs : <<t, b>> # Hole
BY StoreAssumption, SMT DEF Entry, NoEntry, Busy, Idle, Reading, NotReading, End

\* A blob that ends where another starts, or before, shares no byte with it.
LEMMA Below ==
    ASSUME NEW e, NEW f, e.off \in Int, f.off \in Int, End(e) \in Int, End(f) \in Int,
           End(e) <= f.off
    PROVE  Bytes(f) \cap Bytes(e) = {}
BY DEF Bytes

LEMMA InitIInv == Init => IInv
<1> SUFFICES ASSUME Init PROVE IInv
    OBVIOUS
<1>1. TypeOK
    <2>1. 0 \in 0 .. MaxOffset /\ 0 \in 0 .. MaxHostCrashes /\ 0 \in Nat
        BY StoreAssumption
    <2>2. index \in [Tiles -> Entry \cup {NoEntry}] /\ log \in [Offsets -> Written \cup {Hole}]
        BY DEF Init
    <2>3. onDisk \in [Tiles -> SUBSET (Entry \cup {NoEntry})]
        BY DEF Init
    <2>4. pc \in [Procs -> {"closed", "locked", "indexTruncated", "indexReady",
                           "dataTruncated", "open"}]
        BY DEF Init
    <2>5. /\ thread \in [Procs \X Threads -> Busy \cup {Idle}]
          /\ reader \in [Readers -> Reading \cup {NotReading}]
        BY DEF Init
    <2>6. /\ tail \in [Procs -> 0 .. MaxOffset] /\ allocated \in [Procs -> Nat]
          /\ syncing \in [Procs -> (SUBSET Tiles) \cup {None}]
        BY <2>1 DEF Init
    <2> QED
        BY <2>1, <2>2, <2>3, <2>4, <2>5, <2>6 DEF Init, TypeOK
<1>2. LockInv /\ TailInv /\ PrefixInv /\ CommittedBytes /\ WritesPreallocated /\ CreateInv
    BY DEF Init, LockInv, TailInv, PrefixInv, CommittedBytes, WritesPreallocated, CreateInv,
           Present, Idle
<1>3. NoSharedBytes
    BY DEF Init, NoSharedBytes, Present, Reserved
<1>4. NoCrashInv
    BY DEF Init, NoCrashInv, NotReading
<1> QED
    BY <1>1, <1>2, <1>3, <1>4 DEF IInv

LEMMA AcquireIInv ==
    ASSUME IInv, NEW p \in Procs, AcquireLock(p) PROVE IInv'
<1> USE DEF IInv
<1>1. TypeOK'
    BY DEF TypeOK, AcquireLock, fileVars, diskVars
<1>2. LockInv'
    BY StoreAssumption DEF TypeOK, LockInv, AcquireLock
<1>3. TailInv' /\ PrefixInv' /\ WritesPreallocated'
    BY DEF TypeOK, TailInv, PrefixInv, WritesPreallocated, AcquireLock, fileVars, diskVars
<1>4. NoSharedBytes' /\ CommittedBytes'
    BY DEF NoSharedBytes, CommittedBytes, Present, Reserved, AcquireLock, fileVars, diskVars
<1>5. NoCrashInv' /\ CreateInv'
    BY DEF TypeOK, NoCrashInv, Whole, CreateInv, AcquireLock, fileVars, diskVars
<1> QED
    BY <1>1, <1>2, <1>3, <1>4, <1>5

\* Letting the lock go: at a failed open, a close, or the death of the process.
LEMMA ReleaseIInv ==
    ASSUME IInv, NEW p \in Procs, pc[p] # "closed", Release(p),
           UNCHANGED <<fileVars, reader, diskVars>>
    PROVE  IInv'
<1> USE DEF IInv
<1>1. TypeOK'
    <2>1. thread' \in [Procs \X Threads -> Busy \cup {Idle}]
        BY DEF TypeOK, Release
    <2>2. tail' \in [Procs -> 0 .. MaxOffset] /\ allocated' \in [Procs -> Nat]
        BY StoreAssumption DEF TypeOK, Release
    <2>3. QED
        BY <2>1, <2>2 DEF TypeOK, Release, fileVars, diskVars
<1>2. \A w \in Procs \X Threads : thread'[w] = Idle
    BY StoreAssumption DEF TypeOK, LockInv, Release
<1>3. \A q \in Procs : pc'[q] = "closed"
    BY StoreAssumption DEF TypeOK, LockInv, Release
<1>4. LockInv'
    BY <1>2, <1>3 DEF LockInv
<1>5. TailInv' /\ PrefixInv' /\ WritesPreallocated' /\ CreateInv'
    BY <1>2, <1>3 DEF TailInv, PrefixInv, WritesPreallocated, CreateInv, Idle, fileVars
<1>6. NoSharedBytes' /\ CommittedBytes'
    BY <1>2 DEF NoSharedBytes, CommittedBytes, Present, Reserved, fileVars, diskVars
<1>7. NoCrashInv'
    BY <1>2 DEF NoCrashInv, Whole, fileVars, diskVars
<1> QED
    BY <1>1, <1>4, <1>5, <1>6, <1>7

LEMMA OpenIInv ==
    ASSUME IInv, NEW p \in Procs, Open(p) PROVE IInv'
<1> USE DEF IInv
<1>1. PICK m \in 0 .. MaxOffset :
          /\ RecoveredTail(m)
          /\ tail' = [tail EXCEPT ![p] = m]
          /\ allocated' = [allocated EXCEPT ![p] = m]
    BY DEF Open
<1>2. dataLen <= m /\ \A t \in Tiles : index[t] # NoEntry => End(index[t]) <= m
    BY <1>1 DEF RecoveredTail, Present
<1>3. \A q \in Procs : q # p => pc[q] = "closed"
    BY DEF LockInv, Open
<1>4. \A w \in Procs \X Threads : thread[w] = Idle
    BY <1>3 DEF LockInv, Open
<1>5. TypeOK'
    BY <1>1 DEF TypeOK, Open, fileVars, diskVars
<1>6. LockInv'
    BY <1>4 DEF TypeOK, LockInv, Open
<1>7. TailInv'
    BY <1>1, <1>2, <1>3, <1>4 DEF TypeOK, TailInv, Open, fileVars
<1>8. PrefixInv' /\ WritesPreallocated' /\ CreateInv'
    BY <1>4 DEF TypeOK, PrefixInv, WritesPreallocated, CreateInv, Open, Idle, fileVars, diskVars
<1>9. NoSharedBytes' /\ CommittedBytes' /\ NoCrashInv'
    BY DEF NoSharedBytes, CommittedBytes, NoCrashInv, Whole, Present, Reserved, Open,
           fileVars, diskVars
<1> QED
    BY <1>5, <1>6, <1>7, <1>8, <1>9

\* The steps of create(), which the lock holder takes with no put in progress.
LEMMA CreateIInv ==
    ASSUME IInv, NEW p \in Procs,
           TruncateIndex(p) \/ InitIndex(p) \/ TruncateData(p) \/ InitData(p)
    PROVE  IInv'
<1> USE DEF IInv
<1>1. \A q \in Procs : q # p => pc[q] = "closed"
    BY DEF LockInv, TruncateIndex, InitIndex, TruncateData, InitData
<1>2. \A w \in Procs \X Threads : thread[w] = Idle /\ thread'[w] = Idle
    BY <1>1 DEF LockInv, TruncateIndex, InitIndex, TruncateData, InitData
<1>3. CASE TruncateIndex(p)
    <2>1. \A t \in Tiles : index'[t] = NoEntry /\ onDisk'[t] = {NoEntry}
        BY <1>3 DEF TruncateIndex
    <2>2. \A r \in Readers : reader'[r].st = "entry" => reader'[r].stale
        BY <1>3, Distinct DEF TruncateIndex, TypeOK, Reading, NotReading
    <2>3. reader' \in [Readers -> Reading \cup {NotReading}]
        <3>1. ASSUME NEW r \in Readers, reader[r].st = "entry"
              PROVE  [reader[r] EXCEPT !.stale = TRUE] \in Reading
            <4>1. reader[r] \in Reading
                BY <3>1, Distinct DEF TypeOK
            <4>2. QED
                BY <4>1 DEF Reading
        <3>2. QED
            BY <1>3, <3>1 DEF TypeOK, TruncateIndex
    <2>4. TypeOK'
        BY <1>3, <2>3 DEF TypeOK, TruncateIndex
    <2>5. LockInv' /\ CreateInv'
        BY <1>1, <1>2, <1>3, <2>1, <2>2 DEF TypeOK, LockInv, CreateInv, TruncateIndex
    <2>6. TailInv' /\ PrefixInv' /\ WritesPreallocated'
        BY <1>1, <1>2, <1>3, <2>1
        DEF TypeOK, TailInv, PrefixInv, WritesPreallocated, TruncateIndex, Idle
    <2>7. NoSharedBytes' /\ CommittedBytes'
        BY <1>2, <2>1 DEF NoSharedBytes, CommittedBytes, Present, Reserved
    <2>8. NoCrashInv'
        BY <2>1, <2>2 DEF NoCrashInv
    <2> QED
        BY <2>4, <2>5, <2>6, <2>7, <2>8
<1>4. CASE InitIndex(p) \/ TruncateData(p) \/ InitData(p)
    <2>1. /\ \A t \in Tiles : index'[t] = NoEntry /\ onDisk'[t] = {NoEntry}
          /\ \A r \in Readers : reader'[r].st = "entry" => reader'[r].stale
        BY <1>4 DEF CreateInv, InitIndex, TruncateData, InitData, diskVars
    <2>2. TypeOK'
        <3>1. InitIndex(p) => TypeOK'
            BY DEF TypeOK, InitIndex, diskVars
        <3>2. TruncateData(p) => TypeOK'
            <4>1. 0 \in 0 .. MaxOffset
                BY StoreAssumption
            <4>2. QED
                BY <4>1 DEF TypeOK, TruncateData
        <3>3. InitData(p) => TypeOK'
            BY StoreAssumption DEF TypeOK, InitData, diskVars
        <3> QED
            BY <1>4, <3>1, <3>2, <3>3
    <2>3. LockInv' /\ CreateInv'
        BY <1>1, <1>2, <1>4, <2>1
        DEF TypeOK, LockInv, CreateInv, InitIndex, TruncateData, InitData
    <2>4. TailInv'
        BY <1>1, <1>2, <1>4, <2>1 DEF TypeOK, TailInv, CreateInv, InitIndex, TruncateData, InitData
    <2>5. PrefixInv' /\ WritesPreallocated'
        BY <1>2 DEF PrefixInv, WritesPreallocated, Idle
    <2>6. NoSharedBytes' /\ CommittedBytes'
        BY <1>2, <2>1 DEF NoSharedBytes, CommittedBytes, Present, Reserved
    <2>7. NoCrashInv'
        BY <2>1 DEF NoCrashInv
    <2> QED
        BY <2>2, <2>3, <2>4, <2>5, <2>6, <2>7
<1> QED
    BY <1>3, <1>4

------------------------------------------------------------------------------
(* The steps of a put *)

LEMMA ReserveIInv ==
    ASSUME IInv, NEW w \in Procs \X Threads, NEW x \in Tiles, NEW b \in Blobs,
           Reserve(w, x, b)
    PROVE  IInv'
<1> DEFINE p == w[1]
<1> USE DEF IInv
<1>1. /\ p \in Procs /\ pc[p] = "open" /\ thread[w] = Idle
      /\ tail[p] + BlobLen[b] <= MaxOffset
      /\ tail' = [tail EXCEPT ![p] = tail[p] + BlobLen[b]]
      /\ UNCHANGED <<fileVars, lock, pc, allocated, reader, syncing, diskVars>>
    BY DEF Reserve
<1>2. /\ tail[p] \in 0 .. MaxOffset /\ MaxOffset \in Nat /\ BlobLen[b] \in Nat \ {0}
      /\ allocated[p] \in Nat
    BY <1>1, StoreAssumption DEF TypeOK
<1>3. PICK put \in Busy :
          /\ thread' = [thread EXCEPT ![w] = put]
          /\ put.off = tail[p] /\ put.blob = b /\ put.done = 0
          /\ put.st = "writing" => tail[p] + BlobLen[b] <= allocated[p]
    <2>1. CASE tail[p] + BlobLen[b] <= allocated[p]
        <3> DEFINE new == [st |-> "writing", tile |-> x, blob |-> b, off |-> tail[p], done |-> 0]
        <3>1. new \in Busy
            BY <1>2 DEF Busy
        <3>2. thread' = [thread EXCEPT ![w] = new]
            BY <2>1 DEF Reserve
        <3> QED
            BY <2>1, <3>1, <3>2
    <2>2. CASE ~(tail[p] + BlobLen[b] <= allocated[p])
        <3> DEFINE new == [st |-> "queued", tile |-> x, blob |-> b, off |-> tail[p], done |-> 0]
        <3>1. new \in Busy
            BY <1>2 DEF Busy
        <3>2. thread' = [thread EXCEPT ![w] = new]
            BY <2>2 DEF Reserve
        <3> QED
            BY <3>1, <3>2
    <2> QED
        BY <2>1, <2>2
<1>4. /\ put # Idle /\ End(put) = tail[p] + BlobLen[b]
      /\ End(put) \in Int /\ put.off \in Int
    BY <1>2, <1>3, Distinct DEF End
<1>5. TypeOK'
    <2>1. tail' \in [Procs -> 0 .. MaxOffset]
        BY <1>1, <1>2 DEF TypeOK
    <2>2. thread' \in [Procs \X Threads -> Busy \cup {Idle}]
        BY <1>3 DEF TypeOK
    <2> QED
        BY <1>1, <2>1, <2>2 DEF TypeOK, fileVars, diskVars
<1>6. thread'[w] = put /\ \A v \in Procs \X Threads : v # w => thread'[v] = thread[v]
    BY <1>3 DEF TypeOK
<1>7. tail'[p] = tail[p] + BlobLen[b] /\ \A q \in Procs : q # p => tail'[q] = tail[q]
    BY <1>1 DEF TypeOK
<1>8. LockInv'
    BY <1>1, <1>4, <1>6 DEF LockInv
\* Only the lock holder has puts, and they all end at or below its old tail.
<1>9. \A v \in Procs \X Threads : thread[v] # Idle =>
          v[1] = p /\ thread[v] \in Busy /\ End(thread[v]) <= tail[p]
    BY <1>1 DEF LockInv, TailInv, TypeOK
<1>10. TailInv'
    <2>1. \A q \in Procs : pc'[q] = "open" =>
              /\ dataLen' <= tail'[q]
              /\ \A t \in Tiles : index'[t] # NoEntry => End(index'[t]) <= tail'[q]
        <3> SUFFICES ASSUME NEW q \in Procs, pc[q] = "open"
                     PROVE  /\ dataLen <= tail'[q]
                            /\ \A t \in Tiles : index[t] # NoEntry => End(index[t]) <= tail'[q]
            BY <1>1 DEF fileVars
        <3>1. q = p
            BY <1>1 DEF LockInv
        <3>2. dataLen <= tail[p] /\ dataLen \in Nat
              /\ \A t \in Tiles : index[t] # NoEntry => End(index[t]) <= tail[p] /\ End(index[t]) \in Nat
            BY <1>1, Distinct DEF TailInv, TypeOK
        <3> QED
            BY <1>2, <1>7, <3>1, <3>2
    <2>2. \A v \in Procs \X Threads : thread'[v] # Idle => End(thread'[v]) <= tail'[v[1]]
        <3> SUFFICES ASSUME NEW v \in Procs \X Threads, thread'[v] # Idle
                     PROVE  End(thread'[v]) <= tail'[v[1]]
            OBVIOUS
        <3>1. CASE v = w
            BY <1>2, <1>4, <1>6, <1>7, <3>1
        <3>2. CASE v # w
            <4>1. End(thread[v]) \in Nat /\ End(thread[v]) <= tail[p] /\ v[1] = p
                BY <1>6, <1>9, <3>2, Distinct
            <4> QED
                BY <1>2, <1>6, <1>7, <3>2, <4>1
        <3> QED
            BY <3>1, <3>2
    <2> QED
        BY <1>1, <2>1, <2>2 DEF TailInv, fileVars
<1>11. PrefixInv'
    BY <1>1, <1>2, <1>3, <1>6 DEF PrefixInv, fileVars
\* So the new range lies above every other one.
<1>12. /\ \A t \in Present : Bytes(put) \cap Bytes(index[t]) = {}
       /\ \A v \in Procs \X Threads : thread[v] # Idle => Bytes(put) \cap Bytes(thread[v]) = {}
    <2>1. \A t \in Present : End(index[t]) \in Nat /\ End(index[t]) <= tail[p] /\ index[t].off \in Nat
        BY <1>1, Distinct DEF TailInv, Present, TypeOK
    <2>2. \A v \in Procs \X Threads : thread[v] # Idle =>
              End(thread[v]) \in Nat /\ End(thread[v]) <= tail[p] /\ thread[v].off \in Nat
        BY <1>9, Distinct
    <2>3. \A t \in Present : Bytes(put) \cap Bytes(index[t]) = {}
        BY <1>2, <1>3, <1>4, <2>1, Below
    <2> QED
        BY <1>2, <1>3, <1>4, <2>2, <2>3, Below
<1>13. NoSharedBytes'
    <2>1. \A v \in Reserved' : v = w \/ (v \in Reserved /\ thread'[v] = thread[v])
        BY <1>6 DEF Reserved
    <2>2. Present' = Present /\ index' = index
        BY <1>1 DEF Present, fileVars
    <2> QED
        BY <1>6, <1>12, <2>1, <2>2 DEF NoSharedBytes, Reserved
<1>14. CommittedBytes'
    BY <1>1 DEF CommittedBytes, Present, fileVars, diskVars
<1>15. \A t, e : Whole(t, e) /\ e \in Entry => Whole(t, e)'
    <2> SUFFICES ASSUME NEW t, NEW e \in Entry, Whole(t, e) PROVE Whole(t, e)'
        OBVIOUS
    <2>1. Bytes(put) \cap Bytes(e) = {}
        <3>1. End(e) <= dataLen /\ End(e) \in Nat /\ e.off \in Nat /\ dataLen \in Nat
              /\ dataLen <= tail[p]
            BY <1>1, Distinct DEF Whole, TailInv, TypeOK, Entry
        <3> QED
            BY <1>2, <1>3, <1>4, <3>1, Below
    <2> QED
        BY <1>1, <1>6, <2>1 DEF Whole, fileVars
<1>16. NoCrashInv'
    <2> SUFFICES ASSUME hostCrashes = 0 PROVE NoCrashInv'
        BY <1>1 DEF NoCrashInv, diskVars
    <2>1. \A t \in Tiles : \A e \in onDisk[t] : e # NoEntry => e \in Entry
        BY DEF TypeOK
    <2>2. \A r \in Readers : reader[r].st = "entry" => reader[r].entry \in Entry
        BY Distinct DEF TypeOK
    <2> QED
        BY <1>1, <1>15, <2>1, <2>2 DEF NoCrashInv, fileVars, diskVars
<1>17. WritesPreallocated'
    BY <1>1, <1>3, <1>4, <1>6 DEF WritesPreallocated
<1>18. CreateInv'
    BY <1>1 DEF CreateInv, fileVars, diskVars
<1> QED
    BY <1>5, <1>8, <1>10, <1>11, <1>13, <1>14, <1>16, <1>17, <1>18

\* A put that moves on without touching a file: Grow, and a put that fails.
LEMMA GrowIInv ==
    ASSUME IInv, NEW w \in Procs \X Threads, Grow(w) PROVE IInv'
<1> DEFINE p == w[1]
           put == [thread[w] EXCEPT !.st = "writing"]
           grown == IF End(thread[w]) <= allocated[p] THEN allocated[p]
                    ELSE ChunkCeil(End(thread[w]))
<1> USE DEF IInv
<1>1. /\ p \in Procs /\ thread[w].st = "queued"
      /\ allocated' = [allocated EXCEPT ![p] = grown]
      /\ thread' = [thread EXCEPT ![w] = put]
      /\ UNCHANGED <<fileVars, lock, pc, tail, reader, syncing, diskVars>>
    BY DEF Grow
<1>2. /\ thread[w] \in Busy /\ thread[w] # Idle
      /\ allocated[p] \in Nat /\ Chunk \in Nat \ {0} /\ End(thread[w]) \in Nat
    BY <1>1, StoreAssumption, Distinct DEF TypeOK
<1>3. /\ put \in Busy /\ put # Idle /\ End(put) = End(thread[w]) /\ Bytes(put) = Bytes(thread[w])
      /\ put.tile = thread[w].tile /\ put.blob = thread[w].blob
      /\ put.off = thread[w].off /\ put.done = thread[w].done
    BY <1>2, Distinct DEF Busy, End, Bytes
<1>4. grown \in Nat /\ grown >= allocated[p] /\ grown >= End(thread[w])
    <2>1. ASSUME NEW n \in Nat PROVE ChunkCeil(n) \in Nat /\ ChunkCeil(n) >= n
        <3> DEFINE d == (n + Chunk - 1) \div Chunk
        <3>1. n + Chunk - 1 \in Nat /\ Chunk > 0 /\ Chunk \in Nat
            BY <1>2
        <3>2. d \in Nat /\ d * Chunk <= n + Chunk - 1 /\ n + Chunk - 1 < d * Chunk + Chunk
            BY <3>1
        <3>3. d * Chunk \in Nat
            BY <3>1, <3>2
        <3> QED
            BY <3>1, <3>2, <3>3 DEF ChunkCeil
    <2> QED
        BY <1>2, <2>1
<1>5. thread'[w] = put /\ \A v \in Procs \X Threads : v # w => thread'[v] = thread[v]
    BY <1>1 DEF TypeOK
<1>6. TypeOK'
    <2>1. allocated' \in [Procs -> Nat]
        BY <1>1, <1>4 DEF TypeOK
    <2>2. thread' \in [Procs \X Threads -> Busy \cup {Idle}]
        BY <1>1, <1>3 DEF TypeOK
    <2> QED
        BY <1>1, <2>1, <2>2 DEF TypeOK, fileVars, diskVars
<1>7. LockInv'
    BY <1>1, <1>2, <1>5 DEF LockInv
<1>8. TailInv'
    BY <1>1, <1>2, <1>3, <1>5 DEF TailInv, fileVars
<1>9. PrefixInv'
    BY <1>1, <1>2, <1>3, <1>5 DEF PrefixInv, fileVars
<1>10. NoSharedBytes' /\ CommittedBytes'
    <2>1. Reserved' = Reserved /\ Present' = Present /\ index' = index
          /\ \A v \in Reserved : Bytes(thread'[v]) = Bytes(thread[v])
        BY <1>1, <1>2, <1>3, <1>5 DEF Reserved, Present, fileVars
    <2> QED
        BY <1>1, <2>1 DEF NoSharedBytes, CommittedBytes, fileVars, diskVars
<1>11. NoCrashInv'
    <2>1. \A t, e : Whole(t, e) => Whole(t, e)'
        BY <1>1, <1>2, <1>3, <1>5 DEF Whole, fileVars
    <2> QED
        BY <1>1, <2>1 DEF NoCrashInv, fileVars, diskVars
<1>12. WritesPreallocated'
    <2> SUFFICES ASSUME NEW v \in Procs \X Threads, thread'[v].st = "writing"
                 PROVE  End(thread'[v]) <= allocated'[v[1]]
        BY DEF WritesPreallocated
    <2>1. CASE v = w
        BY <1>1, <1>3, <1>4, <1>5, <2>1 DEF TypeOK
    <2>2. CASE v # w
        <3>1. thread[v] \in Busy /\ End(thread[v]) \in Nat /\ End(thread[v]) <= allocated[v[1]]
            BY <1>5, <2>2, Distinct DEF WritesPreallocated, TypeOK
        <3>2. allocated'[v[1]] >= allocated[v[1]] /\ allocated'[v[1]] \in Nat /\ allocated[v[1]] \in Nat
            BY <1>1, <1>2, <1>4 DEF TypeOK
        <3> QED
            BY <1>5, <2>2, <3>1, <3>2
    <2> QED
        BY <2>1, <2>2
<1>13. CreateInv'
    BY <1>1 DEF CreateInv, fileVars, diskVars
<1> QED
    BY <1>6, <1>7, <1>8, <1>9, <1>10, <1>11, <1>12, <1>13

LEMMA PutFailsIInv ==
    ASSUME IInv, NEW w \in Procs \X Threads, PutFails(w) PROVE IInv'
<1> USE DEF IInv
<1>1. /\ thread'[w] = Idle /\ \A v \in Procs \X Threads : v # w => thread'[v] = thread[v]
      /\ UNCHANGED <<fileVars, handleVars, reader, syncing, diskVars>>
    BY DEF TypeOK, PutFails
<1>2. TypeOK'
    BY <1>1 DEF TypeOK, PutFails, fileVars, handleVars, diskVars
<1>3. LockInv' /\ TailInv' /\ PrefixInv'
    BY <1>1 DEF LockInv, TailInv, PrefixInv, fileVars, handleVars
<1>4. NoSharedBytes' /\ CommittedBytes'
    <2>1. Reserved' \subseteq Reserved /\ \A v \in Reserved' : thread'[v] = thread[v]
        BY <1>1 DEF Reserved
    <2> QED
        BY <1>1, <2>1 DEF NoSharedBytes, CommittedBytes, Present, fileVars, diskVars
<1>5. NoCrashInv'
    <2>1. \A t, e : Whole(t, e) => Whole(t, e)'
        BY <1>1 DEF Whole, fileVars
    <2> QED
        BY <1>1, <2>1 DEF NoCrashInv, fileVars, diskVars
<1>6. WritesPreallocated' /\ CreateInv'
    BY <1>1, Distinct DEF WritesPreallocated, CreateInv, fileVars, handleVars, diskVars
<1> QED
    BY <1>2, <1>3, <1>4, <1>5, <1>6

\* Every byte written lies in the writer's own reservation, which shares none
\* with the blobs the index, the disk or a reader names.
LEMMA WriteByteIInv ==
    ASSUME IInv, NEW w \in Procs \X Threads, WriteByte(w) PROVE IInv'
<1> DEFINE put == thread[w]
           o == put.off + put.done
           next == [put EXCEPT !.done = put.done + 1]
<1> USE DEF IInv
<1>1. /\ put.st = "writing" /\ put.done < BlobLen[put.blob]
      /\ log' = [log EXCEPT ![o] = <<put.tile, put.blob>>]
      /\ dataLen' = Larger(dataLen, o + 1)
      /\ dirty' = dirty \cup {o}
      /\ thread' = [thread EXCEPT ![w] = next]
      /\ UNCHANGED <<index, indexOk, dataOk, lock, pc, tail, allocated, reader, onDisk, durLen,
                     syncing, durable, hostCrashes>>
    BY DEF WriteByte, handleVars
<1>2. put \in Busy /\ put # Idle /\ w[1] \in Procs
    BY <1>1, Distinct DEF TypeOK
<1>3. /\ put.off \in Nat /\ put.done \in Nat /\ BlobLen[put.blob] \in Nat /\ put.tile \in Tiles
      /\ put.blob \in Blobs /\ o \in Nat /\ End(put) = put.off + BlobLen[put.blob] /\ o < End(put)
    BY <1>1, <1>2, Distinct DEF Busy, End
<1>4. o \in Bytes(put)
    BY <1>3 DEF Bytes
<1>5. tail[w[1]] \in 0 .. MaxOffset /\ End(put) <= tail[w[1]] /\ MaxOffset \in Nat
      /\ pc[w[1]] = "open" /\ dataLen <= tail[w[1]] /\ dataLen \in Nat
    BY <1>2, StoreAssumption DEF TypeOK, TailInv, LockInv
<1>6. o \in Offsets /\ o + 1 \in 0 .. MaxOffset
    BY <1>3, <1>5 DEF Offsets
<1>7. /\ dataLen' \in 0 .. MaxOffset /\ dataLen <= dataLen' /\ o + 1 <= dataLen'
      /\ dataLen' <= tail[w[1]]
    BY <1>1, <1>3, <1>5, <1>6 DEF Larger
<1>8. log'[o] = <<put.tile, put.blob>> /\ \A q : q # o => log'[q] = log[q]
    BY <1>1, <1>6 DEF TypeOK
<1>9. /\ next \in Busy /\ next # Idle /\ next.tile = put.tile /\ next.blob = put.blob
      /\ next.off = put.off /\ next.done = put.done + 1 /\ next.st = put.st
    BY <1>2, <1>3, Distinct DEF Busy
<1>10. Bytes(next) = Bytes(put) /\ End(next) = End(put)
    BY <1>9 DEF Bytes, End
<1>11. thread'[w] = next /\ \A v \in Procs \X Threads : v # w => thread'[v] = thread[v]
    BY <1>1 DEF TypeOK
<1>12. TypeOK'
    <2>1. log' \in [Offsets -> Written \cup {Hole}]
        BY <1>1, <1>3 DEF TypeOK, Written
    <2>2. thread' \in [Procs \X Threads -> Busy \cup {Idle}]
        BY <1>1, <1>9 DEF TypeOK
    <2> QED
        BY <1>1, <1>6, <1>7, <2>1, <2>2 DEF TypeOK
<1>13. LockInv' /\ WritesPreallocated' /\ CreateInv'
    <2>1. \A q \in Procs : pc[q] # "dataTruncated"
        BY <1>5, <1>2 DEF LockInv
    <2> QED
        BY <1>1, <1>2, <1>9, <1>10, <1>11, <2>1 DEF LockInv, WritesPreallocated, CreateInv
<1>14. TailInv'
    <2>1. \A q \in Procs : pc[q] = "open" => q = w[1]
        BY <1>2, <1>5 DEF LockInv
    <2> QED
        BY <1>1, <1>2, <1>7, <1>10, <1>11, <2>1 DEF TailInv
\* The byte lies in no other put's range.
<1>15. \A v \in Procs \X Threads : v # w /\ thread[v] # Idle => o \notin Bytes(thread[v])
    BY <1>2, <1>4 DEF NoSharedBytes, Reserved
<1>16. PrefixInv'
    <2> SUFFICES ASSUME NEW v \in Procs \X Threads, thread'[v] # Idle
                 PROVE  /\ thread'[v].done <= BlobLen[thread'[v].blob]
                        /\ thread'[v].done > 0 => thread'[v].off + thread'[v].done <= dataLen'
                        /\ \A q \in thread'[v].off .. thread'[v].off + thread'[v].done - 1 :
                              log'[q] = <<thread'[v].tile, thread'[v].blob>>
        BY DEF PrefixInv
    <2>1. CASE v = w
        BY <1>1, <1>2, <1>3, <1>7, <1>8, <1>9, <1>11, <2>1 DEF PrefixInv
    <2>2. CASE v # w
        <3>1. thread'[v] = thread[v] /\ thread[v] \in Busy
            BY <1>11, <2>2 DEF TypeOK
        <3>2. /\ thread[v].off \in Nat /\ thread[v].done \in Nat /\ BlobLen[thread[v].blob] \in Nat
              /\ thread[v].done <= BlobLen[thread[v].blob]
            BY <3>1, Distinct DEF PrefixInv, Busy
        <3>3. \A q \in thread[v].off .. thread[v].off + thread[v].done - 1 : q \in Bytes(thread[v])
            BY <3>2 DEF Bytes, End
        <3>4. o \notin Bytes(thread[v])
            BY <1>15, <2>2, <3>1, Distinct
        <3> QED
            BY <1>3, <1>5, <1>7, <1>8, <2>2, <3>1, <3>2, <3>3, <3>4 DEF PrefixInv
    <2> QED
        BY <2>1, <2>2
<1>17. \A t \in Present : o \notin Bytes(index[t])
    BY <1>2, <1>4 DEF NoSharedBytes, Reserved
<1>18. NoSharedBytes' /\ CommittedBytes'
    <2>1. /\ Reserved' = Reserved /\ Present' = Present /\ index' = index
          /\ \A v \in Reserved : Bytes(thread'[v]) = Bytes(thread[v])
        BY <1>1, <1>2, <1>9, <1>10, <1>11 DEF Reserved, Present
    <2>2. NoSharedBytes'
        BY <2>1 DEF NoSharedBytes
    <2>3. CommittedBytes'
        BY <1>1, <1>8, <1>17, <2>1 DEF CommittedBytes
    <2> QED
        BY <2>2, <2>3
<1>19. \A t, e : e \in Entry /\ Whole(t, e) => Whole(t, e)'
    <2> SUFFICES ASSUME NEW t, NEW e \in Entry, Whole(t, e) PROVE Whole(t, e)'
        OBVIOUS
    <2>1. o \notin Bytes(e)
        BY <1>2, <1>4 DEF Whole
    <2>2. End(e) <= dataLen'
        BY <1>5, <1>7, Distinct DEF Whole
    <2>3. \A v \in Procs \X Threads : thread'[v] # Idle =>
              thread[v] # Idle /\ Bytes(thread'[v]) = Bytes(thread[v])
        BY <1>2, <1>10, <1>11
    <2> QED
        BY <1>8, <2>1, <2>2, <2>3 DEF Whole
<1>20. NoCrashInv'
    <2> SUFFICES ASSUME hostCrashes = 0 PROVE NoCrashInv'
        BY <1>1 DEF NoCrashInv
    <2>1. \A t \in Tiles : \A e \in onDisk[t] : e # NoEntry => e \in Entry
        BY DEF TypeOK
    <2>2. \A r \in Readers : reader[r].st = "entry" => reader[r].entry \in Entry
        BY Distinct DEF TypeOK
    <2> QED
        BY <1>1, <1>19, <2>1, <2>2 DEF NoCrashInv
<1> QED
    BY <1>12, <1>13, <1>14, <1>16, <1>18, <1>20

\* The entry of x changes to e, and the put of thread w (none, for a delete) is
\* over: e is absent, or is the whole blob that put wrote.
LEMMA SetEntryIInv ==
    ASSUME IInv, NEW w \in Procs \X Threads, pc[w[1]] = "open",
           NEW x \in Tiles, NEW e \in Entry \cup {NoEntry}, SetEntry(x, e),
           thread' = [thread EXCEPT ![w] = Idle],
           UNCHANGED <<log, dataLen, indexOk, dataOk, handleVars, reader, dirty, durLen,
                       hostCrashes>>,
           e # NoEntry => /\ thread[w] # Idle /\ Bytes(e) = Bytes(thread[w])
                          /\ End(e) = End(thread[w]) /\ End(e) <= dataLen
                          /\ \A o \in Bytes(e) : log[o] = <<x, e.blob>>
    PROVE  IInv'
<1> USE DEF IInv
<1>1. /\ index'[x] = e /\ \A t \in Tiles : t # x => index'[t] = index[t]
      /\ onDisk'[x] = onDisk[x] \cup {e} /\ \A t \in Tiles : t # x => onDisk'[t] = onDisk[t]
      /\ thread'[w] = Idle /\ \A v \in Procs \X Threads : v # w => thread'[v] = thread[v]
    BY DEF SetEntry, TypeOK
<1>2. UNCHANGED <<log, dataLen, indexOk, dataOk, lock, pc, tail, allocated, reader, dirty, durLen,
                  hostCrashes>>
    BY DEF handleVars
<1>3. TypeOK'
    <2>1. index' \in [Tiles -> Entry \cup {NoEntry}]
          /\ onDisk' \in [Tiles -> SUBSET (Entry \cup {NoEntry})]
        BY DEF SetEntry, TypeOK
    <2>2. durable' \in SUBSET Tiles /\ syncing' \in [Procs -> (SUBSET Tiles) \cup {None}]
        BY DEF SetEntry, TypeOK
    <2>3. thread' \in [Procs \X Threads -> Busy \cup {Idle}]
        BY DEF TypeOK
    <2> QED
        BY <1>2, <2>1, <2>2, <2>3 DEF TypeOK
<1>4. LockInv' /\ PrefixInv' /\ WritesPreallocated'
    BY <1>1, <1>2, Distinct DEF LockInv, PrefixInv, WritesPreallocated
<1>5. TailInv'
    <2>1. e # NoEntry => End(e) <= MaxOffset /\ \A q \in Procs : pc[q] = "open" => End(e) <= tail[q]
        <3> SUFFICES ASSUME e # NoEntry
                     PROVE  End(e) <= MaxOffset /\ \A q \in Procs : pc[q] = "open" => End(e) <= tail[q]
            OBVIOUS
        <3>1. dataLen \in 0 .. MaxOffset /\ End(e) \in Nat /\ MaxOffset \in Nat
              /\ \A q \in Procs : tail[q] \in 0 .. MaxOffset
            BY Distinct, StoreAssumption DEF TypeOK
        <3> QED
            BY <3>1 DEF TailInv
    <2> QED
        BY <1>1, <1>2, <2>1 DEF TailInv
\* The bytes of the new entry were a reservation: nothing else lies in them.
<1>6. NoSharedBytes'
    <2>1. Reserved' \subseteq Reserved \ {w} /\ \A v \in Reserved' : thread'[v] = thread[v]
        BY <1>1 DEF Reserved
    <2>2. Present' \subseteq Present \cup {x} /\ \A t \in Present' : t # x => t \in Present
        BY <1>1 DEF Present
    <2>3. e # NoEntry => w \in Reserved
        BY DEF Reserved
    <2>4. x \in Present' => e # NoEntry
        BY <1>1 DEF Present
    <2>5. \A t, u \in Present' : t # u => Bytes(index'[t]) \cap Bytes(index'[u]) = {}
        <3> SUFFICES ASSUME NEW t \in Present', NEW u \in Present', t # u
                     PROVE  Bytes(index'[t]) \cap Bytes(index'[u]) = {}
            OBVIOUS
        <3>0. t \in Tiles /\ u \in Tiles
            BY DEF Present
        <3>1. CASE t = x
            BY <1>1, <2>2, <2>3, <2>4, <3>0, <3>1 DEF NoSharedBytes
        <3>2. CASE u = x
            BY <1>1, <2>2, <2>3, <2>4, <3>0, <3>2 DEF NoSharedBytes
        <3>3. CASE t # x /\ u # x
            BY <1>1, <2>2, <3>0, <3>3 DEF NoSharedBytes
        <3> QED
            BY <3>1, <3>2, <3>3
    <2>6. \A v \in Reserved' : \A t \in Present' : Bytes(thread'[v]) \cap Bytes(index'[t]) = {}
        <3> SUFFICES ASSUME NEW v \in Reserved', NEW t \in Present'
                     PROVE  Bytes(thread[v]) \cap Bytes(index'[t]) = {}
            BY <2>1
        <3>1. CASE t = x
            BY <1>1, <2>1, <2>3, <2>4, <3>1 DEF NoSharedBytes
        <3>2. CASE t # x
            BY <1>1, <2>1, <2>2, <3>2 DEF NoSharedBytes, Present
        <3> QED
            BY <3>1, <3>2
    <2>7. \A u, v \in Reserved' : u # v => Bytes(thread'[u]) \cap Bytes(thread'[v]) = {}
        BY <2>1 DEF NoSharedBytes
    <2> QED
        BY <2>5, <2>6, <2>7 DEF NoSharedBytes
<1>7. CommittedBytes'
    BY <1>1, <1>2 DEF CommittedBytes, Present
<1>8. NoCrashInv'
    <2> SUFFICES ASSUME hostCrashes = 0 PROVE NoCrashInv'
        BY <1>2 DEF NoCrashInv
    <2>1. \A t, f : Whole(t, f) => Whole(t, f)'
        BY <1>1, <1>2 DEF Whole
    <2>2. e # NoEntry => Whole(x, e)'
        BY <1>1, <1>2 DEF Whole, NoSharedBytes, Reserved
    <2>3. \A t \in Tiles : index'[t] \in onDisk'[t]
        BY <1>1 DEF NoCrashInv
    <2>4. \A t \in Tiles : \A f \in onDisk'[t] : f # NoEntry => Whole(t, f)'
        BY <1>1, <2>1, <2>2 DEF NoCrashInv
    <2> QED
        BY <1>2, <2>1, <2>3, <2>4 DEF NoCrashInv
<1>9. CreateInv'
    BY <1>2 DEF CreateInv, LockInv
<1> QED
    BY <1>3, <1>4, <1>5, <1>6, <1>7, <1>8, <1>9

LEMMA CommitIInv ==
    ASSUME IInv, NEW w \in Procs \X Threads, Commit(w) PROVE IInv'
<1> DEFINE e == [off |-> thread[w].off, blob |-> thread[w].blob]
<1> USE DEF IInv
<1>1. /\ thread[w].st = "writing" /\ thread[w].done = BlobLen[thread[w].blob]
      /\ SetEntry(thread[w].tile, e)
      /\ thread' = [thread EXCEPT ![w] = Idle]
      /\ UNCHANGED <<log, dataLen, indexOk, dataOk, handleVars, reader, dirty, durLen, hostCrashes>>
    BY DEF Commit
<1>2. thread[w] \in Busy /\ thread[w] # Idle /\ pc[w[1]] = "open"
    BY <1>1, Distinct DEF TypeOK, LockInv
<1>3. e \in Entry /\ thread[w].tile \in Tiles
    BY <1>2 DEF Busy, Entry
<1>4. e.off = thread[w].off /\ e.blob = thread[w].blob
    OBVIOUS
<1>5. Bytes(e) = Bytes(thread[w]) /\ End(e) = End(thread[w])
    BY <1>4 DEF Bytes, End
<1>6. End(e) <= dataLen /\ \A o \in Bytes(e) : log[o] = <<thread[w].tile, e.blob>>
    <2>1. /\ BlobLen[thread[w].blob] \in Nat \ {0} /\ thread[w].off \in Nat
          /\ End(thread[w]) = thread[w].off + thread[w].done
        BY <1>1, <1>2, Distinct DEF End
    <2> QED
        BY <1>1, <1>2, <1>4, <1>5, <2>1 DEF PrefixInv, Bytes
<1> HIDE DEF e
<1> QED
    BY <1>1, <1>2, <1>3, <1>5, <1>6, SetEntryIInv

LEMMA DeleteIInv ==
    ASSUME IInv, NEW w \in Procs \X Threads, NEW x \in Tiles, Delete(w, x) PROVE IInv'
<1>1. thread' = [thread EXCEPT ![w] = Idle]
    BY DEF Delete, IInv, TypeOK
<1> QED
    BY <1>1, SetEntryIInv DEF Delete

------------------------------------------------------------------------------
(* Syncing, reading, crashing *)

LEMMA SyncIInv ==
    ASSUME IInv, NEW p \in Procs, SyncData(p) \/ SyncIndex(p) PROVE IInv'
<1> USE DEF IInv
<1>1. UNCHANGED <<index, log, dataLen, indexOk, dataOk, lock, pc, tail, allocated, thread, reader,
                  hostCrashes>>
    BY DEF SyncData, SyncIndex, fileVars, handleVars
<1>2. \A t \in Tiles : onDisk'[t] = onDisk[t] \/ onDisk'[t] = {index[t]}
    BY DEF SyncData, SyncIndex
<1>3. TypeOK'
    <2>1. CASE SyncData(p)
        BY <2>1 DEF TypeOK, SyncData, fileVars, handleVars
    <2>2. CASE SyncIndex(p)
        <3>1. onDisk' \in [Tiles -> SUBSET (Entry \cup {NoEntry})]
            BY <2>2 DEF TypeOK, SyncIndex
        <3>2. durable' \in SUBSET Tiles /\ syncing' \in [Procs -> (SUBSET Tiles) \cup {None}]
            BY <2>2 DEF TypeOK, SyncIndex
        <3> QED
            BY <2>2, <3>1, <3>2 DEF TypeOK, SyncIndex, fileVars, handleVars
    <2> QED
        BY <2>1, <2>2
<1>4. LockInv' /\ TailInv' /\ PrefixInv' /\ WritesPreallocated'
    BY <1>1 DEF LockInv, TailInv, PrefixInv, WritesPreallocated
<1>5. NoSharedBytes' /\ CommittedBytes'
    BY <1>1 DEF NoSharedBytes, CommittedBytes, Present, Reserved
<1>6. NoCrashInv'
    <2>1. \A t, e : Whole(t, e) => Whole(t, e)'
        BY <1>1 DEF Whole
    <2>2. hostCrashes = 0 => \A t \in Tiles : index[t] \in onDisk'[t] /\ onDisk'[t] \subseteq onDisk[t]
        BY <1>2 DEF NoCrashInv
    <2> QED
        BY <1>1, <2>1, <2>2 DEF NoCrashInv
<1>7. CreateInv'
    BY <1>1, <1>2 DEF CreateInv
<1> QED
    BY <1>3, <1>4, <1>5, <1>6, <1>7

LEMMA ReadIInv ==
    ASSUME IInv, NEW r \in Readers, ReadBlob(r) \/ \E x \in Tiles : ReadEntry(r, x)
    PROVE  IInv'
<1> USE DEF IInv
<1>1. UNCHANGED <<index, log, dataLen, indexOk, dataOk, lock, pc, tail, allocated, thread, onDisk,
                  dirty, durLen, syncing, durable, hostCrashes>>
    BY DEF ReadBlob, ReadEntry, fileVars, handleVars, diskVars
<1>2. PICK rd \in Reading \cup {NotReading} :
          /\ reader' = [reader EXCEPT ![r] = rd]
          /\ rd.st = "entry" => rd.tile \in Tiles /\ rd.entry = index[rd.tile] /\ rd.entry # NoEntry
    <2>1. CASE ReadBlob(r)
        BY <2>1, Distinct DEF ReadBlob
    <2>2. ASSUME NEW x \in Tiles, ReadEntry(r, x)
          PROVE  \E rd \in Reading \cup {NotReading} :
                    /\ reader' = [reader EXCEPT ![r] = rd]
                    /\ rd.st = "entry" =>
                          rd.tile \in Tiles /\ rd.entry = index[rd.tile] /\ rd.entry # NoEntry
        <3> DEFINE new == [st |-> "entry", tile |-> x, entry |-> index[x], stale |-> FALSE]
        <3>1. index[x] \in Entry /\ index[x] # NoEntry
            BY <2>2 DEF TypeOK, ReadEntry
        <3>2. new \in Reading
            BY <3>1 DEF Reading
        <3>3. reader' = [reader EXCEPT ![r] = new] /\ new.tile = x /\ new.entry = index[x]
            BY <2>2 DEF ReadEntry
        <3> QED
            BY <3>1, <3>2, <3>3
    <2> QED
        BY <2>1, <2>2
<1>3. reader'[r] = rd /\ \A q \in Readers : q # r => reader'[q] = reader[q]
    BY <1>2 DEF TypeOK
<1>4. TypeOK'
    <2>1. reader' \in [Readers -> Reading \cup {NotReading}]
        BY <1>2 DEF TypeOK
    <2> QED
        BY <1>1, <2>1 DEF TypeOK
<1>5. LockInv' /\ TailInv' /\ PrefixInv' /\ WritesPreallocated'
    BY <1>1 DEF LockInv, TailInv, PrefixInv, WritesPreallocated
<1>6. NoSharedBytes' /\ CommittedBytes'
    BY <1>1 DEF NoSharedBytes, CommittedBytes, Present, Reserved
<1>7. NoCrashInv'
    <2>1. \A t, e : Whole(t, e) => Whole(t, e)'
        BY <1>1 DEF Whole
    <2>2. hostCrashes = 0 /\ rd.st = "entry" => Whole(rd.tile, rd.entry)
        BY <1>2 DEF NoCrashInv
    <2> QED
        BY <1>1, <1>3, <2>1, <2>2 DEF NoCrashInv
<1>8. CreateInv'
    BY <1>1, <1>2, <1>3 DEF CreateInv
<1> QED
    BY <1>4, <1>5, <1>6, <1>7, <1>8

LEMMA HostCrashIInv ==
    ASSUME MaxHostCrashes <= 1, IInv, HostCrash PROVE IInv'
<1> USE DEF IInv
<1>1. hostCrashes = 0 /\ hostCrashes' = 1 /\ 1 \in 0 .. MaxHostCrashes
    BY StoreAssumption DEF HostCrash, TypeOK
<1>2. /\ \A w \in Procs \X Threads : thread'[w] = Idle
      /\ \A p \in Procs : pc'[p] = "closed"
      /\ \A t \in Tiles : index'[t] \in onDisk[t]
    BY DEF HostCrash
<1>3. PICK lost \in SUBSET dirty :
          log' = [o \in Offsets |-> IF o \in lost \/ o >= dataLen' THEN Hole ELSE log[o]]
    BY DEF HostCrash
<1>4. \A o \in Offsets : log'[o] = Hole \/ log'[o] = log[o]
    BY <1>3
<1>5. dataLen' \in 0 .. MaxOffset
    BY StoreAssumption DEF HostCrash, TypeOK
<1>6. \A t \in Tiles : index'[t] # NoEntry =>
          /\ index'[t] \in Entry /\ Whole(t, index'[t])
          /\ \A o \in Bytes(index'[t]) : o \in Offsets
    <2> SUFFICES ASSUME NEW t \in Tiles, index'[t] # NoEntry
                 PROVE  /\ index'[t] \in Entry /\ Whole(t, index'[t])
                        /\ \A o \in Bytes(index'[t]) : o \in Offsets
        OBVIOUS
    <2>1. index'[t] \in Entry /\ Whole(t, index'[t])
        BY <1>1, <1>2 DEF TypeOK, NoCrashInv
    <2>2. End(index'[t]) <= MaxOffset /\ index'[t].off \in Nat /\ End(index'[t]) \in Nat
          /\ MaxOffset \in Nat
        BY <2>1, Distinct, StoreAssumption DEF Whole, TypeOK
    <2> QED
        BY <2>1, <2>2 DEF Bytes, Offsets
<1>7. TypeOK'
    <2>1. index' \in [Tiles -> Entry \cup {NoEntry}] /\ onDisk' \in [Tiles -> SUBSET (Entry \cup {NoEntry})]
        BY DEF HostCrash, TypeOK
    <2>2. log' \in [Offsets -> Written \cup {Hole}]
        BY <1>3 DEF TypeOK
    <2>3. tail' \in [Procs -> 0 .. MaxOffset] /\ allocated' \in [Procs -> Nat]
        BY StoreAssumption DEF HostCrash
    <2>4. /\ lock' \in Procs \cup {None}
          /\ pc' \in [Procs -> {"closed", "locked", "indexTruncated", "indexReady",
                                "dataTruncated", "open"}]
          /\ thread' \in [Procs \X Threads -> Busy \cup {Idle}]
          /\ reader' \in [Readers -> Reading \cup {NotReading}]
          /\ syncing' \in [Procs -> (SUBSET Tiles) \cup {None}]
          /\ dirty' \in SUBSET Offsets
        BY DEF HostCrash
    <2> QED
        BY <1>1, <1>5, <2>1, <2>2, <2>3, <2>4 DEF HostCrash, TypeOK
<1>8. LockInv' /\ PrefixInv' /\ WritesPreallocated' /\ CreateInv'
    BY <1>2 DEF LockInv, PrefixInv, WritesPreallocated, CreateInv, Idle
<1>9. TailInv'
    <2>1. \A t \in Tiles : index'[t] # NoEntry => End(index'[t]) <= MaxOffset
        BY <1>6, Distinct, StoreAssumption DEF Whole, TypeOK
    <2> QED
        BY <1>2, <2>1 DEF TailInv
\* Before the crash two entries that shared a byte would each claim its tag.
<1>10. NoSharedBytes'
    <2>1. \A t, u \in Tiles : t # u /\ index'[t] # NoEntry /\ index'[u] # NoEntry =>
              Bytes(index'[t]) \cap Bytes(index'[u]) = {}
        BY <1>6 DEF Whole
    <2>2. Reserved' = {} /\ \A t \in Present' : t \in Tiles /\ index'[t] # NoEntry
        BY <1>2 DEF Reserved, Present
    <2> QED
        BY <2>1, <2>2 DEF NoSharedBytes
<1>11. CommittedBytes'
    BY <1>1, <1>4, <1>6 DEF CommittedBytes, Present, Whole
<1>12. NoCrashInv'
    BY <1>1 DEF NoCrashInv
<1> QED
    BY <1>7, <1>8, <1>9, <1>10, <1>11, <1>12

LEMMA StutterIInv ==
    ASSUME IInv, UNCHANGED vars PROVE IInv'
BY DEF IInv, vars, TypeOK, LockInv, TailInv, PrefixInv, NoSharedBytes, CommittedBytes, NoCrashInv,
       Whole, WritesPreallocated, CreateInv, Present, Reserved
------------------------------------------------------------------------------
(* The theorems *)

LEMMA NextIInv ==
    ASSUME MaxHostCrashes <= 1, IInv, [Next]_vars PROVE IInv'
<1>1. ASSUME NEW p \in Procs,
             \/ AcquireLock(p) \/ OpenFails(p) \/ Open(p)
             \/ TruncateIndex(p) \/ InitIndex(p) \/ TruncateData(p) \/ InitData(p)
             \/ SyncData(p) \/ SyncIndex(p)
             \/ Close(p) \/ ProcessCrash(p)
      PROVE  IInv'
    <2>1. CASE OpenFails(p) \/ Close(p) \/ ProcessCrash(p)
        BY <2>1, ReleaseIInv DEF OpenFails, Close, ProcessCrash
    <2> QED
        BY <1>1, <2>1, AcquireIInv, OpenIInv, CreateIInv, SyncIInv
<1>2. ASSUME NEW w \in Procs \X Threads, Write(w) PROVE IInv'
    BY <1>2, ReserveIInv, GrowIInv, WriteByteIInv, CommitIInv, PutFailsIInv, DeleteIInv DEF Write
<1>3. ASSUME NEW r \in Readers, ReadBlob(r) \/ \E x \in Tiles : ReadEntry(r, x) PROVE IInv'
    BY <1>3, ReadIInv
<1> QED
    BY <1>1, <1>2, <1>3, HostCrashIInv, StutterIInv DEF Next, StoreStep, ReadStep

LEMMA StoreIInv ==
    ASSUME MaxHostCrashes <= 1 PROVE Spec => []IInv
<1>1. IInv /\ [Next]_vars => IInv'
    BY NextIInv
<1> QED
    BY <1>1, InitIInv, PTL DEF Spec

\* The types of the store's state hold in every reachable state.
THEOREM TypeCorrect ==
    ASSUME MaxHostCrashes <= 1 PROVE Spec => []TypeOK
<1>1. IInv => TypeOK
    BY DEF IInv
<1> QED
    BY <1>1, StoreIInv, PTL

\* No two tiles share a byte of the data log, and no offset handed to a writer
\* lies in a committed blob or in another reservation, whatever the number of
\* writer processes and threads, and through a host crash (put_blob, open).
THEOREM OffsetsNeverShared ==
    ASSUME MaxHostCrashes <= 1 PROVE Spec => []NoSharedBytes
<1>1. IInv => NoSharedBytes
    BY DEF IInv
<1> QED
    BY <1>1, StoreIInv, PTL

\* The bytes behind a visible entry are those of the blob put for that tile, or
\* holes a host crash left, never another tile's: the entry is the commit point.
THEOREM EntryIsCommitPoint ==
    ASSUME MaxHostCrashes <= 1 PROVE Spec => []CommittedBytes
<1>1. IInv => CommittedBytes
    BY DEF IInv
<1> QED
    BY <1>1, StoreIInv, PTL

\* While the host stays up, a reader without a lock reads the blob of the entry
\* it holds, unless create() has emptied the store since (get_blob).
THEOREM LockFreeReads ==
    ASSUME MaxHostCrashes <= 1 PROVE Spec => []ReaderNotMisled
<1>1. IInv => ReaderNotMisled
    BY DEF IInv, NoCrashInv, Whole, ReaderNotMisled
<1> QED
    BY <1>1, StoreIInv, PTL

\* Every put writes inside extents that ensure_allocated has preallocated.
THEOREM PutsPreallocated ==
    ASSUME MaxHostCrashes <= 1 PROVE Spec => []WritesPreallocated
<1>1. IInv => WritesPreallocated
    BY DEF IInv
<1> QED
    BY <1>1, StoreIInv, PTL

\* The double check in ensure_allocated: the mark of an open handle never moves
\* back, however the threads queue on the grow mutex.
THEOREM AllocationMonotone ==
    ASSUME MaxHostCrashes <= 1 PROVE Spec => AllocationGrows
<1> DEFINE Grows == \A p \in Procs : pc[p] = "open" /\ pc'[p] = "open" =>
                                        allocated'[p] >= allocated[p]
<1>1. IInv /\ [Next]_vars => [Grows]_vars
    <2> SUFFICES ASSUME IInv, [Next]_vars PROVE Grows \/ UNCHANGED vars
        OBVIOUS
    <2>1. \A p \in Procs : allocated[p] \in Nat
        BY DEF IInv, TypeOK
    <2>2. allocated' = allocated => Grows
        BY <2>1
    <2>3. ASSUME NEW p \in Procs,
                 \/ AcquireLock(p) \/ TruncateIndex(p) \/ InitIndex(p) \/ TruncateData(p)
                 \/ SyncData(p) \/ SyncIndex(p)
          PROVE  Grows
        BY <2>2, <2>3
        DEF AcquireLock, TruncateIndex, InitIndex, TruncateData, SyncData, SyncIndex, handleVars
    <2>4. ASSUME NEW p \in Procs, Open(p) \/ InitData(p) PROVE Grows
        BY <2>1, <2>4 DEF Open, InitData, IInv, TypeOK
    <2>5. ASSUME NEW p \in Procs, OpenFails(p) \/ Close(p) \/ ProcessCrash(p) PROVE Grows
        BY <2>1, <2>5 DEF OpenFails, Close, ProcessCrash, Release, IInv, TypeOK
    <2>6. ASSUME NEW w \in Procs \X Threads, Grow(w) PROVE Grows
        <3>1. /\ thread[w] \in Busy /\ allocated[w[1]] \in Nat /\ End(thread[w]) \in Nat
              /\ Chunk \in Nat \ {0}
            BY <2>6, StoreAssumption, Distinct DEF Grow, IInv, TypeOK
        <3>2. End(thread[w]) <= allocated[w[1]] \/ ChunkCeil(End(thread[w])) >= allocated[w[1]]
            <4> DEFINE n == End(thread[w])
                       d == (n + Chunk - 1) \div Chunk
            <4>1. d \in Nat /\ n + Chunk - 1 < d * Chunk + Chunk /\ d * Chunk \in Int
                BY <3>1
            <4> QED
                BY <3>1, <4>1 DEF ChunkCeil
        <3> QED
            BY <2>1, <2>6, <3>2 DEF Grow, IInv, TypeOK
    <2>7. ASSUME NEW w \in Procs \X Threads, Write(w), ~Grow(w) PROVE Grows
        BY <2>2, <2>7 DEF Write, Reserve, WriteByte, Commit, PutFails, Delete, handleVars
    <2>8. ASSUME NEW r \in Readers, ReadBlob(r) \/ \E x \in Tiles : ReadEntry(r, x) PROVE Grows
        BY <2>2, <2>8 DEF ReadBlob, ReadEntry, handleVars
    <2>9. HostCrash => Grows
        BY DEF HostCrash
    <2> QED
        BY <2>3, <2>4, <2>5, <2>6, <2>7, <2>8, <2>9 DEF Next, StoreStep, ReadStep
<1>2. [Grows]_vars => [\A p \in Procs : pc[p] = "open" /\ pc'[p] = "open" =>
                                            allocated'[p] >= allocated[p]]_vars
    OBVIOUS
<1> QED
    BY <1>1, <1>2, StoreIInv, PTL DEF Spec, AllocationGrows
------------------------------------------------------------------------------
(* The store implements the map of TileMap *)

\* The blob of tile t is on the disk for good: synced, and no byte of it written
\* since.
Safe(t) ==
    index[t] # NoEntry => End(index[t]) <= durLen /\ Bytes(index[t]) \cap dirty = {}

\* The disk may always hold the current entry of a tile, and until the host
\* crashes the tiles a sync covers, or is about to cover, are safe.
DiskInv ==
    /\ \A t \in Tiles : index[t] \in onDisk[t]
    /\ \A p \in Procs : syncing[p] # None => pc[p] = "open"
    /\ hostCrashes = 0 =>
          /\ \A t \in durable : Safe(t) /\ onDisk[t] = {index[t]}
          /\ \A p \in Procs : syncing[p] # None => \A t \in syncing[p] : Safe(t)

LEMMA InitDiskInv == Init => DiskInv
BY DEF Init, DiskInv

LEMMA ReleaseDiskInv ==
    ASSUME IInv, DiskInv, NEW p \in Procs, Release(p), UNCHANGED <<fileVars, diskVars>>
    PROVE  DiskInv'
<1>1. \A q \in Procs : syncing'[q] # None => syncing'[q] = syncing[q] /\ q # p /\ pc'[q] = pc[q]
    BY DEF Release, IInv, TypeOK
<1>2. UNCHANGED <<index, onDisk, durLen, dirty, durable, hostCrashes>>
    BY DEF fileVars, diskVars
<1> QED
    BY <1>1, <1>2 DEF DiskInv, Safe

\* An entry changes on a handle that is open: what syncs and what is durable
\* let go of the tile.
LEMMA SetEntryDiskInv ==
    ASSUME IInv, DiskInv, NEW x \in Tiles, NEW e, SetEntry(x, e),
           UNCHANGED <<pc, dirty, durLen, hostCrashes>>
    PROVE  DiskInv'
<1>1. /\ \A t \in Tiles : t # x => index'[t] = index[t] /\ onDisk'[t] = onDisk[t]
      /\ index'[x] = e /\ onDisk'[x] = onDisk[x] \cup {e}
      /\ durable' = durable \ {x}
    BY DEF SetEntry, IInv, TypeOK
<1>2. \A p \in Procs : /\ syncing[p] = None => syncing'[p] = None
                       /\ syncing[p] # None => syncing'[p] = syncing[p] \ {x}
    BY DEF SetEntry
<1>3. /\ durable \subseteq Tiles
      /\ \A p \in Procs : syncing[p] # None => syncing[p] \subseteq Tiles
    BY DEF IInv, TypeOK
<1>4. \A t \in Tiles : t # x /\ Safe(t) => Safe(t)'
    BY <1>1 DEF Safe
<1>5. \A t \in Tiles : index'[t] \in onDisk'[t]
    BY <1>1 DEF DiskInv
<1>6. \A p \in Procs : syncing'[p] # None => pc'[p] = "open"
    BY <1>2 DEF DiskInv
<1>7. ASSUME hostCrashes' = 0
      PROVE  /\ \A t \in durable' : Safe(t)' /\ onDisk'[t] = {index'[t]}
             /\ \A p \in Procs : syncing'[p] # None => \A t \in syncing'[p] : Safe(t)'
    BY <1>1, <1>2, <1>3, <1>4, <1>7 DEF DiskInv
<1> QED
    BY <1>5, <1>6, <1>7 DEF DiskInv

\* A byte is written inside a reservation, which no committed blob shares.
LEMMA WriteByteDiskInv ==
    ASSUME IInv, DiskInv, NEW w \in Procs \X Threads, WriteByte(w)
    PROVE  /\ DiskInv'
           /\ \A t \in Tiles : index[t] # NoEntry => \A o \in Bytes(index[t]) : log'[o] = log[o]
<1> DEFINE o == thread[w].off + thread[w].done
<1>1. /\ thread[w].st = "writing" /\ thread[w].done < BlobLen[thread[w].blob]
      /\ log' = [log EXCEPT ![o] = <<thread[w].tile, thread[w].blob>>]
      /\ dirty' = dirty \cup {o}
      /\ UNCHANGED <<index, pc, onDisk, durLen, syncing, durable, hostCrashes>>
    BY DEF WriteByte, handleVars
<1>2. thread[w] \in Busy /\ thread[w] # Idle
    BY <1>1, Distinct DEF IInv, TypeOK
<1>3. o \in Bytes(thread[w])
    <2>1. thread[w].done \in Nat /\ thread[w].off \in Nat /\ BlobLen[thread[w].blob] \in Nat
        BY <1>2, Distinct DEF Busy
    <2> QED
        BY <1>1, <2>1 DEF Bytes, End
<1>4. \A t \in Tiles : index[t] # NoEntry => o \notin Bytes(index[t])
    BY <1>2, <1>3 DEF IInv, NoSharedBytes, Present, Reserved
<1> HIDE DEF o
<1>5. \A t \in Tiles : Safe(t) => Safe(t)'
    BY <1>1, <1>4 DEF Safe
<1>6. /\ durable \subseteq Tiles
      /\ \A p \in Procs : syncing[p] # None => syncing[p] \subseteq Tiles
    BY DEF IInv, TypeOK
<1>7. DiskInv'
    BY <1>1, <1>5, <1>6 DEF DiskInv
<1> QED
    BY <1>1, <1>4, <1>7

\* create() runs alone: nothing syncs, and nothing on the disk is claimed.
LEMMA CreateDiskInv ==
    ASSUME IInv, DiskInv, NEW p \in Procs,
           TruncateIndex(p) \/ InitIndex(p) \/ TruncateData(p) \/ InitData(p)
    PROVE  DiskInv'
<1>1. \A q \in Procs : syncing[q] = None
    <2>1. \A q \in Procs : pc[q] # "open"
        BY DEF IInv, LockInv, TruncateIndex, InitIndex, TruncateData, InitData
    <2> QED
        BY <2>1 DEF DiskInv
<1>2. syncing' = syncing
    BY DEF TruncateIndex, InitIndex, TruncateData, InitData
<1>3. \A t \in Tiles : index'[t] = NoEntry /\ onDisk'[t] = {NoEntry}
    BY DEF IInv, CreateInv, TruncateIndex, InitIndex, TruncateData, InitData, diskVars
<1>4. durable' \subseteq Tiles
    BY DEF IInv, TypeOK, TruncateIndex, InitIndex, TruncateData, InitData, diskVars
<1> QED
    BY <1>1, <1>2, <1>3, <1>4 DEF DiskInv, Safe

\* sync_all: what is in the log when it is fsynced is safe, unless a put or a
\* delete touches it before the index is.
LEMMA SyncDiskInv ==
    ASSUME IInv, DiskInv, NEW p \in Procs, SyncData(p) \/ SyncIndex(p)
    PROVE  DiskInv'
<1>1. UNCHANGED <<index, pc, hostCrashes>>
    BY DEF SyncData, SyncIndex, fileVars, handleVars
<1>2. CASE SyncData(p)
    <2>1. /\ UNCHANGED <<onDisk, durable>> /\ dirty' = {} /\ durLen' = dataLen
          /\ syncing' = [syncing EXCEPT ![p] = Tiles] /\ pc[p] = "open"
        BY <1>2 DEF SyncData
    <2>2. hostCrashes = 0 => \A t \in Tiles : Safe(t)'
        BY <1>1, <2>1 DEF Safe, IInv, NoCrashInv, Whole
    <2>3. /\ durable \subseteq Tiles
          /\ \A q \in Procs : /\ q # p => syncing'[q] = syncing[q]
                              /\ syncing'[q] # None => syncing'[q] \subseteq Tiles
        BY <2>1 DEF IInv, TypeOK
    <2> QED
        BY <1>1, <2>1, <2>2, <2>3 DEF DiskInv
<1>3. CASE SyncIndex(p)
    <2>1. /\ syncing[p] # None /\ onDisk' = [t \in Tiles |-> {index[t]}]
          /\ durable' = durable \cup syncing[p]
          /\ syncing' = [syncing EXCEPT ![p] = None] /\ UNCHANGED <<dirty, durLen>>
        BY <1>3 DEF SyncIndex
    <2>2. /\ durable \subseteq Tiles /\ syncing[p] \subseteq Tiles
          /\ \A q \in Procs : syncing'[q] # None => q # p /\ syncing'[q] = syncing[q]
        BY <2>1 DEF IInv, TypeOK
    <2>3. \A t \in Tiles : Safe(t) => Safe(t)'
        BY <1>1, <2>1 DEF Safe
    <2>4. \A q \in Procs : syncing[q] # None => syncing[q] \subseteq Tiles
        BY DEF IInv, TypeOK
    <2> QED
        BY <1>1, <2>1, <2>2, <2>3, <2>4 DEF DiskInv
<1> QED
    BY <1>2, <1>3

LEMMA NextDiskInv ==
    ASSUME MaxHostCrashes <= 1, IInv, DiskInv, [Next]_vars
    PROVE  DiskInv'
<1>1. ASSUME NEW p \in Procs, OpenFails(p) \/ Close(p) \/ ProcessCrash(p)
      PROVE  DiskInv'
    BY <1>1, ReleaseDiskInv DEF OpenFails, Close, ProcessCrash
<1>2. ASSUME NEW p \in Procs, AcquireLock(p) \/ Open(p)
      PROVE  DiskInv'
    <2>1. UNCHANGED <<index, onDisk, durLen, dirty, durable, hostCrashes, syncing>>
        BY <1>2 DEF AcquireLock, Open, fileVars, diskVars
    <2>2. \A q \in Procs : pc[q] = "open" => pc'[q] = "open"
        BY <1>2 DEF AcquireLock, Open, IInv, TypeOK
    <2> QED
        BY <2>1, <2>2 DEF DiskInv, Safe
<1>3. ASSUME NEW w \in Procs \X Threads, Write(w)
      PROVE  DiskInv'
    <2>1. CASE Commit(w)
        <3>1. thread[w].tile \in Tiles
            <4>1. thread[w] \in Busy
                BY <2>1, Distinct DEF Commit, IInv, TypeOK
            <4> QED
                BY <4>1 DEF Busy
        <3> QED
            BY <2>1, <3>1, SetEntryDiskInv DEF Commit, handleVars
    <2>2. ASSUME NEW x \in Tiles, Delete(w, x)
          PROVE  DiskInv'
        BY <2>2, SetEntryDiskInv DEF Delete, handleVars
    <2>3. CASE WriteByte(w)
        BY <2>3, WriteByteDiskInv
    <2>4. CASE Grow(w) \/ PutFails(w) \/ \E x \in Tiles, b \in Blobs : Reserve(w, x, b)
        <3>1. UNCHANGED <<index, onDisk, durLen, dirty, durable, hostCrashes, syncing, pc>>
            BY <2>4 DEF Grow, PutFails, Reserve, fileVars, diskVars, handleVars
        <3> QED
            BY <3>1 DEF DiskInv, Safe
    <2> QED
        BY <1>3, <2>1, <2>2, <2>3, <2>4 DEF Write
<1>4. CASE ReadStep \/ UNCHANGED vars
    <2>1. UNCHANGED <<index, onDisk, durLen, dirty, durable, hostCrashes, syncing, pc>>
        BY <1>4 DEF ReadStep, ReadBlob, ReadEntry, vars, fileVars, diskVars, handleVars
    <2> QED
        BY <2>1 DEF DiskInv, Safe
<1>5. CASE HostCrash
    <2>1. hostCrashes' # 0
        BY <1>5 DEF HostCrash, IInv, TypeOK
    <2>2. /\ \A t \in Tiles : onDisk'[t] = {index'[t]}
          /\ \A p \in Procs : syncing'[p] = None
        BY <1>5 DEF HostCrash
    <2> QED
        BY <2>1, <2>2 DEF DiskInv
<1> QED
    BY <1>1, <1>2, <1>3, <1>4, <1>5, CreateDiskInv, SyncDiskInv DEF Next, StoreStep

\* What the map shows does not change while the entries, what the disk may hold
\* and the bytes of the committed blobs stay.
LEMMA MapStutters ==
    ASSUME UNCHANGED <<index, onDisk, durable>>,
           \A t \in Tiles : index[t] # NoEntry => \A o \in Bytes(index[t]) : log'[o] = log[o]
    PROVE  UNCHANGED Map!vars
<1>1. \A t \in Tiles : Content(t)' = Content(t)
    BY DEF Content
<1>2. /\ [t \in Tiles |-> Content(t)]' = [t \in Tiles |-> Content(t)]
      /\ [t \in Tiles |-> {e.blob : e \in onDisk[t]}]' = [t \in Tiles |-> {e.blob : e \in onDisk[t]}]
    BY <1>1
<1> QED
    BY <1>2 DEF Map!vars

\* The entry of a whole blob, or its removal, is one atomic change of the map.
LEMMA SetEntryMaps ==
    ASSUME IInv, NEW x \in Tiles, NEW e \in Entry \cup {NoEntry}, SetEntry(x, e), UNCHANGED log,
           e # NoEntry => \A o \in Bytes(e) : log[o] = <<x, e.blob>>
    PROVE  Map!Next
<1>1. /\ \A t \in Tiles : t # x => index'[t] = index[t] /\ onDisk'[t] = onDisk[t]
      /\ index'[x] = e /\ onDisk'[x] = onDisk[x] \cup {e}
      /\ durable' = durable \ {x}
    BY DEF SetEntry, IInv, TypeOK
<1>2. e.blob \in Blobs \cup {None}
    BY Distinct DEF NoEntry
<1>3. \A t \in Tiles : Content(t)' = IF t = x THEN e.blob ELSE Content(t)
    <2>1. ASSUME NEW t \in Tiles, t # x PROVE Content(t)' = Content(t)
        BY <1>1, <2>1 DEF Content
    <2>2. Content(x)' = e.blob
        BY <1>1 DEF Content, NoEntry
    <2> QED
        BY <2>1, <2>2
<1>4. \A t \in Tiles : {f.blob : f \in onDisk'[t]} =
                          IF t = x THEN {f.blob : f \in onDisk[t]} \cup {e.blob}
                          ELSE {f.blob : f \in onDisk[t]}
    BY <1>1
<1>5. Map!Store(x, e.blob)
    BY <1>1, <1>3, <1>4 DEF Map!Store
<1> QED
    BY <1>2, <1>5 DEF Map!Next

LEMMA CreateMaps ==
    ASSUME IInv, NEW p \in Procs,
           TruncateIndex(p) \/ InitIndex(p) \/ TruncateData(p) \/ InitData(p)
    PROVE  [Map!Next]_(Map!vars)
<1>1. CASE TruncateIndex(p)
    <2>1. \A t \in Tiles : index'[t] = NoEntry /\ onDisk'[t] = {NoEntry}
        BY <1>1 DEF TruncateIndex
    <2>2. \A t \in Tiles : Content(t)' = None /\ {e.blob : e \in onDisk'[t]} = {None}
        BY <2>1 DEF Content, NoEntry
    <2>3. durable' = {}
        BY <1>1 DEF TruncateIndex
    <2> QED
        BY <2>2, <2>3 DEF Map!Clear, Map!Next
<1>2. CASE InitIndex(p) \/ TruncateData(p) \/ InitData(p)
    <2>1. UNCHANGED <<index, onDisk, durable>>
        BY <1>2 DEF InitIndex, TruncateData, InitData, diskVars
    <2>2. \A t \in Tiles : index[t] = NoEntry
        BY <1>2 DEF IInv, CreateInv, InitIndex, TruncateData, InitData
    <2> QED
        BY <2>1, <2>2, MapStutters
<1> QED
    BY <1>1, <1>2

\* After the second fsync the disk holds one value of each tile, its current one.
LEMMA SyncMaps ==
    ASSUME IInv, DiskInv, NEW p \in Procs, SyncIndex(p)
    PROVE  Map!Next
<1>1. /\ syncing[p] \in SUBSET Tiles /\ UNCHANGED <<index, log>>
      /\ durable' = durable \cup syncing[p]
      /\ \A t \in Tiles : onDisk'[t] = {index[t]}
    BY DEF SyncIndex, fileVars, IInv, TypeOK
<1>2. \A t \in Tiles : Content(t)' = Content(t)
    BY <1>1 DEF Content
<1>3. \A t \in Tiles : {e.blob : e \in onDisk'[t]} = {index[t].blob}
    BY <1>1
<1>4. \A t \in Tiles : index[t].blob \in {e.blob : e \in onDisk[t]}
    BY DEF DiskInv
<1>5. \A t \in Tiles : index[t].blob \in Blobs \cup {None}
    BY Distinct DEF IInv, TypeOK, NoEntry
<1>6. \A t \in Tiles : Content(t) = index[t].blob \/ Content(t) = Garbage
    BY DEF Content, NoEntry
<1>7. Map!Sync
    BY <1>1, <1>2, <1>3, <1>4, <1>5, <1>6 DEF Map!Sync
<1> QED
    BY <1>7 DEF Map!Next

\* A host crash keeps what is durable, and elsewhere an older value or garbage.
LEMMA HostCrashMaps ==
    ASSUME MaxHostCrashes <= 1, IInv, DiskInv, HostCrash
    PROVE  Map!Next
<1>1. hostCrashes = 0 /\ durable' = durable
    <2>1. hostCrashes < MaxHostCrashes /\ durable' = durable
        BY DEF HostCrash
    <2>2. hostCrashes \in 0 .. MaxHostCrashes /\ MaxHostCrashes \in Nat
        BY StoreAssumption DEF IInv, TypeOK
    <2> QED
        BY <2>1, <2>2
<1>2. \A t \in Tiles : index'[t] \in onDisk[t] /\ onDisk'[t] = {index'[t]}
    BY DEF HostCrash
<1>3. \A t \in Tiles : index'[t].blob \in Blobs \cup {None}
    <2>1. \A t \in Tiles : index'[t] \in Entry \cup {NoEntry}
        BY <1>2 DEF IInv, TypeOK
    <2> QED
        BY <2>1, Distinct DEF NoEntry
<1>4. \A t \in Tiles : Content(t)' = index'[t].blob \/ Content(t)' = Garbage
    BY DEF Content, NoEntry
<1>5. ASSUME NEW t \in durable PROVE Content(t)' = Content(t)
    <2>1. t \in Tiles /\ Safe(t) /\ onDisk[t] = {index[t]}
        BY <1>1 DEF DiskInv, IInv, TypeOK
    <2>2. index'[t] = index[t]
        BY <1>2, <2>1
    <2>3. ASSUME index[t] # NoEntry, NEW o \in Bytes(index[t]) PROVE log'[o] = log[o]
        <3>1. index[t] \in Entry /\ index[t].off \in Nat /\ End(index[t]) \in Nat
            BY <2>1, <2>3, Distinct DEF IInv, TypeOK
        <3>2. durLen \in Nat /\ dataLen' \in Nat /\ durLen <= dataLen' /\ dataLen' <= MaxOffset
            BY StoreAssumption DEF HostCrash, IInv, TypeOK
        <3>3. End(index[t]) <= durLen /\ o \notin dirty
            BY <2>1, <2>3 DEF Safe
        <3>4. o \in Nat /\ o < dataLen' /\ o \in Offsets
            BY <2>3, <3>1, <3>2, <3>3, StoreAssumption DEF Bytes, Offsets
        <3>5. PICK lost \in SUBSET dirty :
                  log' = [q \in Offsets |-> IF q \in lost \/ q >= dataLen' THEN Hole ELSE log[q]]
            BY DEF HostCrash
        <3> QED
            BY <3>2, <3>3, <3>4, <3>5
    <2> QED
        BY <2>2, <2>3 DEF Content
<1>6. Map!HostCrash
    <2> DEFINE shown == [t \in Tiles |-> Content(t)]
               kept == [t \in Tiles |-> {e.blob : e \in onDisk[t]}]
    <2>1. \A t \in Tiles : kept'[t] = {index'[t].blob} /\ shown'[t] = Content(t)'
        BY <1>2
    <2>2. \A t \in Tiles : kept'[t] \subseteq kept[t]
        BY <1>2, <2>1
    <2>3. kept' \in [Tiles -> {{v} : v \in Blobs \cup {None}}]
        BY <1>3, <2>1
    <2>4. shown' \in [Tiles -> Blobs \cup {None, Garbage}]
        BY <1>3, <1>4, <2>1
    <2>5. \A t \in Tiles : shown'[t] \in kept'[t] \cup {Garbage}
        BY <1>4, <2>1
    <2>6. \A t \in Tiles : t \in durable => shown'[t] = shown[t]
        BY <1>5, <2>1
    <2> QED
        BY <1>1, <2>2, <2>3, <2>4, <2>5, <2>6 DEF Map!HostCrash
<1> QED
    BY <1>6 DEF Map!Next

LEMMA WriteMaps ==
    ASSUME IInv, DiskInv, NEW w \in Procs \X Threads, Write(w)
    PROVE  [Map!Next]_(Map!vars)
<1>1. CASE Commit(w)
    <2> DEFINE e == [off |-> thread[w].off, blob |-> thread[w].blob]
    <2>1. thread[w] \in Busy /\ thread[w] # Idle
        BY <1>1, Distinct DEF Commit, IInv, TypeOK
    <2>2. /\ thread[w].tile \in Tiles /\ e \in Entry
          /\ e.off = thread[w].off /\ e.blob = thread[w].blob
        BY <2>1 DEF Busy, Entry
    <2>3. SetEntry(thread[w].tile, e) /\ UNCHANGED log
        BY <1>1 DEF Commit
    <2> HIDE DEF e
    <2>4. \A o \in Bytes(e) : log[o] = <<thread[w].tile, e.blob>>
        <3>1. thread[w].done = BlobLen[thread[w].blob]
            BY <1>1 DEF Commit
        <3>2. End(e) = thread[w].off + thread[w].done
            BY <2>2, <3>1 DEF End
        <3>3. thread[w].off \in Nat /\ thread[w].done \in Nat
            BY <2>1, Distinct DEF Busy
        <3>4. Bytes(e) = thread[w].off .. thread[w].off + thread[w].done - 1
            BY <2>2, <3>2, <3>3 DEF Bytes
        <3> QED
            BY <2>1, <2>2, <3>4 DEF IInv, PrefixInv
    <2> QED
        BY <2>2, <2>3, <2>4, SetEntryMaps
<1>2. ASSUME NEW x \in Tiles, Delete(w, x) PROVE Map!Next
    BY <1>2, SetEntryMaps DEF Delete
<1>3. CASE WriteByte(w)
    <2>1. UNCHANGED <<index, onDisk, durable>>
        BY <1>3 DEF WriteByte
    <2> QED
        BY <1>3, <2>1, WriteByteDiskInv, MapStutters
<1>4. CASE Grow(w) \/ PutFails(w) \/ \E x \in Tiles, b \in Blobs : Reserve(w, x, b)
    <2>1. UNCHANGED <<index, log, onDisk, durable>>
        BY <1>4 DEF Grow, PutFails, Reserve, fileVars, diskVars
    <2> QED
        BY <2>1, MapStutters
<1> QED
    BY <1>1, <1>2, <1>3, <1>4 DEF Write

\* Every step of the store is a step of the map, or changes nothing it shows.
LEMMA StepMaps ==
    ASSUME MaxHostCrashes <= 1, IInv, DiskInv, [Next]_vars
    PROVE  [Map!Next]_(Map!vars)
<1>1. ASSUME NEW p \in Procs,
             \/ AcquireLock(p) \/ OpenFails(p) \/ Open(p) \/ SyncData(p)
             \/ Close(p) \/ ProcessCrash(p)
      PROVE  UNCHANGED Map!vars
    <2>1. UNCHANGED <<index, log, onDisk, durable>>
        BY <1>1 DEF AcquireLock, OpenFails, Open, SyncData, Close, ProcessCrash, fileVars, diskVars
    <2> QED
        BY <2>1, MapStutters
<1>2. CASE ReadStep \/ UNCHANGED vars
    <2>1. UNCHANGED <<index, log, onDisk, durable>>
        BY <1>2 DEF ReadStep, ReadBlob, ReadEntry, vars, fileVars, diskVars
    <2> QED
        BY <2>1, MapStutters
<1> QED
    BY <1>1, <1>2, CreateMaps, SyncMaps, HostCrashMaps, WriteMaps DEF Next, StoreStep

LEMMA StoreDiskInv ==
    ASSUME MaxHostCrashes <= 1 PROVE Spec => [](IInv /\ DiskInv)
<1>1. IInv /\ DiskInv /\ [Next]_vars => DiskInv'
    BY NextDiskInv
<1> QED
    BY <1>1, InitDiskInv, StoreIInv, PTL DEF Spec

\* The crash contract of tile_store/mod.rs: for its users the store is a map
\* whose puts and deletes are atomic, which no process crash damages, and in
\* which a host crash spares every tile that sync_all has covered since its last
\* write, whatever the interleaving of processes, threads and their reads.
THEOREM StoreIsTileMap ==
    ASSUME MaxHostCrashes <= 1 PROVE Spec => ImplementsTileMap
<1>1. Init => Map!Init
    BY DEF Init, Map!Init, Content, NoEntry
<1>2. IInv /\ DiskInv /\ [Next]_vars => [Map!Next]_(Map!vars)
    BY StepMaps
<1> QED
    BY <1>1, <1>2, StoreDiskInv, PTL DEF Spec, ImplementsTileMap, Map!Spec
==============================================================================
