------------------------------ MODULE TileStore ------------------------------
(***************************************************************************)
(* One (layer, zoom) tile store of the tile painter: a dense index and an  *)
(* append-only blob log, written by the threads of whichever process holds *)
(* the store's flock, read by processes that hold no lock at all, and      *)
(* exposed to the death of the writer process and of the host.             *)
(*                                                                         *)
(* Offsets count from the end of the data file's header.  A byte of the    *)
(* log is Hole (never written, or lost) or names the put that wrote it.    *)
(* The blob named in an index entry is a ghost: the program stores the     *)
(* entry's offset and length only, and the length is that of the blob.     *)
(***************************************************************************)
EXTENDS Integers, FiniteSets

CONSTANTS
    Procs,      \* processes that open the store to write
    Threads,    \* writer threads of one process
    Readers,    \* lock-free readers
    Tiles,      \* tile coordinates in range for this zoom
    Blobs,      \* encoded tile contents
    BlobLen,    \* length of each blob
    MaxOffset,  \* the offset at which checked_add on the tail fails
    Chunk,      \* FALLOC_CHUNK
    MaxHostCrashes, \* how often the host itself may crash
    None,
    Garbage,
    Hole

ASSUME StoreAssumption ==
    /\ BlobLen \in [Blobs -> Nat \ {0}]   \* put_blob refuses an empty blob
    /\ MaxOffset \in Nat
    /\ Chunk \in Nat \ {0}
    /\ MaxHostCrashes \in Nat
    /\ None \notin Procs \cup Blobs \cup Tiles
    /\ Garbage \notin Blobs \cup {None}
    /\ Hole \notin Tiles \X Blobs

VARIABLES
    index,      \* per tile, its index entry in the page cache
    log,        \* bytes of the data file in the page cache
    dataLen,    \* length of the data file
    indexOk,    \* the index file has its header and its full size
    dataOk,     \* the data file has its header
    lock,       \* the process holding the flock of z{N}.lock
    pc,         \* per process, where its open()/create() stands
    tail,       \* per process, TileStore.tail
    allocated,  \* per process, TileStore.allocated
    thread,     \* per process and thread, the put in progress
    reader,     \* per reader, the get_blob in progress
    onDisk,     \* per tile, the entries the disk may hold
    dirty,      \* offsets whose bytes may not have reached the disk
    durLen,     \* the data file length that certainly reached the disk
    syncing,    \* per process, the tiles not touched since sync_all fsynced the log, or None
    durable,    \* ghost: tiles a completed sync_all covers
    hostCrashes \* ghost: how often the host has crashed

fileVars == <<index, log, dataLen, indexOk, dataOk>>
handleVars == <<lock, pc, tail, allocated>>
diskVars == <<onDisk, dirty, durLen, durable, hostCrashes>>
vars == <<index, log, dataLen, indexOk, dataOk, lock, pc, tail, allocated, thread,
          reader, onDisk, dirty, durLen, syncing, durable, hostCrashes>>

Offsets == 0 .. MaxOffset - 1
NoEntry == [off |-> 0, blob |-> None]
Entry == [off : 0 .. MaxOffset, blob : Blobs]
Written == Tiles \X Blobs           \* what a byte of a put is tagged with
Idle == [st |-> "idle", tile |-> None, blob |-> None, off |-> 0, done |-> 0]
Busy == [st : {"queued", "writing"}, tile : Tiles, blob : Blobs,
         off : 0 .. MaxOffset, done : Nat]
NotReading == [st |-> "idle", tile |-> None, entry |-> NoEntry, stale |-> FALSE]
Reading == [st : {"entry"}, tile : Tiles, entry : Entry, stale : BOOLEAN]

Larger(a, b) == IF a >= b THEN a ELSE b
End(e) == e.off + BlobLen[e.blob]
Bytes(e) == e.off .. End(e) - 1      \* the offsets a blob at e occupies
Present == {t \in Tiles : index[t] # NoEntry}

Init ==
    /\ index = [t \in Tiles |-> NoEntry]
    /\ log = [o \in Offsets |-> Hole]
    /\ dataLen = 0
    /\ indexOk = FALSE /\ dataOk = FALSE
    /\ lock = None
    /\ pc = [p \in Procs |-> "closed"]
    /\ tail = [p \in Procs |-> 0]
    /\ allocated = [p \in Procs |-> 0]
    /\ thread = [w \in Procs \X Threads |-> Idle]
    /\ reader = [r \in Readers |-> NotReading]
    /\ onDisk = [t \in Tiles |-> {NoEntry}]
    /\ dirty = {}
    /\ durLen = 0
    /\ syncing = [p \in Procs |-> None]
    /\ durable = {}
    /\ hostCrashes = 0
------------------------------------------------------------------------------
(* Opening and creating *)

\* Broken: create() and open() without the flock.
AcquireLockUnlocked(p) ==
    /\ pc[p] = "closed"
    /\ lock' = p
    /\ pc' = [pc EXCEPT ![p] = "locked"]
    /\ UNCHANGED <<fileVars, tail, allocated, thread, reader, syncing, diskVars>>

\* acquire_write_lock: blocks until the flock is free.
AcquireLock(p) ==
    /\ pc[p] = "closed"
    /\ lock = None
    /\ lock' = p
    /\ pc' = [pc EXCEPT ![p] = "locked"]
    /\ UNCHANGED <<fileVars, tail, allocated, thread, reader, syncing, diskVars>>

\* A blocking flock lets the lock go when its last descriptor closes: at a
\* failed open, at drop, and at the death of the process.
Release(p) ==
    /\ lock' = None
    /\ pc' = [pc EXCEPT ![p] = "closed"]
    /\ tail' = [tail EXCEPT ![p] = 0]
    /\ allocated' = [allocated EXCEPT ![p] = 0]
    /\ thread' = [w \in Procs \X Threads |-> IF w[1] = p THEN Idle ELSE thread[w]]
    /\ syncing' = [syncing EXCEPT ![p] = None]

\* open() on a store whose files are missing or half created.
OpenFails(p) ==
    /\ pc[p] = "locked"
    /\ ~(indexOk /\ dataOk)
    /\ Release(p)
    /\ UNCHANGED <<fileVars, reader, diskVars>>

\* Broken: the tail is recovered from the index alone.
RecoveredTailFromIndex(m) ==
    LET ends == {0} \cup {End(index[t]) : t \in Present}
    IN  m \in ends /\ \A e \in ends : e <= m

\* Tail recovery: the file length or the highest indexed blob end, whichever
\* is larger.
RecoveredTail(m) ==
    LET ends == {dataLen} \cup {End(index[t]) : t \in Present}
    IN  m \in ends /\ \A e \in ends : e <= m

Open(p) ==
    /\ pc[p] = "locked"
    /\ indexOk /\ dataOk
    /\ \E m \in 0 .. MaxOffset :
          /\ RecoveredTail(m)
          /\ tail' = [tail EXCEPT ![p] = m]
          /\ allocated' = [allocated EXCEPT ![p] = m]
    /\ pc' = [pc EXCEPT ![p] = "open"]
    /\ UNCHANGED <<fileVars, lock, thread, reader, syncing, diskVars>>

\* create() truncates and rewrites the index, then the data log.  File system
\* metadata reaches the disk in order, so the truncation of the index is never
\* undone by a host crash that keeps the truncation of the log.
TruncateIndex(p) ==
    /\ pc[p] = "locked"
    /\ index' = [t \in Tiles |-> NoEntry]
    /\ indexOk' = FALSE
    /\ onDisk' = [t \in Tiles |-> {NoEntry}]
    /\ durable' = {}
    /\ reader' = [r \in Readers |->
                    IF reader[r].st = "entry" THEN [reader[r] EXCEPT !.stale = TRUE] ELSE reader[r]]
    /\ pc' = [pc EXCEPT ![p] = "indexTruncated"]
    /\ UNCHANGED <<log, dataLen, dataOk, lock, tail, allocated, thread, syncing,
                   dirty, durLen, hostCrashes>>

InitIndex(p) ==
    /\ pc[p] = "indexTruncated"
    /\ indexOk' = TRUE
    /\ pc' = [pc EXCEPT ![p] = "indexReady"]
    /\ UNCHANGED <<index, log, dataLen, dataOk, lock, tail, allocated, thread, reader,
                   syncing, diskVars>>

TruncateData(p) ==
    /\ pc[p] = "indexReady"
    /\ log' = [o \in Offsets |-> Hole]
    /\ dataLen' = 0
    /\ dataOk' = FALSE
    /\ dirty' = {}
    /\ durLen' = 0
    /\ pc' = [pc EXCEPT ![p] = "dataTruncated"]
    /\ UNCHANGED <<index, indexOk, lock, tail, allocated, thread, reader, syncing,
                   onDisk, durable, hostCrashes>>

InitData(p) ==
    /\ pc[p] = "dataTruncated"
    /\ dataOk' = TRUE
    /\ tail' = [tail EXCEPT ![p] = 0]
    /\ allocated' = [allocated EXCEPT ![p] = 0]
    /\ pc' = [pc EXCEPT ![p] = "open"]
    /\ UNCHANGED <<index, log, dataLen, indexOk, lock, thread, reader, syncing, diskVars>>

Close(p) ==
    /\ pc[p] = "open"
    /\ \A t \in Threads : thread[<<p, t>>] = Idle
    /\ syncing[p] = None
    /\ Release(p)
    /\ UNCHANGED <<fileVars, reader, diskVars>>
------------------------------------------------------------------------------
(* Writing: the steps of put_blob in one thread *)

\* Broken: the tail is advanced without a check.
ReserveUnchecked(w, x, b) ==
    LET p == w[1]
        end == tail[p] + BlobLen[b]
    IN
    /\ pc[p] = "open"
    /\ thread[w] = Idle
    /\ tail' = [tail EXCEPT ![p] = end]
    /\ thread' = [thread EXCEPT ![w] =
                    [st |-> IF end <= allocated[p] THEN "writing" ELSE "queued",
                     tile |-> x, blob |-> b, off |-> tail[p], done |-> 0]]
    /\ UNCHANGED <<fileVars, lock, pc, allocated, reader, syncing, diskVars>>

\* Reserve log space with one checked atomic update of the tail, then take the
\* fast path of ensure_allocated when the extents already reach far enough.
Reserve(w, x, b) ==
    LET p == w[1]
        end == tail[p] + BlobLen[b]
    IN
    /\ pc[p] = "open"
    /\ thread[w] = Idle
    /\ end <= MaxOffset
    /\ tail' = [tail EXCEPT ![p] = end]
    /\ thread' = [thread EXCEPT ![w] =
                    [st |-> IF end <= allocated[p] THEN "writing" ELSE "queued",
                     tile |-> x, blob |-> b, off |-> tail[p], done |-> 0]]
    /\ UNCHANGED <<fileVars, lock, pc, allocated, reader, syncing, diskVars>>

\* n rounded up to whole chunks.
ChunkCeil(n) == ((n + Chunk - 1) \div Chunk) * Chunk

\* The slow path, under the grow mutex: another thread may have grown past us
\* while we queued.
Grow(w) ==
    LET p == w[1]
        needed == End(thread[w])
    IN
    /\ thread[w].st = "queued"
    /\ allocated' = [allocated EXCEPT ![p] = IF needed <= @ THEN @ ELSE ChunkCeil(needed)]
    /\ thread' = [thread EXCEPT ![w].st = "writing"]
    /\ UNCHANGED <<fileVars, lock, pc, tail, reader, syncing, diskVars>>

\* pwrite of the blob, a byte at a time: a crash may leave any prefix of it.
WriteByte(w) ==
    LET put == thread[w]
        o == put.off + put.done
    IN
    /\ put.st = "writing"
    /\ put.done < BlobLen[put.blob]
    /\ log' = [log EXCEPT ![o] = <<put.tile, put.blob>>]
    /\ dataLen' = Larger(dataLen, o + 1)
    /\ dirty' = dirty \cup {o}
    /\ thread' = [thread EXCEPT ![w].done = @ + 1]
    /\ UNCHANGED <<index, indexOk, dataOk, handleVars, reader, onDisk, durLen, syncing,
                   durable, hostCrashes>>

\* The index entry of one tile changes: the commit point.
SetEntry(x, e) ==
    /\ index' = [index EXCEPT ![x] = e]
    /\ onDisk' = [onDisk EXCEPT ![x] = @ \cup {e}]
    /\ durable' = durable \ {x}
    /\ syncing' = [p \in Procs |-> IF syncing[p] = None THEN None ELSE syncing[p] \ {x}]

\* Broken: the entry is written before the blob is complete.
CommitEarly(w) ==
    LET put == thread[w] IN
    /\ put.st = "writing"
    /\ SetEntry(put.tile, [off |-> put.off, blob |-> put.blob])
    /\ thread' = [thread EXCEPT ![w] = Idle]
    /\ UNCHANGED <<log, dataLen, indexOk, dataOk, handleVars, reader, dirty, durLen,
                   hostCrashes>>

Commit(w) ==
    LET put == thread[w] IN
    /\ put.st = "writing"
    /\ put.done = BlobLen[put.blob]
    /\ SetEntry(put.tile, [off |-> put.off, blob |-> put.blob])
    /\ thread' = [thread EXCEPT ![w] = Idle]
    /\ UNCHANGED <<log, dataLen, indexOk, dataOk, handleVars, reader, dirty, durLen,
                   hostCrashes>>

\* fallocate or pwrite fails: put_blob returns the error, its space is lost.
PutFails(w) ==
    /\ thread[w] # Idle
    /\ thread' = [thread EXCEPT ![w] = Idle]
    /\ UNCHANGED <<fileVars, handleVars, reader, syncing, diskVars>>

\* delete(), also what put_cells and put_cells_hm3 do with all-silent cells.
Delete(w, x) ==
    /\ pc[w[1]] = "open"
    /\ thread[w] = Idle
    /\ SetEntry(x, NoEntry)
    /\ UNCHANGED <<log, dataLen, indexOk, dataOk, handleVars, thread, reader, dirty,
                   durLen, hostCrashes>>
------------------------------------------------------------------------------
(* sync_all: the data log first, then the index *)

\* Broken: only the index is synced.
SyncDataSkipped(p) ==
    /\ pc[p] = "open"
    /\ syncing[p] = None
    /\ syncing' = [syncing EXCEPT ![p] = Tiles]
    /\ UNCHANGED <<fileVars, handleVars, thread, reader, diskVars>>

SyncData(p) ==
    /\ pc[p] = "open"
    /\ syncing[p] = None
    /\ syncing' = [syncing EXCEPT ![p] = Tiles]
    /\ dirty' = {}
    /\ durLen' = dataLen
    /\ UNCHANGED <<fileVars, handleVars, thread, reader, onDisk, durable, hostCrashes>>

SyncIndex(p) ==
    /\ syncing[p] # None
    /\ onDisk' = [t \in Tiles |-> {index[t]}]
    /\ durable' = durable \cup syncing[p]
    /\ syncing' = [syncing EXCEPT ![p] = None]
    /\ UNCHANGED <<fileVars, handleVars, thread, reader, dirty, durLen, hostCrashes>>
------------------------------------------------------------------------------
(* Reading: get_blob is two preads under no lock *)

ReadEntry(r, x) ==
    /\ reader[r].st = "idle"
    /\ indexOk /\ dataOk
    /\ index[x] # NoEntry
    /\ reader' = [reader EXCEPT ![r] =
                    [st |-> "entry", tile |-> x, entry |-> index[x], stale |-> FALSE]]
    /\ UNCHANGED <<fileVars, handleVars, thread, syncing, diskVars>>

ReadBlob(r) ==
    /\ reader[r].st = "entry"
    /\ reader' = [reader EXCEPT ![r] = NotReading]
    /\ UNCHANGED <<fileVars, handleVars, thread, syncing, diskVars>>
------------------------------------------------------------------------------
(* Crashes *)

ProcessCrash(p) ==
    /\ pc[p] # "closed"
    /\ Release(p)
    /\ UNCHANGED <<fileVars, reader, diskVars>>

\* Every process dies; each index entry is one the disk may hold, the data file
\* has any length from the last one known durable, and bytes that never reached
\* the disk are holes.
HostCrash ==
    /\ hostCrashes < MaxHostCrashes
    /\ lock' = None
    /\ pc' = [p \in Procs |-> "closed"]
    /\ tail' = [p \in Procs |-> 0]
    /\ allocated' = [p \in Procs |-> 0]
    /\ thread' = [w \in Procs \X Threads |-> Idle]
    /\ reader' = [r \in Readers |-> NotReading]
    /\ syncing' = [p \in Procs |-> None]
    /\ index' \in {f \in [Tiles -> UNION {onDisk[t] : t \in Tiles}] :
                      \A t \in Tiles : f[t] \in onDisk[t]}
    /\ onDisk' = [t \in Tiles |-> {index'[t]}]
    /\ dataLen' \in durLen .. dataLen
    /\ durLen' = dataLen'
    /\ \E lost \in SUBSET dirty :
          log' = [o \in Offsets |-> IF o \in lost \/ o >= dataLen' THEN Hole ELSE log[o]]
    /\ dirty' = {}
    /\ hostCrashes' = hostCrashes + 1
    /\ UNCHANGED <<indexOk, dataOk, durable>>

Write(w) ==
    \/ \E x \in Tiles, b \in Blobs : Reserve(w, x, b)
    \/ Grow(w)
    \/ WriteByte(w)
    \/ Commit(w)
    \/ PutFails(w)
    \/ \E x \in Tiles : Delete(w, x)

StoreStep ==
    \/ \E p \in Procs :
          \/ AcquireLock(p) \/ OpenFails(p) \/ Open(p)
          \/ TruncateIndex(p) \/ InitIndex(p) \/ TruncateData(p) \/ InitData(p)
          \/ SyncData(p) \/ SyncIndex(p)
          \/ Close(p) \/ ProcessCrash(p)
    \/ \E w \in Procs \X Threads : Write(w)

ReadStep == \E r \in Readers : ReadBlob(r) \/ \E x \in Tiles : ReadEntry(r, x)

Next == StoreStep \/ ReadStep \/ HostCrash

Spec == Init /\ [][Next]_vars
------------------------------------------------------------------------------
(* Properties *)

TypeOK ==
    /\ index \in [Tiles -> Entry \cup {NoEntry}]
    /\ log \in [Offsets -> Written \cup {Hole}]
    /\ dataLen \in 0 .. MaxOffset
    /\ indexOk \in BOOLEAN /\ dataOk \in BOOLEAN
    /\ lock \in Procs \cup {None}
    /\ pc \in [Procs -> {"closed", "locked", "indexTruncated", "indexReady",
                         "dataTruncated", "open"}]
    /\ tail \in [Procs -> 0 .. MaxOffset]
    /\ allocated \in [Procs -> Nat]
    /\ thread \in [Procs \X Threads -> Busy \cup {Idle}]
    /\ reader \in [Readers -> Reading \cup {NotReading}]
    /\ onDisk \in [Tiles -> SUBSET (Entry \cup {NoEntry})]
    /\ dirty \in SUBSET Offsets
    /\ durLen \in 0 .. MaxOffset
    /\ syncing \in [Procs -> (SUBSET Tiles) \cup {None}]
    /\ durable \in SUBSET Tiles
    /\ hostCrashes \in 0 .. MaxHostCrashes

\* No two tiles share a byte of the log, and no offset handed to a writer lies
\* in a committed blob or in another writer's reservation: what two processes
\* with the same recovered tail would break (mod.rs, the industrial/z12
\* corruption), and what mod.rs promises even across a host crash.
Reserved == {w \in Procs \X Threads : thread[w] # Idle}

NoSharedBytes ==
    /\ \A t, u \in Present : t # u => Bytes(index[t]) \cap Bytes(index[u]) = {}
    /\ \A w \in Reserved : \A t \in Present : Bytes(thread[w]) \cap Bytes(index[t]) = {}
    /\ \A v, w \in Reserved : v # w => Bytes(thread[v]) \cap Bytes(thread[w]) = {}

\* "WRITING THE ENTRY IS THE COMMIT POINT": the bytes behind a visible entry are
\* all of the blob put for that tile, whoever else writes and whatever process
\* dies; a host crash can turn some into holes, which no decoder accepts, but
\* never into the bytes of another tile, which validation would let through.
CommittedBytes ==
    \A t \in Present : \A o \in Bytes(index[t]) :
        log[o] = <<t, index[t].blob>> \/ (hostCrashes > 0 /\ log[o] = Hole)

\* A reader takes no lock.  Between its two preads the tile may be rewritten,
\* deleted, and the store reopened by another process, but unless create() ran
\* in between (or the host has crashed before, which leaves entries beyond the
\* end of the log), the bytes it then reads are those of the entry it holds.
ReaderNotMisled ==
    \A r \in Readers :
        LET e == reader[r].entry IN
        hostCrashes = 0 /\ reader[r].st = "entry" /\ ~reader[r].stale =>
            \A o \in Bytes(e) : log[o] = <<reader[r].tile, e.blob>>

\* Every put writes inside extents some thread preallocated, and while a handle
\* is open its allocation mark never moves back: the thread that queued on the
\* grow mutex must look at the mark again.
WritesPreallocated ==
    \A w \in Procs \X Threads :
        thread[w].st = "writing" => End(thread[w]) <= allocated[w[1]]

AllocationGrows ==
    [][\A p \in Procs : pc[p] = "open" /\ pc'[p] = "open" => allocated'[p] >= allocated[p]]_vars

\* The store implements the atomic, crash-tolerant map of TileMap: a tile reads
\* as the blob of its entry when its bytes are all there, and as garbage when a
\* host crash took some of them.
Content(t) ==
    IF index[t] = NoEntry THEN None
    ELSE IF \A o \in Bytes(index[t]) : log[o] = <<t, index[t].blob>> THEN index[t].blob
    ELSE Garbage

Map == INSTANCE TileMap WITH
    map <- [t \in Tiles |-> Content(t)],
    past <- [t \in Tiles |-> {e.blob : e \in onDisk[t]}]

ImplementsTileMap == Map!Spec
==============================================================================
