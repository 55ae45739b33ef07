SPECIFICATION MCSpec
CONSTANTS
    b1 = b1
    b2 = b2
    Procs = {p1, p2}
    Threads = {w1, w2}
    Readers = {r1}
    Tiles = {x1, x2}
    Blobs = {b1, b2}
    BlobLen <- MCBlobLen
    MaxOffset = 3
    Chunk = 2
    MaxHostCrashes = 1
    None = None
    Garbage = Garbage
    Hole = Hole
SYMMETRY Symmetry
INVARIANTS
    TypeOK
    NoSharedBytes
    ReaderNotMisled
    CommittedBytes
PROPERTY ImplementsTileMap
CHECK_DEADLOCK FALSE
