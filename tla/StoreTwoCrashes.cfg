SPECIFICATION Spec
CONSTANTS
    b1 = b1
    b2 = b2
    Procs = {p1}
    Threads = {w1}
    Readers = {}
    Tiles = {x1, x2}
    Blobs = {b1, b2}
    BlobLen <- MCBlobLen
    MaxOffset = 3
    Chunk = 2
    MaxHostCrashes = 2
    None = None
    Garbage = Garbage
    Hole = Hole
SYMMETRY Symmetry
INVARIANTS
    CommittedBytes
CHECK_DEADLOCK FALSE
