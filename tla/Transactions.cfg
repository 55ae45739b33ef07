SPECIFICATION FairSpec
CONSTANTS
    rail = rail
    road = road
    a1 = a1
    a2 = a2
    repaint = repaint
    repaint2 = repaint2
    repaintBoth = repaintBoth
    combine = combine
    transcode = transcode
    pyramid = pyramid
    push = push
    pack = pack
    Layers = {rail, road}
    Total = Total
    Root = Root
    Areas = {a1, a2}
    Depth = 1
    Jobs = {repaintBoth, repaint2, pyramid, push, pack}
    Job <- MCJob
    Full = Full
    MaxAborts = 1
    None = None
    Original = Original
INVARIANTS
    PublishedCascadesWhole
    PublishedRepaintsSummed
PROPERTIES
    MarkerMeansIncomplete
    AllRecovered
