SPECIFICATION Spec
CONSTANTS
    rail = rail
    road = road
    a1 = a1
    a2 = a2
    repaint = repaint
    repaint2 = repaint2
    repaintBoth = repaintBoth
    combine = combine
    transcode = transcode
    pyramid = pyramid
    push = push
    pack = pack
    Layers = {rail}
    Total = Total
    Root = Root
    Areas = {a1, a2}
    Depth = 2
    Jobs = {repaint, repaint2, pyramid, push, transcode, pack}
    Job <- MCJob
    Full = Full
    MaxAborts = 1
    None = None
    Original = Original
INVARIANTS
    PublishedCascadesWhole
    PublishedRepaintsSummed
PROPERTY MarkerMeansIncomplete
