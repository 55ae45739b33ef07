SPECIFICATION Spec
CONSTANTS
  Source = {road}
  Range = {r1}
  Tile = {t1}
  MaxBuild = 2
  MaxChanges = 1
  MaxRequests = 2
  Poll = {p1, p2}
  None = None
INVARIANTS AnswerNotStale PaintedIsCurrent NoGhostAncestor
PROPERTIES SessionCatchesUp
