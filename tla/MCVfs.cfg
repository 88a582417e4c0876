SPECIFICATION Spec
CONSTANTS
  Paths <- MCPaths
  Dirs <- MCDirs
  Ids = {1, 2, 3, 4, 5, 6, 7, 8}
  Root = 1
  Handles = {h1, h2}
  Requests <- MCRequests
  DCap = 4
  ICap = 3
  MaxCount = 2
  NULL = NULL
  Closed = Closed
SYMMETRY Symmetry
CHECK_DEADLOCK FALSE
INVARIANTS
  PointersLive
  SizeBoundsCache
  NoStaleDentry
  TreeClosed
