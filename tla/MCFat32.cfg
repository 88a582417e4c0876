SPECIFICATION Spec
CONSTANTS
  Files = {f1, f2}
  f1 = f1
  f2 = f2
  Handles = {h1, h2}
  Clusters = {2, 3, 4, 5}
  Modes = {"WRITE", "READ_WRITE", "APPEND"}
  RootClu = 2
  BlockSize = 2
  Bytes <- MCBytes
  Garbage = 0
  FREE = FREE
  END = END
  NoPage = NoPage
  Absent = Absent
  Closed = Closed
  Deleted = Deleted
  Lens = {3}
  Offsets <- MCOffsets
  MaxSize = 5
  Capacity = 6
SYMMETRY Symmetry
INVARIANTS
  NoFreeBelowHint
  ClustersOwnedOnce
  CursorAgrees
  FlushedWhenClosed
PROPERTY
  ImplementsFlatFile
CHECK_DEADLOCK FALSE
