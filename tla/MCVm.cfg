SPECIFICATION Spec
CONSTANTS
  Procs = {1, 2}
  Pages = {0, 1, 2, 3}
  Frames = {f1, f2}
  NoFrame = NoFrame
  Slots = {s1, s2}
  Data <- MCData
  Garbage = 0
  MaxFrames = 2
  MaxBlocks = 2
  Keys = {1}
  ShmPages = {1}
  Touches <- MCTouches
  Attaches <- MCAttaches
SYMMETRY Symmetry
CHECK_DEADLOCK FALSE
INVARIANTS
  FramesOwnedOnce
  TlbTellsTheTruth
  WritesSurvive
CONSTRAINT Together
