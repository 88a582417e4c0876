SPECIFICATION Spec
CHECK_DEADLOCK FALSE
CONSTANTS
  PageNum = 8
  KernelPages = 3
  PageSize = 4
  MaxInfo = 3
  Beyond <- MCBeyond
  PageStruct = 1
  BuddyBlock = 2
  MaxLength = 28
  Sizes = {0, 4, 5, 8}
  Aligns = {0, 8}
INVARIANTS
  GivenOnce
  FindsLowest
  ZoneIsFree
  RefusesOnlyCrossing
