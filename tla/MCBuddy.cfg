SPECIFICATION Spec
CONSTANTS
  MAX_BUDDY_ORDER = 2
  PageNum = 18
  KernelPages = 7
  MaxRequest = 5
  MaxHeld = 3
INVARIANTS
  NoOverlap
  NoLeak
  Coalesced
  FullyRestored
PROPERTY
  ImplementsPageAllocator
