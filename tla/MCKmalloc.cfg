SPECIFICATION Spec
CONSTANTS
  MAX_BUDDY_ORDER = 2
  PageNum = 9
  KernelPages = 3
  MaxRequest = 8
  MaxHeld = 5
  PAGE_SIZE = 4096
  kmem_cache_size = {1536, 2048}
  RequestSizes = {0, 1537, 2049, 4097, 16384, 16385}
INVARIANTS
  LiveDisjoint
  SlabOwnsItsPages
  NothingLeaks
PROPERTY
  KeepsContracts
