SPECIFICATION Spec
CONSTANTS
  Pages = {p1, p2, p3, p4}
  nullptr = nullptr
  PAGE_SIZE = 4096
  kmem_cache_size = {1024, 1536, 2048}
SYMMETRY PageSymmetry
INVARIANTS
  NoDoubleObject
  CarvedExactly
  FrontierIsLast
  ListsTruthful
  CurrentServes
