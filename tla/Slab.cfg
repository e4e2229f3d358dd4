\* The slab is installed over an allocator of the application's.
CONSTANTS
  Clients = {c1, c2, c3}
  Capacity = 2
  SlotRequest = 3
  Align = 2
  Sizes = {1, 4, 5}
  Prev = "custom"
  NULL = NULL
  MaxCalls = 5
SPECIFICATION Spec
INVARIANTS SlabExact BlocksIntact
SYMMETRY ClientSymmetry
CHECK_DEADLOCK FALSE
