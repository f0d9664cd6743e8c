SPECIFICATION Spec

CONSTANTS
  page_count = 20
  PAGE_ORDER_MAX = 2
  FirstFree = 3
  Zero = Zero
  Text = Text
  Value = {Zero, Text}
  Null = Null
  init_process = init
  Process = {init, child1, child2}
  VIRT_KERNEL_BASE = 6
  MaxCalls = 3
  Written = {2}
  Address <- MCAddress
  Segments <- MCSegments
  Stack <- MCStack
  Requests <- MCRequests

SYMMETRY Children

VIEW View

CONSTRAINT NoJoinWithNextOnly

INVARIANTS
  NoAssertionFails
  PagesAreCounted
  BuddiesAreJoined
  

PROPERTIES
  ChangesOnRequest
  MemoryIsPrivate

CHECK_DEADLOCK FALSE
