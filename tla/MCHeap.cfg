SPECIFICATION Spec
CONSTANTS
  Total = 5
  PageSize = 2
  Sizes = {0, 1, 2, 3, 5, 7, 8, 9, 10, 11}
  TableAddr = 9
INVARIANTS
  TypeOK
  HeapSound
  ScanIsFirstFit
PROPERTIES
  FreeIsExact
  ImplementsAllocator
