SPECIFICATION Spec
CONSTANTS
  Units = 28
  HeapUnitSize = 8
  Requests <- MCRequests
INVARIANTS
  TypeOK
  Partition
  ListInOrder
  NoneLeft
PROPERTIES
  ImplementsAllocator
