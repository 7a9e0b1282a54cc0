SPECIFICATION FairSpec
CONSTANTS
  Task = {t1, t2}
  Head = Head
  Null = Null
  Running = {1, 2}
  UserBottom = 2
  Space <- MCSpace
  Modes <- MCModes
  MaxPmChange = 1
  Careless = {}
INVARIANTS
  TypeOK
  RingWellFormed
  SlotOwner
  TableIntact
PROPERTIES
  EveryCallEnds
