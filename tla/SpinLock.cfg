SPECIFICATION FairSpec
CONSTANTS
  Core = {c0, c1, c2, c3}
  NoCore = NoCore
  MaxLoss = 2
INVARIANTS
  TypeOK
  MutualExclusion
  WordMatchesOwner
  ReservationFresh
PROPERTIES
  ImplementsMutex
