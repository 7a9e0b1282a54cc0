SPECIFICATION FairSpec
CONSTANT
  Slow <- MCSlow
INVARIANTS
  TypeOK
  NoWaitRing
  Counted
  OnlyCore0Wakes
PROPERTIES
  EveryReport
