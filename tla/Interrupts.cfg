SPECIFICATION FairSpec
CONSTANTS
  Ipi <- MCIpi
  Stray <- MCStray
  MaxSend = 4
  MaxByte = 3
INVARIANTS
  TypeOK
  NoIpiLost
  NoExtraRuns
PROPERTIES
  KeepsPromise
  EveryByteEchoed
  ProgramGoesOn
