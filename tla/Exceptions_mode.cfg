SPECIFICATION Spec
CONSTANTS
  MaxIrq = 4
  MaxFault = 3
INVARIANTS
  ProgramInSvc
