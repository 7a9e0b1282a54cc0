SPECIFICATION Spec
CONSTANTS
  MaxIrq = 4
  MaxFault = 3
INVARIANTS
  TypeOK
  ModesRestored
  HandlerOnce
  ProbeNeverStores
