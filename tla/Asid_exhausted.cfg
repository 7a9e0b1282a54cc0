SPECIFICATION Spec
CONSTANTS
  Task = {t1, t2}
  Kernel = Kernel
  Running = {0, 1}
  AsidSize = 3
  MaxPmChange = 0
SYMMETRY Symmetry
INVARIANTS
  NoSwitchWithoutAsid
