SPECIFICATION Spec
CONSTANTS
  Task = {t1, t2}
  Kernel = Kernel
  Running = {2, 3}
  AsidSize = 3
  MaxPmChange = 1
SYMMETRY Symmetry
INVARIANTS
  LateDestroyHarmless
