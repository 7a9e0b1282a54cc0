---------------------------- MODULE MCMemoryMap -----------------------------
(* All seven kernel tables, and the tables of the first and last task slots *)
(* of the first AMP core and of the SMP kernel of four cores.               *)
EXTENDS MemoryMap

FirstAndLast(i) ==
  {UramArea(i).bottom, UramArea(i).bottom + MaxNumTaskSpace(i) - 1}

MCUserTtba == FirstAndLast(0) \union FirstAndLast(NumCpu)
=============================================================================
