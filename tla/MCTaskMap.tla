----------------------------- MODULE MCTaskMap ------------------------------
(***************************************************************************)
(* The areas in small, in the order they have on the board: each AMP core  *)
(* has two sections of RAM, the kernel's beginning with the first, and the *)
(* map begins with the second one of core 0.  BoardSpace is what           *)
(* sysconfs.c says.                                                        *)
(***************************************************************************)
EXTENDS TaskMap

Triple(k, b, l) == [kernel |-> k, bottom |-> b, last |-> l]

MCSpace == [i \in Struct |->
  IF i < NumCpu THEN Triple(2 * i + 1, 2 * i + 1, 2 * i + 2)
                ELSE Triple(1, 2, 8 - 2 * (i - NumCpu))]

BoardSpace == [i \in Struct |->
  Triple(KramArea(i).bottom, UramArea(i).bottom, UramArea(i).limit)]

ASSUME BoardSpaceFits == SpaceFits(BoardSpace, 576)

\* Cores 1 and 2 share a kernel, or core 2 has its own.
MCModes == {{3}, {2, 3}}
=============================================================================
