------------------------------- MODULE Mutex --------------------------------
(***************************************************************************)
(* What spin_req and spin_rel (src/cpu.c) promise their callers: a core    *)
(* asks for the lock, at most one core has it, and the core that has it    *)
(* gives it back.  Nothing is promised about which waiting core is next.   *)
(***************************************************************************)
CONSTANTS Core,     \* the cores that share the lock word
          NoCore    \* the owner of a free lock, which is no core

VARIABLES want,     \* the cores inside spin_req
          owner     \* the core between spin_req and spin_rel, or NoCore

vars == <<want, owner>>

Init == want = {} /\ owner = NoCore

Request(c) ==
  /\ c \notin want /\ owner # c
  /\ want' = want \union {c}
  /\ UNCHANGED owner

Acquire(c) ==
  /\ c \in want /\ owner = NoCore
  /\ want' = want \ {c}
  /\ owner' = c

Release(c) ==
  /\ owner = c
  /\ owner' = NoCore
  /\ UNCHANGED want

Next == \E c \in Core : Request(c) \/ Acquire(c) \/ Release(c)

(***************************************************************************)
(* Progress of the lock as a whole: a free lock that somebody wants is     *)
(* taken by somebody, and an owner gives it back.                          *)
(***************************************************************************)
Fairness == /\ WF_vars(\E c \in Core : Acquire(c))
            /\ WF_vars(\E c \in Core : Release(c))

Spec == Init /\ [][Next]_vars

FairSpec == Spec /\ Fairness
=============================================================================
