------------------------------- MODULE Grants -------------------------------
(***************************************************************************)
(* What set_user_asid and take_kernel_asid (src/sysinfo.c) promise: an     *)
(* identifier belongs to one task at a time, which keeps it until it ends  *)
(* and gets no other one; an identifier of a kernel belongs to no task and *)
(* stays the kernel's.  Which identifier a task gets is not promised, and  *)
(* nothing is after the callers have done what voids the contract.         *)
(***************************************************************************)
CONSTANTS Holder,   \* the tasks
          Id,       \* the identifiers
          NoId      \* what a task has that has none

VARIABLES has,      \* the identifier of each task
          kept,     \* the identifiers of kernels
          void      \* the contract has ended

vars == <<has, kept, void>>

Init == has = [h \in Holder |-> NoId] /\ kept = {} /\ void = FALSE

Unowned(i) == \A h \in Holder : has[h] # i

Grant(h, i) ==
  /\ has[h] = NoId /\ Unowned(i) /\ i \notin kept
  /\ has' = [has EXCEPT ![h] = i]
  /\ UNCHANGED kept

GiveUp(h) == has' = [has EXCEPT ![h] = NoId] /\ UNCHANGED kept

Keep(i) == Unowned(i) /\ kept' = kept \union {i} /\ UNCHANGED has

Serve ==
  \/ \E h \in Holder : GiveUp(h) \/ \E i \in Id : Grant(h, i)
  \/ \E i \in Id : Keep(i)

\* From the step that voids the contract on, anything may happen.
Next == \/ ~void /\ ~void' /\ Serve
        \/ void'

Spec == Init /\ [][Next]_vars
=============================================================================
