-------------------------- MODULE Interrupts_proof --------------------------
(***************************************************************************)
(* Proofs about the mailbox interrupts, for any set of interrupt numbers   *)
(* and any number of interrupts sent and bytes received.                   *)
(***************************************************************************)
EXTENDS Interrupts, FiniteSetTheorems, NaturalsInduction, WellFoundedInduction, TLAPS

(* Each step of Next, one by one. *)
LEMMA NextCases ==
  ASSUME Next
  PROVE  \/ \E i \in Ipi : SendIpi(i)
         \/ \E l \in Lock : OthersLock(l)
         \/ Receive \/ Program \/ Irq \/ ReadMailbox \/ ClearBit \/ HandleIpi
         \/ BeginReport \/ EndIpi \/ ReadPending \/ EndLoop \/ CallAux \/ DisableStray
         \/ AuxEmpty \/ Echo \/ UNCHANGED vars
BY DEF Next, Core, Spin

(***************************************************************************)
(* What both theorems rest on: nothing but interrupts is unserved, and     *)
(* none of them is lost.  It is inductive.                                 *)
(***************************************************************************)
IInv == unserved \subseteq Ipi /\ NoIpiLost

LEMMA StepKeeps == ASSUME IInv, [Next]_vars PROVE IInv'
<1> USE DEF IInv, NoIpiLost, Goto, ipiVars, ioVars
<1>1. CASE UNCHANGED vars
  BY <1>1 DEF vars
<1>2. ASSUME NEW i \in Ipi, SendIpi(i) PROVE IInv'
  BY <1>2 DEF SendIpi
<1>3. CASE Receive \/ Program \/ Irq
  BY <1>3 DEF Receive, Program, Irq
<1>4. CASE ReadMailbox
  BY <1>4 DEF ReadMailbox
<1>5. CASE ClearBit
  BY <1>5 DEF ClearBit, Clear
<1>6. CASE HandleIpi
  BY <1>6 DEF HandleIpi
<1>7. CASE BeginReport \/ EndIpi
  BY <1>7 DEF BeginReport, EndIpi, End
<1>8. CASE ReadPending \/ EndLoop \/ CallAux \/ DisableStray
  BY <1>8 DEF ReadPending, EndLoop, CallAux, DisableStray, Pass, AtStray
<1>9. CASE AuxEmpty \/ Echo
  BY <1>9 DEF AuxEmpty, Echo
<1>10. ASSUME NEW l \in Lock, OthersLock(l) PROVE IInv'
  BY <1>10 DEF OthersLock
<1> QED
  BY <1>1, <1>2, <1>3, <1>4, <1>5, <1>6, <1>7, <1>8, <1>9, <1>10, NextCases

LEMMA Invariance == Spec => []IInv
<1>1. Init => IInv
  BY DEF Init, IInv, NoIpiLost
<1>2. IInv /\ [Next]_vars => IInv'
  BY StepKeeps
<1> QED
  BY <1>1, <1>2, PTL DEF Spec

(***************************************************************************)
(* local_int_handler loses no mailbox interrupt, however many are sent,    *)
(* whenever they are sent.                                                 *)
(***************************************************************************)
THEOREM NothingLost == Spec => []NoIpiLost
<1>1. IInv => NoIpiLost
  BY DEF IInv
<1> QED
  BY <1>1, Invariance, PTL

(***************************************************************************)
(* The steps of the core and of the senders are steps of IpiPromise: a     *)
(* handler starts only for an interrupt that is owed, and not while        *)
(* another is held up at a lock.                                           *)
(***************************************************************************)
PromiseSteps == Promise!Init /\ [][Promise!Next]_unserved

THEOREM Refinement == Spec => PromiseSteps
<1>1. Init => Promise!Init
  BY DEF Init, Promise!Init
<1>2. ASSUME IInv, [Next]_vars PROVE [Promise!Next]_unserved
  <2> USE DEF Promise!Next, Promise!Send, Promise!Start, ipiVars, ioVars
  <2>1. CASE UNCHANGED vars
    BY <2>1 DEF vars
  <2>2. ASSUME NEW i \in Ipi, SendIpi(i) PROVE Promise!Next
    BY <2>2 DEF SendIpi
  <2>3. CASE HandleIpi
    <3>1. CASE ipi \in unserved
      <4>1. ~HeldUp
        BY <2>3 DEF HandleIpi, Goto, HeldUp, AtStray
      <4> QED
        BY <2>3, <3>1, <4>1, <1>2 DEF HandleIpi, IInv
    <3>2. CASE ipi \notin unserved
      BY <2>3, <3>2 DEF HandleIpi
    <3> QED
      BY <3>1, <3>2
  <2>4. CASE Receive \/ Program \/ Irq \/ ReadMailbox \/ ClearBit \/ BeginReport \/ EndIpi
    BY <2>4 DEF Receive, Program, Irq, ReadMailbox, ClearBit, Clear, BeginReport, EndIpi, End
  <2>5. CASE ReadPending \/ EndLoop \/ CallAux \/ DisableStray \/ AuxEmpty \/ Echo
    BY <2>5 DEF ReadPending, EndLoop, CallAux, DisableStray, Pass, AuxEmpty, Echo
  <2>6. ASSUME NEW l \in Lock, OthersLock(l) PROVE UNCHANGED unserved
    BY <2>6 DEF OthersLock
  <2> QED
    BY <1>2, <2>1, <2>2, <2>3, <2>4, <2>5, <2>6, NextCases
<1> QED
  BY <1>1, <1>2, Invariance, PTL DEF Spec, PromiseSteps
-----------------------------------------------------------------------------
(* The lowest bit of a mailbox is one of its bits. *)
LEMMA LowestBit ==
  ASSUME NEW S \in SUBSET Ipi, S # {}
  PROVE  Min(S) \in S /\ \A y \in S : Min(S) <= y
<1>1. S \subseteq Nat
  BY IpiAssumption
<1>2. \E x \in S : \A y \in S : ~ (<<y, x>> \in OpToRel(<, Nat))
  BY <1>1, WFMin, NatLessThanWellFounded, Zenon
<1>3. \E x \in S : \A y \in S : ~ (y < x)
  BY <1>1, <1>2, Zenon DEF OpToRel
<1>4. \E x \in S : \A y \in S : x <= y
  BY <1>1, <1>3
<1> QED
  BY <1>4 DEF Min
-----------------------------------------------------------------------------
(***************************************************************************)
(* The types of all variables, and that the bit about to be cleared is     *)
(* set: no other core clears a bit.                                        *)
(***************************************************************************)
BoxType ==
  /\ pc \in {"program", "local", "clear", "handle", "run", "report", "gpu", "loop", "aux"}
  /\ box \subseteq Ipi /\ ipi \in Ipi /\ unserved \subseteq Ipi
  /\ sends \in 0 .. MaxSend /\ runs \in Nat
  /\ pc = "clear" => ipi \in box

LineType == enabled \subseteq Line /\ lines \subseteq Line /\ tick \in BOOLEAN

ByteType ==
  /\ lock \in [Lock -> {"free", "here", "there"}]
  /\ rx \in 0 .. MaxByte /\ echoed \in 0 .. MaxByte - rx

LEMMA BoxTypeKeeps == ASSUME BoxType, [Next]_vars PROVE BoxType'
<1> USE DEF BoxType, Goto, ipiVars
<1>1. CASE UNCHANGED vars
  BY <1>1 DEF vars
<1>2. ASSUME NEW i \in Ipi, SendIpi(i) PROVE BoxType'
  BY <1>2, BoundAssumption DEF SendIpi
<1>3. CASE Receive \/ Program \/ Irq
  BY <1>3 DEF Receive, Program, Irq
<1>4. CASE ReadMailbox
  <2>1. CASE box = {}
    BY <1>4, <2>1 DEF ReadMailbox
  <2>2. CASE box # {}
    <3>1. Min(box) \in box
      BY <2>2, LowestBit
    <3> QED
      BY <1>4, <2>2, <3>1 DEF ReadMailbox
  <2> QED
    BY <2>1, <2>2
<1>5. CASE ClearBit
  BY <1>5 DEF ClearBit, Clear
<1>6. CASE HandleIpi
  BY <1>6 DEF HandleIpi
<1>7. CASE BeginReport \/ EndIpi
  BY <1>7 DEF BeginReport, EndIpi, End
<1>8. CASE ReadPending \/ EndLoop \/ CallAux \/ DisableStray
  BY <1>8 DEF ReadPending, EndLoop, CallAux, DisableStray, Pass, AtStray
<1>9. CASE AuxEmpty \/ Echo
  BY <1>9 DEF AuxEmpty, Echo
<1>10. ASSUME NEW l \in Lock, OthersLock(l) PROVE BoxType'
  BY <1>10 DEF OthersLock
<1> QED
  BY <1>1, <1>2, <1>3, <1>4, <1>5, <1>6, <1>7, <1>8, <1>9, <1>10, NextCases

LEMMA LineTypeKeeps == ASSUME LineType, [Next]_vars PROVE LineType'
<1> USE DEF LineType
<1>1. ASSUME UNCHANGED <<enabled, lines, tick>> PROVE LineType'
  BY <1>1, Zenon
<1>2. CASE UNCHANGED vars
  BY <1>1, <1>2 DEF vars, ioVars
<1>3. ASSUME NEW i \in Ipi, SendIpi(i) PROVE LineType'
  BY <1>1, <1>3 DEF SendIpi, ioVars
<1>4. CASE Receive \/ Irq \/ ReadMailbox \/ ClearBit \/ HandleIpi \/ BeginReport \/ EndIpi
  BY <1>1, <1>4 DEF Receive, Irq, ReadMailbox, ClearBit, Clear, HandleIpi, BeginReport,
                    EndIpi, End, ioVars
<1>5. CASE EndLoop \/ CallAux \/ AuxEmpty \/ Echo
  BY <1>1, <1>5 DEF EndLoop, CallAux, AuxEmpty, Echo, ioVars
<1>6. CASE Program
  <2>1. tick' = ~tick /\ UNCHANGED <<enabled, lines>>
    BY <1>6 DEF Program
  <2> QED
    BY <2>1, Zenon
<1>7. CASE ReadPending
  <2>1. lines' \subseteq enabled /\ UNCHANGED <<enabled, tick>>
    BY <1>7 DEF ReadPending, Pending
  <2> QED
    BY <2>1, Zenon
<1>8. CASE DisableStray
  <2>1. enabled' \subseteq enabled /\ lines' \subseteq lines /\ tick' = tick
    BY <1>8 DEF DisableStray, Pass
  <2> QED
    BY <2>1, Zenon
<1>9. ASSUME NEW l \in Lock, OthersLock(l) PROVE LineType'
  BY <1>1, <1>9 DEF OthersLock, ioVars
<1> QED
  BY <1>2, <1>3, <1>4, <1>5, <1>6, <1>7, <1>8, <1>9, NextCases

LEMMA ByteTypeKeeps == ASSUME ByteType, [Next]_vars PROVE ByteType'
<1> USE DEF ByteType
<1>1. ASSUME UNCHANGED <<lock, rx, echoed>> PROVE ByteType'
  BY <1>1
<1>2. ASSUME UNCHANGED <<rx, echoed>>, NEW l \in Lock, NEW v \in {"free", "here", "there"},
             lock' = [lock EXCEPT ![l] = v]
      PROVE  ByteType'
  BY <1>2
<1>3. CASE UNCHANGED vars
  BY <1>1, <1>3 DEF vars, ioVars
<1>4. ASSUME NEW i \in Ipi, SendIpi(i) PROVE ByteType'
  BY <1>1, <1>4 DEF SendIpi, ioVars
<1>5. ASSUME NEW l \in Lock, OthersLock(l) PROVE ByteType'
  BY <1>2, <1>5 DEF OthersLock, ioVars
<1>6. CASE Program
  BY <1>1, <1>2, <1>6 DEF Program, ProgramLock
<1>7. CASE BeginReport \/ EndIpi
  BY <1>1, <1>2, <1>7 DEF BeginReport, EndIpi, End, Lock, ioVars
<1>8. CASE Irq \/ ReadMailbox \/ ClearBit \/ HandleIpi
  BY <1>1, <1>8 DEF Irq, ReadMailbox, ClearBit, Clear, HandleIpi, ioVars
<1>9. CASE ReadPending \/ EndLoop \/ CallAux \/ DisableStray \/ AuxEmpty
  BY <1>1, <1>9 DEF ReadPending, EndLoop, CallAux, DisableStray, Pass, AuxEmpty, ioVars
<1>10. CASE Receive
  BY <1>10, BoundAssumption DEF Receive
<1>11. CASE Echo
  BY <1>11, BoundAssumption DEF Echo
<1> QED
  BY <1>3, <1>4, <1>5, <1>6, <1>7, <1>8, <1>9, <1>10, <1>11, NextCases

LEMMA TypeInvariant == Spec => [](BoxType /\ LineType /\ ByteType)
<1>1. ASSUME Init PROVE BoxType /\ LineType /\ ByteType
  <2>1. Min(Ipi) \in Ipi
    BY LowestBit, IpiAssumption
  <2>2. BoxType
    BY <1>1, <2>1, BoundAssumption DEF Init, BoxType
  <2>3. LineType
    BY <1>1, Zenon DEF Init, LineType
  <2>4. ByteType
    BY <1>1, BoundAssumption DEF Init, ByteType
  <2> QED
    BY <2>2, <2>3, <2>4
<1>2. BoxType /\ LineType /\ ByteType /\ [Next]_vars => BoxType' /\ LineType' /\ ByteType'
  BY BoxTypeKeeps, LineTypeKeeps, ByteTypeKeeps
<1> QED
  BY <1>1, <1>2, PTL DEF Spec

(* Every variable keeps its type, the bytes their bound included. *)
THEOREM TypeCorrect == Spec => []TypeOK
<1>1. ASSUME BoxType, LineType, ByteType PROVE TypeOK
  BY <1>1, Zenon DEF BoxType, LineType, ByteType, TypeOK
<1> QED
  BY <1>1, TypeInvariant, PTL
-----------------------------------------------------------------------------
(* A mailbox is a finite set, so that its bits can be counted. *)
LEMMA FiniteBox == ASSUME NEW S \in SUBSET Ipi PROVE IsFiniteSet(S)
<1>1. 0 \in Int /\ 31 \in Int
  OBVIOUS
<1>2. IsFiniteSet(0 .. 31)
  BY <1>1, FS_Interval, Zenon
<1> QED
  BY <1>2, FS_Subset, IpiAssumption

LEMMA ExtraKeeps ==
  ASSUME BoxType, NoExtraRuns, [Next]_vars PROVE NoExtraRuns'
<1> DEFINE about == IF pc = "handle" THEN 1 ELSE 0
<1>1. /\ IsFiniteSet(box) /\ Cardinality(box) \in Nat
      /\ runs \in Nat /\ sends \in Nat /\ about \in Nat
      /\ runs + Cardinality(box) + about <= sends
  BY FiniteBox, FS_CardinalityType, BoundAssumption DEF BoxType, NoExtraRuns
<1>2. ASSUME UNCHANGED <<box, runs, sends>>, pc' = "handle" => pc = "handle"
      PROVE  NoExtraRuns'
  BY <1>1, <1>2 DEF NoExtraRuns
<1>3. CASE UNCHANGED vars
  BY <1>2, <1>3 DEF vars, ipiVars
<1>4. ASSUME NEW i \in Ipi, SendIpi(i) PROVE NoExtraRuns'
  <2>1. /\ sends' = sends + 1 /\ box' = box \union {i}
        /\ runs' = runs /\ pc' = pc
    BY <1>4 DEF SendIpi
  <2>2. Cardinality(box') \in Nat /\ Cardinality(box') <= Cardinality(box) + 1
    BY <1>1, <2>1, FS_AddElement
  <2> QED
    BY <1>1, <2>1, <2>2 DEF NoExtraRuns
<1>5. CASE ClearBit
  <2>1. /\ box' = box \ {ipi} /\ ipi \in box
        /\ pc = "clear" /\ pc' = "handle" /\ UNCHANGED <<sends, runs>>
    BY <1>5 DEF ClearBit, Clear, Goto, BoxType
  <2>2. Cardinality(box') = Cardinality(box) - 1
    BY <1>1, <2>1, FS_RemoveElement
  <2> QED
    BY <1>1, <2>1, <2>2 DEF NoExtraRuns
<1>6. CASE HandleIpi
  <2>1. runs' = runs + 1 /\ pc = "handle" /\ pc' = "run" /\ UNCHANGED <<sends, box>>
    BY <1>6 DEF HandleIpi, Goto
  <2> QED
    BY <1>1, <2>1 DEF NoExtraRuns
<1>7. CASE Receive \/ Program \/ Irq \/ ReadMailbox \/ BeginReport \/ EndIpi
  <2>1. CASE Receive \/ Program \/ Irq \/ ReadMailbox \/ BeginReport
    BY <1>2, <2>1 DEF Receive, Program, Irq, ReadMailbox, BeginReport, Goto, ipiVars
  <2>2. CASE EndIpi
    <3>1. UNCHANGED <<runs, sends>> /\ box' = box \ {} /\ pc' = "program"
      BY <2>2 DEF EndIpi, End, Goto
    <3> QED
      BY <1>2, <3>1
  <2> QED
    BY <1>7, <2>1, <2>2
<1>8. CASE ReadPending \/ EndLoop \/ CallAux \/ DisableStray \/ AuxEmpty \/ Echo
  BY <1>2, <1>8 DEF ReadPending, EndLoop, CallAux, DisableStray, Pass, AtStray, AuxEmpty,
                    Echo, Goto, ipiVars
<1>9. ASSUME NEW l \in Lock, OthersLock(l) PROVE NoExtraRuns'
  BY <1>2, <1>9 DEF OthersLock, ipiVars
<1> QED
  BY <1>3, <1>4, <1>5, <1>6, <1>7, <1>8, <1>9, NextCases

(***************************************************************************)
(* ipi_handler never runs more often than interrupts were sent, however    *)
(* many are sent and whenever.                                             *)
(***************************************************************************)
THEOREM NoExtra == Spec => []NoExtraRuns
<1>1. ASSUME Init PROVE NoExtraRuns
  <2>1. runs = 0 /\ sends = 0 /\ box = {} /\ pc = "program"
    BY <1>1 DEF Init
  <2>2. Cardinality(box) = 0
    BY <2>1, FS_EmptySet
  <2> QED
    BY <2>1, <2>2 DEF NoExtraRuns
<1>2. BoxType /\ NoExtraRuns /\ [Next]_vars => NoExtraRuns'
  BY ExtraKeeps
<1> QED
  BY <1>1, <1>2, TypeInvariant, PTL DEF Spec
=============================================================================
