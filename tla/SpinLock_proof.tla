--------------------------- MODULE SpinLock_proof ---------------------------
(***************************************************************************)
(* Proofs about the spin lock, for any set of cores.  IInv is inductive:   *)
(* mutual exclusion alone is not, because what stops a second core is the  *)
(* word (WordMatchesOwner), and what makes its test of the word still true *)
(* at the store is the reservation (ReservationFresh).                     *)
(***************************************************************************)
EXTENDS SpinLock, TLAPS

States == {"idle"} \union Waiting \union Owning

(***************************************************************************)
(* Every instruction of the two routines is one of these steps of one core *)
(* (boot.s: _spin_req, _spin_rel).                                         *)
(***************************************************************************)
LEMMA NextCases ==
  ASSUME Next
  PROVE  \E c \in Core : \/ CallReq(c) \/ CallRel(c)
                         \/ ReqLdrex(c) \/ ReqStrex(c)
                         \/ RelLdrex(c) \/ RelStrex(c)
                         \/ LoseReservation(c)
BY DEF Next, Routine

(* The routines start in a state that satisfies the inductive invariant. *)
LEMMA InitIInv == Init => IInv
BY MaxLossNat DEF Init, IInv, TypeOK, MutualExclusion, WordMatchesOwner,
                  ReservationFresh, Owning, Waiting

(* No instruction takes the state out of its types. *)
LEMMA TypeStep == TypeOK /\ [Next]_vars => TypeOK'
<1> SUFFICES ASSUME TypeOK, [Next]_vars PROVE TypeOK'
  OBVIOUS
<1> USE MaxLossNat DEF TypeOK, Waiting, Owning
<1>1. CASE UNCHANGED vars
  BY <1>1 DEF vars
<1>2. CASE Next
  <2> PICK c \in Core : \/ CallReq(c) \/ CallRel(c)
                        \/ ReqLdrex(c) \/ ReqStrex(c)
                        \/ RelLdrex(c) \/ RelStrex(c)
                        \/ LoseReservation(c)
    BY <1>2, NextCases
  <2>1. CASE CallReq(c) \/ CallRel(c)
    BY <2>1 DEF CallReq, CallRel, Goto
  <2>2. CASE ReqLdrex(c) \/ RelLdrex(c)
    BY <2>2 DEF ReqLdrex, RelLdrex, Ldrex, Goto
  <2>3. CASE ReqStrex(c) \/ RelStrex(c)
    BY <2>3 DEF ReqStrex, RelStrex, Strex, Goto
  <2>4. CASE LoseReservation(c)
    BY <2>4 DEF LoseReservation
  <2> QED
    BY <2>1, <2>2, <2>3, <2>4
<1> QED
  BY <1>1, <1>2

(***************************************************************************)
(* The effect of the two successful stores, which carry the argument: the  *)
(* store of 1 happens when nobody owns the lock, and the store of 0 is     *)
(* made by the owner.                                                      *)
(***************************************************************************)
LEMMA StoreOfOne ==
  ASSUME IInv, NEW c \in Core, ReqStrex(c), c \in reserved
  PROVE  /\ \A d \in Core : pc[d] \notin Owning
         /\ lock' = 1 /\ reserved' = {}
         /\ pc' = [pc EXCEPT ![c] = "held"]
BY DEF IInv, TypeOK, WordMatchesOwner, ReservationFresh, ReqStrex, Strex, Goto

LEMMA StoreOfZero ==
  ASSUME IInv, NEW c \in Core, RelStrex(c), c \in reserved
  PROVE  /\ \A d \in Core \ {c} : pc[d] \notin Owning
         /\ lock' = 0 /\ reserved' = {}
         /\ pc' = [pc EXCEPT ![c] = "idle"]
BY DEF IInv, TypeOK, MutualExclusion, RelStrex, Strex, Goto, Owning

LEMMA Step == IInv /\ [Next]_vars => IInv'
<1> SUFFICES ASSUME IInv, [Next]_vars PROVE IInv'
  OBVIOUS
<1>t. TypeOK'
  BY TypeStep DEF IInv
<1> SUFFICES MutualExclusion' /\ WordMatchesOwner' /\ ReservationFresh'
  BY <1>t DEF IInv
<1>1. CASE UNCHANGED vars
  BY <1>1 DEF vars, IInv, MutualExclusion, WordMatchesOwner, ReservationFresh
<1>2. CASE Next
  <2> PICK c \in Core : \/ CallReq(c) \/ CallRel(c)
                        \/ ReqLdrex(c) \/ ReqStrex(c)
                        \/ RelLdrex(c) \/ RelStrex(c)
                        \/ LoseReservation(c)
    BY <1>2, NextCases
  <2> USE DEF MutualExclusion, WordMatchesOwner, ReservationFresh, Owning
  <2>1. CASE CallReq(c) \/ CallRel(c)
    BY <2>1 DEF IInv, TypeOK, CallReq, CallRel, Goto
  <2>2. CASE ReqLdrex(c) \/ RelLdrex(c)
    BY <2>2 DEF IInv, TypeOK, ReqLdrex, RelLdrex, Ldrex, Goto
  <2>3. CASE ReqStrex(c) /\ c \in reserved
    BY <2>3, StoreOfOne DEF IInv, TypeOK
  <2>4. CASE RelStrex(c) /\ c \in reserved
    BY <2>4, StoreOfZero DEF IInv, TypeOK
  <2>5. CASE (ReqStrex(c) \/ RelStrex(c)) /\ c \notin reserved
    BY <2>5 DEF IInv, TypeOK, ReqStrex, RelStrex, Strex, Goto
  <2>6. CASE LoseReservation(c)
    BY <2>6 DEF IInv, TypeOK, LoseReservation
  <2> QED
    BY <2>1, <2>2, <2>3, <2>4, <2>5, <2>6
<1> QED
  BY <1>1, <1>2

(***************************************************************************)
(* The inductive invariant holds in every reachable state.                 *)
(***************************************************************************)
THEOREM Invariance == Spec => []IInv
BY InitIInv, Step, PTL DEF Spec

(***************************************************************************)
(* However many cores share the lock word and however many reservations    *)
(* exceptions take away, no two cores own the lock (boot.s: _spin_req).    *)
(***************************************************************************)
THEOREM Exclusion == Spec => []MutualExclusion
<1>1. IInv => MutualExclusion
  BY DEF IInv
<1> QED
  BY <1>1, Invariance, PTL

(***************************************************************************)
(* _spin_rel never waits in vain: the word is 1 exactly while some core is *)
(* the owner.                                                              *)
(***************************************************************************)
THEOREM WordOwner == Spec => []WordMatchesOwner
<1>1. IInv => WordMatchesOwner
  BY DEF IInv
<1> QED
  BY <1>1, Invariance, PTL

(***************************************************************************)
(* A STREX of _spin_req or _spin_rel that succeeds stores over the value   *)
(* its LDREX compared.                                                     *)
(***************************************************************************)
THEOREM Fresh == Spec => []ReservationFresh
<1>1. IInv => ReservationFresh
  BY DEF IInv
<1> QED
  BY <1>1, Invariance, PTL

(***************************************************************************)
(* The lock word is 0 or 1, whatever the cores do (_spin_req, _spin_rel).  *)
(***************************************************************************)
THEOREM TypeCorrect == Spec => []TypeOK
<1>1. IInv => TypeOK
  BY DEF IInv
<1> QED
  BY <1>1, Invariance, PTL
-----------------------------------------------------------------------------
(***************************************************************************)
(* The owner the abstract lock sees: the core that owns the word, if any.  *)
(***************************************************************************)
LEMMA HolderIs ==
  ASSUME MutualExclusion, NEW c \in Core, pc[c] \in Owning
  PROVE  holder = c
BY DEF MutualExclusion, holder

LEMMA HolderNone ==
  ASSUME \A c \in Core : pc[c] \notin Owning
  PROVE  holder = NoCore
BY DEF holder

LEMMA HolderSame ==
  ASSUME \A c \in Core : pc'[c] \in Owning <=> pc[c] \in Owning
  PROVE  holder' = holder
BY DEF holder

(***************************************************************************)
(* Every instruction is a step of the abstract lock or changes nothing it  *)
(* can see: the successful store of 1 is its Acquire, the successful store *)
(* of 0 its Release.                                                       *)
(***************************************************************************)
LEMMA StepRefines == IInv /\ IInv' /\ [Next]_vars => [M!Next]_(M!vars)
<1> SUFFICES ASSUME IInv, IInv', [Next]_vars PROVE [M!Next]_(M!vars)
  OBVIOUS
<1> USE DEF M!vars
<1>1. CASE UNCHANGED vars
  BY <1>1 DEF vars, wanting, holder
<1>2. CASE Next
  <2> PICK c \in Core : \/ CallReq(c) \/ CallRel(c)
                        \/ ReqLdrex(c) \/ ReqStrex(c)
                        \/ RelLdrex(c) \/ RelStrex(c)
                        \/ LoseReservation(c)
    BY <1>2, NextCases
  <2>1. CASE CallReq(c)
    <3>1. /\ pc \in [Core -> States] /\ pc[c] = "idle"
          /\ pc' = [pc EXCEPT ![c] = "req_ldrex"]
      BY <2>1 DEF CallReq, Goto, IInv, TypeOK, States
    <3>2. holder' = holder
      BY <3>1, HolderSame DEF Owning, States
    <3>3. c \notin wanting /\ wanting' = wanting \union {c}
      BY <3>1 DEF wanting, Waiting, States
    <3>4. holder # c
      BY <3>1, NoCoreOutside DEF holder, Owning
    <3> QED
      BY <3>2, <3>3, <3>4 DEF M!Next, M!Request
  <2>2. CASE CallRel(c) \/ ReqLdrex(c) \/ RelLdrex(c) \/ LoseReservation(c)
    <3>1. \A d \in Core : /\ pc'[d] \in Owning <=> pc[d] \in Owning
                          /\ pc'[d] \in Waiting <=> pc[d] \in Waiting
      BY <2>2 DEF CallRel, ReqLdrex, RelLdrex, LoseReservation, Ldrex, Goto,
                  IInv, TypeOK, Owning, Waiting
    <3> QED
      BY <3>1, HolderSame DEF wanting
  <2>3. CASE (ReqStrex(c) \/ RelStrex(c)) /\ c \notin reserved
    <3>1. \A d \in Core : /\ pc'[d] \in Owning <=> pc[d] \in Owning
                          /\ pc'[d] \in Waiting <=> pc[d] \in Waiting
      BY <2>3 DEF ReqStrex, RelStrex, Strex, Goto, IInv, TypeOK, Owning, Waiting
    <3> QED
      BY <3>1, HolderSame DEF wanting
  <2>4. CASE ReqStrex(c) /\ c \in reserved
    <3>1. /\ pc \in [Core -> States] /\ pc[c] = "req_strex"
          /\ pc' = [pc EXCEPT ![c] = "held"]
          /\ \A d \in Core : pc[d] \notin Owning
      BY <2>4, StoreOfOne DEF ReqStrex, Strex, Goto, IInv, TypeOK, States
    <3>2. holder = NoCore
      BY <3>1, HolderNone
    <3>3. MutualExclusion' /\ pc'[c] \in Owning
      BY <3>1 DEF IInv, Owning
    <3>4. holder' = c
      BY <3>3 DEF holder, MutualExclusion
    <3>5. c \in wanting /\ wanting' = wanting \ {c}
      BY <3>1 DEF wanting, Waiting, States
    <3> QED
      BY <3>2, <3>4, <3>5 DEF M!Next, M!Acquire
  <2>5. CASE RelStrex(c) /\ c \in reserved
    <3>1. /\ pc \in [Core -> States] /\ pc[c] = "rel_strex"
          /\ pc' = [pc EXCEPT ![c] = "idle"]
          /\ \A d \in Core \ {c} : pc[d] \notin Owning
      BY <2>5, StoreOfZero DEF RelStrex, Strex, Goto, IInv, TypeOK, States
    <3>2. holder = c
      BY <3>1, HolderIs DEF IInv, Owning
    <3>3. holder' = NoCore
      BY <3>1 DEF holder, Owning, States
    <3>4. wanting' = wanting
      BY <3>1 DEF wanting, Waiting, States
    <3> QED
      BY <3>2, <3>3, <3>4 DEF M!Next, M!Release
  <2> QED
    BY <2>1, <2>2, <2>3, <2>4, <2>5
<1> QED
  BY <1>1, <1>2

(***************************************************************************)
(* _spin_req and _spin_rel implement the lock their callers rely on: every *)
(* behaviour of the instructions is one of the abstract lock.              *)
(***************************************************************************)
THEOREM Refinement == Spec => ImplementsMutexSteps
<1>1. Init => M!Init
  BY DEF Init, M!Init, wanting, holder, Waiting, Owning
<1>2. IInv /\ IInv' /\ [Next]_vars => [M!Next]_(M!vars)
  BY StepRefines
<1> QED
  BY <1>1, <1>2, Invariance, PTL DEF Spec, M!Spec, ImplementsMutexSteps
=============================================================================
