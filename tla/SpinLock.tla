------------------------------ MODULE SpinLock ------------------------------
(***************************************************************************)
(* The spin lock of boot.s: _spin_req and _spin_rel, run by several cores  *)
(* on one lock word with the exclusive loads and stores of ARMv7.  LDREX   *)
(* reads the word and reserves it for the core; STREX writes it only while *)
(* the reservation lasts; a successful STREX of any core ends every        *)
(* reservation, and an exception taken between the two instructions may    *)
(* end the core's own one (its handler runs LDREX/STREX too).              *)
(***************************************************************************)
EXTENDS Naturals

CONSTANTS Core,      \* the cores that share the lock word
          NoCore,    \* "no core", the owner of a free lock
          MaxLoss    \* bound: how many reservations exceptions take away

ASSUME NoCoreOutside == NoCore \notin Core
ASSUME MaxLossNat == MaxLoss \in Nat

VARIABLES lock,      \* the lock word: 0 free, 1 taken
          reserved,  \* the cores whose exclusive reservation of the word lasts
          pc,        \* where each core is: outside, or at which instruction
          losses     \* reservations lost to exceptions so far

vars == <<lock, reserved, pc, losses>>

Waiting == {"req_ldrex", "req_strex"}            \* inside _spin_req
Owning  == {"held", "rel_ldrex", "rel_strex"}    \* from its return to the store of 0

TypeOK ==
  /\ lock \in {0, 1}
  /\ reserved \subseteq Core
  /\ pc \in [Core -> {"idle"} \union Waiting \union Owning]
  /\ losses \in 0..MaxLoss

Init ==
  /\ lock = 0
  /\ reserved = {}
  /\ pc = [c \in Core |-> "idle"]
  /\ losses = 0

Goto(c, from, to) == pc[c] = from /\ pc' = [pc EXCEPT ![c] = to]

CallReq(c) == Goto(c, "idle", "req_ldrex") /\ UNCHANGED <<lock, reserved, losses>>

CallRel(c) == Goto(c, "held", "rel_ldrex") /\ UNCHANGED <<lock, reserved, losses>>

(* Mutants: no compare after the load; a plain store; a store that leaves   *)
(* the reservations of the other cores alone.                               *)
LdrexNoCompare(c, at, expected, next) ==
  /\ Goto(c, at, next)
  /\ reserved' = reserved \union {c}
  /\ UNCHANGED <<lock, losses>>

PlainStore(c, at, value, retry, done) ==
  /\ Goto(c, at, done)
  /\ lock' = value
  /\ reserved' = {}
  /\ UNCHANGED losses

StrexKeepsOthers(c, at, value, retry, done) ==
  /\ Goto(c, at, IF c \in reserved THEN done ELSE retry)
  /\ lock' = IF c \in reserved THEN value ELSE lock
  /\ reserved' = reserved \ {c}
  /\ UNCHANGED losses

(***************************************************************************)
(* LDREX, and the compare that skips the conditional STREX and branches    *)
(* back when the word does not have the value the routine waits for.       *)
(***************************************************************************)
Ldrex(c, at, expected, next) ==
  /\ Goto(c, at, IF lock = expected THEN next ELSE at)
  /\ reserved' = reserved \union {c}
  /\ UNCHANGED <<lock, losses>>

(***************************************************************************)
(* STREX: the store happens, and every reservation ends, only if the core  *)
(* still has its own; otherwise the routine starts again from its LDREX.   *)
(***************************************************************************)
Strex(c, at, value, retry, done) ==
  /\ Goto(c, at, IF c \in reserved THEN done ELSE retry)
  /\ lock' = IF c \in reserved THEN value ELSE lock
  /\ reserved' = IF c \in reserved THEN {} ELSE reserved
  /\ UNCHANGED losses

(* Mutants: _spin_rel compares with the wrong value, or stores a wrong one. *)
RelLdrexWrongValue(c) == Ldrex(c, "rel_ldrex", 0, "rel_strex")
RelStrexWrongValue(c) == Strex(c, "rel_strex", 2, "rel_ldrex", "idle")

ReqLdrex(c) == Ldrex(c, "req_ldrex", 0, "req_strex")
ReqStrex(c) == Strex(c, "req_strex", 1, "req_ldrex", "held")
RelLdrex(c) == Ldrex(c, "rel_ldrex", 1, "rel_strex")
RelStrex(c) == Strex(c, "rel_strex", 0, "rel_ldrex", "idle")

LoseReservation(c) ==
  /\ c \in reserved /\ losses < MaxLoss
  /\ reserved' = reserved \ {c}
  /\ losses' = losses + 1
  /\ UNCHANGED <<lock, pc>>

Routine(c) == ReqLdrex(c) \/ ReqStrex(c) \/ CallRel(c) \/ RelLdrex(c) \/ RelStrex(c)

Next == \E c \in Core : CallReq(c) \/ Routine(c) \/ LoseReservation(c)

(***************************************************************************)
(* A core that is inside the routines, or owns the lock, keeps executing:  *)
(* the critical sections of the kernel are straight-line code.  A core     *)
(* need not ever ask for the lock.                                         *)
(***************************************************************************)
Fairness == \A c \in Core : WF_vars(Routine(c))

Spec == Init /\ [][Next]_vars

FairSpec == Spec /\ Fairness
-----------------------------------------------------------------------------
(***************************************************************************)
(* No two cores are between the return of _spin_req and the store of 0 of  *)
(* _spin_rel, however their exclusive accesses interleave.                 *)
(***************************************************************************)
MutualExclusion ==
  \A c, d \in Core : pc[c] \in Owning /\ pc[d] \in Owning => c = d

(***************************************************************************)
(* The lock word says 1 exactly while some core owns the lock: a core that *)
(* reads 0 may enter, and _spin_rel, which waits for a 1, never waits in   *)
(* vain.                                                                   *)
(***************************************************************************)
WordMatchesOwner == lock = 1 <=> \E c \in Core : pc[c] \in Owning

(***************************************************************************)
(* A core that stands at its STREX with a live reservation would store     *)
(* over the value its LDREX compared: nobody wrote the word in between.    *)
(***************************************************************************)
ReservationFresh ==
  \A c \in reserved : /\ pc[c] = "req_strex" => lock = 0
                      /\ pc[c] = "rel_strex" => lock = 1

IInv == TypeOK /\ MutualExclusion /\ WordMatchesOwner /\ ReservationFresh

(***************************************************************************)
(* The spin lock implements the abstract lock: a core wants it while it    *)
(* waits in _spin_req and owns it until its store of 0.                    *)
(***************************************************************************)
wanting == {c \in Core : pc[c] \in Waiting}
holder  == IF \E c \in Core : pc[c] \in Owning
           THEN CHOOSE c \in Core : pc[c] \in Owning
           ELSE NoCore

M == INSTANCE Mutex WITH want <- wanting, owner <- holder

(***************************************************************************)
(* Safety and progress of the abstract lock: at any time, if somebody      *)
(* waits and the lock is free then somebody gets it.  (That a particular   *)
(* core gets it is not promised: another one can always be faster.)        *)
(***************************************************************************)
ImplementsMutex == M!FairSpec

(* The part of it that says what a step may do. *)
ImplementsMutexSteps == M!Spec
=============================================================================
