----------------------------- MODULE Exceptions -----------------------------
(***************************************************************************)
(* Entering and leaving the exceptions of one core that probes addresses   *)
(* with read32 (output_access_policy): _irq and _dabort of boot.s and the  *)
(* banked registers they rely on.  An interrupt or a data abort saves the  *)
(* CPSR in the SPSR of its mode; both handlers push the return address,    *)
(* call C code, enable interrupts (cpsie i) and only then return with the  *)
(* SPSR of the mode they run in.  The handler of interrupt 2 probes too,   *)
(* so that data aborts also arrive inside an interrupt.                    *)
(*                                                                         *)
(* Code is a stack of frames, the running one first: the program at the    *)
(* bottom, handlers above it.  A position is an instruction of boot.s,     *)
(* counted from the load of read32.                                        *)
(***************************************************************************)
EXTENDS Naturals, Sequences

CONSTANTS MaxIrq,     \* bound: interrupts
          MaxFault    \* bound: data aborts

ASSUME BoundAssumption == MaxIrq \in Nat /\ MaxFault \in Nat

VARIABLES
  frames,   \* [code, phase, at]: what runs, and what it interrupted below
  cpsr,     \* [mode, irq]: the mode and the I bit
  spsr,     \* the SPSR of each exception mode
  hit,      \* whether an interrupt came between a cpsie i and its return
  irqs,     \* interrupts taken
  faults    \* data aborts taken

vars == <<frames, cpsr, spsr, hit, irqs, faults>>

Mode  == {"svc", "irq", "abt"}
Psr   == [mode : Mode, irq : {"on", "off"}]
Svc   == [mode |-> "svc", irq |-> "on"]

\* read32 is the load and a return; write32, a store and a return, follows it.
\* The store itself does not fault: write32 is called for device registers
\* only, and every table maps those (InterruptsReachable of MemoryMap).
Probe       == 0
ProbeReturn == 1
Store       == 2
StoreReturn == 3

Frame == [code  : {"program", "irq", "dabort"},
          phase : {"save", "body", "enable", "return"},
          at    : 0 .. 3]

TypeOK ==
  /\ frames \in Seq(Frame) /\ Len(frames) \in 1 .. MaxIrq + MaxFault + 1
  /\ cpsr \in Psr /\ spsr \in [{"irq", "abt"} -> Psr]
  /\ hit \in BOOLEAN /\ irqs \in 0 .. MaxIrq /\ faults \in 0 .. MaxFault

\* After _reset_ and _enable_interrupts; the SPSRs hold anything.
Init ==
  /\ frames = << [code |-> "program", phase |-> "body", at |-> Probe] >>
  /\ cpsr = Svc
  /\ spsr \in [{"irq", "abt"} -> Psr]
  /\ hit = FALSE /\ irqs = 0 /\ faults = 0

Running == Head(frames)
SetRunning(f) == frames' = <<f>> \o Tail(frames)

\* The exception registers of the mode the exception is taken to.
Enter(mode, code) ==
  /\ spsr' = [spsr EXCEPT ![mode] = cpsr]
  /\ cpsr' = [mode |-> mode, irq |-> "off"]
  /\ frames' = << [code |-> code, phase |-> "save", at |-> Probe] >> \o frames

\* The code that probes: the program, and the C part of an interrupt.
Probing == Running.phase = "body" /\ Running.code # "dabort"
-----------------------------------------------------------------------------
\* read32 without a fault, and its return.
Read ==
  /\ Probing /\ Running.at = Probe
  /\ SetRunning([Running EXCEPT !.at = ProbeReturn])
  /\ UNCHANGED <<cpsr, spsr, hit, irqs, faults>>

ReturnToLoop ==
  /\ Probing /\ Running.at \in {ProbeReturn, StoreReturn}
  /\ SetRunning([Running EXCEPT !.at = Probe])
  /\ UNCHANGED <<cpsr, spsr, hit, irqs, faults>>

\* A load that faults.
DataAbort ==
  /\ faults < MaxFault /\ faults' = faults + 1
  /\ Probing /\ Running.at = Probe
  /\ Enter("abt", "dabort")
  /\ UNCHANGED <<hit, irqs>>

\* An interrupt, when the I bit is clear.
TakeIrq ==
  /\ irqs < MaxIrq /\ irqs' = irqs + 1
  /\ cpsr.irq = "on"
  /\ hit' = (hit \/ Running.phase = "return")
  /\ Enter("irq", "irq")
  /\ UNCHANGED faults

\* stmfd sp!, {r0-r12, lr}.  The mutant enables interrupts before the C code.
StartBody ==
  /\ Running.phase = "save"
  /\ SetRunning([Running EXCEPT !.phase = "body"])
  /\ UNCHANGED <<spsr, hit, irqs, faults>>

SaveEnabling == StartBody /\ cpsr' = [cpsr EXCEPT !.irq = "on"]
Save == StartBody /\ UNCHANGED cpsr

\* interrupt_handler or data_abort_vector returns, between two probes.
EndBody ==
  /\ Running.phase = "body" /\ Running.code # "program" /\ Running.at = Probe
  /\ SetRunning([Running EXCEPT !.phase = "enable"])
  /\ UNCHANGED <<cpsr, spsr, hit, irqs, faults>>

\* cpsie i.
EnableIrq ==
  /\ Running.phase = "enable"
  /\ cpsr' = [cpsr EXCEPT !.irq = "on"]
  /\ SetRunning([Running EXCEPT !.phase = "return"])
  /\ UNCHANGED <<spsr, hit, irqs, faults>>

(***************************************************************************)
(* ldmfd sp!, {r0-r12, pc}^.  The link register of a data abort is two     *)
(* instructions after the one that faulted, and _dabort adds one more.     *)
(* The mutants forget that one, add two, and forget to restore the CPSR    *)
(* (the ^).                                                                *)
(***************************************************************************)
ResumeAfterLink(f, code) == IF code = "dabort" THEN [f EXCEPT !.at = @ + 2] ELSE f
ResumeTwoMore(f, code) == IF code = "dabort" THEN [f EXCEPT !.at = @ + 4] ELSE f
Resume(f, code) == IF code = "dabort" THEN [f EXCEPT !.at = @ + 3] ELSE f

Unwind ==
  /\ Running.phase = "return"
  /\ frames' = << Resume(frames[2], Running.code) >> \o Tail(Tail(frames))
  /\ UNCHANGED <<spsr, hit, irqs, faults>>

ReturnKeepingMode == Unwind /\ UNCHANGED cpsr
Return == Unwind /\ cpsr' = IF cpsr.mode = "svc" THEN cpsr ELSE spsr[cpsr.mode]

Next ==
  \/ Read \/ ReturnToLoop \/ DataAbort \/ TakeIrq
  \/ Save \/ EndBody \/ EnableIrq \/ Return

Spec == Init /\ [][Next]_vars
-----------------------------------------------------------------------------
(***************************************************************************)
(* boot.s:129, "Switch back to supervisor mode (our application mode)":    *)
(* the program never goes on in the mode, and with the stack and link      *)
(* register, of a handler that has returned to it.                         *)
(***************************************************************************)
ProgramInSvc == Running.code = "program" => cpsr.mode = "svc"

MaskedUntilEnable == cpsr.irq = "on" <=> Running.phase = "return"

(***************************************************************************)
(* As long as no interrupt has come between a cpsie i and its return, that *)
(* holds, with interrupts on; and a handler runs in its own mode, with     *)
(* interrupts masked until its cpsie i, also after an abort inside it.     *)
(***************************************************************************)
ModesRestored ==
  ~hit => CASE Running.code = "program" -> cpsr = Svc
            [] Running.code = "irq"     -> cpsr.mode = "irq" /\ MaskedUntilEnable
            [] Running.code = "dabort"  -> cpsr.mode = "abt" /\ MaskedUntilEnable

(***************************************************************************)
(* As long as that has not happened, interrupt_handler is not entered      *)
(* again before it has returned: it holds exp_lock while it probes, and    *)
(* would wait for itself.                                                  *)
(***************************************************************************)
InHandler(f) == f.code = "irq" /\ f.phase \in {"save", "body"}

HandlerOnce ==
  ~hit => \A j, k \in DOMAIN frames :
            InHandler(frames[j]) /\ InHandler(frames[k]) => j = k

(***************************************************************************)
(* A fault in read32 never runs the store of write32, which follows it in  *)
(* memory: the three instructions _dabort moves on by end at a return.     *)
(***************************************************************************)
ProbeNeverStores == \A k \in DOMAIN frames : frames[k].at # Store

=============================================================================
