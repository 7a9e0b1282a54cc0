----------------------------- MODULE Interrupts -----------------------------
(***************************************************************************)
(* How one core takes interrupts: _irq (boot.s) calls interrupt_handler    *)
(* (interrupt.c), which looks at mailbox 0 of the core first               *)
(* (local_int_handler, multicore.c) and then at the lines of the interrupt *)
(* controller; the handler of line 29 echoes what the UART has received.   *)
(* Other cores send mailbox interrupts and the UART receives bytes at any  *)
(* time.  Interrupts are level triggered: while one is pending the core    *)
(* takes it before another instruction of the program it runs.             *)
(*                                                                         *)
(* Two handlers print, as the program does, under uart_lock, and one       *)
(* reports under exp_lock.  An interrupt may come while the program has    *)
(* either lock: then its handler waits for ever.  Each series of prints is *)
(* one print here, and the MMU is on: before that no print takes a lock.   *)
(***************************************************************************)
EXTENDS Integers, FiniteSetsExt

CONSTANTS Ipi,       \* the numbers of the mailbox interrupts, bits of mailbox 0
          Stray,     \* the other lines that are enabled: they have no handler
          MaxSend,   \* bound: mailbox interrupts sent
          MaxByte    \* bound: bytes received

AuxLine == 29        \* 0x1d, the only line init_irq_handler registers
Lock == {"uart", "exp"}      \* uart_lock, exp_lock

ASSUME IpiAssumption   == Ipi \subseteq 0 .. 31 /\ Ipi # {}
ASSUME StrayAssumption == Stray \subseteq (0 .. 71) \ {AuxLine}
ASSUME BoundAssumption == MaxSend \in Nat /\ MaxByte \in Nat

VARIABLES
  pc,       \* where the core is: in its program, or in the handlers
  box,      \* mailbox 0 of the core: the bits that are set
  ipi,      \* n_ipi of local_int_handler
  enabled,  \* the lines enabled in the interrupt controller
  lines,    \* pending[], less what the loops have passed
  lock,     \* each lock: free, this core's (here) or another core's (there)
  rx,       \* how many bytes are in the receive FIFO of the UART
  echoed,   \* how many bytes aux_int_handler has answered
  tick,     \* flips with every step of the program
  sends,    \* how many mailbox interrupts were sent
  runs,     \* how often ipi_handler has run
  unserved  \* the interrupts sent since ipi_handler last started for them

ipiVars == <<box, ipi, sends, runs, unserved>>
ioVars  == <<enabled, lines, rx, echoed, tick>>
vars    == <<pc, lock, ipiVars, ioVars>>

Line == Stray \union {AuxLine}

TypeOK ==
  /\ pc \in {"program", "local", "clear", "handle", "run", "report", "gpu", "loop", "aux"}
  /\ box \subseteq Ipi /\ ipi \in Ipi
  /\ enabled \subseteq Line /\ lines \subseteq Line
  /\ lock \in [Lock -> {"free", "here", "there"}]
  /\ rx \in 0 .. MaxByte /\ echoed \in 0 .. MaxByte - rx
  /\ tick \in BOOLEAN /\ sends \in 0 .. MaxSend /\ runs \in Nat /\ unserved \subseteq Ipi

Init ==
  /\ pc = "program"
  /\ box = {} /\ ipi = Min(Ipi)
  /\ enabled = Line /\ lines = {}
  /\ lock = [l \in Lock |-> "free"]
  /\ rx = 0 /\ echoed = 0
  /\ tick = FALSE /\ sends = 0 /\ runs = 0 /\ unserved = {}

\* A stray line is pending as long as it is enabled, the UART's while it has bytes.
Pending == {l \in enabled : l = AuxLine => rx > 0}

Goto(from, to) == pc = from /\ pc' = to
-----------------------------------------------------------------------------
\* send_ipi, by another core; the mutant sets the bit of the next number.
SendNextBit(i) ==
  /\ sends < MaxSend /\ sends' = sends + 1
  /\ box' = box \union {i + 1} /\ unserved' = unserved \union {i}
  /\ UNCHANGED <<pc, lock, ipi, runs, ioVars>>
SendIpi(i) ==
  /\ sends < MaxSend /\ sends' = sends + 1
  /\ box' = box \union {i} /\ unserved' = unserved \union {i}
  /\ UNCHANGED <<pc, lock, ipi, runs, ioVars>>

Receive ==
  /\ rx + echoed < MaxByte
  /\ rx' = rx + 1
  /\ UNCHANGED <<pc, lock, ipiVars, enabled, lines, echoed, tick>>

\* Another core gets a lock, or gives it back.
OthersLock(l) ==
  /\ \/ lock[l] = "free" /\ lock' = [lock EXCEPT ![l] = "there"]
     \/ lock[l] = "there" /\ lock' = [lock EXCEPT ![l] = "free"]
  /\ UNCHANGED <<pc, ipiVars, ioVars>>

(***************************************************************************)
(* The program the core runs: a step that concerns no lock, its waiting    *)
(* for one included, or one that gets or gives back uart_lock, or exp_lock *)
(* around several prints (output_access_policy).                           *)
(***************************************************************************)
ProgramLock(l) ==
  /\ l = "exp" => lock["uart"] # "here"
  /\ \/ lock[l] = "free" /\ lock' = [lock EXCEPT ![l] = "here"]
     \/ lock[l] = "here" /\ lock' = [lock EXCEPT ![l] = "free"]

Program ==
  /\ pc = "program" /\ box = {} /\ Pending = {}
  /\ tick' = ~tick
  /\ UNCHANGED lock \/ \E l \in Lock : ProgramLock(l)
  /\ UNCHANGED <<pc, ipiVars, enabled, lines, rx, echoed>>

Irq ==
  /\ (box # {} \/ Pending # {}) /\ Goto("program", "local")
  /\ UNCHANGED <<lock, ipiVars, ioVars>>

(***************************************************************************)
(* local_int_handler: the lowest bit is found, cleared and handled, and    *)
(* the interrupt ends.  ipi_handler prints for 1, reports for 2 and does   *)
(* nothing for the others.  The mutants clear all the bits, no bit, and    *)
(* the bit again after the handler.                                        *)
(***************************************************************************)
ReadMailbox ==
  /\ IF box = {} THEN Goto("local", "gpu") /\ UNCHANGED ipi
                 ELSE Goto("local", "clear") /\ ipi' = Min(box)
  /\ UNCHANGED <<lock, box, sends, runs, unserved, ioVars>>

Clear(bits) ==
  /\ Goto("clear", "handle")
  /\ box' = box \ bits
  /\ UNCHANGED <<lock, ipi, sends, runs, unserved, ioVars>>

ClearAllBits == Clear(box)
ClearNoBit   == Clear({})
ClearBit     == Clear({ipi})

HandleIpi ==
  /\ Goto("handle", "run")
  /\ runs' = runs + 1 /\ unserved' = unserved \ {ipi}
  /\ UNCHANGED <<lock, box, ipi, sends, ioVars>>

BeginReport ==
  /\ ipi = 2 /\ lock["exp"] = "free" /\ Goto("run", "report")
  /\ lock' = [lock EXCEPT !["exp"] = "here"]
  /\ UNCHANGED <<ipiVars, ioVars>>

End(bits) ==
  /\ \/ /\ lock["uart"] = "free" /\ Goto("report", "program")
        /\ lock' = [lock EXCEPT !["exp"] = "free"]
     \/ /\ ipi # 2 /\ (ipi = 1 => lock["uart"] = "free") /\ Goto("run", "program")
        /\ UNCHANGED lock
  /\ box' = box \ bits
  /\ UNCHANGED <<ipi, sends, runs, unserved, ioVars>>

EndIpiClearing == End({ipi})
EndIpi         == End({})

\* _interrupt_handler: pending[0], pending[1] and pending[2] are read.  Only line
\* 29 can become pending meanwhile, and it is in the word that is read first.
ReadPending ==
  /\ Goto("gpu", "loop")
  /\ lines' = Pending
  /\ UNCHANGED <<lock, ipiVars, enabled, rx, echoed, tick>>

(***************************************************************************)
(* Its loops over what was read, in the order of the lines: a line with a  *)
(* handler ends the interrupt after it, one without is complained about,   *)
(* disabled (call_irq_handler) and passed.  The mutant leaves it enabled.  *)
(***************************************************************************)
EndLoop ==
  /\ lines = {} /\ Goto("loop", "program")
  /\ UNCHANGED <<lock, ipiVars, ioVars>>

CallAux ==
  /\ lines # {} /\ Min(lines) = AuxLine /\ Goto("loop", "aux")
  /\ UNCHANGED <<lock, ipiVars, ioVars>>

AtStray == pc = "loop" /\ lines # {} /\ Min(lines) # AuxLine

Pass(disabled) ==
  /\ AtStray /\ lock["uart"] = "free"
  /\ lines' = lines \ {Min(lines)} /\ enabled' = enabled \ disabled
  /\ UNCHANGED <<pc, lock, ipiVars, rx, echoed, tick>>

PassEnabled   == Pass({})
DisableStray  == Pass({Min(lines)})

(***************************************************************************)
(* aux_int_handler: until the FIFO is empty.  uart_send takes no lock and  *)
(* makes two bytes of the end of a line; what is sent back does not matter *)
(* here, only that something is.  The mutant returns without a look.       *)
(***************************************************************************)
AuxAtOnce == Goto("aux", "program") /\ UNCHANGED <<lock, ipiVars, ioVars>>
AuxEmpty == rx = 0 /\ Goto("aux", "program") /\ UNCHANGED <<lock, ipiVars, ioVars>>

Echo ==
  /\ pc = "aux" /\ rx > 0
  /\ rx' = rx - 1 /\ echoed' = echoed + 1
  /\ UNCHANGED <<pc, lock, ipiVars, enabled, lines, tick>>

\* A handler waits in spin_req for a lock that somebody has.
HeldUp ==
  \/ pc = "run" /\ ipi = 1 /\ lock["uart"] # "free"
  \/ pc = "run" /\ ipi = 2 /\ lock["exp"] # "free"
  \/ (pc = "report" \/ AtStray) /\ lock["uart"] # "free"

Spin == HeldUp /\ UNCHANGED vars

Core == \/ Program \/ Irq \/ ReadMailbox \/ ClearBit \/ HandleIpi \/ BeginReport \/ EndIpi
        \/ ReadPending \/ EndLoop \/ CallAux \/ DisableStray
        \/ AuxEmpty \/ Echo

Next == \/ Core \/ Spin \/ Receive
        \/ \E i \in Ipi : SendIpi(i)
        \/ \E l \in Lock : OthersLock(l)

Spec == Init /\ [][Next]_vars

\* The core runs.  Nobody has to send or to type, nor another core to give back
\* a lock: with the prints of spin_req one that has uart_lock never does.
FairSpec == Spec /\ WF_vars(Core)
-----------------------------------------------------------------------------
(***************************************************************************)
(* No mailbox interrupt is lost: one that was sent since its handler last  *)
(* started is in the mailbox or about to be handled, also when it is sent  *)
(* while the mailbox is read or cleared, or while its own handler runs.    *)
(***************************************************************************)
NoIpiLost == unserved \subseteq box \union (IF pc = "handle" THEN {ipi} ELSE {})

(***************************************************************************)
(* ipi_handler never runs more often than interrupts were sent: sending an *)
(* interrupt that is still in the mailbox adds nothing.                    *)
(***************************************************************************)
NoExtraRuns ==
  runs + Cardinality(box) + (IF pc = "handle" THEN 1 ELSE 0) <= sends

(***************************************************************************)
(* The mailbox keeps the promise of IpiPromise: a handler starts for what  *)
(* is owed only, and every interrupt sent is handled in the end, unless    *)
(* handlers are held up at a lock for ever or again and again.             *)
(***************************************************************************)
Promise == INSTANCE IpiPromise WITH owed <- unserved, held <- HeldUp

KeepsPromise == Promise!Spec

(***************************************************************************)
(* Every byte received is echoed in the end, although mailbox interrupts   *)
(* and lines with lower numbers are served first, unless a handler is held *)
(* up: a byte that comes after is only stopped by a wait for a lock.       *)
(***************************************************************************)
EveryByteEchoed ==
  []<>HeldUp \/ \A k \in 1 .. MaxByte : echoed + rx >= k ~> echoed >= k

(***************************************************************************)
(* No line without a handler stops the core: its program always gets on,   *)
(* unless the complaint about the line, or a mailbox interrupt, came while *)
(* a lock was taken that its handler needs.                                *)
(***************************************************************************)
ProgramGoesOn == []<>HeldUp \/ ([]<>tick /\ []<>~tick)
=============================================================================
