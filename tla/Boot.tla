-------------------------------- MODULE Boot --------------------------------
(***************************************************************************)
(* The start of the four cores: sys_init_primary and sys_init_secondary    *)
(* (init.c), start_secondary_core and the mailbox interrupts               *)
(* (multicore.c), the count of waking cores and the tracing spin locks     *)
(* (cpu.c), printing (uart.c) and the access report (experiment.c).        *)
(*                                                                         *)
(* What a core still has to do is the sequence todo of its operations; a   *)
(* call replaces its operation by those of the function it calls, and an   *)
(* interrupt puts those of its handler in front.  An operation is a tuple  *)
(* <<name, argument>>.  Prints without a lock change nothing and only one  *)
(* of each series is kept.  A lock is held by a core here: SpinLock shows  *)
(* that its word does that.                                                *)
(***************************************************************************)
EXTENDS Integers, Sequences, FiniteSets

CONSTANT Slow        \* the cores that may not answer before the timeout

Cpu    == 0 .. 3
PCore  == 0
Secondaries == Cpu \ {PCore}
Lock   == {"uart", "info", "exp"}    \* uart_lock, SYSCommonInfo->lock, exp_lock
Nobody == 4

ASSUME ConstantsAreCores == Slow \subseteq Cpu

VARIABLES
  todo,      \* the operations left to each core, the next one first
  mmu,       \* the cores whose MMU is on
  lock,      \* who holds each lock
  waking,    \* SYSCommonInfo->waking_cores
  reg,       \* the count each core read last
  startBox,  \* the cores whose mailbox 3 holds their start address
  started,   \* the cores that run
  ipiBox,    \* the cores whose mailbox 0 holds interrupt 2
  ipiOn,     \* the cores whose mailbox interrupts are enabled
  masked,    \* the cores in an interrupt handler
  gaveUp,    \* whether start_secondary_core returned FALSE
  reports,   \* the cores that have reported their access rights
  traced     \* the cores whose spin_req and spin_rel print

mailVars == <<startBox, started, ipiBox, ipiOn, masked, gaveUp>>
vars == <<todo, mmu, lock, waking, reg, mailVars, reports, traced>>

\* spin_req and spin_rel, and the functions made of them.
Req(l) == <<"req", l>>
Rel(l) == <<"rel", l>>
Puts   == <<"puts", "line">>
RegisterValuePuts == <<Puts, Puts>>          \* uart_puts, hexstring

\* The mutant reads the count before it takes the lock.
IncUnlocked    == << <<"load", "waking">>, Req("info"), <<"store", "waking">>, Rel("info") >>
IncWakingCores == << Req("info"), <<"load", "waking">>, <<"store", "waking">>, Rel("info") >>
GetWakingCores == << Req("info"), <<"load", "waking">>, Rel("info") >>

OutputAccessPolicy == << Req("exp"), Puts, <<"report", "sections">>, Rel("exp") >>

\* Core 0 reports first; core 1 is left out.
OutputAllPmAccessPolicy == OutputAccessPolicy \o << <<"ipi", 2>>, <<"ipi", 3>> >>

StartMmuNoLock == << Puts, <<"mmu", "on">>, Puts >>

\* The mutant starts a core too many.
StartOne(d) == << <<"send", d>>, <<"answer", d>> >>
StartCoresInclusive == StartOne(1) \o StartOne(2) \o StartOne(3) \o StartOne(4)
StartSecondaryCore  == StartOne(1) \o StartOne(2) \o StartOne(3)

\* What is left of init_smp_kernel when start_secondary_core has returned.
WaitForCores == GetWakingCores \o << <<"test", "waking">> >>
AfterStart   == WaitForCores \o OutputAllPmAccessPolicy

SysInitPrimary == StartMmuNoLock \o IncWakingCores \o StartSecondaryCore \o AfterStart

\* The mutant enables the mailbox interrupt before the last print.
SysInitSecondaryIpiFirst(c) ==
  << <<"enable", "ipi">> >> \o StartMmuNoLock \o IncWakingCores
    \o (IF c = 1 THEN IncWakingCores ELSE <<>>)
SysInitSecondary(c) ==
  StartMmuNoLock \o << <<"enable", "ipi">> >> \o IncWakingCores
    \o (IF c = 1 THEN IncWakingCores ELSE <<>>)        \* init_smp_kernel

Program(c) == IF c = PCore THEN SysInitPrimary ELSE SysInitSecondary(c)

Op == ({"req", "rel"} \X Lock)
        \union ({"ipi", "send", "answer"} \X Cpu)
        \union {Puts, <<"load", "waking">>, <<"store", "waking">>, <<"test", "waking">>,
                <<"mmu", "on">>, <<"enable", "ipi">>, <<"report", "sections">>,
                <<"return", "irq">>}

TypeOK ==
  /\ todo \in [Cpu -> Seq(Op)]
  /\ mmu \subseteq Cpu /\ lock \in [Lock -> Cpu \union {Nobody}]
  /\ waking \in 0 .. 5 /\ reg \in [Cpu -> 0 .. 5]
  /\ startBox \subseteq Cpu /\ started \subseteq Cpu /\ startBox \intersect started = {}
  /\ ipiBox \subseteq {2, 3} /\ ipiOn \subseteq Cpu /\ masked \subseteq ipiOn
  /\ gaveUp \in BOOLEAN /\ reports \subseteq Cpu /\ traced \in {{}, Secondaries}

(***************************************************************************)
(* _reset_: core 0 runs; the others wait in the firmware for an address.   *)
(* The program is spin_req's with its prints (traced = Secondaries), in    *)
(* which no other core gets far, or the same without them (traced = {}),   *)
(* in which the rest of the start can be seen.                             *)
(***************************************************************************)
Init ==
  /\ todo = [c \in Cpu |-> IF c = PCore THEN Program(c) ELSE <<>>]
  /\ mmu = {} /\ lock = [l \in Lock |-> Nobody]
  /\ waking = 0 /\ reg = [c \in Cpu |-> 0]
  /\ startBox = {} /\ started = {PCore}
  /\ ipiBox = {} /\ ipiOn = {} /\ masked = {} /\ gaveUp = FALSE /\ reports = {}
  /\ traced \in {{}, Secondaries}

\* The next operation of c has this name; it is replaced by these.
Next1(c, name) == todo[c] # <<>> /\ Head(todo[c])[1] = name
Arg(c) == Head(todo[c])[2]
Do(c, ops) == todo' = [todo EXCEPT ![c] = ops \o Tail(@)]
-----------------------------------------------------------------------------
(***************************************************************************)
(* spin_req waits for the lock; with it, and after spin_rel without it,    *)
(* the cores other than 0 print.  The mutant does not print.               *)
(***************************************************************************)
TraceNothing(c) == <<>>
Trace(c) == IF c \in traced THEN RegisterValuePuts ELSE <<>>

SpinReq(c) ==
  /\ Next1(c, "req") /\ lock[Arg(c)] = Nobody
  /\ lock' = [lock EXCEPT ![Arg(c)] = c]
  /\ Do(c, Trace(c))
  /\ UNCHANGED <<mmu, waking, reg, mailVars, reports, traced>>

SpinRel(c) ==
  /\ Next1(c, "rel") /\ lock[Arg(c)] # Nobody
  /\ lock' = [lock EXCEPT ![Arg(c)] = Nobody]
  /\ Do(c, Trace(c))
  /\ UNCHANGED <<mmu, waking, reg, mailVars, reports, traced>>

\* uart_puts and hexstring: under uart_lock once the MMU of the core is on.
UartPuts(c) ==
  /\ Next1(c, "puts")
  /\ Do(c, IF c \in mmu THEN <<Req("uart"), Rel("uart")>> ELSE <<>>)
  /\ UNCHANGED <<mmu, lock, waking, reg, mailVars, reports, traced>>

\* The read and the write of waking_cores.
Load(c) ==
  /\ Next1(c, "load")
  /\ reg' = [reg EXCEPT ![c] = waking]
  /\ Do(c, <<>>)
  /\ UNCHANGED <<mmu, lock, waking, mailVars, reports, traced>>

Store(c) ==
  /\ Next1(c, "store")
  /\ waking' = reg[c] + 1
  /\ Do(c, <<>>)
  /\ UNCHANGED <<mmu, lock, reg, mailVars, reports, traced>>

EnableMmu(c) ==
  /\ Next1(c, "mmu")
  /\ mmu' = mmu \union {c}
  /\ Do(c, <<>>)
  /\ UNCHANGED <<lock, waking, reg, mailVars, reports, traced>>

\* The write before it, "clear mailbox", is of 0 to a register that clears the
\* bits written as 1: mailbox 3 stays as it is.  The mutant clears mailbox 0.
EnableIpiClearing(c) ==
  /\ Next1(c, "enable")
  /\ ipiOn' = ipiOn \union {c} /\ ipiBox' = ipiBox \ {c}
  /\ Do(c, <<>>)
  /\ UNCHANGED <<mmu, lock, waking, reg, startBox, started, masked, gaveUp, reports, traced>>

EnableIpi(c) ==
  /\ Next1(c, "enable")
  /\ ipiOn' = ipiOn \union {c}
  /\ Do(c, <<>>)
  /\ UNCHANGED <<mmu, lock, waking, reg, startBox, started, ipiBox, masked, gaveUp, reports, traced>>

\* The loop of output_access_policy.
Report(c) ==
  /\ Next1(c, "report")
  /\ reports' = reports \union {c}
  /\ Do(c, <<>>)
  /\ UNCHANGED <<mmu, lock, waking, reg, mailVars, traced>>

(***************************************************************************)
(* start_secondary_core: core 0 hands out the start address when mailbox 3 *)
(* is empty and waits until it is empty again, or, for a slow core, until  *)
(* the count runs out: then it complains, starts no further core, and      *)
(* init_smp_kernel ignores the result.                                     *)
(***************************************************************************)
SendAddress(c) ==
  /\ Next1(c, "send") /\ Arg(c) \notin startBox
  /\ startBox' = startBox \union {Arg(c)}
  /\ Do(c, <<>>)
  /\ UNCHANGED <<mmu, lock, waking, reg, started, ipiBox, ipiOn, masked, gaveUp, reports, traced>>

Answered(c) ==
  /\ Next1(c, "answer") /\ Arg(c) \notin startBox
  /\ Do(c, <<>>)
  /\ UNCHANGED <<mmu, lock, waking, reg, mailVars, reports, traced>>

TimedOut(c) ==
  /\ Next1(c, "answer") /\ Arg(c) \in startBox \intersect Slow
  /\ todo' = [todo EXCEPT ![c] = <<Puts, Puts, Puts>> \o AfterStart]
  /\ gaveUp' = TRUE
  /\ UNCHANGED <<mmu, lock, waking, reg, startBox, started, ipiBox, ipiOn, masked, reports, traced>>

\* init_smp_kernel: the loop until the count is 4.
TestCount(c) ==
  /\ Next1(c, "test")
  /\ Do(c, IF reg[c] >= 4 THEN <<>> ELSE WaitForCores)
  /\ UNCHANGED <<mmu, lock, waking, reg, mailVars, reports, traced>>

SendIpi(c) ==
  /\ Next1(c, "ipi")
  /\ ipiBox' = ipiBox \union {Arg(c)}
  /\ Do(c, <<>>)
  /\ UNCHANGED <<mmu, lock, waking, reg, startBox, started, ipiOn, masked, gaveUp, reports, traced>>

ReturnFromIrq(c) ==
  /\ Next1(c, "return")
  /\ masked' = masked \ {c}
  /\ Do(c, <<>>)
  /\ UNCHANGED <<mmu, lock, waking, reg, startBox, started, ipiBox, ipiOn, gaveUp, reports, traced>>

\* The firmware of core c reads its mailbox, which empties it, and jumps.
FirmwareStart(c) ==
  /\ c \in startBox
  /\ startBox' = startBox \ {c} /\ started' = started \union {c}
  /\ todo' = [todo EXCEPT ![c] = Program(c)]
  /\ UNCHANGED <<mmu, lock, waking, reg, ipiBox, ipiOn, masked, gaveUp, reports, traced>>

\* _irq, local_int_handler and ipi_handler, between two operations of c.
Irq(c) ==
  /\ c \in ipiBox \intersect ipiOn /\ c \notin masked
  /\ masked' = masked \union {c} /\ ipiBox' = ipiBox \ {c}
  /\ todo' = [todo EXCEPT ![c] = OutputAccessPolicy \o << <<"return", "irq">> >> \o @]
  /\ UNCHANGED <<mmu, lock, waking, reg, startBox, started, ipiOn, gaveUp, reports, traced>>

Step(c) ==
  \/ SpinReq(c) \/ SpinRel(c) \/ UartPuts(c) \/ Load(c) \/ Store(c)
  \/ EnableMmu(c) \/ EnableIpi(c) \/ Report(c) \/ ReturnFromIrq(c)
  \/ SendAddress(c) \/ Answered(c) \/ TimedOut(c) \/ TestCount(c) \/ SendIpi(c)

\* main on core 0 and _inf_loop on the others, when all have got there.
InfLoop == (\A c \in Cpu : todo[c] = <<>>) /\ startBox = {} /\ UNCHANGED vars

\* A core that waits for a lock it holds spins in _lock_try.
SpinForEver == (\E c \in Cpu : Next1(c, "req") /\ lock[Arg(c)] = c) /\ UNCHANGED vars

Next == (\E c \in Cpu : Step(c) \/ FirmwareStart(c) \/ Irq(c)) \/ InfLoop \/ SpinForEver

Spec == Init /\ [][Next]_vars

(***************************************************************************)
(* Cores run, interrupts are taken and the firmware answers.  Nothing says *)
(* that a core that waits for a lock gets it while others take it.         *)
(***************************************************************************)
FairSpec ==
  /\ Spec
  /\ \A c \in Cpu : WF_vars(Step(c)) /\ WF_vars(FirmwareStart(c)) /\ WF_vars(Irq(c))
-----------------------------------------------------------------------------
(***************************************************************************)
(* No cores wait for each other in a ring: not through a print inside a    *)
(* lock, nor through an interrupt handler that reports and prints and may  *)
(* interrupt a print or a count.  The one exception are the prints of      *)
(* spin_req: a ring has in it a core that has just got uart_lock and waits *)
(* for it to print that it has.                                            *)
(***************************************************************************)
Waiting(c) == Next1(c, "req") /\ lock[Arg(c)] # Nobody

WaitsToTrace(c) == c \in traced /\ Waiting(c) /\ Arg(c) = "uart" /\ lock["uart"] = c

NoWaitRing ==
  \A S \in (SUBSET Cpu) \ {{}} :
    (\A c \in S : Waiting(c) /\ lock[Arg(c)] \in S) => \E c \in S : WaitsToTrace(c)

(***************************************************************************)
(* No increment of inc_waking_cores is lost or done twice: the count is    *)
(* what the programs of the running cores have of increments, less those   *)
(* they still have to do.                                                  *)
(***************************************************************************)
Increments(ops) == Cardinality({k \in DOMAIN ops : ops[k][1] = "store"})

Done(c) == IF c \in started THEN Increments(Program(c)) - Increments(todo[c]) ELSE 0

Counted == waking = Done(0) + Done(1) + Done(2) + Done(3)

(***************************************************************************)
(* Every core that is asked to reports: an interrupt sent before the core  *)
(* has enabled its mailbox stays there.  What may prevent it is that core  *)
(* 0 gives a core up, that a core waits for itself in the print of         *)
(* spin_req, or that core 0, which polls the count without a pause, has    *)
(* its lock for ever whenever another core tries to take it: nothing else. *)
(***************************************************************************)
Outrun(c) == <>[](Next1(c, "req") /\ Arg(c) = "info") /\ []<>(lock["info"] = PCore)

EveryReport ==
  \/ <>gaveUp \/ <>(reports = {0, 2, 3})
  \/ \E c \in Secondaries : Outrun(c) \/ <>[]WaitsToTrace(c)

(***************************************************************************)
(* With the prints of spin_req a core other than 0 that gets uart_lock     *)
(* waits for it in the print inside the lock: none gets past its first     *)
(* print with the MMU on, enables its mailbox or counts itself, and core 0 *)
(* stays in its loop.                                                      *)
(***************************************************************************)
OnlyCore0Wakes ==
  traced # {} => waking <= 1 /\ ipiOn = {} /\ reports = {}

(***************************************************************************)
(* init.c:66, "enable IPI on core n": a core that starts gets there.       *)
(***************************************************************************)
IpiEnabled == \A c \in Cpu \ {PCore} : (c \in started) ~> (c \in ipiOn)
=============================================================================
