-------------------------------- MODULE Asid --------------------------------
(***************************************************************************)
(* Address space identifiers.  The cores share one array of statuses,      *)
(* asid_head; set_user_asid (sysinfo.c) scans the part of it that belongs  *)
(* to the structure of the core, under the lock of that structure, and     *)
(* sync_user_ttba_change (mmu.c) installs the identifier with the table of *)
(* the task.  end_task and destroy_task (task.c), take_kernel_asid and     *)
(* change_pm (sysinfo.c) write the array and the mode without that lock.   *)
(*                                                                         *)
(* No scheduler calls these functions yet, so the order of the calls is    *)
(* the environment's: a core switches to a task no other core runs, ends   *)
(* the task it runs, destroys one that no core runs.  None of the          *)
(* functions looks at what else its caller has to see to; misuse is a      *)
(* history variable that remembers what did not go without saying, and     *)
(* each property names the misuses it does not hold after.                 *)
(***************************************************************************)
EXTENDS ProcMode

CONSTANTS Task,          \* the task control blocks
          Kernel,        \* stands for the kernel and its tables
          Running,       \* the cores that dispatch tasks
          AsidSize,      \* identifiers per core (64 in sysinfo.h)
          MaxPmChange    \* bound: how often the mode changes

ASSUME KernelNoTask       == Kernel \notin Task
ASSUME RunningAssumption  == Running \subseteq Cpu
ASSUME AsidSizeAssumption == AsidSize \in Nat /\ AsidSize >= 2
ASSUME BoundAssumption    == MaxPmChange \in Nat

VARIABLES
  pm,          \* SYSCommonInfo->pm
  pmChanges,   \* how often pm has changed
  head,        \* asid_head: the status of each identifier
  ssiLock,     \* the lock of each structure: its owner, or NumCpu
  task,        \* the state and the identifier of each task
  kernelAsids, \* the identifiers take_kernel_asid has handed out
  pc,          \* where each core is in a switch
  cur,         \* what each core runs or is switching to
  cpm,         \* the mode the core was given as an argument of the switch
  asid,        \* the local variable asid of the switch
  ctx,         \* CONTEXTIDR and TTBR0 of each core: [asid, table]
  misuse       \* history: what callers have not seen to

callVars == <<pm, pmChanges>>
coreVars == <<pc, cur, cpm, asid, ctx>>
vars == <<callVars, head, ssiLock, task, kernelAsids, coreVars, misuse>>

NumAsid   == NumCpu * AsidSize
AsidId    == 0 .. NumAsid - 1
Reserved  == 0                          \* RESERVED_ASID_NUM
ErrorAsid == -1                         \* ERROR_ASID_NUM
Free      == NumCpu                     \* nobody owns the lock
Status    == {"UNUSED", "ACTIVE", "FINISHED"}
Location  == {"idle", "scan", "claim", "reserve", "table", "asid"}

(***************************************************************************)
(* late: a task was destroyed after its identifier had been given away.    *)
(* table: a task was destroyed while a core was on its table.              *)
(* kernel: a kernel took an identifier that a live task had.               *)
(* mode: the mode was changed while a core was in a switch.                *)
(***************************************************************************)
Misuse == {"late", "table", "kernel", "mode"}

\* None of the misuses in m has happened.
Without(m) == misuse \intersect m = {}

TypeOK ==
  /\ pm \in ValidPm /\ pmChanges \in 0 .. MaxPmChange
  /\ head \in [AsidId -> Status]
  /\ ssiLock \in [Struct -> Running \union {Free}]
  /\ task \in [Task -> [state : {"none", "live", "finished"}, asid : AsidId]]
  /\ kernelAsids \subseteq AsidId
  /\ pc \in [Running -> Location]
  /\ cur \in [Running -> Task \union {Kernel}]
  /\ cpm \in [Running -> ValidPm]
  /\ asid \in [Running -> AsidId \union {NumAsid, ErrorAsid}]
  /\ ctx \in [Running -> [asid : AsidId, table : Task \union {Kernel}]]
  /\ misuse \subseteq Misuse

\* After boot: every core on its kernel table with the reserved identifier.
Init ==
  /\ pm \in ValidPm /\ pmChanges = 0
  /\ head = [a \in AsidId |-> "UNUSED"]
  /\ ssiLock = [i \in Struct |-> Free]
  /\ task = [t \in Task |-> [state |-> "none", asid |-> 0]]
  /\ kernelAsids = {}
  /\ pc = [c \in Running |-> "idle"]
  /\ cur = [c \in Running |-> Kernel]
  /\ cpm = [c \in Running |-> {}]
  /\ asid = [c \in Running |-> 0]
  /\ ctx = [c \in Running |-> [asid |-> Reserved, table |-> Kernel]]
  /\ misuse = {}

Live == {t \in Task : task[t].state = "live"}

(***************************************************************************)
(* The structure a core allocates from, and where its scan starts: it      *)
(* leaves out the reserved identifier and, in an area that starts with it, *)
(* the kernel's one after it.                                              *)
(***************************************************************************)
Ssi(c)    == SsiIndex(c, cpm[c])
Bottom(i) == AsidBottom(i, AsidSize)
Limit(i)  == AsidLimit(i, AsidSize)

\* The mutant forgets the kernel's identifier.
FirstUserKernel(i) == Bottom(i) + 1
FirstUser(i) == IF Bottom(i) = Reserved THEN Bottom(i) + 2 ELSE Bottom(i) + 1
-----------------------------------------------------------------------------
\* create_task and start_task, as far as identifiers are concerned.
Create(t) ==
  /\ task[t].state = "none"
  /\ task' = [task EXCEPT ![t] = [state |-> "live", asid |-> 0]]
  /\ UNCHANGED <<callVars, head, ssiLock, kernelAsids, coreVars, misuse>>

(***************************************************************************)
(* sync_user_ttba_change begins: a task that has an identifier keeps it,   *)
(* another one looks for one.  Interrupts are off until the switch ends.   *)
(***************************************************************************)
BeginSwitch(c, t) ==
  /\ pc[c] = "idle" /\ task[t].state = "live"
  /\ \A d \in Running \ {c} : cur[d] # t
  /\ cur' = [cur EXCEPT ![c] = t]
  /\ cpm' = [cpm EXCEPT ![c] = pm]
  /\ LET i == SsiIndex(c, pm)
         has == task[t].asid # 0
     IN  /\ pc' = [pc EXCEPT ![c] = IF has THEN "reserve" ELSE "scan"]
         /\ asid' = [asid EXCEPT ![c] = IF has THEN task[t].asid ELSE FirstUser(i)]
  /\ UNCHANGED <<callVars, head, ssiLock, task, kernelAsids, ctx, misuse>>

(***************************************************************************)
(* One iteration of the scan: with the lock of the structure, read the     *)
(* status; an active identifier is passed over and the lock given back.    *)
(* The mutant goes on without the lock.                                    *)
(***************************************************************************)
ScanNoLock(c) ==
  /\ pc[c] = "scan" /\ asid[c] < Limit(Ssi(c))
  /\ IF head[asid[c]] = "ACTIVE"
     THEN asid' = [asid EXCEPT ![c] = @ + 1] /\ UNCHANGED <<pc, ssiLock>>
     ELSE /\ pc' = [pc EXCEPT ![c] = "claim"]
          /\ UNCHANGED <<asid, ssiLock>>
  /\ UNCHANGED <<callVars, head, task, kernelAsids, cur, cpm, ctx, misuse>>

Scan(c) ==
  /\ pc[c] = "scan" /\ asid[c] < Limit(Ssi(c))
  /\ ssiLock[Ssi(c)] = Free
  /\ IF head[asid[c]] = "ACTIVE"
     THEN asid' = [asid EXCEPT ![c] = @ + 1] /\ UNCHANGED <<pc, ssiLock>>
     ELSE /\ pc' = [pc EXCEPT ![c] = "claim"]
          /\ ssiLock' = [ssiLock EXCEPT ![Ssi(c)] = c]
          /\ UNCHANGED asid
  /\ UNCHANGED <<callVars, head, task, kernelAsids, cur, cpm, ctx, misuse>>

\* The end of the scan: ERROR_ASID_NUM is returned, and task->asid stays 0.
Exhausted(c) ==
  /\ pc[c] = "scan" /\ asid[c] >= Limit(Ssi(c))
  /\ asid' = [asid EXCEPT ![c] = ErrorAsid]
  /\ pc' = [pc EXCEPT ![c] = "reserve"]
  /\ UNCHANGED <<callVars, head, ssiLock, task, kernelAsids, cur, cpm, ctx, misuse>>

(***************************************************************************)
(* The rest of the iteration: the status read before is overwritten, the   *)
(* lock given back and the identifier stored in the task.  The mutant does *)
(* not write the status.                                                   *)
(***************************************************************************)
ClaimUnmarked(c) ==
  /\ pc[c] = "claim"
  /\ ssiLock' = [ssiLock EXCEPT ![Ssi(c)] = Free]
  /\ task' = [task EXCEPT ![cur[c]].asid = asid[c]]
  /\ pc' = [pc EXCEPT ![c] = "reserve"]
  /\ UNCHANGED <<callVars, head, kernelAsids, cur, cpm, asid, ctx, misuse>>

Claim(c) ==
  /\ pc[c] = "claim"
  /\ head' = [head EXCEPT ![asid[c]] = "ACTIVE"]
  /\ ssiLock' = [ssiLock EXCEPT ![Ssi(c)] = Free]
  /\ task' = [task EXCEPT ![cur[c]].asid = asid[c]]
  /\ pc' = [pc EXCEPT ![c] = "reserve"]
  /\ UNCHANGED <<callVars, kernelAsids, cur, cpm, asid, ctx, misuse>>

(***************************************************************************)
(* The three writes of the switch: the reserved identifier, the table, the *)
(* identifier.  CONTEXTIDR takes its low byte: ErrorAsid, whose comparison *)
(* with 0 is unsigned and never true, becomes the last identifier.  The    *)
(* mutants write the table without the reserved identifier, and keep more  *)
(* than the low byte.                                                      *)
(***************************************************************************)
\* The argument and the local variable end with the call.
Return(c, to) ==
  /\ cpm' = [cpm EXCEPT ![c] = IF to = "idle" THEN {} ELSE @]
  /\ asid' = [asid EXCEPT ![c] = IF to = "idle" THEN 0 ELSE @]

Install(c, from, to, newCtx) ==
  /\ pc[c] = from
  /\ pc' = [pc EXCEPT ![c] = to]
  /\ ctx' = [ctx EXCEPT ![c] = newCtx]
  /\ Return(c, to)
  /\ UNCHANGED <<callVars, head, ssiLock, task, kernelAsids, cur, misuse>>

SetReservedSkipped(c) == Install(c, "reserve", "table", ctx[c])
SetAsidUnmasked(c) == Install(c, "asid", "idle", [ctx[c] EXCEPT !.asid = asid[c]])
SetReserved(c) == Install(c, "reserve", "table", [ctx[c] EXCEPT !.asid = Reserved])
SetTable(c)    == Install(c, "table", "asid", [ctx[c] EXCEPT !.table = cur[c]])
SetAsid(c)     == Install(c, "asid", "idle", [ctx[c] EXCEPT !.asid = asid[c] % NumAsid])

(***************************************************************************)
(* end_task, on the core that runs the task: no lock is taken, and the     *)
(* core stays on the table of the task until it switches to another one.   *)
(***************************************************************************)
End(c) ==
  LET t == cur[c] IN
  /\ pc[c] = "idle" /\ t \in Live
  /\ head' = [head EXCEPT ![task[t].asid] = "FINISHED"]
  /\ task' = [task EXCEPT ![t].state = "finished"]
  /\ cur' = [cur EXCEPT ![c] = Kernel]
  /\ UNCHANGED <<callVars, ssiLock, kernelAsids, pc, cpm, asid, ctx, misuse>>

(***************************************************************************)
(* destroy_task, on any core, without the lock, of a task that has ended   *)
(* or, from destroy_core_tasks, of any task in the map.  It looks neither  *)
(* at the status of the identifier nor at the tables of the cores.         *)
(***************************************************************************)
Reclaimed(t) == task[t].state = "finished" /\ head[task[t].asid] = "ACTIVE"

Destroy(t) ==
  /\ task[t].state # "none" /\ \A c \in Running : cur[c] # t
  /\ head' = [head EXCEPT ![task[t].asid] = "UNUSED"]
  /\ task' = [task EXCEPT ![t].state = "none"]
  /\ misuse' = misuse \union {m \in {"late", "table"} :
                   IF m = "late" THEN Reclaimed(t) ELSE \E c \in Running : ctx[c].table = t}
  /\ UNCHANGED <<callVars, ssiLock, kernelAsids, coreVars>>

(***************************************************************************)
(* start_mmu: take_kernel_asid marks the identifier after the bottom of    *)
(* the area whatever its status, and the kernel table is installed with    *)
(* it.                                                                     *)
(***************************************************************************)
StartMmu(c) ==
  LET kernelAsid == Bottom(SsiIndex(c, pm)) + 1 IN
  /\ pc[c] = "idle" /\ cur[c] = Kernel
  /\ head' = [head EXCEPT ![kernelAsid] = "ACTIVE"]
  /\ kernelAsids' = kernelAsids \union {kernelAsid}
  /\ asid' = [asid EXCEPT ![c] = kernelAsid]
  /\ cpm' = [cpm EXCEPT ![c] = pm]
  /\ pc' = [pc EXCEPT ![c] = "reserve"]
  /\ misuse' = IF \E t \in Live : task[t].asid = kernelAsid
               THEN misuse \union {"kernel"} ELSE misuse
  /\ UNCHANGED <<callVars, ssiLock, task, cur, ctx>>

(***************************************************************************)
(* change_pm, with one of the modes is_valid_pm accepts, at any time.  The *)
(* previous mode is left out: only the start of the cores reads it.        *)
(***************************************************************************)
ChangePm(new) ==
  /\ pmChanges < MaxPmChange /\ pmChanges' = pmChanges + 1
  /\ pm' = new
  /\ misuse' = IF \E c \in Running : pc[c] # "idle"
               THEN misuse \union {"mode"} ELSE misuse
  /\ UNCHANGED <<head, ssiLock, task, kernelAsids, coreVars>>

Switch(c) == \/ Scan(c) \/ Exhausted(c) \/ Claim(c)
             \/ SetReserved(c) \/ SetTable(c) \/ SetAsid(c)

Next ==
  \/ \E c \in Running : \/ Switch(c) \/ End(c) \/ StartMmu(c)
                        \/ \E t \in Task : BeginSwitch(c, t)
  \/ \E t \in Task : Create(t) \/ Destroy(t)
  \/ \E new \in ValidPm : ChangePm(new)

Spec == Init /\ [][Next]_vars
-----------------------------------------------------------------------------
(***************************************************************************)
(* ACTIVE_ASID, "A TTBA using this. You cant allocate it" (sysinfo.h:47):  *)
(* two live tasks never have the same identifier, whichever cores          *)
(* allocated them, in whichever areas and modes, and whoever writes the    *)
(* array without the lock - unless a task was destroyed late, or a core    *)
(* went on in a mode that had changed.                                     *)
(***************************************************************************)
OneOwner ==
  \A t, u \in Live : task[t].asid = task[u].asid /\ task[t].asid # 0 => t = u

AsidExclusive == Without({"late", "mode"}) => OneOwner

(***************************************************************************)
(* The status array tells the truth about the tasks: what a live task      *)
(* holds is marked active, so that no scan can hand it out again - with    *)
(* the same two exceptions.                                                *)
(***************************************************************************)
HeldIsActive ==
  Without({"late", "mode"}) =>
    \A t \in Live : task[t].asid # 0 => head[task[t].asid] = "ACTIVE"

(***************************************************************************)
(* What set_user_asid read before it printed and wrote is still true when  *)
(* it writes: the lock of the structure is its own and the identifier is   *)
(* still not active, although others write the array without the lock, in  *)
(* whatever order - the second not if the mode changed under a switch.     *)
(***************************************************************************)
ClaimStillFree ==
  \A c \in Running : pc[c] = "claim" =>
    ssiLock[Ssi(c)] = c /\ (Without({"mode"}) => head[asid[c]] # "ACTIVE")

(***************************************************************************)
(* sysinfo.h:47 for the kernels: an identifier take_kernel_asid handed     *)
(* out is never one of a task, if it was no task's when it was taken.      *)
(***************************************************************************)
NoTaskHas(a) == \A t \in Live : task[t].asid # a

KernelAsidPrivate ==
  Without({"late", "mode", "kernel"}) =>
    \A a \in kernelAsids : head[a] = "ACTIVE" /\ NoTaskHas(a)

(***************************************************************************)
(* What holds these together.  Without a misuse a core inside a switch was *)
(* given the mode the machine is in.  In any case a scan is about a live   *)
(* task without an identifier that no other core runs, and stays inside    *)
(* the area of its structure.                                              *)
(***************************************************************************)
ScanInArea ==
  /\ Without({"mode"}) => \A c \in Running : pc[c] # "idle" => cpm[c] = pm
  /\ \A c, d \in Running : cur[c] = cur[d] /\ cur[c] # Kernel => c = d
  /\ \A c \in Running : pc[c] \in {"scan", "claim"} =>
       /\ cur[c] \in Live /\ task[cur[c]].asid = 0
       /\ asid[c] \in Nat /\ FirstUser(Ssi(c)) <= asid[c]
  /\ \A c \in Running : pc[c] = "claim" => asid[c] < Limit(Ssi(c))
  /\ \A a \in kernelAsids : a # 0

IInv == TypeOK /\ AsidExclusive /\ HeldIsActive /\ ClaimStillFree
               /\ KernelAsidPrivate /\ ScanInArea

(***************************************************************************)
(* A core never translates one task's addresses under another's identifier *)
(* (mmu.c:299, "Set ASID RESERVED_ASID to change ttba and asid"): whenever *)
(* CONTEXTIDR holds an identifier but the reserved one, the table is that  *)
(* of the task, or kernel, it was given to, unless a task was destroyed    *)
(* under a core.  (The identifier that stands for an error is left out:    *)
(* NoSwitchWithoutAsid is about it.)                                       *)
(***************************************************************************)
ContextPair ==
  Without({"table"}) =>
    \A c \in Running : ctx[c].asid # Reserved =>
      IF ctx[c].table = Kernel THEN ctx[c].asid \in kernelAsids
      ELSE ctx[c].asid \in {task[ctx[c].table].asid, ErrorAsid % NumAsid}

(***************************************************************************)
(* mmu.c:289-296, "Take and check ASID", "No ASID is available": a switch  *)
(* for which no identifier is left is given up.                            *)
(***************************************************************************)
NoSwitchWithoutAsid ==
  \A c \in Running : pc[c] \in {"reserve", "table", "asid"} => asid[c] # ErrorAsid

(***************************************************************************)
(* sysinfo.h:46-48, "A TTBA using this. You cant allocate it": an          *)
(* identifier in use is not handed out again, whenever destroy_task        *)
(* releases the one of a task that has ended.                              *)
(***************************************************************************)
LateDestroyHarmless == misuse \subseteq {"late"} => OneOwner

(***************************************************************************)
(* The array of statuses and the locks of the structures implement the     *)
(* grant of identifiers: a claim gives a task without one an identifier    *)
(* that no task and no kernel has, only end_task or destroy_task takes it  *)
(* away again.  The contract ends with the first misuse that touches it.   *)
(***************************************************************************)
Granted == [t \in Task |-> IF t \in Live THEN task[t].asid ELSE Reserved]

G == INSTANCE Grants WITH Holder <- Task, Id <- AsidId \ {Reserved}, NoId <- Reserved,
                          has <- Granted, kept <- kernelAsids,
                          void <- ~Without({"late", "mode", "kernel"})

ImplementsGrants == G!Spec
=============================================================================
