------------------------------ MODULE TaskMap -------------------------------
(***************************************************************************)
(* The tasks of task.c: the ring of control blocks of one priority and the *)
(* map of task spaces, both under smp_queue_lock; the section of RAM that  *)
(* a slot of the map stands for, and the translation table in it.  end_task *)
(* writes the map, destroy_task the section, without that lock.            *)
(*                                                                         *)
(* No scheduler calls these functions yet, so the order of the calls is    *)
(* the environment's: one call at a time about a task, which is created,   *)
(* started, ended and destroyed in this order.  Careless names those of    *)
(* four further precautions that callers do not take.                      *)
(*                                                                         *)
(* kmalloc finds memory here (Heap is about that), and smp_tcb_head points *)
(* to a control block that is a ring of itself, which no code makes it do. *)
(***************************************************************************)
EXTENDS ProcMode

CONSTANTS Task,          \* the blocks that kmalloc returns for a TCB
          Head,          \* the block smp_tcb_head[pri] points to
          Null,
          Running,       \* the cores that call these functions
          UserBottom,    \* the section of SMP_USER_RAM_BOTTOM
          Space,         \* of each structure: [kernel, bottom, last], the first
                         \* section of its kernel RAM, both ends of its user RAM
          Modes,         \* the modes the machine is put in
          MaxPmChange,   \* bound: how often the mode changes
          Careless       \* the precautions that callers do not take

ASSUME HeadNoTask          == Head \notin Task
ASSUME NullNoNode          == Null \notin Task \union {Head}
ASSUME TaskRunning         == Running \subseteq Cpu
ASSUME ModesValid          == Modes \subseteq ValidPm
ASSUME UserBottomPositive  == UserBottom \in Nat \ {0}
ASSUME TaskBound           == MaxPmChange \in Nat
ASSUME CarelessPrecautions == Careless \subseteq {"slotless", "area", "core", "pm"}

NumSection == 4096     \* of 1 MB, in 32 bits

(***************************************************************************)
(* What the areas of sysconfs.c are like: sections within the RAM of the   *)
(* largest structure, disjoint for two structures of one mode.             *)
(***************************************************************************)
SpaceFits(space, userBottom) ==
  /\ \A i \in Struct :
       /\ space[i] \in [kernel : Nat, bottom : Nat \ {0}, last : Nat]
       /\ space[i].bottom <= space[i].last
       /\ space[i].last \in userBottom .. space[NumCpu].last
       /\ space[i].last - space[i].bottom <= space[NumCpu].last - userBottom
  /\ userBottom < space[NumCpu].last /\ space[NumCpu].last < NumSection
  /\ \A pm \in ValidPm, c, d \in Cpu :
       LET i == SsiIndex(c, pm)
           j == SsiIndex(d, pm)
       IN  i # j => \/ space[i].last < space[j].bottom
                    \/ space[j].last < space[i].bottom

ASSUME SpaceAssumption == SpaceFits(Space, UserBottom)

VARIABLES
  pm,         \* SYSCommonInfo->pm
  pmChanges,  \* how often pm has changed
  lock,       \* smp_queue_lock: its owner, or Free
  map,        \* smp_tsk_alc_map
  tables,     \* the sections that hold translation tables; 0 has the kernels'
  task,       \* the control blocks: state, mapid and ttba, a section
  next, prev, \* the ring
  call        \* what each core is doing: the function's step, task and index,
              \* the structure it read at its start, what it read of the ring,
              \* and where destroy_task returns to

ringVars == <<next, prev>>
vars == <<pm, pmChanges, lock, map, tables, task, ringVars, call>>

Free      == NumCpu
Node      == Task \union {Head}
Bottom(i) == Space[i].bottom
\* max_num_task_space: the difference of two inclusive ends.
MaxNum(i) == Space[i].last - Space[i].bottom
Slot      == 0 .. Space[NumCpu].last - UserBottom - 1
Section   == 0 .. Space[NumCpu].last
Location  == {"idle", "link", "write", "test", "claim", "clear", "unmap",
              "unlink", "free", "range", "move", "moving"}

\* The slot of an address: unsigned.  The mutant is signed.
SlotOfSigned(section) == section - UserBottom
SlotOf(section) == (section - UserBottom) % NumSection

TypeOK ==
  /\ pm \in Modes /\ pmChanges \in 0 .. MaxPmChange
  /\ lock \in Running \union {Free}
  /\ map \in [Slot -> [state : {"INIT", "RUNNING", "WAIT_INIT"}, task : Task \union {Null}]]
  /\ tables \subseteq Section
  /\ task \in [Task -> [state : {"none", "ready", "running", "finished"},
                        mapid : Slot, ttba : Section]]
  /\ next \in [Node -> Node \union {Null}] /\ prev \in [Node -> Node \union {Null}]
  /\ call \in [Running -> [at : Location, task : Task \union {Null}, i : 0 .. NumSection - 1,
                           ssi : Struct, last : Node \union {Null},
                           then : {"idle", "range"}]]

Idle == [at |-> "idle", task |-> Null, i |-> 0, ssi |-> 0, last |-> Null, then |-> "idle"]

Init ==
  /\ pm \in Modes /\ pmChanges = 0
  /\ lock = Free
  /\ map = [s \in Slot |-> [state |-> "INIT", task |-> Null]]
  /\ tables = {0}
  /\ task = [t \in Task |-> [state |-> "none", mapid |-> 0, ttba |-> 0]]
  /\ next = [n \in Node |-> IF n = Head THEN Head ELSE Null]
  /\ prev = next
  /\ call = [c \in Running |-> Idle]

\* The slots of destroy_core_tasks and of move_task_spaces.
First(i) == SlotOf(Space[i].kernel)
Limit(i) == SlotOf(Space[i].last)

\* No call is about t; destroy_core_tasks is about the tasks of all its slots.
Quiet(t) ==
  \A c \in Running :
    /\ call[c].task # t
    /\ call[c].then = "range" =>
         \A s \in Slot : First(c) <= s /\ s < Limit(c) => map[s].task # t

\* Core c begins a call; goes on to another step of it; returns from it.
Begin(c, at, t, i) ==
  /\ call[c] = Idle
  /\ call' = [call EXCEPT ![c] = [Idle EXCEPT !.at = at, !.task = t, !.i = i,
                                              !.ssi = SsiIndex(c, pm)]]
At(c, from, to) == call[c].at = from /\ call' = [call EXCEPT ![c].at = to]
Iterate(c, at)  == call' = [call EXCEPT ![c].at = at, ![c].i = @ + 1]
Return(c)       == call' = [call EXCEPT ![c] = Idle]
-----------------------------------------------------------------------------
\* create_task: the block, and then the ring.
Create(c, t) ==
  /\ task[t].state = "none" /\ Quiet(t)
  /\ Begin(c, "link", t, 0)
  /\ task' = [task EXCEPT ![t] = [state |-> "ready", mapid |-> 0, ttba |-> 0]]
  /\ next' = [next EXCEPT ![t] = Null] /\ prev' = [prev EXCEPT ![t] = Null]
  /\ UNCHANGED <<pm, pmChanges, lock, map, tables>>

\* With the lock, the last task is read.  The mutant does so without.
ReadLastUnlocked(c) ==
  /\ call[c].at = "link"
  /\ call' = [call EXCEPT ![c].at = "write", ![c].last = prev[Head]]
  /\ UNCHANGED <<pm, pmChanges, lock, map, tables, task, ringVars>>

ReadLast(c) ==
  /\ call[c].at = "link"
  /\ lock = Free /\ lock' = c
  /\ call' = [call EXCEPT ![c].at = "write", ![c].last = prev[Head]]
  /\ UNCHANGED <<pm, pmChanges, map, tables, task, ringVars>>

\* Both branches of create_task: an empty ring is one whose last is the head.
WriteLinks(c) ==
  LET t == call[c].task
      last == call[c].last
  IN  /\ call[c].at = "write"
      /\ next' = [next EXCEPT ![last] = t, ![t] = Head]
      /\ prev' = [prev EXCEPT ![t] = last, ![Head] = t]
      /\ lock' = Free
      /\ Return(c)
      /\ UNCHANGED <<pm, pmChanges, map, tables, task>>

(***************************************************************************)
(* start_task: every slot of the structure in turn is tested, and claimed  *)
(* if it is free: nothing ends the loop at the first one.  A careful       *)
(* caller starts tasks while no task of another structure is in the area.  *)
(***************************************************************************)
AreaIsOwn(i) ==
  \A u \in Task : task[u].ttba \in Bottom(i) .. Space[i].last =>
                  task[u].ttba = Bottom(i) + task[u].mapid

Start(c, t) ==
  /\ task[t].state = "ready" /\ Quiet(t)
  /\ "area" \in Careless \/ AreaIsOwn(SsiIndex(c, pm))
  /\ Begin(c, "test", t, 0)
  /\ UNCHANGED <<pm, pmChanges, lock, map, tables, task, ringVars>>

\* The mutants test without the lock, and keep it when the slot is used.
TestUnlocked(c) ==
  /\ call[c].at = "test" /\ call[c].i < MaxNum(call[c].ssi)
  /\ IF map[call[c].i].state = "INIT" THEN At(c, "test", "claim") ELSE Iterate(c, "test")
  /\ UNCHANGED <<pm, pmChanges, lock, map, tables, task, ringVars>>

TestKeepingLock(c) ==
  /\ call[c].at = "test" /\ call[c].i < MaxNum(call[c].ssi)
  /\ lock = Free /\ lock' = c
  /\ IF map[call[c].i].state = "INIT" THEN At(c, "test", "claim") ELSE Iterate(c, "test")
  /\ UNCHANGED <<pm, pmChanges, map, tables, task, ringVars>>

Test(c) ==
  /\ call[c].at = "test" /\ call[c].i < MaxNum(call[c].ssi)
  /\ lock = Free
  /\ IF map[call[c].i].state = "INIT"
     THEN At(c, "test", "claim") /\ lock' = c
     ELSE Iterate(c, "test") /\ UNCHANGED lock
  /\ UNCHANGED <<pm, pmChanges, map, tables, task, ringVars>>

Claim(c) ==
  LET t == call[c].task
      i == call[c].i
      section == i + Bottom(call[c].ssi)
  IN  /\ call[c].at = "claim"
      /\ map' = [map EXCEPT ![i] = [state |-> "RUNNING", task |-> t]]
      /\ task' = [task EXCEPT ![t].mapid = i, ![t].ttba = section]
      /\ tables' = tables \union {section}             \* cre_usr_tbl
      /\ lock' = Free
      /\ Iterate(c, "test")
      /\ UNCHANGED <<pm, pmChanges, ringVars>>

Started(c) ==
  /\ call[c].at = "test" /\ call[c].i >= MaxNum(call[c].ssi)
  /\ task' = [task EXCEPT ![call[c].task].state = "running"]
  /\ Return(c)
  /\ UNCHANGED <<pm, pmChanges, lock, map, tables, ringVars>>

\* A task without a slot has mapid 0 and ttba 0: careful callers leave it alone.
MayGo(t) == Quiet(t) /\ (task[t].ttba # 0 \/ "slotless" \in Careless)

\* end_task, without the lock.  The mutant frees the slot at once.
EndAtOnce(c, t) ==
  /\ call[c] = Idle /\ task[t].state = "running" /\ MayGo(t)
  /\ map' = [map EXCEPT ![task[t].mapid].state = "INIT"]
  /\ task' = [task EXCEPT ![t].state = "finished"]
  /\ UNCHANGED <<pm, pmChanges, lock, tables, ringVars, call>>

End(c, t) ==
  /\ call[c] = Idle /\ task[t].state = "running" /\ MayGo(t)
  /\ map' = [map EXCEPT ![task[t].mapid].state = "WAIT_INIT"]
  /\ task' = [task EXCEPT ![t].state = "finished"]
  /\ UNCHANGED <<pm, pmChanges, lock, tables, ringVars, call>>

(***************************************************************************)
(* destroy_task: the section is cleared before the lock is taken; with it  *)
(* the slot is given back and the block taken out of the ring.             *)
(***************************************************************************)
Destroy(c, t) ==
  /\ task[t].state = "finished" /\ MayGo(t)
  /\ Begin(c, "clear", t, 0)
  /\ UNCHANGED <<pm, pmChanges, lock, map, tables, task, ringVars>>

Clear(c) ==
  /\ At(c, "clear", "unmap")
  /\ tables' = tables \ {task[call[c].task].ttba}
  /\ UNCHANGED <<pm, pmChanges, lock, map, task, ringVars>>

Unmap(c) ==
  /\ At(c, "unmap", "unlink")
  /\ lock = Free /\ lock' = c
  /\ map' = [map EXCEPT ![task[call[c].task].mapid] = [state |-> "INIT", task |-> Null]]
  /\ UNCHANGED <<pm, pmChanges, tables, task, ringVars>>

Unlink(c) ==
  LET t == call[c].task
  IN  /\ At(c, "unlink", "free")
      /\ next' = [next EXCEPT ![prev[t]] = next[t]]
      /\ prev' = [prev EXCEPT ![next[t]] = prev[t]]
      /\ lock' = Free
      /\ UNCHANGED <<pm, pmChanges, map, tables, task>>

FreeBlock(c) ==
  /\ call[c].at = "free"
  /\ task' = [task EXCEPT ![call[c].task] = [state |-> "none", mapid |-> 0, ttba |-> 0]]
  /\ IF call[c].then = "idle" THEN Return(c)
     ELSE call' = [call EXCEPT ![c].at = "range", ![c].task = Null, ![c].i = @ + 1]
  /\ UNCHANGED <<pm, pmChanges, lock, map, tables, ringVars>>

(***************************************************************************)
(* destroy_core_tasks: the slots whose SMP sections lie in the RAM the     *)
(* core has in AMP, the last one left out.  Each that is not free, in      *)
(* whatever state, has its task destroyed.  A careful caller sees to it    *)
(* that they are slots of finished tasks and that no core allocates there. *)
(***************************************************************************)
RangeIsOver(c) ==
  /\ \A d \in Running : MaxNum(SsiIndex(d, pm)) <= First(c)
  /\ \A s \in Slot : First(c) <= s /\ s < Limit(c) /\ map[s].state # "INIT" =>
       LET t == map[s].task
       IN  t # Null /\ task[t].state = "finished" /\ task[t].mapid = s /\ MayGo(t)

DestroyCoreTasks(c) ==
  /\ "core" \in Careless \/ RangeIsOver(c)
  /\ call[c] = Idle
  /\ call' = [call EXCEPT ![c] = [Idle EXCEPT !.at = "range", !.i = First(c),
                                              !.then = "range"]]
  /\ UNCHANGED <<pm, pmChanges, lock, map, tables, task, ringVars>>

DestroyNext(c) ==
  /\ call[c].at = "range" /\ call[c].i < Limit(c)
  /\ LET slot == map[call[c].i]
     IN  IF slot.state = "INIT" THEN Iterate(c, "range")
         ELSE call' = [call EXCEPT ![c].at = "clear", ![c].task = slot.task]
  /\ UNCHANGED <<pm, pmChanges, lock, map, tables, task, ringVars>>

RangeDone(c) ==
  /\ \/ call[c].at = "range" /\ call[c].i >= Limit(c)
     \/ call[c].at = "move" /\ call[c].i >= Limit(call[c].ssi)
  /\ Return(c)
  /\ UNCHANGED <<pm, pmChanges, lock, map, tables, task, ringVars>>

(***************************************************************************)
(* move_task_spaces: for the structures whose kernel RAM lies below the    *)
(* map the first slot is beyond the limit.  At a used slot the core calls  *)
(* move_task_space with the lock, which requests it again: all that comes  *)
(* after is out of reach.                                                  *)
(***************************************************************************)
MoveTaskSpaces(c) ==
  /\ Begin(c, "move", Null, First(SsiIndex(c, pm)))
  /\ UNCHANGED <<pm, pmChanges, lock, map, tables, task, ringVars>>

MoveNext(c) ==
  /\ call[c].at = "move" /\ call[c].i < Limit(call[c].ssi)
  /\ lock = Free
  /\ IF map[call[c].i].state = "INIT"
     THEN Iterate(c, "move") /\ UNCHANGED lock
     ELSE At(c, "move", "moving") /\ lock' = c
  /\ UNCHANGED <<pm, pmChanges, map, tables, task, ringVars>>

MoveTaskSpace(c) == call[c].at = "moving" /\ lock = c /\ UNCHANGED vars

\* change_pm; a careful caller waits until no core is in a call.
ChangePm(new) ==
  /\ pmChanges < MaxPmChange /\ pmChanges' = pmChanges + 1
  /\ "pm" \in Careless \/ \A c \in Running : call[c] = Idle
  /\ pm' = new
  /\ UNCHANGED <<lock, map, tables, task, ringVars, call>>

\* A core inside a call.
Step(c) ==
  \/ ReadLast(c) \/ WriteLinks(c)
  \/ Test(c) \/ Claim(c) \/ Started(c)
  \/ Clear(c) \/ Unmap(c) \/ Unlink(c) \/ FreeBlock(c)
  \/ DestroyNext(c) \/ MoveNext(c) \/ RangeDone(c)

Next ==
  \/ \E c \in Running : \/ Step(c) \/ MoveTaskSpace(c)
                        \/ DestroyCoreTasks(c) \/ MoveTaskSpaces(c)
                        \/ \E t \in Task : \/ Create(c, t) \/ Start(c, t)
                                           \/ End(c, t) \/ Destroy(c, t)
  \/ \E new \in Modes : ChangePm(new)

Spec == Init /\ [][Next]_vars

\* A core in a call, with interrupts off, goes on; nobody has to call.
FairSpec == Spec /\ \A c \in Running : WF_vars(Step(c))
-----------------------------------------------------------------------------
(***************************************************************************)
(* While nobody has the lock, the ring is one ring: next and prev are      *)
(* inverse to each other, and from the head they lead through exactly the  *)
(* tasks that create_task has put in and destroy_task has not taken out.   *)
(***************************************************************************)
Linked ==
  {t \in Task : task[t].state # "none" /\
                \A c \in Running : call[c].task = t => call[c].at \notin {"link", "free"}}

\* No part of the ring is closed under next but the whole.
IsRing(nodes) ==
  /\ \A n \in nodes : /\ next[n] \in nodes /\ prev[next[n]] = n
                      /\ prev[n] \in nodes /\ next[prev[n]] = n
  /\ \A part \in SUBSET nodes :
       Head \in part /\ (\A n \in part : next[n] \in part) => part = nodes

RingWellFormed == lock = Free => IsRing(Linked \union {Head})

(***************************************************************************)
(* The map and the control blocks agree: the slot a task names is in use   *)
(* and names the task, from the claim under the lock, through the end of   *)
(* the task without it, until destroy_task gives the slot back; and no two *)
(* tasks have one section, whichever structures and slots it comes from.   *)
(***************************************************************************)
Placed(t) ==
  /\ task[t].ttba # 0
  /\ \A c \in Running : call[c].task = t => call[c].at \notin {"unlink", "free"}

SlotOwner ==
  \A t \in Task : Placed(t) =>
    /\ map[task[t].mapid].task = t /\ map[task[t].mapid].state # "INIT"
    /\ \A u \in Task : Placed(u) /\ task[u].ttba = task[t].ttba => u = t

(***************************************************************************)
(* destroy_task clears a section without the lock, and start_task builds   *)
(* tables with it: the table of a task that has not ended, and those of    *)
(* the kernels in section 0, are never what is cleared.                    *)
(***************************************************************************)
TableIntact ==
  /\ 0 \in tables
  /\ \A t \in Task : task[t].state \in {"ready", "running"} /\ task[t].ttba # 0 =>
                     task[t].ttba \in tables

(***************************************************************************)
(* A call returns, unless a core has met a used slot in move_task_spaces,  *)
(* or the other cores call again and again (the spin lock prefers nobody). *)
(***************************************************************************)
EveryCallEnds ==
  \A c \in Running :
    \/ []<>(call[c] = Idle)
    \/ <>(\E d \in Running : call[d].at = "moving")
    \/ \E d \in Running \ {c} : []<>(call[d] = Idle) /\ []<>(call[d] # Idle)
=============================================================================
