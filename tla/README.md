# A verification project for rpi2-baremetal

The repository is a small bare-metal kernel for the four Cortex-A7 cores of a
Raspberry Pi 2. A core may run alone (AMP) or share one kernel with others (SMP);
which cores do what is the *processing mode* `pm`. The code boots the cores, builds
translation tables for seven kernel structures (four AMP, three SMP), prints under
spin locks, handles interrupts and data aborts, and has the parts of a task manager:
identifiers of address spaces, task slots, a heap. This directory has TLA+ models of
those parts, the TLC runs that check them, and proofs for TLAPS.

## 1. The system

### Components, their state and their operations

| component | state | operations | module |
|---|---|---|---|
| spin lock (`boot.s`, `cpu.c`) | a lock word, the exclusive monitor | `_spin_req`, `_spin_rel` | `SpinLock`, `Mutex` |
| modes and areas (`sysinfo.c`, `sysconfs.c`) | `pm`, seven `SysStructInfo` | `is_valid_pm`, `get_sys_struct_info_index`, areas | `ProcMode` |
| translation tables (`mmu.c`, `init.c`) | seven kernel tables, a table per task | `init_ttbs`, `amp_tbl_setup`, `smp_tbl_setup`, `cre_usr_tbl` | `MemoryMap` |
| identifiers (`sysinfo.c`, `mmu.c`) | `asid_head`, CONTEXTIDR and TTBR0 of each core | `set_user_asid`, `take_kernel_asid`, `sync_user_ttba_change`, `sync_ttba_change`, `change_pm` | `Asid`, `Grants` |
| start of the cores (`init.c`, `multicore.c`, `cpu.c`, `uart.c`, `experiment.c`) | mailboxes 0 and 3, `waking_cores`, three locks, MMU on or off | `sys_init_primary`, `sys_init_secondary`, `start_secondary_core`, `inc_waking_cores`, `output_all_pm_access_policy` | `Boot` |
| interrupts of one core (`interrupt.c`, `multicore.c`) | mailbox 0, the enabled lines, the UART's FIFO | `interrupt_handler`, `local_int_handler`, `call_irq_handler`, `aux_int_handler`, `send_ipi` | `Interrupts`, `IpiPromise` |
| exception entry and return (`boot.s`) | CPSR, banked SPSR, stacked return addresses | `_irq`, `_dabort`, `read32` | `Exceptions` |
| kernel heap (`util.c`) | a circular list of free blocks | `_malloc`, `_free` behind `kmalloc`, `kfree` | `Heap`, `Allocator` |
| tasks and the task map (`task.c`) | ready rings, `smp_tsk_alc_map`, the sections of the tasks' tables | `create_task`, `start_task`, `end_task`, `destroy_task`, `destroy_core_tasks`, `move_task_spaces` | `TaskMap` (their identifiers in `Asid`) |
| TLB (`mmu.c`, `boot.s`) | entries of each core | `invalidate_tlbs`, `invalidate_all_tlbs` | none, see section 6 |

Files that are not modelled: `dispatcher.c` is one comment, `smp_kernel.c` and `memory.h`
have no code, the timer functions have no caller, `hwio.h` and `stdint.h` are names,
`psr.c` and most of `boot.s` are accessors of one register. Build files are left out.

### How they interact

- Every shared word (`waking_cores`, the console, the probes of the access report, the
  status of an identifier) is guarded by a spin lock, and `spin_req` itself prints, which
  takes the lock of the console.
- Core 0 starts a core by writing an address to its mailbox 3 and waits, with a count, until
  the firmware has emptied it; the core counts itself in `waking_cores`; core 0 polls that count.
- Core 0 then asks for reports with bits in mailbox 0; the handler of interrupt 2 probes every
  megabyte with `read32`, so that data aborts arrive inside an interrupt handler.
- A switch takes an identifier from the area of the core's structure, and which structure
  that is depends on the mode, which any core may change with `change_pm`.
- `end_task` and `destroy_task` write the array of identifiers without the lock that
  `set_user_asid` reads it under, and `end_task` writes the map of task spaces without
  `smp_queue_lock`, under which `start_task` reads it.
- The slots of the map stand for sections counted from the bottom of the SMP user RAM,
  but the section `start_task` gives a task is counted from the user RAM of the core's own structure;
  `destroy_core_tasks` takes the first reckoning, for the RAM a core has in AMP.

### What is hard here

Four cores interleave at single exclusive loads and stores; an exception drops a
reservation; interrupts arrive between `cpsie i` and the return that still needs the SPSR;
interrupts are sent before their receiver has enabled them; the areas of AMP and SMP
structures overlap, so that exclusion depends on modes and not on one lock; a core given up
by the timeout may start later; tables are built and cleared in memory while slots change hands;
allocation and release come in any order. `hazards`
in `PROJECT.json` lists each at its line, with the properties that cover it, or a note on what they leave out.

### What makes each component correct

- lock: one owner, a word that says so, waiting cores get on (`MutualExclusion`,
  `WordMatchesOwner`, `ReservationFresh`, `ImplementsMutex`);
- tables: kernels that run side by side share only what is meant to be shared and agree on
  its attributes, and taking an interrupt never faults;
- identifiers: never one for two live tasks or for a task and a kernel, kept until the task ends, and never
  the table of one with the identifier of another;
- boot: no cores wait for each other in a ring, the count is right, every report asked for is made;
- interrupts: none lost, none run twice, every byte echoed and the program gets on, unless a handler waits for a lock;
- exceptions: the interrupted code goes on in its own mode at an instruction of a load's path;
- tasks: the ring is a ring, the map and the control blocks agree, no two tasks have one section, and
  no table in use is cleared;
- heap: blocks and free list are the whole heap without overlap, a block with an owner is nobody else's and
  stays as it is, and NULL means no memory.

## 2. The modules

`Mutex` is an abstract lock: cores want it, take it, give it back. `SpinLock` has an action per
exclusive load and store of `_spin_req` and `_spin_rel`; `reserved` is the set of monitors that
are armed, and `LoseReservation` is the exception that clears one. `WITH` a mapping of
the program counters to owner and waiters, `SpinLock` implements `Mutex`, fairness included.

`ProcMode` has no state: modes are sets of AMP cores, and the areas are computed from the
numbers in `sysconfs.c`. `MemoryMap` and `Asid` extend it.

`MemoryMap` walks the loops of `init_ttbs`, `amp_tbl_setup`, `smp_tbl_setup` and `cre_usr_tbl`,
one section per step, with the real addresses in megabytes. Each if/else chain is the list of its
rules, the first match deciding. The properties compare the descriptor just stored with the
ones other tables get at the same section.

`Asid` has the array of statuses, the lock of each structure, the tasks, and for each core the
step of its switch. `Scan` and `Claim` are the two halves of an iteration of `set_user_asid`;
`SetReserved`, `SetTable`, `SetAsid` are the register writes. `End`, `Destroy`, `StartMmu` and
`ChangePm` write without the lock, as the code does. No code calls these functions yet, so the
order of calls is the environment's: a core switches to a live task no other core runs and ends the task it runs;
tasks no core runs are destroyed, those that have ended and, as `destroy_core_tasks` does, live ones. What else a caller
would have to see to, no function looks at, so nothing in the model forbids it: the history variable `misuse` remembers it.
`"late"`: `destroy_task` came for a task that had ended when its identifier already had a new owner (an ended task's
identifier is taken again by `set_user_asid`, `sysinfo.c:350-359`). `"table"`: it came while a core was on the table of the task.
`"kernel"`: a kernel was started while a task had its identifier (`sysinfo.c:319`). `"mode"`: the mode changed while a
core was in a switch. Each property names the misuses it does not hold after, and holds in every
other behaviour. The exceptions are needed: `LateDestroyHarmless` is violated (`asid_late`); without its
exceptions TLC finds a counterexample to `ContextPair` (after `"table"`), to `KernelAsidPrivate` and
`ImplementsGrants` (a kernel has the identifier of a task) and to `AsidExclusive` (after `"mode"` alone, in ten steps).
That is what a scheduler to be written here has to respect.

`Grants` is the abstract specification of the identifiers: a task that has none is granted one that no task and no
kernel has, keeps it through every switch of every core, and only its end takes it away; a kernel keeps its own.
It says nothing of arrays, scans and locks. In `Asid` a task has the identifier of its control block while it is live
(`Granted`): a grant is `Claim`, a loss is `End` or the `Destroy` of a live task, `Keep` is `StartMmu`, and the other steps
change nothing. `void` ends the contract: in `Asid` with the first misuse that touches it, `"late"`, `"kernel"` or `"mode"`.

`Boot` gives each core a list of what is left to do: a call is replaced by the operations of
the function, and an interrupt puts its handler's in front. `traced` says whether
`spin_req` and `spin_rel` print, as the code does. With the prints (`traced = Secondaries`) a core
other than 0 never leaves its first print, so that the rest of the protocol cannot be seen;
`Init` therefore has the same program without them too (`traced = {}`). The properties are about both: `NoWaitRing` and
`EveryReport` name the core that waits for itself to print (`WaitsToTrace`) as an exception, which there is only with the
prints, and `OnlyCore0Wakes` says what follows from it. `EnableIpi` leaves mailbox 3 alone: `init.c:65`, "clear mailbox",
writes 0 to a register that clears the bits written as 1. Core 0's own mailbox interrupt is left out (nobody sends it
any), and so is the timeout of the first wait in `start_secondary_core` (`multicore.c:28-38`): no core sets another's
mailbox 3, so that wait finds it empty.

`Interrupts` is one core: `SendIpi` and `Receive` come from outside at any step, the other
actions are the statements of the handlers that read or write what they share with it. Handlers print: for
a line without a handler before it is disabled, and in `ipi_handler`, which for interrupt 2 also takes `exp_lock`. The
program (core 0 reports with interrupts on) and other cores (`OthersLock`) have these locks at any time. `HeldUp` is a handler that waits
for one; if the program it interrupted has the lock, it waits for ever, which is what the code does. The liveness properties hold
unless that happens; nothing else stops the core. Only how many bytes wait and are answered is kept, not which: `uart_send`
makes two of the end of a line.
`IpiPromise` is the abstract specification of a mailbox: a handler starts only
for an interrupt that is owed and while none is held up (`held`, an input), and what is owed is served unless handlers are
held up for ever or again and again.

`TaskMap` has the control blocks of one priority, their ring, the map, and the set of sections that hold
translation tables. Each core is idle or in a call, and the steps of a call are cut where another core
can see the difference: at the lock, and between the writes made without it. `Test` and `Claim` are an
iteration of `start_task`, `Clear`, `Unmap`, `Unlink`, `FreeBlock` are `destroy_task`, which is also the body of
`destroy_core_tasks`. Slots are unsigned differences of addresses (`SlotOf`, modulo the 4096 sections of 32 bits).
Of `move_task_space` only its first statement is reached: the lock it requests is its caller's (`MoveTaskSpace`).
The order of calls is the environment's again; calls about one task come one at a time, in the order created,
started, ended, destroyed. `Careless` names four further precautions that the code does not take:
`"slotless"` (leave a task alone that found no slot: its slot and section read 0), `"area"` (start a task while no
task of another structure is in the user RAM), `"core"` (call `destroy_core_tasks` when its slots
belong to finished tasks and nobody allocates there), `"pm"` (change the mode while no core is in a call). `TaskMap.cfg` has
all four taken. With `"slotless"`, `"core"` or `"pm"` in `Careless` TLC finds a counterexample to `TableIntact` (for
the first, section 0 with the kernels' tables is cleared), with `"area"` one to `SlotOwner`. `MCTaskMap`
gives small areas in the order of the board's, and its `ASSUME BoardSpaceFits` makes TLC check that the numbers of
`sysconfs.c` meet the assumption `SpaceFits` the module and its proofs rest on.

`Exceptions` is a stack of frames (program, interrupt, abort) with the banked registers, of which it keeps
the mode and the I bit (`irq`). `Resume` is
the arithmetic of `_dabort`, whose `add lr, lr, #4` makes it go on three instructions after the load:
past the return of `read32` and the store of `write32`, at the return of `write32`. `hit` records
whether an interrupt ever came between a `cpsie i` and the return after it. Only loads fault: `write32` is called for device
registers only, which every table maps (`InterruptsReachable`).

`Heap` counts addresses in units of 8 bytes and has a header only where a block starts; reading any other
unit as a header would stop TLC. `Chain` is the list as a recursive function, `FirstFit` and `Before`
are the loops of `_malloc` and `_free`. `Init` has the program's state, `freep` NULL, in which
every request makes an empty list and finds none left, and the state the functions are written
for, with one free block. `Allocator` is the abstract specification: a block that is given has just the units the bytes
need and none of a block with an owner, and what an owner has changes only when it is given back. `Owned` reads that
from the headers and the blocks given, so that a call that resizes somebody's block is no step of `Allocator`.

`MC*` modules only give values to constants.

## 3. The runs

| run | bounds and why they are enough | result |
|---|---|---|
| `spinlock` | four cores as on the board, two lost reservations in all: one for a request and one for a release | all hold |
| `memorymap` | every section of the seven kernel tables; first and last task slot of an AMP and of the largest SMP structure, the ends of the only ranges that depend on the slot | all hold |
| `asid` | two tasks, cores 2 and 3, three identifiers per core instead of 64, one change of mode: the cores are in two AMP structures, in one SMP structure, or one in each, and areas run out; behaviours are followed up to the second misuse (`OneMisuse`), so that each is seen alone and with all that can follow it | all hold |
| `asid_exhausted` | one step beyond the area | violated: the switch goes on with identifier 255 |
| `asid_late` | as `asid`; the property is about behaviours with no misuse but `"late"` | violated: end, new owner, late destroy, second owner |
| `boot` | the four cores, each other one of them possibly slow | all hold |
| `boot_ipi_enabled` | no slow core | violated: a started core waits for itself at its first print |
| `interrupts` | the two interrupts that print, a stray line before and one after the UART's, four interrupts sent, three bytes: enough to send again while a bit is set, cleared or handled; both locks taken and given back by the program and by other cores at any time | all hold |
| `taskmap` | two tasks, cores 1 and 2 in one SMP structure or in two, one change of mode; two sections of RAM per core, so that a structure has between one and four slots: used up by one task, shared by two, and in the range of `destroy_core_tasks` | all hold |
| `heap` | 28 units; requests of `sizeof(TCB)`, `sizeof(context_t)` and 12 bytes: three of the largest fit, exact fits, tails and both joins happen | all hold |
| `exceptions` | four interrupts and three aborts, so that handlers nest in each other twice | all hold |
| `exceptions_mode` | the same | violated: the program goes on in IRQ mode |

Bounds in guards: `MaxLoss`, `MaxPmChange`, `MaxSend`, `MaxByte`, `MaxIrq`, `MaxFault`. In `MCAsid`
tasks are symmetric: nothing in the code orders them, and that run has no liveness property.
Deadlock is checked in every run; `MemoryMap` always has another task table to write, and
a core of `Boot` that waits for its own lock spins (`SpinForEver`), which is the code's behaviour and
which `NoWaitRing` excludes where it must not happen; a handler of `Interrupts` that is held up spins too (`Spin`).

### Fairness

- `SpinLock`: weak fairness of the instructions of each core inside the two functions, none of the
  calls: a core runs, but need not want the lock. Somebody gets the lock; nothing is
  said about a particular core, because exclusive stores give no order.
- `Boot`: weak fairness of each core's steps, of the firmware and of interrupts that are enabled. Core 0 polls the count and takes
  its lock again and again; nothing in `ldrex` and `strex` gives another core its turn, so that `EveryReport` excepts
  a core that core 0 outruns for ever (`Outrun`; without the exception it fails).
- `Interrupts`: weak fairness of the core; nobody has to send or to type, and no other core has to give back a lock.
- `TaskMap`: weak fairness of the steps of a core inside a call, none of the calls. The lock prefers nobody,
  so that `EveryCallEnds` excepts a core that others outrun by calling again and again, and the
  cores that wait for one that met a used slot in `move_task_spaces` (without those exceptions it fails).

## 4. What the runs found

1. `spin_req` prints inside the lock on every core but 0 (`cpu.c:36-38`), and the print takes `uart_lock`
   through `spin_req`: the core waits for itself (`boot_ipi_enabled`; `OnlyCore0Wakes` says what follows).
2. `mmu.c:293` compares an unsigned number with 0 (`asid_exhausted`).
3. `destroy_task` writes the status of an identifier it does not look at (`task.c:77`). `end_task` has made the identifier free
   for others already, so that after another task has taken it the write frees it a second time, and a third task gets it
   too (`asid_late`), which `sysinfo.h:47` rules out; `task.c:73` asks only that interrupts are off.
4. `cpsie i` before the return (`boot.s:211`, `boot.s:221`) lets an interrupt overwrite the
   SPSR the return uses (`exceptions_mode`).

Seen while modelling, without a run: the SMP tables are no-write-allocate where their comments
say write-allocate (`mmu.c:402`, `421`, `427`, `433`); `cre_usr_tbl` hides
its rule for the SHARED window behind the one for lower addresses (`mmu.c:99`, `mmu.c:105`); core 1 counts
itself twice (`init.c:70`, `init.c:139`), so that the count of four core 0 waits for is reached with three;
nothing makes a first free block of the heap, nor the ring that `smp_tcb_head` should point to; the map is
allocated for the 95 slots of structure 0 (`init.c:125`); `move_task_space` requests the lock
its caller holds (`task.c:161`); `start_task` goes on after it has claimed a slot and claims every free one, each with a
table of its own (`task.c:51` has no break): the control block keeps the last, the others are never given back (`Claim` of
`TaskMap` does that); a line without a handler that interrupts a print on core 0 makes its handler wait for
`uart_lock` for ever (`interrupt.c:84`, `HeldUp` of `Interrupts`); `init.c:65` does not clear the mailbox.

## 5. What is proved

All theorems hold for every value of the constants under the named assumptions of the modules.

`SpinLock_proof`: `TypeCorrect`, `Fresh`, `Exclusion`, `WordOwner` and `Refinement`, for any set of cores. The
inductive invariant `IInv` adds to exclusion what the monitors are worth: a reserved core that is about to store
compared a value that is still in the word (`ReservationFresh`); without it nothing says that a
successful store of 1 finds a 0. `Refinement` proves the initial condition and the steps of `Mutex`.

`MemoryMap_proof`: `TypeCorrect`, `Reachable`, `Private` and `Consistent`, whichever task slots get tables (the run
has four). `IInv` says that the descriptor stored last is the one the rules give; the work is in the lemmas about
the rules: `FirstHit` (the first rule whose region has the section decides), `AmpDescs`, `SmpDescs` and `UserDescs` (what each
chain makes of each section, since its regions are apart), `SlotPlace` (every task slot lies between
the SHARED window and the devices), `BesideCases` (which structures a valid mode runs side by side) and
`OwnApart` (what such structures have to themselves is disjoint).

`Asid_proof`: `TypeCorrect`, `HeldActive`, `Exclusive`, `KernelPrivate` and `ClaimSafe`, for any number of tasks,
any subset of cores, any size of the areas from two on, any number of changes of mode and whatever callers do: what does not hold after a misuse
has it in the property. `IInv` needs
`ScanInArea`: a core in a switch was given the mode that still holds unless `"mode"` has happened, its scan is inside the
area of its structure and about a live task of its own without an identifier. The lemma
`Disjoint` then says that two cores in one mode either use one structure, whose lock is theirs in turn,
or areas without a common identifier; that is what makes a per-structure lock enough.
`CInv` adds to that invariant what each core's two registers hold at each step of a switch, and gives
`PairKept`: never the table of one task with the identifier of another.
`Refinement` proves `ImplementsGrants`: `ClaimRefines` is where the invariant is needed, since the code looks at one
status and not at the tasks. What it read is not active and still so (`ClaimStillFree`), what live tasks and
kernels have is active (`HeldIsActive`, `KernelAsidPrivate`), so nobody has the identifier that is claimed.

`Boot_proof`: `TypeCorrect`, `NoRing`, `CountKeptAlways`, `StuckForEver` and `LocksUsed`, whichever cores are slow. What is left to a core is a
sequence that grows with calls and interrupts, so that `IInv` cannot name the places a core may be at. It says instead,
as a Hoare logic does, that the sequence is `Good` from a `View` that `Fits` the state: a view has the locks the core holds, what
it knows (its copy of the count is the count, its mailbox interrupts are on, it is in a handler, it has seen a count of 4), the
cores it has not sent the start address, and how many increments it still has to do; `Rule` says for each operation
from which view to which it leads. `PrimaryGood`, `SecondaryGood` and `HandlerGood` are the proofs of the programs and of
the handler, composed of one lemma per function. A step of one core leaves `Untouched` what the views of the others say
(only who holds the lock of the count changes it). Three facts of the rules carry the theorems: the locks are taken in one
order, info, exp, uart (`Under`), and a core that is stuck in its print waits for uart_lock, whose holder waits for nobody
else; the mailbox interrupts are only on where the interrupted code holds at most the lock of the
count (`View`), which the handler never takes; and a store needs the lock of the count and a fresh copy. With the prints of
the lock functions (`traced`) `Stuck` takes the place of `Good` for the cores other than 0.
`LocksUsed` reads off the views how the locks are used; its first part, that only the owner gives a lock back, is what
`SpinLock` takes for granted of its callers, so that the two modules fit together.

`Interrupts_proof`: `TypeCorrect`, `NothingLost`, `NoExtra` and `Refinement` (the safety part of `IpiPromise`), for
any interrupts, lines and bounds. `NoExtra` counts the bits set and needs that the bit about to be cleared is
set (`BoxType`): no other core clears one. `Refinement` needs that no handler starts while another is held up.

`Exceptions_proof`: `TypeCorrect`, `ProbeSafe`, `ModesKept` and `EnteredOnce`, for any number of interrupts and aborts, that
is for any depth of nesting. `Shape` says that the program is the last frame and the only one of its kind, which
three instructions a frame stands at, and that an abort lies on a frame at the probe that is no abort itself. `Banked`
holds as long as no interrupt came between a `cpsie i` and its return (`~hit`): an interrupt lies on the
program, an abort on the program or on the body of an interrupt, nothing on an abort, and
the SPSR of each is the CPSR of the code it lies on (`Home`).

`TaskMap_proof`: `TypeCorrect`, `SlotsOwned` and `TablesKept` with `Careless = {}`, for any number of tasks, any cores
and any areas that fit (`SpaceFits`). `IInv` needs `Apart` (no two calls are about one task) and for each core `Core`:
where it has the lock (`HasLock`), which task its call is about and in which state (`Actor`), that in `start_task`
the structure is still that of the mode, its area holds no task of another structure and the slot to be claimed is
free (`Starter`), and that in `destroy_core_tasks` no core allocates in the range and every slot still to be visited
is free or of a finished task no other core is about (`Ranger`). Each action has a lemma of its own.
`RingKept` proves `RingWellFormed`: `RInv` says it also while a core has the lock, of the blocks whose links are written
and not yet taken out (`OnRing`), and that a core about to write links read the last block that is still the last.
`Insertion` and `Removal` are what the two assignments make of any ring: `IsRing` says that no proper part of it is closed
under `next`, which does not follow a list step by step and so needs no induction.
`SectionsGranted` is a second refinement of `Grants`, with sections for identifiers: a task has its section from the end of
`start_task` (`SectionOf`; before, it may change with each further slot that is claimed) until `destroy_task` unmaps its slot.
No run checks that one.

`Heap_proof`: `TypeCorrect`, `Partitioned`, `InOrder`, `NullOnlyIfNone`, `RoomKept` and `Refinement`, for a heap of any size, headers of any
size and any requests, of one core at a time. `Chain` is a recursive function, so its existence (`ChainExists`) and what its
steps keep (`ChainSteps`, `StaysOnList`) are shown by the first step that would break it. `ReachesAll` says that a
list of as many nodes as the bound of the loops is gone through entirely; with it `FirstFitFinds` and
`BeforeFinds` say where the two loops stop. `IInv` describes the heap by its set of free and its set of given blocks: each
free block points to the next higher one and the last to the lowest, blocks are apart and fill the heap, and no two
free ones touch. That last part is what `NULL` rests on, and what the two joins of `_free` must restore
(`LinkKeeps`, `MergeKeeps`, `FreeKeeps`); `TakeExactKeeps` and `SplitTailKeeps` are the two ways `_malloc` takes a block.
`Refinement` proves `ImplementsAllocator`: `MallocResult` says what a call of `_malloc` leaves (nothing changed, or one block
more, apart from all others, as large as the bytes need), and `FreeKeeps` that the joins touch free blocks only. `RoomKept`
(an owner has room for the bytes it asked for) is a theorem without a run, since `ImplementsAllocator` says it too.

Only model-checked: liveness (`ImplementsMutex`'s progress, `EveryReport`, `EveryByteEchoed`,
`ProgramGoesOn`, `EveryCallEnds`, the promise that what is owed is served), which
is beyond the prover, and the violations. Every invariant the passing runs check is also a theorem.

## 6. What is left out

- Hardware: caches, the order of memory accesses other than the exclusive ones, the registers of the mini
  UART. `Asid` checks what the two registers hold, not what a TLB keeps. The TLB is not modelled: no
  descriptor has the nG bit (`mmu.c:193`), so that all entries are global and `invalidate_tlbs`, which invalidates
  by identifier, removes none of them; nothing in the repository says what a core may still translate, so that
  a model would check the processor's manual and not this code.
- `move_task_space` behind its request of the lock (`task.c:162-188`): unreachable.
- Text: formatting of numbers, the two bytes `uart_send` makes of the end of a line, and prints before the MMU is on, which take no
  lock and change nothing. A series of prints that takes and gives back `uart_lock` several times is one print.
- A fault of `write32`'s store, and tasks destroyed while a core runs them (`Asid`) or out of order (`TaskMap`).
- `_svc_handler` (its caller `get_prid` is never called), undefined instruction, prefetch abort and FIQ.
- Two cores in the heap at a time, and a second core rewriting the tables at its start.
- Files without behaviour: section 1.

## 7. Plan

1. Proofs: an abstract ring for `TaskMap` (tasks are put in at the end and taken out anywhere), implemented by the two
   assignments of `create_task` and `destroy_task`; the frames of `Exceptions` as calls that return to where they were made.
2. `Heap` step by step with two cores (no lock guards it), when the code has a lock for it or says who calls.
3. The misuses of `Asid` and the precautions of `TaskMap` as one abstract contract of a scheduler, when there is a scheduler.
4. `move_task_space`, when it can be reached.
