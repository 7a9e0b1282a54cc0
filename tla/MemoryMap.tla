----------------------------- MODULE MemoryMap ------------------------------
(***************************************************************************)
(* The translation tables of mmu.c: init_ttbs (init.c) writes the seven    *)
(* kernel tables, one per SysStructInfo, with amp_tbl_setup and            *)
(* smp_tbl_setup, and start_task (task.c) writes a table per task with     *)
(* cre_usr_tbl.  Each loop goes over the 4096 sections of 1 MB and stores  *)
(* one descriptor per section; every section maps to itself, so that a     *)
(* descriptor is its type and attributes.                                  *)
(***************************************************************************)
EXTENDS ProcMode, FiniteSetsExt

CONSTANT UserTtba    \* the task slots (their first section) given a table

ASSUME UserTtbaAssumption ==
  \A ttba \in UserTtba : \E i \in Struct :
    ttba \in UramArea(i).bottom .. UramArea(i).bottom + MaxNumTaskSpace(i) - 1

VARIABLES table,    \* the table being written: [kind, id]
          va,       \* the section whose descriptor was stored last
          desc      \* that descriptor

vars == <<table, va, desc>>

LastSection == 4095                            \* 0xFFF00000
Fault       == [type |-> "fault"]
Mapped(cache, shareable, user) ==              \* user: FLD_FULL_ACCESS
  [type |-> "section", cache |-> cache, shareable |-> shareable, user |-> user]

Low    == 0 .. 0                               \* below SP_BASE
Shared == 5 .. 495                             \* SHARED_BOTTOM, SHARED_LIMIT

\* PERIPH_BOTTOM, PERIPH_LIMIT; the mutant leaves the local controller out.
PeriphNoLocal == 1008 .. 1023
Periph        == 1008 .. 1027

Device == Mapped("DEV", TRUE, TRUE)

(***************************************************************************)
(* Each if/else chain as the list of its rules: the first one whose region *)
(* holds the section decides, and without one the section faults.          *)
(***************************************************************************)
Rule(region, d) == [region |-> region, desc |-> d]

FirstMatch(rules, section) ==
  LET hits == {k \in DOMAIN rules : section \in rules[k].region}
  IN  IF hits = {} THEN Fault ELSE rules[Min(hits)].desc

\* The SHARED rule of amp_tbl_setup; the mutant maps it write-back.
AmpSharedWriteBack == Mapped("WB_NWA", TRUE, TRUE)
AmpShared == Mapped("WT_NWA", TRUE, TRUE)

AmpRules(i) ==
  << Rule(Low, Mapped("WB_WA", TRUE, TRUE)),
     Rule({1 + i}, Mapped("WT_NWA", FALSE, FALSE)),
     Rule(Shared, AmpShared),
     Rule(Sections(KramArea(i)), Mapped("WB_WA", FALSE, FALSE)),
     Rule(Sections(KheapArea(i)), Mapped("WB_WA", TRUE, FALSE)),
     Rule(Sections(UramArea(i)), Mapped("WB_WA", FALSE, TRUE)),
     Rule(Periph, Device) >>

\* init_ttbs: the stacks an SMP table maps; the mutant maps those of all cores.
AllStacks(i) == 1 .. NumCpu
SmpStacks(i) == 1 .. NumCpu - (i - NumCpu)

SmpRules(i) ==
  << Rule(Low, Mapped("WB_NWA", TRUE, TRUE)),
     Rule(SmpStacks(i), Mapped("WT_NWA", FALSE, FALSE)),
     Rule(Shared, Mapped("WT_NWA", TRUE, TRUE)),
     Rule(Sections(KramArea(i)), Mapped("WB_NWA", TRUE, FALSE)),
     Rule(Sections(KheapArea(i)), Mapped("WB_NWA", TRUE, FALSE)),
     Rule(Sections(UramArea(i)), Mapped("WB_NWA", FALSE, TRUE)),
     Rule(Periph, Device),
     Rule(1029 .. LastSection, Device) >>      \* va > PERIPH_LIMIT

UserRules(ttba) ==
  << Rule({ttba}, Mapped("WB_WA", TRUE, TRUE)),
     Rule(0 .. ttba - 1, Mapped("WB_WA", TRUE, TRUE)),
     Rule(Shared, Mapped("WT_NWA", TRUE, TRUE)),
     Rule(Periph, Device) >>

KernelDesc(i, section) ==
  FirstMatch(IF i < NumCpu THEN AmpRules(i) ELSE SmpRules(i), section)

Desc(t, section) ==
  IF t.kind = "kernel" THEN KernelDesc(t.id, section)
                       ELSE FirstMatch(UserRules(t.id), section)

Kernel(i)  == [kind |-> "kernel", id |-> i]
User(ttba) == [kind |-> "user", id |-> ttba]
-----------------------------------------------------------------------------
TypeOK ==
  /\ table \in {Kernel(i) : i \in Struct} \union {User(t) : t \in UserTtba}
  /\ va \in 0 .. LastSection
  /\ desc \in {Fault} \union
       [type : {"section"}, cache : {"WB_WA", "WB_NWA", "WT_NWA", "DEV"},
        shareable : BOOLEAN, user : BOOLEAN]

Store(t, section) ==
  /\ table' = t
  /\ va' = section
  /\ desc' = Desc(t, section)

Init == table = Kernel(0) /\ va = 0 /\ desc = Desc(Kernel(0), 0)

\* The loops of the three functions; the mutant forgets the break at the end.
NextSectionNoBreak == Store(table, va + 1)
NextSection == va < LastSection /\ Store(table, va + 1)

\* The loop of init_ttbs over the kernel tables.
NextTable ==
  /\ va = LastSection /\ table.kind = "kernel" /\ table.id + 1 \in Struct
  /\ Store(Kernel(table.id + 1), 0)

\* start_task, once the kernel runs; an earlier task's table is complete.
CreUsrTbl(ttba) ==
  /\ va = LastSection
  /\ table.kind = "kernel" => table.id + 1 \notin Struct
  /\ Store(User(ttba), 0)

Next == NextSection \/ NextTable \/ \E ttba \in UserTtba : CreUsrTbl(ttba)

Spec == Init /\ [][Next]_vars
-----------------------------------------------------------------------------
IsMapped(d) == d.type = "section"

Inner(d) == CASE d.cache \in {"WB_WA", "WB_NWA"} -> "WB"
              [] d.cache = "WT_NWA"              -> "WT"
              [] OTHER                           -> "DEV"

\* For each table, the others that some valid mode runs beside it.
Beside == [i \in Struct |->
  {j \in Struct \ {i} : \E pm \in ValidPm, c, d \in Cpu :
                        i = SsiIndex(c, pm) /\ j = SsiIndex(d, pm)}]

(***************************************************************************)
(* Kernels that run at the same time (two AMP cores, or an AMP core beside *)
(* the SMP ones) map no section in common but the first megabyte, the      *)
(* SHARED window and the device space: the stacks, kernel RAM, heap and    *)
(* user RAM that sysconfs.c and init_ttbs hand to one structure are out of *)
(* reach of the kernels of the others in every mode is_valid_pm accepts.   *)
(***************************************************************************)
PrivateToStructure ==
  table.kind = "kernel" /\ IsMapped(desc) =>
    \A j \in Beside[table.id] :
      IsMapped(KernelDesc(j, va)) =>
        va \in Low \union Shared \union 1008 .. LastSection

(***************************************************************************)
(* A section two running kernels both map has one memory type, one         *)
(* shareability and one write policy in both tables: otherwise their       *)
(* caches would disagree about it.  (Only the allocation hint differs.)    *)
(***************************************************************************)
ConsistentAttributes ==
  table.kind = "kernel" /\ IsMapped(desc) =>
    \A j \in Beside[table.id] :
      LET other == KernelDesc(j, va)
      IN  IsMapped(other) => /\ Inner(other) = Inner(desc)
                             /\ other.shareable = desc.shareable
                             /\ other.user = desc.user

(***************************************************************************)
(* Whatever table a core runs on, user tables included, taking an          *)
(* interrupt does not fault: the vectors, code, tables and SysInfo of the  *)
(* first megabyte, the stacks of the cores that may use the table, the     *)
(* UART and interrupt controller and the local controller are mapped.      *)
(***************************************************************************)
StacksOf(t) ==
  IF t.kind = "user" THEN 1 .. NumCpu
  ELSE {1 + c : c \in {c \in Cpu : \E pm \in ValidPm : t.id = SsiIndex(c, pm)}}

InterruptsReachable ==
  va \in Low \union StacksOf(table) \union {1008, 1010, 1024} => IsMapped(desc)
=============================================================================
