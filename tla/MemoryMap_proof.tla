--------------------------- MODULE MemoryMap_proof --------------------------
(***************************************************************************)
(* Proofs about the translation tables: for the seven kernel tables and    *)
(* for the table of every task slot, whichever are written.                *)
(***************************************************************************)
EXTENDS MemoryMap, TLAPS

(* The first rule whose region has the section decides. *)
LEMMA FirstHit ==
  ASSUME NEW n \in Nat, NEW rules, DOMAIN rules = 1 .. n, NEW s,
         NEW k \in 1 .. n, s \in rules[k].region,
         \A j \in 1 .. n : s \in rules[j].region => k <= j
  PROVE  FirstMatch(rules, s) = rules[k].desc
<1> DEFINE hits == {j \in DOMAIN rules : s \in rules[j].region}
<1>1. k \in hits /\ \A y \in hits : k <= y
  OBVIOUS
<1>2. \A x \in hits : x \in Int
  OBVIOUS
<1>3. ASSUME NEW x \in hits, \A y \in hits : x <= y PROVE x = k
  BY <1>1, <1>2, <1>3
<1>4. Min(hits) = k
  <2> HIDE DEF hits
  <2> QED
    BY <1>1, <1>3, Zenon DEF Min
<1>5. hits # {}
  BY <1>1
<1> QED
  BY <1>4, <1>5 DEF FirstMatch

(* Without such a rule the section faults. *)
LEMMA NoHit ==
  ASSUME NEW rules, NEW s, \A j \in DOMAIN rules : s \notin rules[j].region
  PROVE  FirstMatch(rules, s) = Fault
BY DEF FirstMatch

(***************************************************************************)
(* The sections the structure i has to itself, and those a kernel shares.  *)
(***************************************************************************)
Stacks(i)   == IF i < NumCpu THEN {1 + i} ELSE SmpStacks(i)
Kram(i)     == Sections(KramArea(i))
Kheap(i)    == Sections(KheapArea(i))
Uram(i)     == Sections(UramArea(i))
Beyond      == 1029 .. LastSection
DeviceOf(i) == IF i < NumCpu THEN Periph ELSE Periph \union Beyond

(* The descriptors of the kernel tables. *)
CodeAmp  == Mapped("WB_WA", TRUE, TRUE)
RamAmp   == Mapped("WB_WA", FALSE, FALSE)
HeapAmp  == Mapped("WB_WA", TRUE, FALSE)
UserAmp  == Mapped("WB_WA", FALSE, TRUE)
CodeSmp  == Mapped("WB_NWA", TRUE, TRUE)
RamSmp   == Mapped("WB_NWA", TRUE, FALSE)
UserSmp  == Mapped("WB_NWA", FALSE, TRUE)
OwnStack == Mapped("WT_NWA", FALSE, FALSE)
Window   == Mapped("WT_NWA", TRUE, TRUE)

(* The seven rules of amp_tbl_setup, and where their regions are. *)
LEMMA AmpParts ==
  ASSUME NEW i \in 0 .. 3
  PROVE  /\ DOMAIN AmpRules(i) = 1 .. 7
         /\ AmpRules(i)[1] = Rule(Low, CodeAmp)
         /\ AmpRules(i)[2] = Rule({1 + i}, OwnStack)
         /\ AmpRules(i)[3] = Rule(Shared, Window)
         /\ AmpRules(i)[4] = Rule(Kram(i), RamAmp)
         /\ AmpRules(i)[5] = Rule(Kheap(i), HeapAmp)
         /\ AmpRules(i)[6] = Rule(Uram(i), UserAmp)
         /\ AmpRules(i)[7] = Rule(Periph, Device)
BY DEF AmpRules, AmpShared, Kram, Kheap, Uram, CodeAmp, OwnStack, Window, RamAmp,
       HeapAmp, UserAmp

(* Which sections these are. *)
LEMMA AmpRegions ==
  ASSUME NEW i \in 0 .. 3
  PROVE  /\ Stacks(i) = {1 + i}
         /\ Kram(i)  = 496 + 128 * i .. 511 + 128 * i
         /\ Kheap(i) = 512 + 128 * i .. 527 + 128 * i
         /\ Uram(i)  = 528 + 128 * i .. 623 + 128 * i
         /\ DeviceOf(i) = 1008 .. 1027
<1> DEFINE b == 496 + 128 * i
<1>1. b \in Int /\ i < NumCpu
  BY DEF NumCpu
<1>2. AmpBase(i) = b
  BY DEF AmpBase
<1>3. Stacks(i) = {1 + i} /\ DeviceOf(i) = 1008 .. 1027
  BY <1>1 DEF Stacks, DeviceOf, Periph
<1>4. Kram(i) = b .. b + 15
  BY <1>1, <1>2 DEF Kram, KramArea, Sections, Area
<1>5. Kheap(i) = b + 16 .. b + 31
  BY <1>1, <1>2 DEF Kheap, KheapArea, Sections, Area
<1>6. Uram(i) = b + 32 .. b + 127
  BY <1>1, <1>2 DEF Uram, UramArea, Sections, Area
<1>7. /\ b + 15 = 511 + 128 * i /\ b + 16 = 512 + 128 * i /\ b + 31 = 527 + 128 * i
      /\ b + 32 = 528 + 128 * i /\ b + 127 = 623 + 128 * i
  OBVIOUS
<1> QED
  BY <1>3, <1>4, <1>5, <1>6, <1>7

(* What the seven rules make of a section. *)
AmpDesc(i, s) ==
  /\ s \in Low       => KernelDesc(i, s) = CodeAmp
  /\ s \in Stacks(i) => KernelDesc(i, s) = OwnStack
  /\ s \in Shared    => KernelDesc(i, s) = Window
  /\ s \in Kram(i)   => KernelDesc(i, s) = RamAmp
  /\ s \in Kheap(i)  => KernelDesc(i, s) = HeapAmp
  /\ s \in Uram(i)   => KernelDesc(i, s) = UserAmp
  /\ s \in DeviceOf(i) => KernelDesc(i, s) = Device
  /\ s \notin Low \union Shared \union Stacks(i) \union Kram(i) \union Kheap(i)
              \union Uram(i) \union DeviceOf(i) => KernelDesc(i, s) = Fault

LEMMA AmpDescs ==
  ASSUME NEW i \in 0 .. 3, NEW s \in Int
  PROVE  AmpDesc(i, s)
<1> DEFINE r == AmpRules(i)
           b == 128 * i
<1>1. KernelDesc(i, s) = FirstMatch(r, s)
  BY DEF KernelDesc, NumCpu
<1>2. /\ r[1].desc = CodeAmp
      /\ r[2].desc = OwnStack
      /\ r[3].desc = Window
      /\ r[4].desc = RamAmp
      /\ r[5].desc = HeapAmp
      /\ r[6].desc = UserAmp
      /\ r[7].desc = Device
  BY AmpParts DEF Rule
<1>3. /\ DOMAIN r = 1 .. 7
      /\ r[1].region = Low /\ r[2].region = {1 + i} /\ r[3].region = Shared
      /\ r[4].region = Kram(i) /\ r[5].region = Kheap(i) /\ r[6].region = Uram(i)
      /\ r[7].region = Periph
  BY AmpParts DEF Rule
<1>4. b \in Nat /\ b <= 384 /\ i \in Nat /\ i <= 3
  OBVIOUS
<1>5. /\ s \in r[1].region <=> s = 0
      /\ s \in r[2].region <=> s = 1 + i
      /\ s \in r[3].region <=> 5 <= s /\ s <= 495
      /\ s \in r[4].region <=> 496 + b <= s /\ s <= 511 + b
      /\ s \in r[5].region <=> 512 + b <= s /\ s <= 527 + b
      /\ s \in r[6].region <=> 528 + b <= s /\ s <= 623 + b
      /\ s \in r[7].region <=> 1008 <= s /\ s <= 1027
  <2> HIDE DEF r
  <2> QED
    BY <1>3, <1>4, AmpRegions DEF Low, Shared, Periph
<1> HIDE DEF r, b
<1>6. ASSUME NEW k \in 1 .. 7, s \in r[k].region PROVE FirstMatch(r, s) = r[k].desc
  <2>1. \A j \in 1 .. 7 : j = 1 \/ j = 2 \/ j = 3 \/ j = 4 \/ j = 5 \/ j = 6 \/ j = 7
    OBVIOUS
  <2>2. ASSUME NEW j \in 1 .. 7, s \in r[j].region PROVE k <= j
    BY <1>4, <1>5, <1>6, <2>1, <2>2
  <2>3. 7 \in Nat
    OBVIOUS
  <2> QED
    BY <1>3, <1>6, <2>2, <2>3, FirstHit, Zenon
<1>7. /\ 1 \in 1 .. 7 /\ 2 \in 1 .. 7 /\ 3 \in 1 .. 7 /\ 4 \in 1 .. 7
      /\ 5 \in 1 .. 7 /\ 6 \in 1 .. 7 /\ 7 \in 1 .. 7
  OBVIOUS
<1>8. Stacks(i) = {1 + i} /\ DeviceOf(i) = Periph
  BY AmpRegions DEF Periph
<1>9. ASSUME s \notin Low \union Shared \union Stacks(i) \union Kram(i)
                \union Kheap(i) \union Uram(i) \union DeviceOf(i)
      PROVE  FirstMatch(r, s) = Fault
  <2>1. \A j \in 1 .. 7 : j = 1 \/ j = 2 \/ j = 3 \/ j = 4 \/ j = 5 \/ j = 6 \/ j = 7
    OBVIOUS
  <2>2. \A j \in 1 .. 7 : s \notin r[j].region
    BY <1>3, <1>8, <1>9, <2>1, Zenon
  <2> QED
    BY <1>3, <2>2, NoHit, Zenon
<1> QED
  BY <1>1, <1>2, <1>3, <1>6, <1>7, <1>8, <1>9, Zenon DEF AmpDesc

(* The same for the eight rules of smp_tbl_setup. *)
LEMMA SmpParts ==
  ASSUME NEW i \in 4 .. 6
  PROVE  /\ DOMAIN SmpRules(i) = 1 .. 8
         /\ SmpRules(i)[1] = Rule(Low, CodeSmp)
         /\ SmpRules(i)[2] = Rule(SmpStacks(i), OwnStack)
         /\ SmpRules(i)[3] = Rule(Shared, Window)
         /\ SmpRules(i)[4] = Rule(Kram(i), RamSmp)
         /\ SmpRules(i)[5] = Rule(Kheap(i), RamSmp)
         /\ SmpRules(i)[6] = Rule(Uram(i), UserSmp)
         /\ SmpRules(i)[7] = Rule(Periph, Device)
         /\ SmpRules(i)[8] = Rule(Beyond, Device)
BY DEF SmpRules, Kram, Kheap, Uram, CodeSmp, OwnStack, Window, RamSmp, UserSmp, Beyond

LEMMA SmpRegions ==
  ASSUME NEW i \in 4 .. 6, NEW s \in Int
  PROVE  /\ SmpStacks(i) = Stacks(i) /\ s \in Stacks(i) <=> 1 <= s /\ s <= 8 - i
         /\ s \in Kram(i)   <=> 496 <= s /\ s <= 543
         /\ s \in Kheap(i)  <=> 544 <= s /\ s <= 575
         /\ s \in Uram(i)   <=> 576 <= s /\ s <= 1519 - 128 * i
         /\ s \in DeviceOf(i) <=> s \in Periph \/ s \in Beyond
<1>1. i \in Int /\ ~(i < NumCpu) /\ 4 - (i - 4) = 8 - i
      /\ 1007 - 128 * (i - 4) = 1519 - 128 * i
  BY DEF NumCpu
<1>2. SmpStacks(i) = Stacks(i) /\ SmpStacks(i) = 1 .. 8 - i
  BY <1>1 DEF Stacks, SmpStacks, NumCpu
<1>3. Kram(i) = 496 .. 543
  BY <1>1 DEF Kram, KramArea, Sections, Area
<1>4. Kheap(i) = 544 .. 575
  BY <1>1 DEF Kheap, KheapArea, Sections, Area
<1>5. Uram(i) = 576 .. 1519 - 128 * i
  BY <1>1 DEF Uram, UramArea, Sections, Area, NumCpu
<1>6. s \in DeviceOf(i) <=> s \in Periph \/ s \in Beyond
  BY <1>1 DEF DeviceOf
<1>7. 8 - i \in Int /\ 1519 - 128 * i \in Int
  OBVIOUS
<1> QED
  BY <1>2, <1>3, <1>4, <1>5, <1>6, <1>7

SmpDesc(i, s) ==
  /\ s \in Low       => KernelDesc(i, s) = CodeSmp
  /\ s \in Stacks(i) => KernelDesc(i, s) = OwnStack
  /\ s \in Shared    => KernelDesc(i, s) = Window
  /\ s \in Kram(i)   => KernelDesc(i, s) = RamSmp
  /\ s \in Kheap(i)  => KernelDesc(i, s) = RamSmp
  /\ s \in Uram(i)   => KernelDesc(i, s) = UserSmp
  /\ s \in DeviceOf(i) => KernelDesc(i, s) = Device
  /\ s \notin Low \union Shared \union Stacks(i) \union Kram(i) \union Kheap(i)
              \union Uram(i) \union DeviceOf(i) => KernelDesc(i, s) = Fault

LEMMA SmpDescs ==
  ASSUME NEW i \in 4 .. 6, NEW s \in Int
  PROVE  SmpDesc(i, s)
<1> DEFINE r == SmpRules(i)
           b == 128 * i
<1>1. KernelDesc(i, s) = FirstMatch(r, s)
  BY DEF KernelDesc, NumCpu
<1>2. /\ r[1].desc = CodeSmp /\ r[2].desc = OwnStack /\ r[3].desc = Window
      /\ r[4].desc = RamSmp /\ r[5].desc = RamSmp /\ r[6].desc = UserSmp
      /\ r[7].desc = Device /\ r[8].desc = Device
  BY SmpParts DEF Rule
<1>3. DOMAIN r = 1 .. 8
  BY SmpParts
<1>4. /\ r[1].region = Low /\ r[2].region = SmpStacks(i) /\ r[3].region = Shared
      /\ r[4].region = Kram(i) /\ r[5].region = Kheap(i) /\ r[6].region = Uram(i)
      /\ r[7].region = Periph /\ r[8].region = Beyond
  BY SmpParts DEF Rule
<1>5. b \in Nat /\ 512 <= b /\ b <= 768 /\ i \in Nat /\ 4 <= i /\ i <= 6
  OBVIOUS
<1> HIDE DEF r
<1>6. /\ s \in r[1].region <=> s = 0
      /\ s \in r[3].region <=> 5 <= s /\ s <= 495
      /\ s \in r[7].region <=> 1008 <= s /\ s <= 1027
      /\ s \in r[8].region <=> 1029 <= s /\ s <= 4095
  <2>1. s \in r[1].region <=> s = 0
    BY <1>4 DEF Low
  <2>2. s \in r[3].region <=> 5 <= s /\ s <= 495
    BY <1>4 DEF Shared
  <2>3. s \in r[7].region <=> 1008 <= s /\ s <= 1027
    BY <1>4 DEF Periph
  <2>4. s \in r[8].region <=> 1029 <= s /\ s <= 4095
    <3>1. s \in Beyond <=> 1029 <= s /\ s <= 4095
      BY DEF Beyond, LastSection
    <3>2. r[8].region = Beyond
      BY <1>4
    <3> QED
      BY <3>1, <3>2
  <2> QED
    BY <2>1, <2>2, <2>3, <2>4
<1>7. /\ s \in r[2].region <=> 1 <= s /\ s <= 8 - i
      /\ s \in r[4].region <=> 496 <= s /\ s <= 543
      /\ s \in r[5].region <=> 544 <= s /\ s <= 575
      /\ s \in r[6].region <=> 576 <= s /\ s <= 1519 - b
  BY <1>4, SmpRegions
<1>8. \A j \in 1 .. 8 : j = 1 \/ j = 2 \/ j = 3 \/ j = 4 \/ j = 5 \/ j = 6 \/ j = 7 \/ j = 8
  OBVIOUS
<1> HIDE DEF b
<1>9. ASSUME NEW k \in 1 .. 8, s \in r[k].region PROVE FirstMatch(r, s) = r[k].desc
  <2>1. ASSUME NEW j \in 1 .. 8, s \in r[j].region PROVE k <= j
    BY <1>5, <1>6, <1>7, <1>8, <1>9, <2>1
  <2> DEFINE n == 8
  <2>2. n \in Nat /\ DOMAIN r = 1 .. n /\ k \in 1 .. n /\ s \in r[k].region
    BY <1>3, <1>9
  <2>3. \A j \in 1 .. n : s \in r[j].region => k <= j
    BY <2>1
  <2> HIDE DEF n
  <2> QED
    BY <2>2, <2>3, FirstHit
<1>10. /\ 1 \in 1 .. 8 /\ 2 \in 1 .. 8 /\ 3 \in 1 .. 8 /\ 4 \in 1 .. 8
       /\ 5 \in 1 .. 8 /\ 6 \in 1 .. 8 /\ 7 \in 1 .. 8 /\ 8 \in 1 .. 8
  OBVIOUS
<1>11. /\ SmpStacks(i) = Stacks(i)
       /\ s \in DeviceOf(i) <=> s \in Periph \/ s \in Beyond
  BY SmpRegions
<1>12. /\ s \in Low => KernelDesc(i, s) = CodeSmp
       /\ s \in Stacks(i) => KernelDesc(i, s) = OwnStack
       /\ s \in Shared => KernelDesc(i, s) = Window
       /\ s \in Kram(i) => KernelDesc(i, s) = RamSmp
  BY <1>1, <1>2, <1>4, <1>9, <1>10, <1>11, Zenon
<1>13. /\ s \in Kheap(i) => KernelDesc(i, s) = RamSmp
       /\ s \in Uram(i) => KernelDesc(i, s) = UserSmp
       /\ s \in DeviceOf(i) => KernelDesc(i, s) = Device
  BY <1>1, <1>2, <1>4, <1>9, <1>10, <1>11, Zenon
<1>14. ASSUME s \notin Low \union Shared \union Stacks(i) \union Kram(i)
                 \union Kheap(i) \union Uram(i) \union DeviceOf(i)
       PROVE  FirstMatch(r, s) = Fault
  <2>1. /\ s \notin Low /\ s \notin Shared /\ s \notin Stacks(i) /\ s \notin Kram(i)
        /\ s \notin Kheap(i) /\ s \notin Uram(i) /\ s \notin DeviceOf(i)
    BY <1>14, Zenon
  <2>2. /\ s \notin r[1].region /\ s \notin r[2].region /\ s \notin r[3].region
        /\ s \notin r[4].region /\ s \notin r[5].region /\ s \notin r[6].region
        /\ s \notin r[7].region /\ s \notin r[8].region
    BY <1>4, <1>11, <2>1, Zenon
  <2>3. \A j \in 1 .. 8 : s \notin r[j].region
    BY <1>8, <2>2, Zenon
  <2> QED
    BY <1>3, <2>3, NoHit, Zenon
<1> QED
  BY <1>1, <1>12, <1>13, <1>14, Zenon DEF SmpDesc
-----------------------------------------------------------------------------
(***************************************************************************)
(* Task tables.  Every slot lies above the SHARED window and below the     *)
(* devices.                                                                *)
(***************************************************************************)
LEMMA SlotPlace == ASSUME NEW ttba \in UserTtba PROVE ttba \in 528 .. 1006
<1>1. PICK i \in Struct :
        ttba \in UramArea(i).bottom .. UramArea(i).bottom + MaxNumTaskSpace(i) - 1
  BY UserTtbaAssumption
<1>2. i \in 0 .. 6
  BY <1>1 DEF Struct, NumCpu
<1>3. CASE i < 4
  <2>1. UramArea(i).bottom = 528 + 128 * i /\ UramArea(i).limit = 623 + 128 * i
    BY <1>2, <1>3 DEF UramArea, Area, AmpBase, NumCpu
  <2>2. MaxNumTaskSpace(i) = 95
    BY <1>2, <2>1 DEF MaxNumTaskSpace
  <2> QED
    BY <1>1, <1>2, <1>3, <2>1, <2>2
<1>4. CASE ~(i < 4)
  <2>1. UramArea(i).bottom = 576 /\ UramArea(i).limit = 1007 - 128 * (i - 4)
    BY <1>2, <1>4 DEF UramArea, Area, NumCpu
  <2>2. MaxNumTaskSpace(i) = 431 - 128 * (i - 4)
    BY <1>2, <2>1 DEF MaxNumTaskSpace
  <2> QED
    BY <1>1, <1>2, <1>4, <2>1, <2>2
<1> QED
  BY <1>3, <1>4

(* What the four rules of cre_usr_tbl make of a section. *)
LEMMA UserDescs ==
  ASSUME NEW ttba \in 528 .. 1006, NEW s \in Int
  PROVE  /\ 0 <= s /\ s <= ttba => FirstMatch(UserRules(ttba), s) = CodeAmp
         /\ s \in Periph => FirstMatch(UserRules(ttba), s) = Device
         /\ ~(0 <= s /\ s <= ttba) /\ s \notin Periph
               => FirstMatch(UserRules(ttba), s) = Fault
<1> DEFINE r == UserRules(ttba)
<1>1. /\ DOMAIN r = 1 .. 4
      /\ r[1] = Rule({ttba}, CodeAmp) /\ r[2] = Rule(0 .. ttba - 1, CodeAmp)
      /\ r[3] = Rule(Shared, Window) /\ r[4] = Rule(Periph, Device)
  BY DEF UserRules, CodeAmp, Window
<1> HIDE DEF r
<1>2. r[1].desc = CodeAmp /\ r[2].desc = CodeAmp /\ r[4].desc = Device
  BY <1>1 DEF Rule
<1>3. /\ r[1].region = {ttba} /\ r[2].region = 0 .. ttba - 1
      /\ r[3].region = Shared /\ r[4].region = Periph
  BY <1>1 DEF Rule
<1>4. /\ s \in r[1].region <=> s = ttba
      /\ s \in r[2].region <=> 0 <= s /\ s <= ttba - 1
      /\ s \in r[3].region <=> 5 <= s /\ s <= 495
      /\ s \in r[4].region <=> 1008 <= s /\ s <= 1027
  <2>1. s \in r[1].region <=> s = ttba
    BY <1>3
  <2>2. s \in r[2].region <=> 0 <= s /\ s <= ttba - 1
    BY <1>3
  <2>3. s \in r[3].region <=> 5 <= s /\ s <= 495
    BY <1>3 DEF Shared
  <2>4. s \in r[4].region <=> 1008 <= s /\ s <= 1027
    BY <1>3 DEF Periph
  <2> QED
    BY <2>1, <2>2, <2>3, <2>4
<1>5. \A j \in 1 .. 4 : j = 1 \/ j = 2 \/ j = 3 \/ j = 4
  OBVIOUS
<1>6. ASSUME NEW k \in 1 .. 4, s \in r[k].region,
             \A j \in 1 .. 4 : s \in r[j].region => k <= j
      PROVE  FirstMatch(r, s) = r[k].desc
  <2> DEFINE n == 4
  <2>1. /\ n \in Nat /\ DOMAIN r = 1 .. n /\ k \in 1 .. n
        /\ \A j \in 1 .. n : s \in r[j].region => k <= j
    BY <1>1, <1>6
  <2> HIDE DEF n
  <2> QED
    BY <1>6, <2>1, FirstHit
<1>7. ASSUME 0 <= s, s <= ttba PROVE FirstMatch(r, s) = CodeAmp
  <2>1. CASE s = ttba
    <3>1. s \in r[1].region /\ \A j \in 1 .. 4 : 1 <= j
      BY <1>4, <2>1
    <3> QED
      BY <1>2, <1>6, <3>1
  <2>2. CASE s # ttba
    <3>1. s \in r[2].region /\ s \notin r[1].region
      BY <1>4, <1>7, <2>2
    <3>2. \A j \in 1 .. 4 : s \in r[j].region => 2 <= j
      BY <1>5, <3>1
    <3> QED
      BY <1>2, <1>6, <3>1, <3>2
  <2> QED
    BY <2>1, <2>2
<1>8. ASSUME s \in Periph PROVE FirstMatch(r, s) = Device
  <2>1. /\ s \in r[4].region /\ s \notin r[1].region /\ s \notin r[2].region
        /\ s \notin r[3].region
    BY <1>3, <1>4, <1>8
  <2>2. \A j \in 1 .. 4 : s \in r[j].region => 4 <= j
    BY <1>5, <2>1
  <2> QED
    BY <1>2, <1>6, <2>1, <2>2
<1>9. ASSUME ~(0 <= s /\ s <= ttba), s \notin Periph PROVE FirstMatch(r, s) = Fault
  <2>1. /\ s \notin r[1].region /\ s \notin r[2].region
        /\ s \notin r[3].region /\ s \notin r[4].region
    BY <1>3, <1>4, <1>9
  <2>2. \A j \in DOMAIN r : s \notin r[j].region
    BY <1>1, <1>5, <2>1
  <2> QED
    BY <2>2, NoHit
<1> QED
  BY <1>7, <1>8, <1>9 DEF r
-----------------------------------------------------------------------------
(* Which descriptors there are, and that all but Fault map their section. *)
AnyMapped ==
  {CodeAmp, RamAmp, HeapAmp, UserAmp, CodeSmp, RamSmp, UserSmp, OwnStack, Window, Device}

SectionDesc ==
  [type : {"section"}, cache : {"WB_WA", "WB_NWA", "WT_NWA", "DEV"},
   shareable : BOOLEAN, user : BOOLEAN]

LEMMA MappedType ==
  ASSUME NEW c \in {"WB_WA", "WB_NWA", "WT_NWA", "DEV"}, NEW b \in BOOLEAN,
         NEW u \in BOOLEAN
  PROVE  Mapped(c, b, u) \in SectionDesc /\ IsMapped(Mapped(c, b, u))
BY DEF Mapped, SectionDesc, IsMapped

LEMMA MappedAll == \A d \in AnyMapped : d \in SectionDesc /\ IsMapped(d)
<1>1. TRUE \in BOOLEAN /\ FALSE \in BOOLEAN
  OBVIOUS
<1>2. \A c \in {"WB_WA", "WB_NWA", "WT_NWA", "DEV"} : \A b, u \in BOOLEAN :
        Mapped(c, b, u) \in SectionDesc /\ IsMapped(Mapped(c, b, u))
  BY MappedType
<1> QED
  BY <1>1, <1>2, Zenon DEF AnyMapped, CodeAmp, RamAmp, HeapAmp, UserAmp, CodeSmp,
     RamSmp, UserSmp, OwnStack, Window, Device

LEMMA FaultUnmapped == ~IsMapped(Fault)
BY DEF IsMapped, Fault

Tables == {Kernel(i) : i \in Struct} \union {User(t) : t \in UserTtba}

(* Every table has one of these descriptors for every section. *)
LEMMA DescKinds ==
  ASSUME NEW t \in Tables, NEW s \in Int
  PROVE  Desc(t, s) \in AnyMapped \union {Fault}
<1>1. ASSUME NEW i \in Struct, t = Kernel(i) PROVE Desc(t, s) \in AnyMapped \union {Fault}
  <2>1. Desc(t, s) = KernelDesc(i, s)
    BY <1>1 DEF Desc, Kernel
  <2>2. CASE i \in 0 .. 3
    BY <2>1, <2>2, AmpDescs, Zenon DEF AmpDesc, AnyMapped
  <2>3. CASE i \in 4 .. 6
    BY <2>1, <2>3, SmpDescs, Zenon DEF SmpDesc, AnyMapped
  <2>4. i \in 0 .. 3 \/ i \in 4 .. 6
    BY DEF Struct, NumCpu
  <2> QED
    BY <2>2, <2>3, <2>4
<1>2. ASSUME NEW ttba \in UserTtba, t = User(ttba)
      PROVE  Desc(t, s) \in AnyMapped \union {Fault}
  <2>1. Desc(t, s) = FirstMatch(UserRules(ttba), s)
    BY <1>2 DEF Desc, User
  <2>2. ttba \in 528 .. 1006
    BY SlotPlace
  <2>3. Desc(t, s) \in {CodeAmp, Device, Fault}
    BY <2>1, <2>2, UserDescs
  <2> QED
    BY <2>3, Zenon DEF AnyMapped
<1> QED
  BY <1>1, <1>2 DEF Tables

(***************************************************************************)
(* The inductive invariant: the loops stay inside a table, and the         *)
(* descriptor stored last is the one the rules give for its section.       *)
(***************************************************************************)
IInv == table \in Tables /\ va \in 0 .. LastSection /\ desc = Desc(table, va)

LEMMA StepKeeps == ASSUME IInv, [Next]_vars PROVE IInv'
<1>1. 0 \in 0 .. LastSection /\ LastSection \in Nat
  BY DEF LastSection
<1>2. ASSUME NEW t \in Tables, NEW s \in 0 .. LastSection, Store(t, s) PROVE IInv'
  BY <1>2, Zenon DEF Store, IInv
<1>3. CASE UNCHANGED vars
  BY <1>3, Zenon DEF vars, IInv
<1>4. CASE NextSection
  <2>1. va + 1 \in 0 .. LastSection
    BY <1>1, <1>4 DEF NextSection, IInv
  <2> QED
    BY <1>2, <1>4, <2>1 DEF NextSection, IInv
<1>5. CASE NextTable
  <2>1. Kernel(table.id + 1) \in Tables
    BY <1>5 DEF NextTable, Tables
  <2> QED
    BY <1>1, <1>2, <1>5, <2>1 DEF NextTable
<1>6. ASSUME NEW ttba \in UserTtba, CreUsrTbl(ttba) PROVE IInv'
  <2>1. User(ttba) \in Tables
    BY DEF Tables
  <2> QED
    BY <1>1, <1>2, <1>6, <2>1 DEF CreUsrTbl
<1> QED
  BY <1>3, <1>4, <1>5, <1>6 DEF Next

LEMMA Invariance == Spec => []IInv
<1>1. ASSUME Init PROVE IInv
  <2>1. 0 \in Struct /\ 0 \in 0 .. LastSection
    BY DEF Struct, NumCpu, LastSection
  <2>2. Kernel(0) \in Tables
    BY <2>1 DEF Tables
  <2> QED
    BY <1>1, <2>1, <2>2, Zenon DEF Init, IInv
<1>2. IInv /\ [Next]_vars => IInv'
  BY StepKeeps
<1> QED
  BY <1>1, <1>2, PTL DEF Spec

(* The loops write one of the tables, one of its sections, a descriptor. *)
THEOREM TypeCorrect == Spec => []TypeOK
<1>1. ASSUME IInv PROVE TypeOK
  <2>1. va \in Int
    BY <1>1 DEF IInv, LastSection
  <2>2. desc \in AnyMapped \union {Fault}
    BY <1>1, <2>1, DescKinds, Zenon DEF IInv
  <2>3. desc \in {Fault} \union SectionDesc
    BY <2>2, MappedAll, Zenon
  <2> QED
    BY <1>1, <2>3, Zenon DEF IInv, TypeOK, Tables, SectionDesc
<1> QED
  BY <1>1, Invariance, PTL
-----------------------------------------------------------------------------
(***************************************************************************)
(* Which structures a mode uses: the cores below 8 - i share structure i,  *)
(* the others have their own.                                              *)
(***************************************************************************)
LEMMA Modes ==
  ASSUME NEW pm \in ValidPm, NEW c \in Cpu, c \notin pm
  PROVE  \/ pm = {} \/ pm = {3} \/ pm = {2, 3}
<1>1. pm \subseteq {0, 1, 2, 3} /\ c \in {0, 1, 2, 3} /\ IsValidPm(pm)
  BY DEF ValidPm, Cpu, NumCpu
<1>2. /\ 0 \in pm => 1 \in pm /\ 2 \in pm /\ 3 \in pm
      /\ 0 \notin pm => 1 \notin pm /\ (3 \notin pm => 2 \notin pm)
  BY <1>1 DEF IsValidPm, IsAmp, IsSmp, PCore, NumCpu
<1>3. 0 \notin pm /\ 1 \notin pm /\ (3 \notin pm => 2 \notin pm)
  BY <1>1, <1>2
<1> QED
  BY <1>1, <1>3

LEMMA SmpStruct ==
  ASSUME NEW pm \in ValidPm, NEW c \in Cpu, c \notin pm
  PROVE  /\ SsiIndex(c, pm) \in 4 .. 6 /\ c < 8 - SsiIndex(c, pm)
         /\ \A d \in pm : d >= 8 - SsiIndex(c, pm)
         /\ \A d \in Cpu \ pm : SsiIndex(d, pm) = SsiIndex(c, pm)
<1>1. \A d \in Cpu \ pm : SsiIndex(d, pm) = 8 - SmpProcNum(pm)
  BY DEF SsiIndex, IsAmp, NumCpu, SmpProcNum
<1>2. c \in {0, 1, 2, 3}
  BY DEF Cpu, NumCpu
<1>3. CASE pm = {}
  <2>1. SmpProcNum(pm) = 4
    BY <1>3 DEF SmpProcNum
  <2> QED
    BY <1>1, <1>2, <1>3, <2>1
<1>4. CASE pm = {3}
  <2>1. SmpProcNum(pm) = 3
    BY <1>4 DEF SmpProcNum
  <2> QED
    BY <1>1, <1>2, <1>4, <2>1
<1>5. CASE pm = {2, 3}
  <2>1. SmpProcNum(pm) = 2
    BY <1>5 DEF SmpProcNum
  <2> QED
    BY <1>1, <1>2, <1>5, <2>1
<1> QED
  BY <1>3, <1>4, <1>5, Modes

LEMMA AmpStruct ==
  ASSUME NEW pm, NEW c \in Cpu, c \in pm
  PROVE  SsiIndex(c, pm) = c /\ c \in 0 .. 3
BY DEF SsiIndex, IsAmp, Cpu, NumCpu

(* A core that uses a kernel table finds its stack there. *)
LEMMA StackThere ==
  ASSUME NEW i \in Struct, NEW s \in StacksOf(Kernel(i))
  PROVE  s \in Stacks(i)
<1>1. PICK c \in Cpu, pm \in ValidPm : i = SsiIndex(c, pm) /\ s = 1 + c
  BY DEF StacksOf, Kernel
<1>2. c \in 0 .. 3
  BY DEF Cpu, NumCpu
<1>3. CASE c \in pm
  <2>1. i = c
    BY <1>1, <1>3, AmpStruct
  <2> QED
    BY <1>1, <1>2, <2>1 DEF Stacks, NumCpu
<1>4. CASE c \notin pm
  <2>1. i \in 4 .. 6 /\ c < 8 - i
    BY <1>1, <1>4, SmpStruct
  <2>2. s \in Int /\ 1 <= s /\ s <= 8 - i
    BY <1>1, <1>2, <2>1
  <2> QED
    BY <2>1, <2>2, SmpRegions
<1> QED
  BY <1>3, <1>4

(***************************************************************************)
(* Whatever table a core runs on, the table of any task slot included,     *)
(* taking an interrupt does not fault.                                     *)
(***************************************************************************)
THEOREM Reachable == Spec => []InterruptsReachable
<1>1. ASSUME IInv PROVE InterruptsReachable
  <2>0. SUFFICES ASSUME va \in Low \union StacksOf(table) \union {1008, 1010, 1024}
                 PROVE  IsMapped(desc)
    BY DEF InterruptsReachable
  <2>1. va \in Int /\ desc = Desc(table, va) /\ table \in Tables
    BY <1>1 DEF IInv, LastSection
  <2>2. va \in {1008, 1010, 1024} => va \in Periph
    BY DEF Periph
  <2>3. ASSUME NEW i \in Struct, table = Kernel(i) PROVE IsMapped(desc)
    <3>1. desc = KernelDesc(i, va)
      BY <2>1, <2>3 DEF Desc, Kernel
    <3>2. va \in Periph => va \in DeviceOf(i)
      BY DEF DeviceOf
    <3>3. va \in Low \/ va \in Stacks(i) \/ va \in DeviceOf(i)
      BY <2>0, <2>2, <2>3, <3>2, StackThere
    <3>4. CASE i \in 0 .. 3
      <4>1. AmpDesc(i, va)
        BY <2>1, <3>4, AmpDescs
      <4>2. desc \in AnyMapped
        BY <3>1, <3>3, <4>1, Zenon DEF AmpDesc, AnyMapped
      <4> QED
        BY <4>2, MappedAll
    <3>5. CASE i \in 4 .. 6
      <4>1. SmpDesc(i, va)
        BY <2>1, <3>5, SmpDescs
      <4>2. desc \in AnyMapped
        BY <3>1, <3>3, <4>1, Zenon DEF SmpDesc, AnyMapped
      <4> QED
        BY <4>2, MappedAll
    <3>6. i \in 0 .. 3 \/ i \in 4 .. 6
      BY DEF Struct, NumCpu
    <3> QED
      BY <3>4, <3>5, <3>6
  <2>4. ASSUME NEW ttba \in UserTtba, table = User(ttba) PROVE IsMapped(desc)
    <3>1. desc = FirstMatch(UserRules(ttba), va)
      BY <2>1, <2>4 DEF Desc, User
    <3>2. ttba \in 528 .. 1006
      BY SlotPlace
    <3>3. StacksOf(table) = 1 .. 4
      BY <2>4 DEF StacksOf, User, NumCpu
    <3>4. (0 <= va /\ va <= ttba) \/ va \in Periph
      BY <2>0, <2>2, <3>2, <3>3 DEF Low
    <3>5. desc = CodeAmp \/ desc = Device
      BY <2>1, <3>1, <3>2, <3>4, UserDescs
    <3> QED
      BY <3>5, MappedAll, Zenon DEF AnyMapped
  <2> QED
    BY <2>1, <2>3, <2>4 DEF Tables
<1> QED
  BY <1>1, Invariance, PTL
-----------------------------------------------------------------------------
(***************************************************************************)
(* A kernel maps what its structure has to itself, and with the attributes *)
(* given here the sections that all kernels share.                         *)
(***************************************************************************)
OwnSection(i, s) ==
  \/ i <= 3 /\ (s = 1 + i \/ (496 + 128 * i <= s /\ s <= 623 + 128 * i))
  \/ i >= 4 /\ ((1 <= s /\ s <= 8 - i) \/ (496 <= s /\ s <= 1519 - 128 * i))

CommonSection(s) == s = 0 \/ (5 <= s /\ s <= 495) \/ 1008 <= s

CommonDesc(s, d) ==
  \/ s \in Low /\ (d = CodeAmp \/ d = CodeSmp)
  \/ s \in Shared /\ d = Window
  \/ s >= 1008 /\ d = Device

LEMMA CommonPlace ==
  ASSUME NEW s \in Int, NEW d, CommonDesc(s, d)
  PROVE  CommonSection(s)
BY DEF CommonDesc, CommonSection, Low, Shared

LEMMA OwnOrCommon ==
  ASSUME NEW i \in Struct, NEW s \in Int, IsMapped(KernelDesc(i, s))
  PROVE  OwnSection(i, s) \/ CommonDesc(s, KernelDesc(i, s))
<1> DEFINE d == KernelDesc(i, s)
<1>1. d # Fault
  BY FaultUnmapped, Zenon
<1>2. s \in Periph => s >= 1008
  BY DEF Periph
<1>3. CASE i \in 0 .. 3
  <2>1. AmpDesc(i, s)
    BY <1>3, AmpDescs
  <2>2. \/ s \in Low /\ d = CodeAmp
        \/ s \in Shared /\ d = Window
        \/ s \in DeviceOf(i) /\ d = Device
        \/ s \in Stacks(i) \/ s \in Kram(i) \/ s \in Kheap(i) \/ s \in Uram(i)
    BY <1>1, <2>1, Zenon DEF AmpDesc
  <2>3. DeviceOf(i) = Periph
    BY <1>3 DEF DeviceOf, NumCpu
  <2>4. s \in Stacks(i) \/ s \in Kram(i) \/ s \in Kheap(i) \/ s \in Uram(i)
          => OwnSection(i, s)
    BY <1>3, AmpRegions DEF OwnSection
  <2> QED
    BY <1>2, <2>2, <2>3, <2>4 DEF CommonDesc
<1>4. CASE i \in 4 .. 6
  <2>1. SmpDesc(i, s)
    BY <1>4, SmpDescs
  <2>2. \/ s \in Low /\ d = CodeSmp
        \/ s \in Shared /\ d = Window
        \/ s \in DeviceOf(i) /\ d = Device
        \/ s \in Stacks(i) \/ s \in Kram(i) \/ s \in Kheap(i) \/ s \in Uram(i)
    BY <1>1, <2>1, Zenon DEF SmpDesc
  <2>3. s \in DeviceOf(i) => s \in Periph \/ s \in Beyond
    BY <1>4, SmpRegions
  <2>4. s \in Beyond => s >= 1008
    BY DEF Beyond, LastSection
  <2>5. s \in Stacks(i) \/ s \in Kram(i) \/ s \in Kheap(i) \/ s \in Uram(i)
          => OwnSection(i, s)
    BY <1>4, SmpRegions DEF OwnSection
  <2> QED
    BY <1>2, <2>2, <2>3, <2>4, <2>5 DEF CommonDesc
<1>5. i \in 0 .. 3 \/ i \in 4 .. 6
  BY DEF Struct, NumCpu
<1> QED
  BY <1>3, <1>4, <1>5

(***************************************************************************)
(* Structures that a mode runs side by side: two of AMP cores, or that of  *)
(* the SMP cores and one of an AMP core behind them.                       *)
(***************************************************************************)
LEMMA BesideCases ==
  ASSUME NEW i \in Struct, NEW j \in Beside[i]
  PROVE  /\ i \in 0 .. 6 /\ j \in 0 .. 6 /\ i # j
         /\ \/ i <= 3 /\ j <= 3
            \/ i <= 3 /\ j >= 4 /\ i >= 8 - j
            \/ j <= 3 /\ i >= 4 /\ j >= 8 - i
<1>1. /\ i \in 0 .. 6 /\ j \in 0 .. 6 /\ i # j
      /\ \E pm \in ValidPm, c, d \in Cpu : i = SsiIndex(c, pm) /\ j = SsiIndex(d, pm)
  BY DEF Beside, Struct, NumCpu
<1>2. PICK pm \in ValidPm, c \in Cpu, d \in Cpu : i = SsiIndex(c, pm) /\ j = SsiIndex(d, pm)
  BY <1>1
<1>3. CASE c \in pm /\ d \in pm
  BY <1>1, <1>2, <1>3, AmpStruct
<1>4. CASE c \in pm /\ d \notin pm
  <2>1. i = c /\ i <= 3
    BY <1>1, <1>2, <1>4, AmpStruct
  <2>2. j >= 4 /\ c >= 8 - j
    BY <1>2, <1>4, SmpStruct
  <2> QED
    BY <1>1, <2>1, <2>2
<1>5. CASE c \notin pm /\ d \in pm
  <2>1. j = d /\ j <= 3
    BY <1>1, <1>2, <1>5, AmpStruct
  <2>2. i >= 4 /\ d >= 8 - i
    BY <1>2, <1>5, SmpStruct
  <2> QED
    BY <1>1, <2>1, <2>2
<1>6. CASE c \notin pm /\ d \notin pm
  BY <1>1, <1>2, <1>6, SmpStruct
<1> QED
  BY <1>3, <1>4, <1>5, <1>6

LEMMA OwnApart ==
  ASSUME NEW i \in Struct, NEW j \in Beside[i], NEW s \in Int,
         OwnSection(i, s)
  PROVE  ~OwnSection(j, s) /\ ~CommonSection(s)
<1>1. /\ i \in 0 .. 6 /\ j \in 0 .. 6 /\ i # j
      /\ \/ i <= 3 /\ j <= 3
         \/ i <= 3 /\ j >= 4 /\ i >= 8 - j
         \/ j <= 3 /\ i >= 4 /\ j >= 8 - i
  BY BesideCases
<1> QED
  BY <1>1 DEF OwnSection, CommonSection

(* What both kernels map is common, and both have it among CommonDesc. *)
LEMMA BothMapped ==
  ASSUME NEW i \in Struct, NEW j \in Beside[i], NEW s \in Int,
         IsMapped(KernelDesc(i, s)), IsMapped(KernelDesc(j, s))
  PROVE  CommonDesc(s, KernelDesc(i, s)) /\ CommonDesc(s, KernelDesc(j, s))
<1>1. j \in Struct
  BY DEF Beside
<1>2. /\ OwnSection(i, s) \/ CommonDesc(s, KernelDesc(i, s))
      /\ OwnSection(j, s) \/ CommonDesc(s, KernelDesc(j, s))
  BY <1>1, OwnOrCommon
<1>3. ~OwnSection(i, s)
  BY <1>2, OwnApart, CommonPlace
<1>4. CommonSection(s)
  BY <1>2, <1>3, CommonPlace
<1>5. ~OwnSection(j, s)
  <2>1. j \in 0 .. 6
    BY BesideCases
  <2> QED
    BY <1>4, <2>1 DEF OwnSection, CommonSection
<1> QED
  BY <1>2, <1>3, <1>5

(***************************************************************************)
(* In every mode is_valid_pm accepts, kernels that run at the same time    *)
(* have nothing in common but the first megabyte, the window and devices.  *)
(***************************************************************************)
THEOREM Private == Spec => []PrivateToStructure
<1>1. ASSUME IInv PROVE PrivateToStructure
  <2>1. SUFFICES ASSUME table.kind = "kernel", IsMapped(desc), NEW j \in Beside[table.id],
                        IsMapped(KernelDesc(j, va))
                 PROVE  va \in Low \union Shared \union 1008 .. LastSection
    BY DEF PrivateToStructure
  <2>2. PICK i \in Struct : table = Kernel(i)
    BY <1>1, <2>1 DEF IInv, Tables, User
  <2>3. va \in Int /\ va <= LastSection
    BY <1>1 DEF IInv, LastSection
  <2>4. desc = KernelDesc(i, va) /\ j \in Beside[i]
    BY <1>1, <2>1, <2>2 DEF IInv, Desc, Kernel
  <2>5. CommonDesc(va, KernelDesc(j, va))
    BY <2>1, <2>3, <2>4, BothMapped
  <2>6. va \in Low \/ va \in Shared \/ va >= 1008
    BY <2>5 DEF CommonDesc
  <2> QED
    BY <2>3, <2>6 DEF LastSection
<1> QED
  BY <1>1, Invariance, PTL

(* The attributes of what is common agree. *)
LEMMA Agree ==
  ASSUME NEW s \in Int, NEW d, NEW e, CommonDesc(s, d), CommonDesc(s, e)
  PROVE  Inner(e) = Inner(d) /\ e.shareable = d.shareable /\ e.user = d.user
<1>1. d = e \/ (d \in {CodeAmp, CodeSmp} /\ e \in {CodeAmp, CodeSmp})
  BY DEF CommonDesc, Low, Shared
<1>2. Inner(CodeAmp) = Inner(CodeSmp)
  BY DEF Inner, CodeAmp, CodeSmp, Mapped
<1>3. CodeAmp.shareable = CodeSmp.shareable /\ CodeAmp.user = CodeSmp.user
  BY DEF CodeAmp, CodeSmp, Mapped
<1> QED
  BY <1>1, <1>2, <1>3, Zenon

(***************************************************************************)
(* Kernels that run at the same time give a section they both map the same *)
(* memory type, shareability, write policy and access.                     *)
(***************************************************************************)
THEOREM Consistent == Spec => []ConsistentAttributes
<1>1. ASSUME IInv PROVE ConsistentAttributes
  <2>1. ASSUME table.kind = "kernel", IsMapped(desc), NEW j \in Beside[table.id],
               IsMapped(KernelDesc(j, va))
        PROVE  /\ Inner(KernelDesc(j, va)) = Inner(desc)
               /\ KernelDesc(j, va).shareable = desc.shareable
               /\ KernelDesc(j, va).user = desc.user
    <3>1. PICK i \in Struct : table = Kernel(i)
      BY <1>1, <2>1 DEF IInv, Tables, User
    <3>2. va \in Int /\ desc = KernelDesc(i, va) /\ j \in Beside[i]
      BY <1>1, <2>1, <3>1 DEF IInv, Desc, Kernel, LastSection
    <3>3. CommonDesc(va, desc) /\ CommonDesc(va, KernelDesc(j, va))
      BY <2>1, <3>2, BothMapped
    <3> QED
      BY <3>2, <3>3, Agree, Zenon
  <2> QED
    BY <2>1, Zenon DEF ConsistentAttributes
<1> QED
  BY <1>1, Invariance, PTL
=============================================================================
