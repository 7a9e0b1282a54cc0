------------------------------ MODULE ProcMode ------------------------------
(***************************************************************************)
(* The processing mode of the machine (sysinfo.c) and the resources each   *)
(* mode hands to each core (sysconfs.c).  The mode pm is a word of four    *)
(* bits, bit n set when core n runs its own kernel (AMP) and clear when it *)
(* runs the kernel shared by the SMP cores; here it is the set of the      *)
(* cores whose bit is set.  RAM is counted in sections of 1 MB: an area is *)
(* [bottom |-> its first section, limit |-> its last one].                 *)
(***************************************************************************)
EXTENDS Integers

NumCpu == 4
PCore  == 0
Cpu    == 0 .. NumCpu - 1
Struct == 0 .. 2 * NumCpu - 2       \* the SysStructInfo of SYSStructTop

IsAmp(c, pm) == c \in pm
IsSmp(c, pm) == c \notin pm

(***************************************************************************)
(* is_valid_pm: with PCore in AMP every core is; otherwise core 1 is SMP   *)
(* and no SMP core follows an AMP one.                                     *)
(***************************************************************************)
IsValidPm(pm) ==
  IF IsAmp(PCore, pm)
  THEN \A c \in 1 .. NumCpu - 1 : IsAmp(c, pm)
  ELSE /\ IsSmp(1, pm)
       /\ \A c \in 1 .. NumCpu - 1 :
            IsSmp(c, pm) => \A d \in 1 .. c - 1 : IsSmp(d, pm)

ValidPm == {pm \in SUBSET Cpu : IsValidPm(pm)}

\* The macro SMP_PROC_NUM: 0xC, 0x8 and 0x0.
SmpProcNum(pm) == CASE pm = {2, 3} -> 2
                    [] pm = {3}    -> 3
                    [] pm = {}     -> 4
                    [] OTHER       -> 0

(***************************************************************************)
(* get_sys_struct_info_index for a valid mode: a core in AMP has a         *)
(* structure of its own, the SMP cores share the one of their number.      *)
(***************************************************************************)
SsiIndex(c, pm) ==
  IF IsAmp(c, pm) THEN c ELSE NumCpu + (NumCpu - SmpProcNum(pm))

Area(b, l) == [bottom |-> b, limit |-> l]

Sections(area) == area.bottom .. area.limit

\* Where the RAM of AMP core i starts: 0x1F000000 + i * 0x08000000.
AmpBase(i) == 496 + 128 * i

KramArea(i) ==
  IF i < NumCpu THEN Area(AmpBase(i), AmpBase(i) + 15) ELSE Area(496, 543)

KheapArea(i) ==
  IF i < NumCpu THEN Area(AmpBase(i) + 16, AmpBase(i) + 31) ELSE Area(544, 575)

\* 0x3EFFFFFF, 0x36FFFFFF and 0x2EFFFFFF end the user RAM of 4, 3 and 2 cores.
UramArea(i) ==
  IF i < NumCpu THEN Area(AmpBase(i) + 32, AmpBase(i) + 127)
                ELSE Area(576, 1007 - 128 * (i - NumCpu))

\* init_sysinfos: (limit - bottom) / SECTION_SIZE, limit being inclusive.
MaxNumTaskSpace(i) == UramArea(i).limit - UramArea(i).bottom

(***************************************************************************)
(* The address space identifiers of a structure, for asidSize identifiers  *)
(* per core: [bottom, limit), limit excluded.                              *)
(***************************************************************************)
AsidBottom(i, asidSize) == IF i < NumCpu THEN i * asidSize ELSE 0
AsidLimit(i, asidSize)  == IF i < NumCpu THEN (i + 1) * asidSize
                                         ELSE (2 * NumCpu - i) * asidSize
=============================================================================
