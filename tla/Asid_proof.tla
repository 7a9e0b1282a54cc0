----------------------------- MODULE Asid_proof -----------------------------
(***************************************************************************)
(* Proofs about the address space identifiers, for any set of tasks, any   *)
(* number of identifiers per core, any number of mode changes and whatever *)
(* the callers do: each property names the misuses it does not hold after. *)
(***************************************************************************)
EXTENDS Asid, TLAPS

(***************************************************************************)
(* The modes is_valid_pm accepts, and the structure of each core in them.  *)
(***************************************************************************)
LEMMA ValidModes ==
  ASSUME NEW m \in ValidPm
  PROVE  m = {} \/ m = {3} \/ m = {2, 3} \/ m = {0, 1, 2, 3}
<1>1. m \subseteq {0, 1, 2, 3} /\ IsValidPm(m)
  BY DEF ValidPm, Cpu, NumCpu
<1>2. CASE 0 \in m
  <2>1. \A c \in {1, 2, 3} : c \in m
    BY <1>1, <1>2 DEF IsValidPm, IsAmp, PCore, NumCpu
  <2> QED
    BY <1>1, <1>2, <2>1
<1>3. CASE 0 \notin m
  <2>1. 1 \notin m
    BY <1>1, <1>3 DEF IsValidPm, IsAmp, IsSmp, PCore
  <2>2. 2 \in m => 3 \in m
    BY <1>1, <1>3 DEF IsValidPm, IsAmp, IsSmp, PCore, NumCpu
  <2> QED
    BY <1>1, <1>3, <2>1, <2>2
<1> QED
  BY <1>2, <1>3

LEMMA IndexCases ==
  ASSUME NEW m \in ValidPm, NEW c \in Cpu
  PROVE  \/ c \in m /\ SsiIndex(c, m) = c
         \/ m = {} /\ SsiIndex(c, m) = 4
         \/ m = {3} /\ c \in {0, 1, 2} /\ SsiIndex(c, m) = 5
         \/ m = {2, 3} /\ c \in {0, 1} /\ SsiIndex(c, m) = 6
<1>1. c \in {0, 1, 2, 3}
  BY DEF Cpu, NumCpu
<1>2. CASE m = {}
  BY <1>2 DEF SsiIndex, SmpProcNum, IsAmp, NumCpu
<1>3. CASE m = {3}
  <2>1. SmpProcNum(m) = 3
    BY <1>3 DEF SmpProcNum
  <2> QED
    BY <1>1, <1>3, <2>1 DEF SsiIndex, IsAmp, NumCpu
<1>4. CASE m = {2, 3}
  <2>1. SmpProcNum(m) = 2
    BY <1>4 DEF SmpProcNum
  <2> QED
    BY <1>1, <1>4, <2>1 DEF SsiIndex, IsAmp, NumCpu
<1>5. CASE m = {0, 1, 2, 3}
  BY <1>1, <1>5 DEF SsiIndex, IsAmp
<1> QED
  BY ValidModes, <1>2, <1>3, <1>4, <1>5

(* No core in AMP is a mode. *)
LEMMA NoAmp == {} \in ValidPm
<1>1. IsValidPm({})
  BY DEF IsValidPm, IsAmp, IsSmp, PCore, NumCpu
<1> QED
  BY <1>1 DEF ValidPm

(***************************************************************************)
(* The area of each structure: what sysconfs.c says, multiplied out.       *)
(***************************************************************************)
LEMMA Areas ==
  /\ Bottom(0) = 0 /\ Limit(0) = AsidSize
  /\ Bottom(1) = AsidSize /\ Limit(1) = 2 * AsidSize
  /\ Bottom(2) = 2 * AsidSize /\ Limit(2) = 3 * AsidSize
  /\ Bottom(3) = 3 * AsidSize /\ Limit(3) = 4 * AsidSize
  /\ Bottom(4) = 0 /\ Limit(4) = 4 * AsidSize
  /\ Bottom(5) = 0 /\ Limit(5) = 3 * AsidSize
  /\ Bottom(6) = 0 /\ Limit(6) = 2 * AsidSize
BY AsidSizeAssumption DEF Bottom, Limit, AsidBottom, AsidLimit, NumCpu

(***************************************************************************)
(* An area lies inside the array and has room for the reserved identifier  *)
(* or the kernel's one.                                                    *)
(***************************************************************************)
LEMMA AreaBounds ==
  ASSUME NEW i \in Struct
  PROVE  /\ Bottom(i) \in Nat /\ Limit(i) \in Nat
         /\ Bottom(i) + 2 <= Limit(i) /\ Limit(i) <= NumAsid
         /\ FirstUser(i) \in Nat /\ Bottom(i) + 1 <= FirstUser(i)
         /\ FirstUser(i) <= NumAsid
<1>1. i \in {0, 1, 2, 3, 4, 5, 6}
  BY DEF Struct, NumCpu
<1>2. AsidSize \in Nat /\ AsidSize >= 2
  BY AsidSizeAssumption
<1>3. NumAsid = 4 * AsidSize
  BY DEF NumAsid, NumCpu
<1>4. /\ Bottom(i) \in Nat /\ Limit(i) \in Nat
      /\ Bottom(i) + 2 <= Limit(i) /\ Limit(i) <= NumAsid
  BY <1>1, <1>2, <1>3, Areas
<1> QED
  BY <1>4, <1>2, <1>3 DEF FirstUser, Reserved

(***************************************************************************)
(* In a valid mode, different structures have disjoint areas, and cores    *)
(* that share a structure share one whose area starts with the reserved    *)
(* identifier.                                                             *)
(***************************************************************************)
LEMMA Disjoint ==
  ASSUME NEW m \in ValidPm, NEW c \in Cpu, NEW d \in Cpu
  PROVE  LET i == SsiIndex(c, m)
             j == SsiIndex(d, m)
         IN  /\ i \in Struct
             /\ i # j => Limit(i) <= Bottom(j) \/ Limit(j) <= Bottom(i)
             /\ i = j /\ c # d => Bottom(i) = 0
<1>1. c \in {0, 1, 2, 3} /\ d \in {0, 1, 2, 3}
  BY DEF Cpu, NumCpu
<1>2. AsidSize \in Nat /\ AsidSize >= 2
  BY AsidSizeAssumption
<1>3. Struct = 0 .. 6
  BY DEF Struct, NumCpu
<1>4. CASE m = {}
  <2>1. SsiIndex(c, m) = 4 /\ SsiIndex(d, m) = 4
    BY <1>4, IndexCases
  <2> QED
    BY <2>1, <1>3, Areas
<1>5. CASE m = {3}
  <2>1. SsiIndex(c, m) = IF c = 3 THEN 3 ELSE 5
    BY <1>1, <1>5, IndexCases
  <2>2. SsiIndex(d, m) = IF d = 3 THEN 3 ELSE 5
    BY <1>1, <1>5, IndexCases
  <2> QED
    BY <2>1, <2>2, <1>1, <1>2, <1>3, Areas
<1>6. CASE m = {2, 3}
  <2>1. SsiIndex(c, m) = IF c \in {2, 3} THEN c ELSE 6
    BY <1>1, <1>6, IndexCases
  <2>2. SsiIndex(d, m) = IF d \in {2, 3} THEN d ELSE 6
    BY <1>1, <1>6, IndexCases
  <2> QED
    BY <2>1, <2>2, <1>1, <1>2, <1>3, Areas
<1>7. CASE m = {0, 1, 2, 3}
  <2>1. SsiIndex(c, m) = c /\ SsiIndex(d, m) = d
    BY <1>1, <1>7, IndexCases
  <2> QED
    BY <2>1, <1>1, <1>2, <1>3, Areas
<1> QED
  BY ValidModes, <1>4, <1>5, <1>6, <1>7
-----------------------------------------------------------------------------
(***************************************************************************)
(* Each step of Next, one by one.                                          *)
(***************************************************************************)
LEMMA NextCases ==
  ASSUME Next
  PROVE  \/ \E c \in Running : \/ Scan(c) \/ Exhausted(c) \/ Claim(c)
                              \/ SetReserved(c) \/ SetTable(c) \/ SetAsid(c)
                              \/ End(c) \/ StartMmu(c)
         \/ \E c \in Running, t \in Task : BeginSwitch(c, t)
         \/ \E t \in Task : Create(t) \/ Destroy(t)
         \/ \E new \in ValidPm : ChangePm(new)
BY DEF Next, Switch

(* The structure a core inside a switch allocates from. *)
LEMMA SsiInStruct ==
  ASSUME TypeOK, NEW c \in Running
  PROVE  Ssi(c) \in Struct /\ SsiIndex(c, pm) \in Struct
BY RunningAssumption, Disjoint DEF TypeOK, Ssi

(* The low byte of an identifier, or of ErrorAsid, is an identifier. *)
LEMMA LowByte ==
  ASSUME NEW a \in AsidId \union {NumAsid, ErrorAsid}
  PROVE  a % NumAsid \in AsidId
<1>1. NumAsid \in Nat /\ NumAsid > 0
  BY AsidSizeAssumption DEF NumAsid, NumCpu
<1>2. a \in Int
  BY <1>1 DEF AsidId, ErrorAsid
<1> QED
  BY <1>1, <1>2 DEF AsidId

(* A local identifier below the limit of the area is one of the array. *)
LEMMA InsideArray ==
  ASSUME IInv, NEW c \in Running, pc[c] \in {"scan", "claim"},
         asid[c] < Limit(Ssi(c))
  PROVE  /\ asid[c] \in AsidId /\ asid[c] # 0 /\ asid[c] + 1 \in AsidId \union {NumAsid}
         /\ cur[c] \in Task /\ task[cur[c]].state = "live"
         /\ Ssi(c) \in Struct
<1>1. Ssi(c) \in Struct
  BY SsiInStruct DEF IInv
<1>2. /\ Limit(Ssi(c)) \in Nat /\ Limit(Ssi(c)) <= NumAsid
      /\ Bottom(Ssi(c)) \in Nat
      /\ FirstUser(Ssi(c)) \in Nat /\ Bottom(Ssi(c)) + 1 <= FirstUser(Ssi(c))
  BY <1>1, AreaBounds
<1>3. asid[c] \in Nat /\ FirstUser(Ssi(c)) <= asid[c] /\ cur[c] \in Live
  BY DEF IInv, ScanInArea
<1>4. NumAsid \in Nat
  BY AsidSizeAssumption DEF NumAsid, NumCpu
<1> QED
  BY <1>1, <1>2, <1>3, <1>4 DEF AsidId, Live

(***************************************************************************)
(* A misuse is never forgotten: what has not happened after a step had not *)
(* happened before it.  The fewer misuses are excluded, the weaker it is.  *)
(***************************************************************************)
Remembered ==
  /\ Without({"mode"})' => Without({"mode"})
  /\ Without({"late", "mode"})' => Without({"late", "mode"})
  /\ Without({"late", "mode", "kernel"})' => Without({"late", "mode", "kernel"})
  /\ Without({"table"})' => Without({"table"})

LEMMA Remembers == ASSUME misuse \subseteq misuse' PROVE Remembered
BY DEF Remembered, Without

LEMMA Weaker ==
  /\ Without({"late", "mode"}) => Without({"mode"})
  /\ Without({"late", "mode", "kernel"}) => Without({"late", "mode"})
BY DEF Without

LEMMA WeakerNext ==
  /\ Without({"late", "mode"})' => Without({"mode"})'
  /\ Without({"late", "mode", "kernel"})' => Without({"late", "mode"})'
BY DEF Without

(***************************************************************************)
(* A scan passes over an active identifier, or takes the lock of the       *)
(* structure with an identifier that is not active.                        *)
(***************************************************************************)
LEMMA ScanKeeps == ASSUME IInv, NEW c \in Running, Scan(c) PROVE IInv'
<1> USE DEF IInv, Scan, callVars
<1>0. Remembered
  BY Remembers DEF IInv, Scan, callVars
<1> USE <1>0 DEF Remembered
<1>1. /\ asid[c] \in AsidId /\ asid[c] + 1 \in AsidId \union {NumAsid}
      /\ Ssi(c) \in Struct
  BY InsideArray
<1>2. TypeOK'
  BY <1>1 DEF TypeOK, Location
<1>3. AsidExclusive' /\ HeldIsActive' /\ KernelAsidPrivate'
  BY DEF AsidExclusive, OneOwner, HeldIsActive, KernelAsidPrivate, NoTaskHas, Live
<1>4. \A d \in Running : Ssi(d)' = Ssi(d)
  BY DEF Ssi
<1>5. ClaimStillFree'
  <2>1. CASE head[asid[c]] = "ACTIVE"
    <3>1. pc' = pc /\ ssiLock' = ssiLock /\ head' = head
      BY <2>1
    <3>2. \A d \in Running : pc[d] = "claim" => asid'[d] = asid[d]
      BY DEF TypeOK
    <3>3. \A d \in Running : pc[d] = "claim" =>
            ssiLock'[Ssi(d)'] = d /\ (Without({"mode"})' => head'[asid'[d]] # "ACTIVE")
      BY <1>4, <3>1, <3>2 DEF ClaimStillFree
    <3> QED
      BY <3>1, <3>3 DEF ClaimStillFree
  <2>2. CASE head[asid[c]] # "ACTIVE"
    <3>1. \A d \in Running : d # Free
      BY RunningAssumption DEF Free, Cpu, NumCpu
    <3>2. \A d \in Running \ {c} : pc[d] = "claim" => Ssi(d) # Ssi(c)
      BY <3>1 DEF ClaimStillFree
    <3>3. pc'[c] = "claim" /\ ssiLock'[Ssi(c)] = c /\ asid'[c] = asid[c] /\ head' = head
      BY <1>1, <2>2 DEF TypeOK
    <3>4. \A d \in Running \ {c} : pc'[d] = pc[d] /\ asid'[d] = asid[d]
      BY <2>2 DEF TypeOK
    <3>5. \A d \in Running \ {c} : pc[d] = "claim" => ssiLock'[Ssi(d)] = ssiLock[Ssi(d)]
      BY <2>2, <3>2, SsiInStruct DEF TypeOK
    <3>6. \A d \in Running : pc'[d] = "claim" =>
            ssiLock'[Ssi(d)] = d /\ (Without({"mode"})' => head'[asid'[d]] # "ACTIVE")
      BY <2>2, <3>3, <3>4, <3>5 DEF ClaimStillFree
    <3> QED
      BY <1>4, <3>6 DEF ClaimStillFree
  <2> QED
    BY <2>1, <2>2
<1>6. ScanInArea'
  <2>1. Limit(Ssi(c)) \in Nat /\ FirstUser(Ssi(c)) \in Nat
    BY <1>1, AreaBounds
  <2>2. asid[c] \in Nat /\ FirstUser(Ssi(c)) <= asid[c]
    BY DEF ScanInArea
  <2>3. /\ asid'[c] \in Nat /\ FirstUser(Ssi(c)) <= asid'[c]
        /\ pc'[c] = "claim" => asid'[c] < Limit(Ssi(c))
        /\ pc'[c] \in {"scan", "claim"}
    BY <2>1, <2>2 DEF TypeOK
  <2>4. \A d \in Running \ {c} : pc'[d] = pc[d] /\ asid'[d] = asid[d]
    BY DEF TypeOK
  <2>5. FirstUser(Ssi(c))' = FirstUser(Ssi(c)) /\ Limit(Ssi(c))' = Limit(Ssi(c))
    BY <1>4
  <2> QED
    BY <1>4, <2>3, <2>4, <2>5 DEF ScanInArea, Live
<1> QED
  BY <1>2, <1>3, <1>5, <1>6

LEMMA ExhaustedKeeps == ASSUME IInv, NEW c \in Running, Exhausted(c) PROVE IInv'
<1> USE DEF IInv, Exhausted, callVars
<1>0. Remembered
  BY Remembers DEF IInv, Exhausted, callVars
<1> USE <1>0 DEF Remembered
<1>1. TypeOK'
  BY DEF TypeOK, Location
<1>2. AsidExclusive' /\ HeldIsActive' /\ KernelAsidPrivate'
  BY DEF AsidExclusive, OneOwner, HeldIsActive, KernelAsidPrivate, NoTaskHas, Live
<1>3. \A d \in Running : Ssi(d)' = Ssi(d)
  BY DEF Ssi
<1>4. ClaimStillFree'
  BY <1>3 DEF ClaimStillFree, TypeOK
<1>5. ScanInArea'
  BY <1>3 DEF ScanInArea, TypeOK, Live
<1> QED
  BY <1>1, <1>2, <1>4, <1>5

(***************************************************************************)
(* The claim: no live task and no kernel has the identifier, because it is *)
(* not active, and no other core is about to claim it, because it has      *)
(* either the same lock or a disjoint area.                                *)
(***************************************************************************)
LEMMA ClaimKeeps == ASSUME IInv, NEW c \in Running, Claim(c) PROVE IInv'
<1> USE DEF IInv, Claim, callVars
<1>0. Remembered
  BY Remembers DEF IInv, Claim, callVars
<1> USE <1>0 DEF Remembered
<1>1. /\ asid[c] \in AsidId /\ asid[c] # 0 /\ Ssi(c) \in Struct
      /\ cur[c] \in Task /\ task[cur[c]].state = "live"
      /\ asid[c] < Limit(Ssi(c))
  BY InsideArray DEF ScanInArea
<1>2. ssiLock[Ssi(c)] = c /\ (Without({"mode"}) => head[asid[c]] # "ACTIVE")
  BY DEF ClaimStillFree
<1>3. Without({"late", "mode"}) => NoTaskHas(asid[c])
  BY <1>1, <1>2, Weaker DEF HeldIsActive, NoTaskHas
<1>4. Live' = Live
  BY <1>1 DEF Live, TypeOK
<1>5. \A t \in Live : task'[t].asid = IF t = cur[c] THEN asid[c] ELSE task[t].asid
  BY <1>1 DEF Live, TypeOK
<1>6. TypeOK'
  BY <1>1 DEF TypeOK, Location, Status
<1>7. AsidExclusive'
  BY <1>3, <1>4, <1>5 DEF AsidExclusive, OneOwner, NoTaskHas
<1>8. HeldIsActive'
  BY <1>1, <1>4, <1>5 DEF HeldIsActive, TypeOK, Live
<1>9. KernelAsidPrivate'
  BY <1>1, <1>2, <1>4, <1>5, Weaker DEF KernelAsidPrivate, NoTaskHas, TypeOK
<1>10. \A d \in Running : Ssi(d)' = Ssi(d)
  BY DEF Ssi
<1>11. ClaimStillFree'
  <2> SUFFICES ASSUME NEW d \in Running, pc'[d] = "claim"
               PROVE  ssiLock'[Ssi(d)] = d /\ (Without({"mode"})' => head'[asid[d]] # "ACTIVE")
    BY <1>10 DEF ClaimStillFree
  <2>1. d # c /\ pc[d] = "claim"
    BY DEF TypeOK
  <2>2. /\ ssiLock[Ssi(d)] = d /\ (Without({"mode"}) => head[asid[d]] # "ACTIVE")
        /\ asid[d] \in AsidId /\ asid[d] < Limit(Ssi(d)) /\ Ssi(d) \in Struct
    BY <2>1, InsideArray DEF ClaimStillFree, ScanInArea
  <2>3. Ssi(c) # Ssi(d)
    BY <1>2, <2>1, <2>2
  <2>4. /\ Without({"mode"}) => cpm[c] = pm /\ cpm[d] = pm
        /\ pm \in ValidPm /\ c \in Cpu /\ d \in Cpu
    BY <2>1, RunningAssumption DEF ScanInArea, TypeOK
  <2>5. Without({"mode"}) => Limit(Ssi(c)) <= Bottom(Ssi(d)) \/ Limit(Ssi(d)) <= Bottom(Ssi(c))
    BY <2>3, <2>4, Disjoint DEF Ssi
  <2>6. /\ FirstUser(Ssi(c)) <= asid[c] /\ Bottom(Ssi(c)) + 1 <= FirstUser(Ssi(c))
        /\ FirstUser(Ssi(c)) \in Nat /\ Limit(Ssi(c)) \in Nat /\ Bottom(Ssi(c)) \in Nat
    BY <1>1, AreaBounds DEF ScanInArea
  <2>7. /\ FirstUser(Ssi(d)) <= asid[d] /\ Bottom(Ssi(d)) + 1 <= FirstUser(Ssi(d))
        /\ FirstUser(Ssi(d)) \in Nat /\ Limit(Ssi(d)) \in Nat /\ Bottom(Ssi(d)) \in Nat
    BY <2>1, <2>2, AreaBounds DEF ScanInArea
  <2>8. Without({"mode"}) => asid[c] # asid[d]
    BY <1>1, <2>2, <2>5, <2>6, <2>7 DEF AsidId
  <2> QED
    BY <1>1, <2>2, <2>3, <2>8 DEF TypeOK
<1>12. ScanInArea'
  <2>1. \A d \in Running \ {c} : pc[d] \in {"scan", "claim"} => cur[d] # cur[c]
    BY <1>1, KernelNoTask DEF ScanInArea
  <2>2. \A d \in Running \ {c} : pc[d] \in {"scan", "claim"} =>
          cur[d] \in Live /\ task'[cur[d]].asid = 0
    BY <2>1, <1>5 DEF ScanInArea
  <2> QED
    BY <1>4, <1>10, <2>2 DEF ScanInArea, TypeOK
<1> QED
  BY <1>6, <1>7, <1>8, <1>9, <1>11, <1>12

(***************************************************************************)
(* The writes to CONTEXTIDR and the table register touch only the core.    *)
(***************************************************************************)
LEMMA InstallKeeps ==
  ASSUME IInv, NEW c \in Running,
         NEW from \in {"reserve", "table", "asid"}, NEW to \in {"table", "asid", "idle"},
         NEW n \in [asid : AsidId, table : Task \union {Kernel}],
         Install(c, from, to, n)
  PROVE  IInv'
<1> USE DEF IInv, Install, callVars
<1>0. Remembered
  BY Remembers DEF IInv, Install, callVars
<1> USE <1>0 DEF Remembered
<1>a. {} \in ValidPm /\ 0 \in AsidId
  BY NoAmp, AsidSizeAssumption DEF AsidId, NumAsid, NumCpu
<1>1. TypeOK'
  BY <1>a DEF TypeOK, Location, Return
<1>2. AsidExclusive' /\ HeldIsActive' /\ KernelAsidPrivate'
  BY DEF AsidExclusive, OneOwner, HeldIsActive, KernelAsidPrivate, NoTaskHas, Live
<1>3. \A d \in Running \ {c} : /\ Ssi(d)' = Ssi(d) /\ pc'[d] = pc[d]
                                /\ asid'[d] = asid[d] /\ cpm'[d] = cpm[d]
  BY DEF Ssi, Return, TypeOK
<1>4. pc'[c] \in {"table", "asid", "idle"} /\ (to # "idle" => cpm'[c] = cpm[c])
      /\ (pc'[c] # "idle" => to # "idle") /\ pc[c] # "idle"
  BY DEF Return, TypeOK
<1>5. ClaimStillFree'
  BY <1>3, <1>4 DEF ClaimStillFree
<1>6. ScanInArea'
  <2>1. \A d \in Running \ {c} : FirstUser(Ssi(d))' = FirstUser(Ssi(d))
                                  /\ Limit(Ssi(d))' = Limit(Ssi(d))
    BY <1>3
  <2> QED
    BY <1>3, <1>4, <2>1 DEF ScanInArea, Live
<1> QED
  BY <1>1, <1>2, <1>5, <1>6

LEMMA SetKeeps ==
  ASSUME IInv, NEW c \in Running, SetReserved(c) \/ SetTable(c) \/ SetAsid(c)
  PROVE  IInv'
<1>1. /\ ctx[c] \in [asid : AsidId, table : Task \union {Kernel}]
      /\ cur[c] \in Task \union {Kernel}
      /\ asid[c] \in AsidId \union {NumAsid, ErrorAsid}
  BY DEF IInv, TypeOK
<1>2. 0 \in AsidId
  BY AsidSizeAssumption DEF AsidId, NumAsid, NumCpu
<1>3. CASE SetReserved(c)
  BY <1>1, <1>2, <1>3, InstallKeeps DEF SetReserved, Reserved
<1>4. CASE SetTable(c)
  BY <1>1, <1>4, InstallKeeps DEF SetTable
<1>5. CASE SetAsid(c)
  BY <1>1, <1>5, LowByte, InstallKeeps DEF SetAsid
<1> QED
  BY <1>3, <1>4, <1>5

(***************************************************************************)
(* A switch begins: with the identifier the task has, or a scan from the   *)
(* first identifier of the area of the mode the core is given.             *)
(***************************************************************************)
LEMMA BeginKeeps ==
  ASSUME IInv, NEW c \in Running, NEW t \in Task, BeginSwitch(c, t)
  PROVE  IInv'
<1> USE DEF IInv, BeginSwitch, callVars
<1>0. Remembered
  BY Remembers DEF IInv, BeginSwitch, callVars
<1> USE <1>0 DEF Remembered
<1>a. NumAsid \in Nat
  BY AsidSizeAssumption DEF NumAsid, NumCpu
<1>1. /\ SsiIndex(c, pm) \in Struct
      /\ FirstUser(SsiIndex(c, pm)) \in Nat /\ FirstUser(SsiIndex(c, pm)) <= NumAsid
  BY SsiInStruct, AreaBounds
<1>2. FirstUser(SsiIndex(c, pm)) \in AsidId \union {NumAsid, ErrorAsid}
  BY <1>a, <1>1 DEF AsidId
<1>3. task[t].asid \in AsidId
  BY DEF TypeOK
<1>4. TypeOK'
  BY <1>2, <1>3 DEF TypeOK, Location
<1>5. AsidExclusive' /\ HeldIsActive' /\ KernelAsidPrivate'
  BY DEF AsidExclusive, OneOwner, HeldIsActive, KernelAsidPrivate, NoTaskHas, Live
<1>6. Ssi(c)' = SsiIndex(c, pm) /\ \A d \in Running \ {c} : Ssi(d)' = Ssi(d)
  BY DEF Ssi, TypeOK
<1>7. pc'[c] \in {"scan", "reserve"} /\ cur'[c] = t /\ cpm'[c] = pm
  BY DEF TypeOK
<1>8. \A d \in Running \ {c} : /\ pc'[d] = pc[d] /\ cur'[d] = cur[d]
                                /\ cpm'[d] = cpm[d] /\ asid'[d] = asid[d]
  BY DEF TypeOK
<1>9. ClaimStillFree'
  BY <1>6, <1>7, <1>8 DEF ClaimStillFree
<1>10. ScanInArea'
  <2>1. pc'[c] = "scan" => task[t].asid = 0 /\ asid'[c] = FirstUser(SsiIndex(c, pm))
    BY DEF TypeOK
  <2>2. \A d \in Running \ {c} : FirstUser(Ssi(d))' = FirstUser(Ssi(d))
                                  /\ Limit(Ssi(d))' = Limit(Ssi(d))
    BY <1>6
  <2>3. FirstUser(Ssi(c))' = FirstUser(SsiIndex(c, pm))
    BY <1>6
  <2>4. t \in Live /\ Live' = Live
    BY DEF Live
  <2>5. \A d, e \in Running : cur'[d] = cur'[e] /\ cur'[d] # Kernel => d = e
    BY <1>7, <1>8 DEF ScanInArea
  <2>6. Without({"mode"})' => \A d \in Running : pc'[d] # "idle" => cpm'[d] = pm
    BY <1>7, <1>8 DEF ScanInArea
  <2>7. \A d \in Running : pc'[d] = "claim" => asid'[d] < Limit(Ssi(d))'
    BY <1>7, <1>8, <2>2 DEF ScanInArea
  <2>8. \A d \in Running : pc'[d] \in {"scan", "claim"} =>
          /\ cur'[d] \in Live /\ task[cur'[d]].asid = 0
          /\ asid'[d] \in Nat /\ FirstUser(Ssi(d))' <= asid'[d]
    BY <1>1, <1>7, <1>8, <2>1, <2>2, <2>3, <2>4 DEF ScanInArea
  <2> QED
    BY <2>4, <2>5, <2>6, <2>7, <2>8 DEF ScanInArea
<1> QED
  BY <1>4, <1>5, <1>9, <1>10

(***************************************************************************)
(* The operations that never touch a core inside a switch: what such a     *)
(* core relies on is kept when its task, its mode and the locks are.       *)
(***************************************************************************)
LEMMA ScanInAreaKept ==
  ASSUME IInv, ScanInArea, Remembered, UNCHANGED <<pc, cpm, asid, pm, kernelAsids>>,
         \A c \in Running : cur'[c] = cur[c] \/ cur'[c] = Kernel,
         \A c \in Running : pc[c] \in {"scan", "claim"} =>
           /\ cur'[c] = cur[c] /\ cur[c] \in Live'
           /\ task'[cur[c]].asid = task[cur[c]].asid
  PROVE  ScanInArea'
<1>1. \A d \in Running : Ssi(d)' = Ssi(d)
  BY DEF Ssi
<1>2. \A d \in Running : FirstUser(Ssi(d))' = FirstUser(Ssi(d))
                         /\ Limit(Ssi(d))' = Limit(Ssi(d))
  BY <1>1
<1> QED
  BY <1>2 DEF ScanInArea, Remembered

LEMMA CreateKeeps == ASSUME IInv, NEW t \in Task, Create(t) PROVE IInv'
<1> USE DEF IInv, Create, callVars, coreVars
<1>0. Remembered
  BY Remembers DEF IInv, Create, callVars, coreVars
<1> USE <1>0 DEF Remembered
<1>a. 0 \in AsidId
  BY AsidSizeAssumption DEF AsidId, NumAsid, NumCpu
<1>1. /\ Live' = Live \union {t} /\ t \notin Live /\ task'[t].asid = 0
      /\ \A u \in Task \ {t} : task'[u] = task[u]
  BY DEF Live, TypeOK
<1>2. TypeOK'
  BY <1>a DEF TypeOK
<1>3. AsidExclusive'
  BY <1>1 DEF AsidExclusive, OneOwner, Live
<1>4. HeldIsActive'
  BY <1>1 DEF HeldIsActive, Live
<1>5. KernelAsidPrivate'
  BY <1>1 DEF KernelAsidPrivate, NoTaskHas, Live, ScanInArea
<1>6. \A d \in Running : Ssi(d)' = Ssi(d)
  BY DEF Ssi
<1>7. ClaimStillFree'
  BY <1>6 DEF ClaimStillFree
<1>8. ScanInArea'
  BY <1>1, ScanInAreaKept DEF ScanInArea, Live
<1> QED
  BY <1>2, <1>3, <1>4, <1>5, <1>7, <1>8

(***************************************************************************)
(* The end of a task: its identifier is no other task's and no kernel's,   *)
(* so that taking ACTIVE away from it disturbs nobody.                     *)
(***************************************************************************)
LEMMA EndKeeps == ASSUME IInv, NEW c \in Running, End(c) PROVE IInv'
<1> USE DEF IInv, End, callVars
<1>0. Remembered
  BY Remembers DEF IInv, End, callVars
<1> USE <1>0 DEF Remembered
<1> DEFINE t == cur[c]
<1>1. /\ t \in Task /\ t # Kernel /\ t \in Live /\ task[t].asid \in AsidId
      /\ pc[c] = "idle"
  BY KernelNoTask DEF Live, TypeOK
<1>2. /\ Live' = Live \ {t}
      /\ \A u \in Task \ {t} : task'[u] = task[u]
  BY <1>1 DEF Live, TypeOK
<1>3. TypeOK'
  BY <1>1 DEF TypeOK, Status
<1>4. AsidExclusive'
  BY <1>2 DEF AsidExclusive, OneOwner, Live
<1>5. HeldIsActive'
  BY <1>1, <1>2 DEF HeldIsActive, AsidExclusive, OneOwner, Live, TypeOK
<1>6. KernelAsidPrivate'
  BY <1>1, <1>2 DEF KernelAsidPrivate, NoTaskHas, Live, TypeOK
<1>7. \A d \in Running : Ssi(d)' = Ssi(d)
  BY DEF Ssi
<1>8. ClaimStillFree'
  BY <1>1, <1>7 DEF ClaimStillFree, TypeOK
<1>9. ScanInArea'
  <2>1. \A d \in Running : pc[d] \in {"scan", "claim"} => d # c /\ cur[d] # t
    BY <1>1 DEF ScanInArea
  <2>2. \A d \in Running : cur'[d] = cur[d] \/ cur'[d] = Kernel
    BY DEF TypeOK
  <2>3. \A d \in Running : pc[d] \in {"scan", "claim"} =>
          /\ cur'[d] = cur[d] /\ cur[d] \in Live'
          /\ task'[cur[d]].asid = task[cur[d]].asid
    BY <1>2, <2>1 DEF ScanInArea, TypeOK, Live
  <2> QED
    BY <2>2, <2>3, ScanInAreaKept
<1> QED
  BY <1>3, <1>4, <1>5, <1>6, <1>8, <1>9

(***************************************************************************)
(* A task destroyed in time: its identifier is FINISHED or was its own, so *)
(* that it is no other live task's and no kernel's.                        *)
(***************************************************************************)
LEMMA DestroyKeeps ==
  ASSUME IInv, NEW t \in Task, Destroy(t) PROVE IInv'
<1> USE DEF IInv, Destroy, callVars, coreVars
<1>0. Remembered
  BY Remembers
<1> USE <1>0 DEF Remembered
<1>1. task[t].asid \in AsidId /\ \A c \in Running : cur[c] # t
  BY DEF TypeOK
<1>2. /\ Live' = Live \ {t}
      /\ \A u \in Live \ {t} : task'[u] = task[u]
  BY <1>1 DEF Live, TypeOK
<1>3. TypeOK'
  BY <1>1 DEF TypeOK, Status, Misuse
<1>4. Without({"late", "mode"})' => ~Reclaimed(t)
  BY DEF Without
<1>5. AsidExclusive'
  BY <1>2 DEF AsidExclusive, OneOwner
<1>6. HeldIsActive'
  <2> SUFFICES ASSUME Without({"late", "mode"})', NEW u \in Live \ {t}, task[u].asid # 0
               PROVE  head'[task[u].asid] = "ACTIVE"
    BY <1>2 DEF HeldIsActive
  <2>1. head[task[u].asid] = "ACTIVE" /\ task[u].asid \in AsidId
    BY DEF HeldIsActive, Live, TypeOK
  <2>2. task[t].asid # task[u].asid
    BY <1>4, <2>1 DEF Reclaimed, AsidExclusive, OneOwner, Live, TypeOK
  <2> QED
    BY <2>1, <2>2 DEF TypeOK
<1>7. KernelAsidPrivate'
  <2> SUFFICES ASSUME Without({"late", "mode", "kernel"})', NEW a \in kernelAsids
               PROVE  head'[a] = "ACTIVE" /\ NoTaskHas(a)'
    BY DEF KernelAsidPrivate
  <2>1. head[a] = "ACTIVE" /\ NoTaskHas(a) /\ a \in AsidId
    BY DEF KernelAsidPrivate, TypeOK
  <2>2. task[t].asid # a
    BY <1>4, <2>1, WeakerNext DEF Reclaimed, NoTaskHas, Live, TypeOK
  <2> QED
    BY <1>2, <2>1, <2>2 DEF TypeOK, NoTaskHas
<1>8. \A d \in Running : Ssi(d)' = Ssi(d)
  BY DEF Ssi
<1>9. ClaimStillFree'
  BY <1>1, <1>8 DEF ClaimStillFree, TypeOK
<1>10. ScanInArea'
  BY <1>1, <1>2, ScanInAreaKept DEF ScanInArea
<1> QED
  BY <1>3, <1>5, <1>6, <1>7, <1>9, <1>10

(***************************************************************************)
(* The identifier of a kernel: no task has it, and no scan is about to     *)
(* claim it, because a scan of the same area starts above it (only areas   *)
(* that start with the reserved identifier are shared) and the other areas *)
(* do not contain it.                                                      *)
(***************************************************************************)
LEMMA StartMmuKeeps ==
  ASSUME IInv, NEW c \in Running, StartMmu(c) PROVE IInv'
<1> USE DEF IInv, StartMmu, callVars
<1>0. Remembered
  BY Remembers DEF IInv, StartMmu, callVars
<1> USE <1>0 DEF Remembered
<1> DEFINE i == SsiIndex(c, pm)
           k == Bottom(i) + 1
<1>1. /\ i \in Struct /\ Bottom(i) \in Nat /\ Limit(i) \in Nat
      /\ Bottom(i) + 2 <= Limit(i) /\ Limit(i) <= NumAsid
      /\ pc[c] = "idle" /\ pm \in ValidPm /\ NumAsid \in Nat
  BY SsiInStruct, AreaBounds, AsidSizeAssumption DEF TypeOK, NumAsid, NumCpu
<1>2. k \in AsidId /\ k # 0
  BY <1>1 DEF AsidId
<1>3. Without({"late", "mode", "kernel"})' => NoTaskHas(k)
  BY DEF Without, NoTaskHas
<1>4. TypeOK'
  BY <1>1, <1>2 DEF TypeOK, Status, Location, Misuse
<1>5. AsidExclusive'
  BY DEF AsidExclusive, OneOwner, Live
<1>6. HeldIsActive'
  BY <1>2 DEF HeldIsActive, Live, TypeOK
<1>7. KernelAsidPrivate'
  BY <1>2, <1>3 DEF KernelAsidPrivate, NoTaskHas, Live, TypeOK
<1>8. \A d \in Running \ {c} : /\ pc'[d] = pc[d] /\ cur'[d] = cur[d]
                                /\ cpm'[d] = cpm[d] /\ asid'[d] = asid[d]
  BY DEF TypeOK
<1>9. pc'[c] = "reserve" /\ cpm'[c] = pm
  BY DEF TypeOK
<1>10. \A d \in Running \ {c} : Ssi(d)' = Ssi(d)
  BY <1>8 DEF Ssi
<1>11. ClaimStillFree'
  <2> SUFFICES ASSUME NEW d \in Running, pc'[d] = "claim"
               PROVE  ssiLock'[Ssi(d)'] = d
                      /\ (Without({"mode"})' => head'[asid'[d]] # "ACTIVE")
    BY DEF ClaimStillFree
  <2>1. d # c /\ pc[d] = "claim" /\ asid'[d] = asid[d] /\ Ssi(d)' = Ssi(d)
    BY <1>8, <1>9, <1>10
  <2>2. /\ ssiLock[Ssi(d)] = d /\ (Without({"mode"}) => head[asid[d]] # "ACTIVE")
        /\ asid[d] \in AsidId /\ asid[d] < Limit(Ssi(d)) /\ Ssi(d) \in Struct
    BY <2>1, InsideArray DEF ClaimStillFree, ScanInArea
  <2>3. /\ FirstUser(Ssi(d)) <= asid[d] /\ Bottom(Ssi(d)) + 1 <= FirstUser(Ssi(d))
        /\ FirstUser(Ssi(d)) \in Nat /\ Limit(Ssi(d)) \in Nat /\ Bottom(Ssi(d)) \in Nat
    BY <2>1, <2>2, AreaBounds DEF ScanInArea
  <2>4. (Without({"mode"}) => Ssi(d) = SsiIndex(d, pm)) /\ c \in Cpu /\ d \in Cpu
    BY <2>1, RunningAssumption DEF ScanInArea, Ssi
  <2>a. CASE ~Without({"mode"})
    BY <2>1, <2>2, <2>a
  <2>5. CASE Without({"mode"}) /\ i = Ssi(d)
    <3>1. Bottom(Ssi(d)) = 0
      BY <1>1, <2>1, <2>4, <2>5, Disjoint
    <3>2. FirstUser(Ssi(d)) = 2 /\ k = 1
      BY <2>5, <3>1 DEF FirstUser, Reserved
    <3>3. asid[d] # k
      BY <2>2, <2>3, <3>2 DEF AsidId
    <3> QED
      BY <1>2, <2>1, <2>2, <3>3 DEF TypeOK
  <2>6. CASE Without({"mode"}) /\ i # Ssi(d)
    <3>1. Limit(i) <= Bottom(Ssi(d)) \/ Limit(Ssi(d)) <= Bottom(i)
      BY <1>1, <2>4, <2>6, Disjoint
    <3>2. asid[d] # k
      BY <1>1, <2>2, <2>3, <3>1 DEF AsidId
    <3> QED
      BY <1>2, <2>1, <2>2, <3>2 DEF TypeOK
  <2> QED
    BY <2>a, <2>5, <2>6
<1>12. ScanInArea'
  <2>1. Without({"mode"})' => \A d \in Running : pc'[d] # "idle" => cpm'[d] = pm'
    BY <1>8, <1>9 DEF ScanInArea
  <2>2. \A d \in Running : pc'[d] \in {"scan", "claim"} =>
          d # c /\ FirstUser(Ssi(d))' = FirstUser(Ssi(d)) /\ Limit(Ssi(d))' = Limit(Ssi(d))
    BY <1>9, <1>10
  <2>3. \A d \in Running : pc'[d] \in {"scan", "claim"} =>
          /\ cur'[d] \in Live' /\ task'[cur'[d]].asid = 0
          /\ asid'[d] \in Nat /\ FirstUser(Ssi(d))' <= asid'[d]
    BY <1>8, <2>2 DEF ScanInArea, Live
  <2>4. \A d \in Running : pc'[d] = "claim" => asid'[d] < Limit(Ssi(d))'
    BY <1>8, <2>2 DEF ScanInArea
  <2> QED
    BY <1>2, <2>1, <2>3, <2>4 DEF ScanInArea
<1> QED
  BY <1>4, <1>5, <1>6, <1>7, <1>11, <1>12

(* A change of the mode is a misuse unless no core is in a switch. *)
LEMMA ChangePmKeeps ==
  ASSUME IInv, NEW new \in ValidPm, ChangePm(new) PROVE IInv'
<1> USE DEF IInv, ChangePm, coreVars
<1>0. Remembered
  BY Remembers
<1> USE <1>0 DEF Remembered
<1>1. Without({"mode"})' => \A c \in Running : pc[c] = "idle"
  BY DEF Without
<1>2. TypeOK'
  BY BoundAssumption DEF TypeOK, Misuse
<1>3. AsidExclusive' /\ HeldIsActive' /\ KernelAsidPrivate'
  BY DEF AsidExclusive, OneOwner, HeldIsActive, KernelAsidPrivate, NoTaskHas, Live
<1>4. \A d \in Running : Ssi(d)' = Ssi(d)
  BY DEF Ssi
<1>5. ClaimStillFree'
  BY <1>4 DEF ClaimStillFree
<1>6. ScanInArea'
  <2>1. \A d \in Running : FirstUser(Ssi(d))' = FirstUser(Ssi(d))
                           /\ Limit(Ssi(d))' = Limit(Ssi(d))
    BY <1>4
  <2> QED
    BY <1>1, <2>1 DEF ScanInArea, Live
<1> QED
  BY <1>2, <1>3, <1>5, <1>6

LEMMA StutterKeeps == ASSUME IInv, UNCHANGED vars PROVE IInv'
<1> USE DEF IInv, vars, callVars, coreVars
<1>0. Remembered
  BY Remembers
<1> USE <1>0 DEF Remembered
<1>1. TypeOK'
  BY DEF TypeOK
<1>2. AsidExclusive' /\ HeldIsActive' /\ KernelAsidPrivate'
  BY DEF AsidExclusive, OneOwner, HeldIsActive, KernelAsidPrivate, NoTaskHas, Live
<1>3. ClaimStillFree'
  BY DEF ClaimStillFree, Ssi
<1>4. ScanInArea'
  BY ScanInAreaKept DEF ScanInArea, Live
<1> QED
  BY <1>1, <1>2, <1>3, <1>4

LEMMA InitIInv == Init => IInv
<1> SUFFICES ASSUME Init PROVE IInv
  OBVIOUS
<1>1. NumAsid \in Nat /\ 0 \in AsidId
  BY AsidSizeAssumption DEF NumAsid, NumCpu, AsidId
<1>2. TypeOK
  BY <1>1, NoAmp, BoundAssumption
     DEF Init, TypeOK, Status, Location, Reserved, Free
<1>3. AsidExclusive /\ HeldIsActive /\ ClaimStillFree /\ KernelAsidPrivate /\ ScanInArea
  BY DEF Init, AsidExclusive, OneOwner, HeldIsActive, ClaimStillFree, KernelAsidPrivate, NoTaskHas,
         ScanInArea, Live
<1> QED
  BY <1>2, <1>3 DEF IInv

LEMMA StepKeeps == ASSUME IInv, [Next]_vars PROVE IInv'
<1>1. CASE UNCHANGED vars
  BY <1>1, StutterKeeps
<1>2. CASE Next
  BY <1>2, NextCases, ScanKeeps, ExhaustedKeeps, ClaimKeeps, SetKeeps, EndKeeps,
     StartMmuKeeps, BeginKeeps, CreateKeeps, DestroyKeeps, ChangePmKeeps
<1> QED
  BY <1>1, <1>2
-----------------------------------------------------------------------------
(***************************************************************************)
(* The inductive invariant holds in every reachable state: its parts that  *)
(* a misuse can break say so themselves.                                   *)
(***************************************************************************)
THEOREM Invariance == Spec => []IInv
<1>1. Init => IInv
  BY InitIInv
<1>2. IInv /\ [Next]_vars => IInv'
  BY StepKeeps
<1> QED
  BY <1>1, <1>2, PTL DEF Spec

(***************************************************************************)
(* Two live tasks never have the same identifier (set_user_asid), whatever *)
(* the number of tasks, of identifiers and of mode changes, until one is   *)
(* destroyed after its identifier was given away, or the mode changes      *)
(* under a switch.                                                         *)
(***************************************************************************)
THEOREM Exclusive == Spec => []AsidExclusive
<1>1. IInv => AsidExclusive
  BY DEF IInv
<1> QED
  BY <1>1, Invariance, PTL

(***************************************************************************)
(* The identifiers of the kernels (take_kernel_asid) are never a task's,   *)
(* until a kernel takes one that is, or one of the two misuses of          *)
(* Exclusive happens: the code itself adds no further way.                 *)
(***************************************************************************)
THEOREM KernelPrivate == Spec => []KernelAsidPrivate
<1>1. IInv => KernelAsidPrivate
  BY DEF IInv
<1> QED
  BY <1>1, Invariance, PTL

(***************************************************************************)
(* What set_user_asid read under the lock still holds when it writes; of   *)
(* all misuses only a change of the mode can break the part that concerns  *)
(* the status.                                                             *)
(***************************************************************************)
THEOREM ClaimSafe == Spec => []ClaimStillFree
<1>1. IInv => ClaimStillFree
  BY DEF IInv
<1> QED
  BY <1>1, Invariance, PTL

(***************************************************************************)
(* No step takes the state out of its types: above all the identifiers a   *)
(* core works with, and CONTEXTIDR, stay inside the array.                 *)
(***************************************************************************)
THEOREM TypeCorrect == Spec => []TypeOK
<1>1. IInv => TypeOK
  BY DEF IInv
<1> QED
  BY <1>1, Invariance, PTL

(***************************************************************************)
(* The array of statuses tells the truth: the identifier of a live task is *)
(* marked active until end_task or destroy_task, whoever else ends, starts *)
(* or destroys, with the two exceptions of Exclusive.                      *)
(***************************************************************************)
THEOREM HeldActive == Spec => []HeldIsActive
<1>1. IInv => HeldIsActive
  BY DEF IInv
<1> QED
  BY <1>1, Invariance, PTL
-----------------------------------------------------------------------------
(***************************************************************************)
(* CONTEXTIDR and TTBR0 always belong together (sync_user_ttba_change),    *)
(* for any tasks, cores, identifiers and mode changes.  The two registers  *)
(* are written one after the other; what makes ContextPair inductive is    *)
(* what a core inside a switch knows of its task, and that no table in use *)
(* loses its task as long as no task is destroyed under a core.            *)
(***************************************************************************)

(* The identifier a switch will install is the one of its task, or kernel. *)
Chosen(c) ==
  IF cur[c] = Kernel THEN asid[c] \in kernelAsids
  ELSE cur[c] \in Live /\ asid[c] \in {task[cur[c]].asid, ErrorAsid}

SwitchInv ==
  /\ \A c \in Running : pc[c] \in {"reserve", "table", "asid"} => Chosen(c)
  /\ \A c \in Running : pc[c] = "table" => ctx[c].asid = Reserved
  /\ \A c \in Running : pc[c] = "asid" => ctx[c].table = cur[c]
  /\ Without({"table"}) =>
       \A c \in Running : ctx[c].table # Kernel => task[ctx[c].table].state # "none"

CInv == SwitchInv /\ ContextPair

(* What the identifiers of the kernels and the error become in CONTEXTIDR. *)
LEMMA LowByteOfId ==
  ASSUME NEW a \in AsidId
  PROVE  a % NumAsid = a
<1>1. NumAsid \in Nat /\ NumAsid > 0
  BY AsidSizeAssumption DEF NumAsid, NumCpu
<1> QED
  BY <1>1 DEF AsidId

(***************************************************************************)
(* A step that changes neither a context nor a switch of a core, and no    *)
(* task but those that no core and, unless that is a misuse, no context is *)
(* about.                                                                  *)
(***************************************************************************)
LEMMA UntouchedKeeps ==
  ASSUME TypeOK, CInv, UNCHANGED <<pc, cur, asid, ctx>>, kernelAsids \subseteq kernelAsids',
         misuse \subseteq misuse',
         \A c \in Running : pc[c] \in {"reserve", "table", "asid"} /\ cur[c] # Kernel =>
           task'[cur[c]] = task[cur[c]],
         Without({"table"})' => \A c \in Running : ctx[c].table # Kernel =>
           task'[ctx[c].table] = task[ctx[c].table]
  PROVE  CInv'
<1>0. Remembered
  BY Remembers
<1> USE <1>0 DEF Remembered
<1>1. \A c \in Running : Chosen(c) /\ pc[c] \in {"reserve", "table", "asid"} => Chosen(c)'
  BY DEF Chosen, Live, TypeOK
<1>2. SwitchInv'
  BY <1>1 DEF CInv, SwitchInv
<1>3. ContextPair'
  BY DEF CInv, ContextPair
<1> QED
  BY <1>2, <1>3 DEF CInv

(* The scan: the identifier found is stored in the task, or none is. *)
LEMMA ScanContext ==
  ASSUME IInv, CInv, NEW c \in Running, Scan(c) \/ Exhausted(c) PROVE CInv'
<1> USE DEF Scan, Exhausted, callVars, IInv
<1>0. Remembered
  BY Remembers DEF Scan, Exhausted, callVars, IInv
<1> USE <1>0 DEF Remembered
<1>1. cur[c] \in Live /\ cur[c] # Kernel /\ pc[c] = "scan"
  BY KernelNoTask DEF ScanInArea, Live
<1>2. \A d \in Running \ {c} : pc'[d] = pc[d] /\ asid'[d] = asid[d]
  BY DEF TypeOK
<1>3. pc'[c] = "reserve" => asid'[c] = ErrorAsid
  BY DEF TypeOK
<1>4. pc'[c] \in {"scan", "claim", "reserve"}
  BY <1>1 DEF TypeOK
<1>5. \A d \in Running : pc'[d] \in {"reserve", "table", "asid"} => Chosen(d)'
  BY <1>1, <1>2, <1>3, <1>4 DEF CInv, SwitchInv, Chosen, Live
<1>6. SwitchInv'
  BY <1>2, <1>4, <1>5 DEF CInv, SwitchInv
<1>7. ContextPair'
  BY DEF CInv, ContextPair
<1> QED
  BY <1>6, <1>7 DEF CInv

(***************************************************************************)
(* The claim gives an identifier to a task that had none.  A core that is  *)
(* on the table of the task has the identifier of the error, if any.       *)
(***************************************************************************)
LEMMA ClaimContext == ASSUME IInv, CInv, NEW c \in Running, Claim(c) PROVE CInv'
<1> USE DEF Claim, callVars, IInv
<1>0. Remembered
  BY Remembers DEF Claim, callVars, IInv
<1> USE <1>0 DEF Remembered
<1>1. cur[c] \in Task /\ cur[c] # Kernel /\ task[cur[c]].state = "live" /\ task[cur[c]].asid = 0
  BY KernelNoTask DEF ScanInArea, Live
<1>2. /\ \A t \in Task \ {cur[c]} : task'[t] = task[t]
      /\ task'[cur[c]].state = "live" /\ task'[cur[c]].asid = asid[c]
  BY <1>1 DEF TypeOK
<1>3. \A d \in Running \ {c} : pc'[d] = pc[d] /\ (cur[d] = Kernel \/ cur[d] # cur[c])
  BY <1>1 DEF TypeOK, ScanInArea
<1>4. pc'[c] = "reserve"
  BY DEF TypeOK
<1>5. \A d \in Running : pc'[d] \in {"reserve", "table", "asid"} => Chosen(d)'
  BY <1>1, <1>2, <1>3, <1>4 DEF CInv, SwitchInv, Chosen, Live
<1>6. Without({"table"})' =>
        \A d \in Running : ctx[d].table # Kernel => task'[ctx[d].table].state # "none"
  BY <1>1, <1>2 DEF CInv, SwitchInv, TypeOK
<1>7. SwitchInv'
  BY <1>3, <1>4, <1>5, <1>6 DEF CInv, SwitchInv
<1>8. ContextPair'
  <2> SUFFICES ASSUME Without({"table"})', NEW d \in Running, ctx[d].asid # Reserved
               PROVE  IF ctx[d].table = Kernel THEN ctx[d].asid \in kernelAsids
                      ELSE ctx[d].asid \in {task'[ctx[d].table].asid, ErrorAsid % NumAsid}
    BY DEF ContextPair
  <2>1. CASE ctx[d].table = cur[c]
    BY <1>1, <2>1 DEF CInv, ContextPair, Reserved
  <2>2. CASE ctx[d].table # cur[c]
    BY <1>2, <2>2 DEF CInv, ContextPair, TypeOK
  <2> QED
    BY <2>1, <2>2
<1> QED
  BY <1>7, <1>8 DEF CInv

(***************************************************************************)
(* The three writes: the reserved identifier before the table, the table   *)
(* before the identifier.                                                  *)
(***************************************************************************)
LEMMA InstallContext ==
  ASSUME IInv, CInv, NEW c \in Running,
         SetReserved(c) \/ SetTable(c) \/ SetAsid(c)
  PROVE  CInv'
<1> USE DEF IInv, Install, callVars
<1>0. Remembered
  BY Remembers DEF SetReserved, SetTable, SetAsid
<1> USE <1>0 DEF Remembered
<1>1. /\ Chosen(c) /\ UNCHANGED <<task, cur, kernelAsids>>
      /\ pc[c] \in {"reserve", "table", "asid"}
  BY DEF SetReserved, SetTable, SetAsid, CInv, SwitchInv
<1>2. \A d \in Running \ {c} : pc'[d] = pc[d] /\ ctx'[d] = ctx[d] /\ asid'[d] = asid[d]
  BY DEF SetReserved, SetTable, SetAsid, Return, TypeOK
<1>a. pc'[c] # "idle" => asid'[c] = asid[c]
  BY DEF SetReserved, SetTable, SetAsid, Return, TypeOK
<1>3. \A d \in Running : asid'[d] = asid[d] => (Chosen(d)' <=> Chosen(d))
  BY <1>1 DEF Chosen, Live
<1>4. /\ ctx[c] \in [asid : AsidId, table : Task \union {Kernel}]
      /\ pc \in [Running -> Location] /\ ctx \in [Running -> [asid : AsidId, table : Task \union {Kernel}]]
      /\ kernelAsids \subseteq AsidId /\ task \in [Task -> [state : {"none", "live", "finished"}, asid : AsidId]]
      /\ cur[c] \in Task \union {Kernel}
  BY DEF TypeOK
<1>5. CASE SetReserved(c)
  <2>1. pc'[c] = "table" /\ ctx'[c].asid = Reserved /\ ctx'[c].table = ctx[c].table
    BY <1>4, <1>5 DEF SetReserved
  <2>2. SwitchInv'
    BY <1>1, <1>2, <1>a, <1>3, <2>1 DEF CInv, SwitchInv
  <2>3. ContextPair'
    BY <1>1, <1>2, <2>1 DEF CInv, ContextPair
  <2> QED
    BY <2>2, <2>3 DEF CInv
<1>6. CASE SetTable(c)
  <2>1. /\ pc[c] = "table" /\ pc'[c] = "asid"
        /\ ctx'[c].asid = ctx[c].asid /\ ctx'[c].table = cur[c]
    BY <1>4, <1>6 DEF SetTable
  <2>2. ctx'[c].asid = Reserved
    BY <2>1 DEF CInv, SwitchInv
  <2>3. ctx'[c].table # Kernel => task[ctx'[c].table].state # "none"
    BY <1>1, <2>1 DEF Chosen, Live
  <2>4. SwitchInv'
    BY <1>1, <1>2, <1>a, <1>3, <2>1, <2>2, <2>3 DEF CInv, SwitchInv
  <2>5. ContextPair'
    BY <1>1, <1>2, <2>2 DEF CInv, ContextPair
  <2> QED
    BY <2>4, <2>5 DEF CInv
<1>7. CASE SetAsid(c)
  <2>1. /\ pc[c] = "asid" /\ pc'[c] = "idle"
        /\ ctx'[c].asid = asid[c] % NumAsid /\ ctx'[c].table = ctx[c].table
    BY <1>4, <1>7 DEF SetAsid
  <2>2. ctx[c].table = cur[c]
    BY <2>1 DEF CInv, SwitchInv
  <2>3. IF cur[c] = Kernel THEN asid[c] % NumAsid \in kernelAsids
        ELSE asid[c] % NumAsid \in {task[cur[c]].asid, ErrorAsid % NumAsid}
    <3>1. CASE cur[c] = Kernel
      BY <1>1, <1>4, <3>1, LowByteOfId DEF Chosen
    <3>2. CASE cur[c] # Kernel /\ asid[c] = ErrorAsid
      BY <3>2
    <3>3. CASE cur[c] # Kernel /\ asid[c] = task[cur[c]].asid
      <4>1. asid[c] \in AsidId
        BY <1>4, <3>3
      <4> QED
        BY <4>1, <3>3, LowByteOfId
    <3> QED
      BY <1>1, <3>1, <3>2, <3>3 DEF Chosen
  <2>4. SwitchInv'
    BY <1>1, <1>2, <1>a, <1>3, <2>1 DEF CInv, SwitchInv
  <2>5. ContextPair'
    BY <1>1, <1>2, <2>1, <2>2, <2>3 DEF CInv, ContextPair
  <2> QED
    BY <2>4, <2>5 DEF CInv
<1> QED
  BY <1>5, <1>6, <1>7

LEMMA BeginContext ==
  ASSUME IInv, CInv, NEW c \in Running, NEW t \in Task, BeginSwitch(c, t) PROVE CInv'
<1> USE DEF IInv, BeginSwitch, callVars
<1>0. Remembered
  BY Remembers DEF IInv, BeginSwitch, callVars
<1> USE <1>0 DEF Remembered
<1>1. /\ pc'[c] \in {"reserve", "scan"} /\ cur'[c] = t /\ task[t].state = "live"
      /\ pc'[c] = "reserve" => asid'[c] = task[t].asid
      /\ t # Kernel
  BY KernelNoTask DEF TypeOK
<1>2. \A d \in Running \ {c} : pc'[d] = pc[d] /\ cur'[d] = cur[d] /\ asid'[d] = asid[d]
  BY DEF TypeOK
<1>3. \A d \in Running : pc'[d] \in {"reserve", "table", "asid"} => Chosen(d)'
  BY <1>1, <1>2 DEF CInv, SwitchInv, Chosen, Live
<1>4. SwitchInv'
  BY <1>1, <1>2, <1>3 DEF CInv, SwitchInv
<1>5. ContextPair'
  BY DEF CInv, ContextPair
<1> QED
  BY <1>4, <1>5 DEF CInv

(* A kernel is installed with the identifier it has just been given. *)
LEMMA StartMmuContext ==
  ASSUME IInv, CInv, NEW c \in Running, StartMmu(c) PROVE CInv'
<1> USE DEF IInv, StartMmu, callVars
<1>0. Remembered
  BY Remembers DEF IInv, StartMmu, callVars
<1> USE <1>0 DEF Remembered
<1>1. pc'[c] = "reserve" /\ cur[c] = Kernel /\ asid'[c] \in kernelAsids'
  BY DEF TypeOK
<1>2. \A d \in Running \ {c} : pc'[d] = pc[d] /\ asid'[d] = asid[d]
  BY DEF TypeOK
<1>3. kernelAsids \subseteq kernelAsids'
  OBVIOUS
<1>4. \A d \in Running : pc'[d] \in {"reserve", "table", "asid"} => Chosen(d)'
  BY <1>1, <1>2, <1>3 DEF CInv, SwitchInv, Chosen, Live
<1>5. SwitchInv'
  BY <1>1, <1>2, <1>4 DEF CInv, SwitchInv
<1>6. ContextPair'
  BY <1>3 DEF CInv, ContextPair
<1> QED
  BY <1>5, <1>6 DEF CInv

(* The core that ends its task is in no switch, and no other one has it. *)
LEMMA EndContext == ASSUME IInv, CInv, NEW c \in Running, End(c) PROVE CInv'
<1> USE DEF IInv, End, callVars
<1>0. Remembered
  BY Remembers DEF IInv, End, callVars
<1> USE <1>0 DEF Remembered
<1>1. /\ cur[c] \in Task /\ cur[c] # Kernel /\ pc[c] = "idle"
      /\ cur'[c] = Kernel /\ \A d \in Running \ {c} : cur'[d] = cur[d]
  BY KernelNoTask DEF Live, TypeOK
<1>2. /\ \A t \in Task \ {cur[c]} : task'[t] = task[t]
      /\ task'[cur[c]].state = "finished" /\ task'[cur[c]].asid = task[cur[c]].asid
  BY <1>1 DEF TypeOK
<1>3. \A d \in Running \ {c} : cur[d] = Kernel \/ cur[d] # cur[c]
  BY <1>1 DEF ScanInArea
<1>4. \A d \in Running : pc[d] \in {"reserve", "table", "asid"} => Chosen(d)'
  BY <1>1, <1>2, <1>3 DEF CInv, SwitchInv, Chosen, Live, TypeOK
<1>5. Without({"table"})' =>
        \A d \in Running : ctx[d].table # Kernel => task'[ctx[d].table].state # "none"
  BY <1>2 DEF CInv, SwitchInv, TypeOK
<1>6. SwitchInv'
  BY <1>1, <1>4, <1>5 DEF CInv, SwitchInv
<1>7. ContextPair'
  <2>1. \A d \in Running : ctx[d].table # Kernel => task'[ctx[d].table].asid = task[ctx[d].table].asid
    BY <1>2 DEF TypeOK
  <2> QED
    BY <2>1 DEF CInv, ContextPair
<1> QED
  BY <1>6, <1>7 DEF CInv

(***************************************************************************)
(* Creation and destruction: no core runs the task, and no core is on the  *)
(* table of a block that is free or, without a misuse, destroyed.          *)
(***************************************************************************)
LEMMA BlockContext ==
  ASSUME IInv, CInv, NEW t \in Task, Create(t) \/ Destroy(t) PROVE CInv'
<1> USE DEF IInv, callVars, coreVars
<1>1. /\ UNCHANGED <<pc, cur, asid, ctx, kernelAsids>>
      /\ \A u \in Task \ {t} : task'[u] = task[u]
      /\ misuse \subseteq misuse'
  BY DEF Create, Destroy, TypeOK
<1>2. Without({"table"})' => \A c \in Running : ctx[c].table # t
  <2>1. CASE Create(t)
    BY <2>1, KernelNoTask DEF Create, CInv, SwitchInv, Without
  <2>2. CASE Destroy(t)
    BY <2>2 DEF Destroy, Without
  <2> QED
    BY <2>1, <2>2
<1>3. \A c \in Running : pc[c] \in {"reserve", "table", "asid"} /\ cur[c] # Kernel =>
        cur[c] # t
  BY DEF Create, Destroy, CInv, SwitchInv, Chosen, Live
<1>4. \A c \in Running : pc[c] \in {"reserve", "table", "asid"} /\ cur[c] # Kernel =>
        task'[cur[c]] = task[cur[c]]
  BY <1>1, <1>3 DEF TypeOK
<1>5. Without({"table"})' =>
        \A c \in Running : ctx[c].table # Kernel => task'[ctx[c].table] = task[ctx[c].table]
  BY <1>1, <1>2 DEF TypeOK
<1> QED
  BY <1>1, <1>4, <1>5, UntouchedKeeps

LEMMA ContextStep == ASSUME IInv, CInv, [Next]_vars PROVE CInv'
<1>1. CASE UNCHANGED vars
  BY <1>1, UntouchedKeeps DEF vars, coreVars, IInv
<1>2. ASSUME NEW new \in ValidPm, ChangePm(new) PROVE CInv'
  BY <1>2, UntouchedKeeps DEF ChangePm, coreVars, IInv
<1>3. CASE Next
  BY <1>2, <1>3, NextCases, ScanContext, ClaimContext, InstallContext, BeginContext,
     StartMmuContext, EndContext, BlockContext
<1> QED
  BY <1>1, <1>3

(***************************************************************************)
(* Whatever instruction of a switch a core has reached, CONTEXTIDR holds   *)
(* the reserved identifier or the one of the task, or kernel, in whose     *)
(* table the core translates (mmu.c:299-328).                              *)
(***************************************************************************)
THEOREM PairKept == Spec => []ContextPair
<1>1. Init => CInv
  BY DEF Init, CInv, SwitchInv, ContextPair
<1>2. IInv /\ CInv /\ [Next]_vars => CInv'
  BY ContextStep
<1>3. CInv => ContextPair
  BY DEF CInv
<1> QED
  BY <1>1, <1>2, <1>3, Invariance, PTL DEF Spec
-----------------------------------------------------------------------------
(***************************************************************************)
(* The abstract grant of identifiers: what each step does to the           *)
(* identifiers of the live tasks and of the kernels, as long as nothing    *)
(* has voided the contract.                                                *)
(***************************************************************************)
InForce == Without({"late", "mode", "kernel"})

LEMMA ClaimRefines ==
  ASSUME IInv, InForce, NEW c \in Running, Claim(c)
  PROVE  G!Grant(cur[c], asid[c]) /\ cur[c] \in Task /\ asid[c] \in AsidId \ {Reserved}
<1> USE DEF Claim
<1>1. /\ asid[c] \in AsidId /\ asid[c] # 0
      /\ cur[c] \in Task /\ task[cur[c]].state = "live" /\ task[cur[c]].asid = 0
  BY InsideArray DEF IInv, ScanInArea
<1>2. head[asid[c]] # "ACTIVE"
  BY Weaker DEF IInv, ClaimStillFree, InForce
<1>3. G!Unowned(asid[c])
  BY <1>1, <1>2, Weaker DEF G!Unowned, Granted, Live, IInv, HeldIsActive, InForce, Reserved
<1>4. asid[c] \notin kernelAsids
  BY <1>2 DEF IInv, KernelAsidPrivate, InForce
<1>5. Live' = Live
  BY <1>1 DEF Live, IInv, TypeOK
<1>6. \A t \in Live : task'[t].asid = IF t = cur[c] THEN asid[c] ELSE task[t].asid
  BY <1>1 DEF Live, IInv, TypeOK
<1>7. Granted' = [Granted EXCEPT ![cur[c]] = asid[c]]
  BY <1>1, <1>5, <1>6 DEF Granted, Live
<1>8. Granted[cur[c]] = Reserved
  BY <1>1 DEF Granted, Live, Reserved
<1> QED
  BY <1>1, <1>3, <1>4, <1>7, <1>8 DEF G!Grant, Reserved

(* A task that is live no longer has given up its identifier, no other one. *)
LEMMA LossRefines ==
  ASSUME IInv, NEW t \in Task, task'[t].state # "live",
         \A u \in Task \ {t} : task'[u] = task[u], UNCHANGED kernelAsids
  PROVE  G!GiveUp(t)
<1>1. Granted' = [Granted EXCEPT ![t] = Reserved]
  BY DEF Granted, Live, IInv, TypeOK
<1> QED
  BY <1>1 DEF G!GiveUp

LEMMA EndRefines ==
  ASSUME IInv, NEW c \in Running, End(c)
  PROVE  G!GiveUp(cur[c]) /\ cur[c] \in Task
<1>1. cur[c] \in Task
  BY DEF End, Live
<1>2. /\ task'[cur[c]].state = "finished" /\ UNCHANGED kernelAsids
      /\ \A t \in Task \ {cur[c]} : task'[t] = task[t]
  BY <1>1 DEF End, IInv, TypeOK
<1> QED
  BY <1>1, <1>2, LossRefines

LEMMA DestroyRefines ==
  ASSUME IInv, NEW t \in Task, Destroy(t)
  PROVE  G!GiveUp(t)
<1>1. /\ task'[t].state = "none" /\ UNCHANGED kernelAsids
      /\ \A u \in Task \ {t} : task'[u] = task[u]
  BY DEF Destroy, IInv, TypeOK
<1> QED
  BY <1>1, LossRefines

(* take_kernel_asid of an identifier that no task has. *)
LEMMA StartMmuRefines ==
  ASSUME IInv, InForce', NEW c \in Running, StartMmu(c)
  PROVE  \E i \in AsidId \ {Reserved} : G!Keep(i)
<1> DEFINE k == Bottom(SsiIndex(c, pm)) + 1
<1>1. k \in AsidId \ {Reserved}
  BY SsiInStruct, AreaBounds, AsidSizeAssumption DEF IInv, AsidId, Reserved, NumAsid, NumCpu
<1>2. kernelAsids' = kernelAsids \union {k} /\ UNCHANGED task
  BY DEF StartMmu
<1>3. \A t \in Live : task[t].asid # k
  BY DEF StartMmu, InForce, Without
<1> HIDE DEF k
<1>4. G!Unowned(k)
  BY <1>1, <1>3 DEF G!Unowned, Granted
<1>5. UNCHANGED Granted
  BY <1>2 DEF Granted, Live
<1> QED
  BY <1>1, <1>2, <1>4, <1>5 DEF G!Keep

(* A task is created without an identifier. *)
LEMMA CreateRefines ==
  ASSUME IInv, NEW t \in Task, Create(t)
  PROVE  UNCHANGED <<Granted, kernelAsids>>
<1>1. /\ task[t].state # "live" /\ task'[t].asid = Reserved
      /\ \A u \in Task \ {t} : task'[u] = task[u]
  BY DEF Create, IInv, TypeOK, Reserved
<1>2. UNCHANGED Granted
  BY <1>1 DEF Granted, Live
<1> QED
  BY <1>2 DEF Create

(* A step that does not void the contract serves it or changes nothing. *)
LEMMA ServedInForce ==
  ASSUME IInv, InForce, InForce', [Next]_vars
  PROVE  G!Serve \/ UNCHANGED <<Granted, kernelAsids>>
<1>1. ASSUME UNCHANGED <<task, kernelAsids>> PROVE UNCHANGED <<Granted, kernelAsids>>
  BY <1>1 DEF Granted, Live
<1>2. ASSUME NEW c \in Running,
             \/ Scan(c) \/ Exhausted(c) \/ SetReserved(c) \/ SetTable(c) \/ SetAsid(c)
      PROVE  UNCHANGED <<Granted, kernelAsids>>
  BY <1>1, <1>2 DEF Scan, Exhausted, SetReserved, SetTable, SetAsid, Install
<1>3. ASSUME NEW c \in Running, NEW t \in Task, BeginSwitch(c, t)
      PROVE  UNCHANGED <<Granted, kernelAsids>>
  BY <1>1, <1>3 DEF BeginSwitch
<1>4. ASSUME NEW new \in ValidPm, ChangePm(new) PROVE UNCHANGED <<Granted, kernelAsids>>
  BY <1>1, <1>4 DEF ChangePm
<1>5. ASSUME NEW c \in Running, Claim(c) \/ End(c) \/ StartMmu(c) PROVE G!Serve
  BY <1>5, ClaimRefines, EndRefines, StartMmuRefines DEF G!Serve
<1>6. ASSUME NEW t \in Task, Create(t) \/ Destroy(t)
      PROVE  G!Serve \/ UNCHANGED <<Granted, kernelAsids>>
  BY <1>6, CreateRefines, DestroyRefines DEF G!Serve
<1>7. CASE UNCHANGED vars
  BY <1>1, <1>7 DEF vars
<1> QED
  BY <1>2, <1>3, <1>4, <1>5, <1>6, <1>7, NextCases

LEMMA MisuseKept == ASSUME [Next]_vars PROVE misuse \subseteq misuse'
BY NextCases DEF Scan, Exhausted, Claim, SetReserved, SetTable, SetAsid, Install, End, StartMmu,
   BeginSwitch, Create, Destroy, ChangePm, vars

LEMMA StepRefines ==
  ASSUME IInv, [Next]_vars
  PROVE  [G!Next]_(G!vars)
<1>1. InForce' => InForce
  BY MisuseKept, Remembers DEF Remembered, InForce
<1>2. CASE ~InForce'
  BY <1>2 DEF InForce, G!Next
<1>3. CASE InForce'
  BY <1>1, <1>3, ServedInForce DEF InForce, G!Next, G!vars
<1> QED
  BY <1>2, <1>3

(***************************************************************************)
(* set_user_asid, end_task, destroy_task and take_kernel_asid implement    *)
(* the grant of identifiers, for any tasks, cores, identifiers and mode    *)
(* changes and whatever else the callers do: a task gets an identifier     *)
(* that nobody has, keeps it through every switch of every core until it   *)
(* ends, and a kernel never loses its own, up to the first late            *)
(* destruction, change of the mode under a switch, or kernel started on an *)
(* identifier in use.                                                      *)
(***************************************************************************)
THEOREM Refinement == Spec => ImplementsGrants
<1>1. Init => G!Init
  BY DEF Init, Granted, Reserved, G!Init, Without
<1>2. IInv /\ [Next]_vars => [G!Next]_(G!vars)
  BY StepRefines
<1> QED
  BY <1>1, <1>2, Invariance, PTL DEF Spec, G!Spec, ImplementsGrants
=============================================================================
