--------------------------- MODULE TaskMap_proof ----------------------------
(***************************************************************************)
(* Proofs about the map of task spaces and the translation tables, for any *)
(* number of tasks, any set of cores, any areas that fit and any number of *)
(* mode changes, when callers take the four precautions.                   *)
(***************************************************************************)
EXTENDS TaskMap, TLAPS

\* What a core in a call knows: that it has the lock,
HasLock(c) == call[c].at \in {"write", "claim", "unlink", "moving"} => lock = c

\* the task the call is about, and its state,
About == {"link", "write", "test", "claim", "clear", "unmap", "unlink", "free"}

Actor(c) ==
  LET t == call[c].task
      at == call[c].at
  IN  /\ at \in About => t \in Task
      /\ at \in {"link", "write"} => task[t].state = "ready" /\ task[t].ttba = 0
      /\ at \in {"test", "claim"} => task[t].state = "ready"
      /\ at \in {"clear", "unmap"} => task[t].state = "finished" /\ task[t].ttba # 0
      /\ at \in {"unlink", "free"} => task[t].state = "finished"
      /\ at = "range" => call[c].then = "range"

\* and, in start_task, the structure of the mode, whose area is its own.
Starter(c) ==
  call[c].at \in {"test", "claim"} =>
    /\ call[c].ssi = SsiIndex(c, pm)
    /\ AreaIsOwn(call[c].ssi)
    /\ call[c].at = "claim" => /\ call[c].i < MaxNum(call[c].ssi)
                               /\ map[call[c].i].state = "INIT"

(***************************************************************************)
(* In destroy_core_tasks: no core allocates in the range, and every slot   *)
(* from the current one on is free or of a finished task that has it and   *)
(* that no other core is about; ranges share none but free slots.          *)
(***************************************************************************)
InRange(c, s) == First(c) <= s /\ s < Limit(c)

Over(c, s) ==
  LET t == map[s].task
  IN  /\ t \in Task /\ task[t].state = "finished"
      /\ task[t].mapid = s /\ task[t].ttba # 0
      /\ \A d \in Running \ {c} : call[d].task # t

Ranger(c) ==
  call[c].then = "range" =>
    /\ call[c].at \in {"range", "clear", "unmap", "unlink", "free"}
    /\ First(c) <= call[c].i
    /\ \A d \in Running : MaxNum(SsiIndex(d, pm)) <= First(c)
    /\ \A s \in Slot : call[c].i <= s /\ s < Limit(c) /\ map[s].state # "INIT" => Over(c, s)
    /\ call[c].at = "range" => call[c].task = Null
    /\ call[c].at # "range" => /\ call[c].i < Limit(c)
                               /\ task[call[c].task].mapid = call[c].i
    /\ \A d \in Running \ {c} : call[d].then = "range" =>
         \A s \in Slot : InRange(c, s) /\ InRange(d, s) => map[s].state = "INIT"

Core(c) == HasLock(c) /\ Actor(c) /\ Starter(c) /\ Ranger(c)

\* No two calls are about one task.
Apart == \A c, d \in Running : call[c].task = call[d].task => c = d \/ call[c].task = Null

IInv ==
  /\ TypeOK /\ Apart
  /\ \A c \in Running : Core(c)
  /\ SlotOwner /\ TableIntact
-----------------------------------------------------------------------------
\* The areas, in numbers.
Last == Space[NumCpu].last

\* Where the user RAM of structure i ends.
Ends(i) == Space[i].last

LEMMA ModRange ==
  /\ NumSection \in Nat
  /\ \A x \in Int : x % NumSection \in Nat /\ x % NumSection < NumSection
  /\ \A x \in Nat : x < NumSection => x % NumSection = x
<1>1. \A x \in Int : x % NumSection \in Nat /\ x % NumSection < NumSection
  BY DEF NumSection
<1>2. \A x \in Nat : x < NumSection => x % NumSection = x
  BY DEF NumSection
<1>3. NumSection \in Nat
  BY DEF NumSection
<1> QED
  BY <1>1, <1>2, <1>3

LEMMA Areas ==
  ASSUME NEW i \in Struct
  PROVE  /\ Last \in Nat /\ UserBottom \in Nat /\ 1 <= UserBottom
         /\ UserBottom < Last /\ Last < NumSection /\ NumSection \in Nat
         /\ Bottom(i) \in Nat /\ 1 <= Bottom(i)
         /\ MaxNum(i) \in Nat /\ MaxNum(i) + Bottom(i) <= Last
         /\ MaxNum(i) <= Last - UserBottom
         /\ Ends(i) = MaxNum(i) + Bottom(i)
         /\ First(i) \in Nat /\ First(i) < NumSection
         /\ Limit(i) \in Nat /\ Limit(i) < NumSection
         /\ Limit(i) <= Last - UserBottom
<1> DEFINE k == Space[i].kernel
           b == Space[i].bottom
           l == Space[i].last
<1>1. NumCpu \in Struct
  BY DEF Struct, NumCpu
<1>2. \A j \in Struct :
        /\ Space[j] \in [kernel : Nat, bottom : Nat \ {0}, last : Nat]
        /\ Space[j].bottom <= Space[j].last
        /\ Space[j].last \in UserBottom .. Space[NumCpu].last
        /\ Space[j].last - Space[j].bottom <= Space[NumCpu].last - UserBottom
  BY SpaceAssumption DEF SpaceFits
<1>3. UserBottom < Last /\ Last < NumSection /\ NumSection \in Nat
  BY SpaceAssumption, ModRange DEF SpaceFits, Last
<1>4. Last \in Nat /\ UserBottom \in Nat /\ 1 <= UserBottom
  BY <1>1, <1>2, UserBottomPositive DEF Last
<1>5. /\ l \in Nat /\ b \in Nat /\ 1 <= b /\ k \in Nat /\ b <= l
      /\ l <= Last /\ UserBottom <= l /\ l - b <= Last - UserBottom
  BY <1>2, <1>4 DEF Last
<1>6. /\ Bottom(i) = b /\ MaxNum(i) = l - b /\ Ends(i) = l
      /\ First(i) = (k - UserBottom) % NumSection /\ Limit(i) = (l - UserBottom) % NumSection
  BY DEF Bottom, MaxNum, Ends, First, Limit, SlotOf
<1> HIDE DEF k, b, l, Last
<1>7. First(i) \in Nat /\ First(i) < NumSection
  BY <1>4, <1>5, <1>6, ModRange
<1>8. l - UserBottom \in Nat /\ l - UserBottom < NumSection
  BY <1>3, <1>4, <1>5
<1>9. Limit(i) = l - UserBottom
  BY <1>6, <1>8, ModRange
<1>10. Limit(i) \in Nat /\ Limit(i) < NumSection /\ Limit(i) <= Last - UserBottom
  BY <1>3, <1>4, <1>5, <1>8, <1>9
<1>11. /\ MaxNum(i) \in Nat /\ MaxNum(i) + Bottom(i) = Ends(i)
       /\ MaxNum(i) <= Last - UserBottom /\ MaxNum(i) + Bottom(i) <= Last
  BY <1>4, <1>5, <1>6
<1>12. Bottom(i) \in Nat /\ 1 <= Bottom(i)
  BY <1>5, <1>6
<1> QED
  BY <1>3, <1>4, <1>7, <1>10, <1>11, <1>12

LEMMA Modes2 ==
  ASSUME NEW m \in ValidPm
  PROVE  m = {} \/ m = {3} \/ m = {2, 3} \/ m = {0, 1, 2, 3}
<1>1. m \subseteq {0, 1, 2, 3} /\ IsValidPm(m)
  BY DEF ValidPm, Cpu, NumCpu
<1>2. CASE 0 \in m
  <2>1. \A c \in {1, 2, 3} : c \in m
    BY <1>1, <1>2 DEF IsValidPm, IsAmp, PCore, NumCpu
  <2> QED
    BY <1>1, <1>2, <2>1
<1>3. CASE 0 \notin m
  <2>1. 1 \notin m
    BY <1>1, <1>3 DEF IsValidPm, IsAmp, IsSmp, PCore
  <2>2. 2 \in m => 3 \in m
    BY <1>1, <1>3 DEF IsValidPm, IsAmp, IsSmp, PCore, NumCpu
  <2> QED
    BY <1>1, <1>3, <2>1, <2>2
<1> QED
  BY <1>2, <1>3

(* Every core has a structure, and those of one mode are apart. *)
LEMMA Indexes ==
  ASSUME NEW m \in Modes, NEW c \in Running
  PROVE  /\ SsiIndex(c, m) \in Struct /\ c \in Struct
<1>1. m \in ValidPm /\ c \in {0, 1, 2, 3} /\ Struct = 0 .. 6
  BY ModesValid, TaskRunning DEF Cpu, NumCpu, Struct
<1>2. m = {} \/ m = {3} \/ m = {2, 3} \/ m = {0, 1, 2, 3}
  BY <1>1, Modes2
<1>3. c \notin m => m = {} \/ m = {3} \/ m = {2, 3}
  BY <1>1, <1>2
<1>4. SmpProcNum({}) = 4 /\ SmpProcNum({3}) = 3 /\ SmpProcNum({2, 3}) = 2
  <2>1. {} # {3} /\ {} # {2, 3} /\ {3} # {2, 3}
    OBVIOUS
  <2> QED
    BY <2>1 DEF SmpProcNum
<1> QED
  BY <1>1, <1>3, <1>4 DEF SsiIndex, IsAmp, NumCpu

LEMMA Disjoint ==
  ASSUME NEW m \in Modes, NEW c \in Running, NEW d \in Running,
         NEW x \in Nat,
         SsiIndex(c, m) # SsiIndex(d, m),
         x \in Bottom(SsiIndex(c, m)) .. Ends(SsiIndex(c, m))
  PROVE  x \notin Bottom(SsiIndex(d, m)) .. Ends(SsiIndex(d, m))
<1>1. m \in ValidPm /\ c \in Cpu /\ d \in Cpu
  BY ModesValid, TaskRunning
<1> DEFINE i == SsiIndex(c, m)
           j == SsiIndex(d, m)
<1>2. Ends(i) < Bottom(j) \/ Ends(j) < Bottom(i)
  BY <1>1, SpaceAssumption DEF SpaceFits, Ends, Bottom
<1>3. i \in Struct /\ j \in Struct
  BY Indexes
<1> HIDE DEF i, j
<1>4. /\ Bottom(i) \in Nat /\ Bottom(j) \in Nat
      /\ Ends(i) \in Nat /\ Ends(j) \in Nat
  BY <1>3, Areas
<1>5. ASSUME x \in Bottom(i) .. Ends(i) PROVE x \notin Bottom(j) .. Ends(j)
  BY <1>2, <1>4, <1>5
<1> QED
  BY <1>5 DEF i, j
-----------------------------------------------------------------------------
Call == [at : Location, task : Task \union {Null}, i : 0 .. NumSection - 1,
         ssi : Struct, last : Node \union {Null}, then : {"idle", "range"}]

LEMMA Typed ==
  ASSUME TypeOK, NEW c \in Running
  PROVE  /\ call \in [Running -> Call]
         /\ call[c].at \in Location /\ call[c].task \in Task \union {Null}
         /\ call[c].i \in Nat /\ call[c].i < NumSection /\ call[c].ssi \in Struct
         /\ call[c].then \in {"idle", "range"}
         /\ c \in Nat /\ c # Free
         /\ First(c) \in Nat /\ Limit(c) \in Nat /\ Limit(c) < NumSection
         /\ \A s \in Slot : s \in Nat
<1>1. call \in [Running -> Call]
  BY DEF TypeOK, Call
<1>2. call[c] \in Call
  BY <1>1
<1>3. c \in {0, 1, 2, 3}
  BY TaskRunning DEF Cpu, NumCpu
<1>4. /\ First(c) \in Nat /\ Limit(c) \in Nat /\ Limit(c) < NumSection
      /\ NumSection \in Nat
  BY <1>3, Areas DEF Struct, NumCpu
<1>5. \A s \in Slot : s \in Nat
  BY DEF Slot
<1>6. c \in Nat /\ c # Free
  BY <1>3 DEF Free, NumCpu
<1>7. /\ call[c].at \in Location /\ call[c].task \in Task \union {Null}
      /\ call[c].i \in 0 .. NumSection - 1 /\ call[c].ssi \in Struct
      /\ call[c].then \in {"idle", "range"}
  BY <1>2 DEF Call
<1>8. call[c].i \in Nat /\ call[c].i < NumSection
  BY <1>4, <1>7
<1> QED
  BY <1>1, <1>4, <1>5, <1>6, <1>7, <1>8

(***************************************************************************)
(* A step that changes nothing but what core c is doing: what is to be     *)
(* shown is what c knows, and that the task its call has come to be about, *)
(* if it has, is one that no other call is about.                          *)
(***************************************************************************)
LEMMA CallOnly ==
  ASSUME IInv, NEW c \in Running, UNCHANGED <<pm, map, tables, task>>,
         TypeOK', Core(c)',
         \A d \in Running \ {c} : call'[d] = call[d] /\ (lock = d => lock' = d),
         call'[c].task \notin {call[c].task, Null} =>
           \A d \in Running \ {c} :
             /\ call[d].task # call'[c].task
             /\ call[d].then = "range" =>
                  \A s \in Slot :
                    call[d].i <= s /\ s < Limit(d) /\ map[s].state # "INIT"
                    => map[s].task # call'[c].task,
         \A t \in Task :
           call[c].task = t /\ call[c].at \in {"unlink", "free"} =>
           call'[c].task = t /\ call'[c].at \in {"unlink", "free"}
  PROVE  IInv'
<1>1. \A d \in Running : Core(d)
  BY DEF IInv
<1>2. Apart'
  <2> SUFFICES ASSUME NEW d \in Running, NEW e \in Running, d # e,
                      call'[d].task = call'[e].task
               PROVE  call'[d].task = Null
    BY DEF Apart
  <2> QED
    BY DEF IInv, Apart
<1>3. ASSUME NEW d \in Running, d # c PROVE Core(d)'
  <2>1. HasLock(d)'
    BY <1>1, <1>3 DEF Core, HasLock
  <2>2. Actor(d)'
    BY <1>1, <1>3 DEF Core, Actor
  <2>3. Starter(d)'
    BY <1>1, <1>3 DEF Core, Starter, AreaIsOwn
  <2>4. Ranger(d)'
    <3> SUFFICES ASSUME call[d].then = "range" PROVE Ranger(d)'
      BY <1>3 DEF Ranger
    <3>1. Ranger(d) /\ Ranger(c)'
      BY <1>1 DEF Core
    <3>2. ASSUME NEW s \in Slot, call[d].i <= s /\ s < Limit(d) /\ map[s].state # "INIT"
          PROVE  Over(d, s)'
      <4>1. Over(d, s)
        BY <3>1, <3>2 DEF Ranger
      <4>2. call'[c].task # map[s].task
        BY <1>3, <3>2, <4>1, NullNoNode DEF Over
      <4> QED
        BY <1>3, <4>1, <4>2 DEF Over
    <3>3. \A e \in Running \ {d} : call'[e].then = "range" =>
            \A s \in Slot : InRange(d, s) /\ InRange(e, s) => map[s].state = "INIT"
      BY <1>3, <3>1 DEF Ranger
    <3> QED
      BY <1>3, <3>1, <3>2, <3>3 DEF Ranger, InRange
  <2> QED
    BY <2>1, <2>2, <2>3, <2>4 DEF Core
<1>4. \A d \in Running : Core(d)'
  BY <1>3
<1>5. \A t \in Task : Placed(t)' => Placed(t)
  BY DEF Placed
<1>6. SlotOwner' /\ TableIntact'
  BY <1>5 DEF IInv, SlotOwner, TableIntact
<1> QED
  BY <1>2, <1>4, <1>6 DEF IInv
-----------------------------------------------------------------------------
(* What Begin, At, Iterate and Return make of the call of core c. *)
Others(c) == \A d \in Running \ {c} : call'[d] = call[d]

LEMMA Moved ==
  ASSUME TypeOK, NEW c \in Running, NEW from, NEW to \in Location, At(c, from, to)
  PROVE  /\ call' \in [Running -> Call] /\ Others(c)
         /\ call[c].at = from /\ call'[c].at = to
         /\ call'[c].task = call[c].task /\ call'[c].i = call[c].i
         /\ call'[c].ssi = call[c].ssi /\ call'[c].then = call[c].then
<1>1. call[c] \in Call /\ call \in [Running -> Call]
  BY Typed
<1> QED
  BY <1>1 DEF At, Call, Others

LEMMA Begun ==
  ASSUME TypeOK, NEW c \in Running, NEW at \in Location, NEW t \in Task \union {Null},
         NEW i \in 0 .. NumSection - 1, Begin(c, at, t, i)
  PROVE  /\ call' \in [Running -> Call] /\ Others(c)
         /\ call[c].at = "idle" /\ call'[c].at = at
         /\ call[c].task = Null /\ call'[c].task = t
         /\ call'[c].i = i /\ call'[c].ssi = SsiIndex(c, pm)
         /\ call[c].then = "idle" /\ call'[c].then = "idle"
<1>1. /\ call[c] = Idle /\ SsiIndex(c, pm) \in Struct
      /\ call' = [call EXCEPT ![c] = [Idle EXCEPT !.at = at, !.task = t, !.i = i,
                                                  !.ssi = SsiIndex(c, pm)]]
  BY Indexes DEF TypeOK, Begin
<1> DEFINE r == [Idle EXCEPT !.at = at, !.task = t, !.i = i, !.ssi = SsiIndex(c, pm)]
<1>2. /\ r \in Call /\ r.at = at /\ r.task = t /\ r.i = i
      /\ r.ssi = SsiIndex(c, pm) /\ r.then = "idle"
  BY <1>1 DEF Idle, Call
<1> HIDE DEF r
<1>3. call \in [Running -> Call] /\ call' = [call EXCEPT ![c] = r]
  BY <1>1, Typed DEF r
<1>4. call' \in [Running -> Call] /\ Others(c) /\ call'[c] = r
  BY <1>2, <1>3 DEF Others
<1>5. call[c].at = "idle" /\ call[c].task = Null /\ call[c].then = "idle"
  BY <1>1 DEF Idle
<1> QED
  BY <1>2, <1>4, <1>5

LEMMA Iterated ==
  ASSUME TypeOK, NEW c \in Running, NEW at \in Location, Iterate(c, at),
         call[c].i + 1 < NumSection
  PROVE  /\ call' \in [Running -> Call] /\ Others(c)
         /\ call'[c].at = at /\ call'[c].i = call[c].i + 1
         /\ call'[c].task = call[c].task
         /\ call'[c].ssi = call[c].ssi /\ call'[c].then = call[c].then
<1>1. call[c] \in Call /\ call \in [Running -> Call]
  BY Typed
<1>2. call[c].i + 1 \in 0 .. NumSection - 1
  BY Typed, ModRange
<1> DEFINE r == [call[c] EXCEPT !.at = at, !.i = @ + 1]
<1>3. /\ r \in Call /\ r.at = at /\ r.i = call[c].i + 1 /\ r.task = call[c].task
      /\ r.ssi = call[c].ssi /\ r.then = call[c].then
  BY <1>1, <1>2 DEF Call
<1>4. call' = [call EXCEPT ![c] = r]
  BY <1>1 DEF Iterate
<1> HIDE DEF r
<1> QED
  BY <1>1, <1>3, <1>4 DEF Others

LEMMA Returned ==
  ASSUME TypeOK, NEW c \in Running, Return(c)
  PROVE  /\ call' \in [Running -> Call] /\ Others(c)
         /\ call'[c].at = "idle" /\ call'[c].task = Null /\ call'[c].then = "idle"
<1>1. Idle \in Call /\ Idle.at = "idle" /\ Idle.task = Null /\ Idle.then = "idle"
  <2>1. 0 \in 0 .. NumSection - 1
    BY ModRange DEF NumSection
  <2> QED
    BY <2>1 DEF Idle, Call, Location, Struct, NumCpu
<1>2. call \in [Running -> Call] /\ call' = [call EXCEPT ![c] = Idle]
  BY Typed DEF Return
<1> QED
  BY <1>1, <1>2 DEF Others

(***************************************************************************)
(* The types of what such a step changes, the ring and the lock included.  *)
(***************************************************************************)
LEMMA TypedStep ==
  ASSUME TypeOK, UNCHANGED <<pm, pmChanges, map, tables, task>>,
         call' \in [Running -> Call], lock' \in Running \union {Free},
         next' \in [Node -> Node \union {Null}], prev' \in [Node -> Node \union {Null}]
  PROVE  TypeOK'
BY DEF TypeOK, Call

LEMMA Facts ==
  ASSUME IInv, NEW c \in Running
  PROVE  /\ TypeOK /\ HasLock(c) /\ Actor(c) /\ Starter(c) /\ Ranger(c)
         /\ pm \in Modes /\ lock \in Running \union {Free}
         /\ next \in [Node -> Node \union {Null}] /\ prev \in [Node -> Node \union {Null}]
BY DEF IInv, Core, TypeOK

(* create_task, after the block: its ring. *)
LEMMA ReadLastKeeps ==
  ASSUME IInv, NEW c \in Running, ReadLast(c) PROVE IInv'
<1>1. /\ call[c].at = "link" /\ lock = Free /\ lock' = c
      /\ UNCHANGED <<pm, pmChanges, map, tables, task, next, prev>>
      /\ call' = [call EXCEPT ![c].at = "write", ![c].last = prev[Head]]
  BY DEF ReadLast, ringVars
<1>2. prev[Head] \in Node \union {Null}
  BY Facts DEF Node
<1>3. /\ call' \in [Running -> Call] /\ Others(c) /\ call'[c].at = "write"
      /\ call'[c].task = call[c].task /\ call'[c].then = call[c].then
  <2>1. call[c] \in Call /\ call \in [Running -> Call]
    BY Facts, Typed
  <2> QED
    BY <1>1, <1>2, <2>1 DEF Call, Location, Others
<1>4. TypeOK'
  BY <1>1, <1>3, Facts, TypedStep
<1>5. Core(c)'
  BY <1>1, <1>3, Facts DEF Core, HasLock, Actor, About, Starter, Ranger
<1>6. \A d \in Running : d # Free
  BY Facts, Typed
<1> QED
  BY <1>1, <1>3, <1>4, <1>5, <1>6, CallOnly DEF Others

LEMMA WriteLinksKeeps ==
  ASSUME IInv, NEW c \in Running, WriteLinks(c) PROVE IInv'
<1> DEFINE t == call[c].task
           last == call[c].last
<1>1. /\ call[c].at = "write" /\ lock' = Free /\ Return(c)
      /\ UNCHANGED <<pm, pmChanges, map, tables, task>>
      /\ next' = [next EXCEPT ![last] = t, ![t] = Head]
      /\ prev' = [prev EXCEPT ![t] = last, ![Head] = t]
  BY DEF WriteLinks
<1>2. lock = c /\ t \in Task /\ last \in Node \union {Null}
  <2>1. call[c] \in Call
    BY Facts, Typed
  <2> QED
    BY <1>1, <2>1, Facts DEF HasLock, Actor, About, Call
<1> HIDE DEF t, last
<1>3. next' \in [Node -> Node \union {Null}] /\ prev' \in [Node -> Node \union {Null}]
  BY <1>1, <1>2, Facts DEF Node
<1>4. /\ call' \in [Running -> Call] /\ Others(c)
      /\ call'[c].at = "idle" /\ call'[c].task = Null /\ call'[c].then = "idle"
  BY <1>1, Facts, Returned
<1>5. TypeOK'
  BY <1>1, <1>3, <1>4, TypedStep, Facts
<1>6. Core(c)'
  BY <1>4 DEF Core, HasLock, Actor, About, Starter, Ranger
<1> QED
  BY <1>1, <1>2, <1>4, <1>5, <1>6, CallOnly DEF Others

(***************************************************************************)
(* start_task begins: no call is about the task, and the area is the       *)
(* structure's own.                                                        *)
(***************************************************************************)
LEMMA QuietTask ==
  ASSUME IInv, NEW c \in Running, NEW t \in Task, Quiet(t)
  PROVE  /\ \A d \in Running : call[d].task # t
         /\ \A d \in Running : call[d].then = "range" =>
              \A s \in Slot : call[d].i <= s /\ s < Limit(d) => map[s].task # t
<1> SUFFICES ASSUME NEW d \in Running, call[d].then = "range",
                    NEW s \in Slot, call[d].i <= s, s < Limit(d)
             PROVE  map[s].task # t
  BY DEF Quiet
<1>1. First(d) <= call[d].i
  BY Facts DEF Ranger
<1>2. First(d) \in Nat /\ call[d].i \in Nat /\ s \in Nat
  BY Facts, Typed
<1>3. First(d) <= s
  BY <1>1, <1>2
<1> QED
  BY <1>3 DEF Quiet

LEMMA StartKeeps ==
  ASSUME IInv, "area" \notin Careless, NEW c \in Running, NEW t \in Task, Start(c, t)
  PROVE  IInv'
<1>1. /\ task[t].state = "ready" /\ Quiet(t) /\ AreaIsOwn(SsiIndex(c, pm))
      /\ Begin(c, "test", t, 0)
      /\ UNCHANGED <<pm, pmChanges, lock, map, tables, task, next, prev>>
  BY DEF Start, ringVars
<1>2. /\ call' \in [Running -> Call] /\ Others(c)
      /\ call[c].at = "idle" /\ call'[c].at = "test" /\ call'[c].task = t
      /\ call'[c].ssi = SsiIndex(c, pm) /\ call'[c].then = "idle"
  <2>1. 0 \in 0 .. NumSection - 1 /\ "test" \in Location
    BY DEF NumSection, Location
  <2> QED
    BY <1>1, <2>1, Facts, Begun
<1>3. TypeOK'
  BY <1>1, <1>2, TypedStep, Facts
<1>4. Core(c)'
  BY <1>1, <1>2 DEF Core, HasLock, Actor, About, Starter, AreaIsOwn, Ranger
<1> QED
  BY <1>1, <1>2, <1>3, <1>4, QuietTask, CallOnly DEF Others

LEMMA DestroyKeeps ==
  ASSUME IInv, "slotless" \notin Careless, NEW c \in Running, NEW t \in Task, Destroy(c, t)
  PROVE  IInv'
<1>1. /\ task[t].state = "finished" /\ Quiet(t) /\ task[t].ttba # 0
      /\ Begin(c, "clear", t, 0)
      /\ UNCHANGED <<pm, pmChanges, lock, map, tables, task, next, prev>>
  BY DEF Destroy, MayGo, ringVars
<1>2. /\ call' \in [Running -> Call] /\ Others(c)
      /\ call[c].at = "idle" /\ call'[c].at = "clear" /\ call'[c].task = t
      /\ call'[c].then = "idle"
  <2>1. 0 \in 0 .. NumSection - 1 /\ "clear" \in Location
    BY DEF NumSection, Location
  <2> QED
    BY <1>1, <2>1, Facts, Begun
<1>3. TypeOK'
  BY <1>1, <1>2, TypedStep, Facts
<1>4. Core(c)'
  BY <1>1, <1>2 DEF Core, HasLock, Actor, About, Starter, Ranger
<1> QED
  BY <1>1, <1>2, <1>3, <1>4, QuietTask, CallOnly DEF Others

(***************************************************************************)
(* start_task goes through the slots: claims come after a test with the    *)
(* lock, which nobody else has until the claim.                            *)
(***************************************************************************)
LEMMA TestKeeps ==
  ASSUME IInv, NEW c \in Running, Test(c) PROVE IInv'
<1>1. /\ call[c].at = "test" /\ call[c].i < MaxNum(call[c].ssi) /\ lock = Free
      /\ UNCHANGED <<pm, pmChanges, map, tables, task, next, prev>>
      /\ IF map[call[c].i].state = "INIT" THEN At(c, "test", "claim") /\ lock' = c
         ELSE Iterate(c, "test") /\ UNCHANGED lock
  BY DEF Test, ringVars
<1>2. call[c].i + 1 < NumSection
  <2>1. call[c].i \in Nat /\ call[c].ssi \in Struct
    BY Facts, Typed
  <2> QED
    BY <1>1, <2>1, Areas
<1>3. /\ call' \in [Running -> Call] /\ Others(c)
      /\ call'[c].task = call[c].task /\ call'[c].ssi = call[c].ssi
      /\ call'[c].then = call[c].then
      /\ \/ /\ map[call[c].i].state = "INIT" /\ call'[c].i = call[c].i
            /\ call'[c].at = "claim" /\ lock' = c
         \/ call'[c].at = "test" /\ lock' = Free
  <2>1. CASE map[call[c].i].state = "INIT"
    BY <1>1, <2>1, Facts, Moved DEF Location
  <2>2. CASE map[call[c].i].state # "INIT"
    BY <1>1, <1>2, <2>2, Facts, Iterated DEF Location
  <2> QED
    BY <2>1, <2>2
<1>4. TypeOK'
  BY <1>1, <1>3, TypedStep, Facts
<1>5. Core(c)'
  BY <1>1, <1>3, Facts DEF Core, HasLock, Actor, About, Starter, AreaIsOwn, Ranger
<1>6. \A d \in Running : d # Free
  BY Facts, Typed
<1> QED
  BY <1>1, <1>3, <1>4, <1>5, <1>6, CallOnly DEF Others

(* In destroy_task, the range that destroy_core_tasks goes through stays. *)
LEMMA RangerStays ==
  ASSUME NEW c \in Running, Ranger(c), UNCHANGED <<pm, map, task>>, Others(c),
         call'[c].task = call[c].task, call'[c].i = call[c].i,
         call'[c].then = call[c].then,
         call[c].at \in {"clear", "unmap", "unlink", "free"},
         call'[c].at \in {"clear", "unmap", "unlink", "free"}
  PROVE  Ranger(c)'
<1> SUFFICES ASSUME call[c].then = "range" PROVE Ranger(c)'
  BY DEF Ranger
<1>1. \A s \in Slot : Over(c, s) => Over(c, s)'
  BY DEF Over, Others
<1> QED
  BY <1>1 DEF Ranger, Others

(* destroy_task takes the block out of the ring. *)
LEMMA UnlinkKeeps ==
  ASSUME IInv, NEW c \in Running, Unlink(c) PROVE IInv'
<1> DEFINE t == call[c].task
<1>1. /\ At(c, "unlink", "free") /\ lock' = Free
      /\ UNCHANGED <<pm, pmChanges, map, tables, task>>
      /\ next' = [next EXCEPT ![prev[t]] = next[t]]
      /\ prev' = [prev EXCEPT ![next[t]] = prev[t]]
  BY DEF Unlink
<1>2. /\ call' \in [Running -> Call] /\ Others(c)
      /\ call[c].at = "unlink" /\ call'[c].at = "free"
      /\ call'[c].task = t /\ call'[c].i = call[c].i
      /\ call'[c].ssi = call[c].ssi /\ call'[c].then = call[c].then
  <2>1. "free" \in Location
    BY DEF Location
  <2> QED
    BY <1>1, <2>1, Facts, Moved
<1>3. lock = c /\ t \in Node
  BY <1>2, Facts DEF HasLock, Actor, About, Node
<1>4. next' \in [Node -> Node \union {Null}] /\ prev' \in [Node -> Node \union {Null}]
  BY <1>1, <1>3, Facts
<1>5. TypeOK'
  BY <1>1, <1>2, <1>4, TypedStep, Facts
<1>6. Core(c)'
  <2>1. HasLock(c)' /\ Actor(c)' /\ Starter(c)'
    BY <1>1, <1>2, Facts DEF HasLock, Actor, About, Starter
  <2>2. Ranger(c)'
    BY <1>1, <1>2, Facts, RangerStays
  <2> QED
    BY <2>1, <2>2 DEF Core
<1>7. \A d \in Running : d # Free
  BY Facts, Typed
<1> QED
  BY <1>1, <1>2, <1>3, <1>5, <1>6, <1>7, CallOnly DEF Others

(***************************************************************************)
(* destroy_core_tasks: what its careful caller has seen to holds from the  *)
(* current slot on, and the task it turns to is one no call is about.      *)
(***************************************************************************)
LEMMA DestroyCoreTasksKeeps ==
  ASSUME IInv, "core" \notin Careless, "slotless" \notin Careless,
         NEW c \in Running, DestroyCoreTasks(c)
  PROVE  IInv'
<1>1. /\ RangeIsOver(c) /\ call[c] = Idle
      /\ UNCHANGED <<pm, pmChanges, lock, map, tables, task, next, prev>>
      /\ call' = [call EXCEPT ![c] = [Idle EXCEPT !.at = "range", !.i = First(c),
                                                  !.then = "range"]]
  BY DEF DestroyCoreTasks, ringVars
<1>2. /\ call' \in [Running -> Call] /\ Others(c)
      /\ call'[c].at = "range" /\ call'[c].task = Null
      /\ call'[c].i = First(c) /\ call'[c].then = "range"
      /\ call[c].at = "idle" /\ call[c].task = Null
  <2> DEFINE r == [Idle EXCEPT !.at = "range", !.i = First(c), !.then = "range"]
  <2>1. call \in [Running -> Call] /\ First(c) \in 0 .. NumSection - 1
    <3>1. c \in Struct
      BY Facts, Indexes
    <3> QED
      BY <3>1, Facts, Typed, Areas
  <2>2. call[c] \in Call
    BY <2>1
  <2>3. /\ r \in Call /\ r.at = "range" /\ r.task = Null /\ r.i = First(c)
        /\ r.then = "range"
    BY <1>1, <2>1, <2>2 DEF Idle, Call, Location
  <2>4. call[c].at = "idle" /\ call[c].task = Null
    BY <1>1 DEF Idle
  <2>5. call' = [call EXCEPT ![c] = r]
    BY <1>1
  <2> HIDE DEF r
  <2> QED
    BY <2>1, <2>3, <2>4, <2>5 DEF Others
<1>3. TypeOK'
  BY <1>1, <1>2, TypedStep, Facts
<1>4. ASSUME NEW s \in Slot, First(c) <= s, s < Limit(c), map[s].state # "INIT"
      PROVE  /\ Over(c, s) /\ Quiet(map[s].task)
  <2>1. map[s].task \in Task \union {Null}
    BY Facts DEF TypeOK
  <2> QED
    BY <1>1, <1>4, <2>1 DEF RangeIsOver, MayGo, Quiet, Over
<1>5. Ranger(c)'
  <2>1. \A d \in Running : MaxNum(SsiIndex(d, pm)) <= First(c)
    BY <1>1 DEF RangeIsOver
  <2>2. \A s \in Slot : First(c) <= s /\ s < Limit(c) /\ map[s].state # "INIT"
                        => Over(c, s)'
    BY <1>1, <1>2, <1>4 DEF Over, Others
  <2>3. \A d \in Running \ {c} : call[d].then = "range" =>
          \A s \in Slot : InRange(c, s) /\ InRange(d, s) => map[s].state = "INIT"
    BY <1>4 DEF Quiet, InRange
  <2>4. First(c) <= call'[c].i
    BY <1>2, Facts, Typed
  <2> QED
    BY <1>1, <1>2, <2>1, <2>2, <2>3, <2>4 DEF Ranger, InRange, Others
<1>6. Core(c)'
  BY <1>2, <1>5 DEF Core, HasLock, Actor, About, Starter
<1> QED
  BY <1>1, <1>2, <1>3, <1>6, CallOnly DEF Others

LEMMA DestroyNextKeeps ==
  ASSUME IInv, NEW c \in Running, DestroyNext(c) PROVE IInv'
<1> DEFINE i == call[c].i
           t == map[i].task
<1>1. /\ call[c].at = "range" /\ i < Limit(c)
      /\ UNCHANGED <<pm, pmChanges, lock, map, tables, task, next, prev>>
      /\ IF map[i].state = "INIT" THEN Iterate(c, "range")
         ELSE call' = [call EXCEPT ![c].at = "clear", ![c].task = t]
  BY DEF DestroyNext, ringVars
<1>2. /\ call[c].then = "range" /\ Ranger(c) /\ call[c].task = Null
  BY <1>1, Facts DEF Actor, Ranger
<1>3. /\ i \in Nat /\ i + 1 < NumSection /\ i \in Slot
  <2>1. c \in Struct /\ i \in Nat /\ Limit(c) \in Nat
    BY Facts, Indexes, Typed
  <2>2. Limit(c) < NumSection /\ Limit(c) <= Last - UserBottom /\ Last \in Nat
        /\ UserBottom \in Nat /\ NumSection \in Nat
    BY <2>1, Areas
  <2>3. Slot = 0 .. Last - UserBottom - 1
    BY DEF Slot, Last
  <2> HIDE DEF i
  <2> QED
    BY <1>1, <2>1, <2>2, <2>3
<1>4. CASE map[i].state = "INIT"
  <2>1. /\ call' \in [Running -> Call] /\ Others(c) /\ call'[c].at = "range"
        /\ call'[c].i = i + 1 /\ call'[c].task = Null /\ call'[c].then = "range"
    BY <1>1, <1>2, <1>3, <1>4, Iterated, Facts DEF Location
  <2>2. TypeOK'
    BY <1>1, <2>1, TypedStep, Facts
  <2>3. Ranger(c)'
    <3>1. First(c) <= i + 1 /\ \A s \in Slot : i + 1 <= s => i <= s
      <4>1. First(c) \in Nat /\ (\A s \in Slot : s \in Nat) /\ First(c) <= i
        BY <1>2, Facts, Typed DEF Ranger
      <4> HIDE DEF i
      <4> QED
        BY <1>3, <4>1
    <3>2. \A s \in Slot : Over(c, s) => Over(c, s)'
      BY <1>1, <2>1 DEF Over, Others
    <3> QED
      BY <1>1, <1>2, <2>1, <3>1, <3>2 DEF Ranger, Others
  <2>4. Core(c)'
    BY <2>1, <2>3 DEF Core, HasLock, Actor, About, Starter
  <2> QED
    BY <1>1, <1>2, <2>1, <2>2, <2>4, CallOnly DEF Others
<1>5. CASE map[i].state # "INIT"
  <2>1. Over(c, i) /\ First(c) <= i
    <3>1. i <= i
      BY <1>3
    <3> QED
      BY <1>1, <1>2, <1>3, <1>5, <3>1 DEF Ranger
  <2>2. /\ call' \in [Running -> Call] /\ Others(c) /\ call'[c].at = "clear"
        /\ call'[c].i = i /\ call'[c].task = t /\ call'[c].then = "range"
    <3>1. call[c] \in Call /\ call \in [Running -> Call]
      BY Facts, Typed
    <3> QED
      BY <1>1, <1>2, <1>5, <2>1, <3>1 DEF Over, Call, Location, Others
  <2>3. TypeOK'
    BY <1>1, <2>2, TypedStep, Facts
  <2>4. Ranger(c)'
    <3>1. \A s \in Slot : Over(c, s) => Over(c, s)'
      BY <1>1, <2>2 DEF Over, Others
    <3>2. task[t].mapid = i
      BY <2>1 DEF Over
    <3> QED
      BY <1>1, <1>2, <2>2, <3>1, <3>2 DEF Ranger, Others
  <2>5. Core(c)'
    BY <1>1, <2>1, <2>2, <2>4 DEF Core, HasLock, Actor, About, Starter, Over
  <2>6. ASSUME NEW d \in Running \ {c}
        PROVE  /\ call[d].task # t
               /\ call[d].then = "range" =>
                    \A s \in Slot : call[d].i <= s /\ s < Limit(d) /\ map[s].state # "INIT"
                                    => map[s].task # t
    <3> SUFFICES ASSUME call[d].then = "range", NEW s \in Slot, call[d].i <= s,
                        s < Limit(d), map[s].state # "INIT", map[s].task = t
                 PROVE  FALSE
      BY <2>1 DEF Over
    <3>1. Over(d, s) /\ First(d) <= call[d].i
      BY <2>6, Facts DEF Ranger
    <3>2. s = i
      BY <2>1, <3>1 DEF Over
    <3>3. InRange(d, s) /\ InRange(c, s)
      <4>1. First(d) \in Nat /\ call[d].i \in Nat /\ s \in Nat
        BY <2>6, Facts, Typed
      <4> QED
        BY <1>1, <2>1, <3>1, <3>2, <4>1 DEF InRange
    <3> QED
      BY <1>2, <1>5, <2>6, <3>2, <3>3 DEF Ranger
  <2> QED
    BY <1>1, <2>2, <2>3, <2>5, <2>6, CallOnly DEF Others
<1> QED
  BY <1>4, <1>5

(* The ends of both loops over a range, and the loop of move_task_spaces. *)
LEMMA RangeDoneKeeps ==
  ASSUME IInv, NEW c \in Running, RangeDone(c) PROVE IInv'
<1>1. /\ call[c].at \in {"range", "move"} /\ Return(c)
      /\ UNCHANGED <<pm, pmChanges, lock, map, tables, task, next, prev>>
  BY DEF RangeDone, ringVars
<1>2. /\ call' \in [Running -> Call] /\ Others(c)
      /\ call'[c].at = "idle" /\ call'[c].task = Null /\ call'[c].then = "idle"
  BY <1>1, Facts, Returned
<1>3. TypeOK'
  BY <1>1, <1>2, TypedStep, Facts
<1>4. Core(c)'
  BY <1>2 DEF Core, HasLock, Actor, About, Starter, Ranger
<1> QED
  BY <1>1, <1>2, <1>3, <1>4, CallOnly DEF Others

LEMMA MoveTaskSpacesKeeps ==
  ASSUME IInv, NEW c \in Running, MoveTaskSpaces(c) PROVE IInv'
<1>1. /\ Begin(c, "move", Null, First(SsiIndex(c, pm)))
      /\ UNCHANGED <<pm, pmChanges, lock, map, tables, task, next, prev>>
  BY DEF MoveTaskSpaces, ringVars
<1>2. First(SsiIndex(c, pm)) \in 0 .. NumSection - 1
  BY Facts, Indexes, Areas
<1>3. /\ call' \in [Running -> Call] /\ Others(c) /\ call[c].at = "idle"
      /\ call'[c].at = "move" /\ call'[c].task = Null /\ call'[c].then = "idle"
  <2>1. "move" \in Location
    BY DEF Location
  <2> QED
    BY <1>1, <1>2, <2>1, Facts, Begun
<1>4. TypeOK'
  BY <1>1, <1>3, TypedStep, Facts
<1>5. Core(c)'
  BY <1>3 DEF Core, HasLock, Actor, About, Starter, Ranger
<1> QED
  BY <1>1, <1>3, <1>4, <1>5, CallOnly DEF Others

LEMMA MoveNextKeeps ==
  ASSUME IInv, NEW c \in Running, MoveNext(c) PROVE IInv'
<1>1. /\ call[c].at = "move" /\ call[c].i < Limit(call[c].ssi) /\ lock = Free
      /\ UNCHANGED <<pm, pmChanges, map, tables, task, next, prev>>
      /\ \/ Iterate(c, "move") /\ UNCHANGED lock
         \/ At(c, "move", "moving") /\ lock' = c
  BY DEF MoveNext, ringVars
<1>2. call[c].i + 1 < NumSection
  <2>1. call[c].i \in Nat /\ call[c].ssi \in Struct
    BY Facts, Typed
  <2> QED
    BY <1>1, <2>1, Areas
<1>3. /\ call' \in [Running -> Call] /\ Others(c)
      /\ call'[c].task = call[c].task /\ call'[c].then = call[c].then
      /\ \/ call'[c].at = "move" /\ lock' = Free
         \/ call'[c].at = "moving" /\ lock' = c
  <2>1. CASE Iterate(c, "move") /\ UNCHANGED lock
    BY <1>1, <1>2, <2>1, Facts, Iterated DEF Location
  <2>2. CASE At(c, "move", "moving") /\ lock' = c
    BY <2>2, Facts, Moved DEF Location
  <2> QED
    BY <1>1, <2>1, <2>2
<1>4. TypeOK'
  BY <1>1, <1>3, TypedStep, Facts
<1>5. Core(c)'
  BY <1>1, <1>3, Facts DEF Core, HasLock, Actor, About, Starter, Ranger
<1>6. \A d \in Running : d # Free
  BY Facts, Typed
<1> QED
  BY <1>1, <1>3, <1>4, <1>5, <1>6, CallOnly DEF Others
-----------------------------------------------------------------------------
(***************************************************************************)
(* A step of core c that changes the control block of a task which no      *)
(* other call is about: what the other cores know stays true.              *)
(***************************************************************************)
LEMMA OtherCores ==
  ASSUME IInv, NEW c \in Running, NEW t \in Task,
         UNCHANGED pm, Others(c),
         \A d \in Running \ {c} : /\ call[d].task # t
                                  /\ lock = d => lock' = d,
         \A u \in Task \ {t} : task'[u] = task[u],
         call'[c].task \in {call[c].task, t, Null},
         call'[c].then = "range" => call[c].then = "range",
         \A d \in Running \ {c} : call[d].then = "range" =>
           \A s \in Slot :
             /\ call[d].i <= s /\ s < Limit(d) /\ map'[s].state # "INIT"
                => map'[s] = map[s] /\ map[s].task # t
             /\ InRange(d, s) /\ map[s].state = "INIT" => map'[s].state = "INIT",
         \A d \in Running \ {c} : call[d].at = "claim" => map'[call[d].i].state = "INIT",
         \A d \in Running \ {c} : call[d].at \in {"test", "claim"} =>
           AreaIsOwn(call[d].ssi)'
  PROVE  Apart' /\ \A d \in Running \ {c} : Core(d)'
<1>1. \A d \in Running : Core(d)
  BY DEF IInv
<1>2. Apart'
  <2> SUFFICES ASSUME NEW d \in Running, NEW e \in Running, d # e,
                      call'[d].task = call'[e].task
               PROVE  call'[d].task = Null
    BY DEF Apart
  <2> QED
    BY DEF IInv, Apart, Others
<1>3. ASSUME NEW d \in Running \ {c} PROVE Core(d)'
  <2>1. HasLock(d)'
    BY <1>1, <1>3 DEF Core, HasLock, Others
  <2>2. Actor(d)'
    <3>1. Actor(d) /\ call'[d] = call[d] /\ call[d].task # t
      BY <1>1, <1>3 DEF Core, Others
    <3> QED
      BY <3>1 DEF Actor, About
  <2>3. Starter(d)'
    <3>1. Starter(d) /\ call'[d] = call[d]
      BY <1>1, <1>3 DEF Core, Others
    <3> QED
      BY <1>3, <3>1 DEF Starter
  <2>4. Ranger(d)'
    <3> SUFFICES ASSUME call[d].then = "range" PROVE Ranger(d)'
      BY <1>3 DEF Ranger, Others
    <3>1. Ranger(d) /\ call'[d] = call[d] /\ Actor(d)
      BY <1>1, <1>3 DEF Core, Others
    <3>2. ASSUME NEW s \in Slot, call[d].i <= s /\ s < Limit(d) /\ map'[s].state # "INIT"
          PROVE  Over(d, s)'
      <4>1. map'[s] = map[s] /\ map[s].task # t /\ Over(d, s)
        BY <1>3, <3>1, <3>2 DEF Ranger
      <4>2. \A e \in Running \ {d} : call'[e].task # map[s].task
        BY <1>3, <4>1, NullNoNode DEF Over, Others
      <4> QED
        BY <4>1, <4>2 DEF Over
    <3>3. \A e \in Running \ {d} : call'[e].then = "range" =>
            \A s \in Slot : InRange(d, s) /\ InRange(e, s) => map'[s].state = "INIT"
      BY <1>3, <3>1 DEF Ranger, Others
    <3>4. call[d].at # "range" => task'[call[d].task].mapid = call[d].i
      BY <1>3, <3>1 DEF Ranger, Actor, About
    <3> QED
      BY <1>3, <3>1, <3>2, <3>3, <3>4 DEF Ranger, InRange
  <2> QED
    BY <2>1, <2>2, <2>3, <2>4 DEF Core
<1> QED
  BY <1>2, <1>3

(* What an area is told by: the section and the slot of each task. *)
LEMMA AreaKept ==
  ASSUME NEW i \in Struct, AreaIsOwn(i),
         \A u \in Task : \/ task'[u].ttba = task[u].ttba /\ task'[u].mapid = task[u].mapid
                         \/ task'[u].ttba = 0
  PROVE  AreaIsOwn(i)'
<1>1. 0 \notin Bottom(i) .. Space[i].last
  BY Areas
<1> QED
  BY <1>1 DEF AreaIsOwn

LEMMA AreasKept ==
  ASSUME IInv, NEW c \in Running, Others(c),
         \A u \in Task : \/ task'[u].ttba = task[u].ttba /\ task'[u].mapid = task[u].mapid
                         \/ task'[u].ttba = 0
  PROVE  \A d \in Running \ {c} : call[d].at \in {"test", "claim"} =>
           AreaIsOwn(call[d].ssi)'
<1> SUFFICES ASSUME NEW d \in Running \ {c}, call[d].at \in {"test", "claim"}
             PROVE  AreaIsOwn(call[d].ssi)'
  OBVIOUS
<1>1. call[d].ssi \in Struct /\ AreaIsOwn(call[d].ssi) /\ call'[d] = call[d]
  BY Facts, Typed DEF Starter, Others
<1>2. \A i \in Struct : AreaIsOwn(i) => AreaIsOwn(i)'
  BY AreaKept
<1> QED
  BY <1>1, <1>2

Tcb == [state : {"none", "ready", "running", "finished"}, mapid : Slot, ttba : Section]
Entry == [state : {"INIT", "RUNNING", "WAIT_INIT"}, task : Task \union {Null}]

LEMMA Blocks ==
  ASSUME IInv
  PROVE  /\ task \in [Task -> Tcb] /\ map \in [Slot -> Entry]
         /\ 0 \in Slot /\ 0 \in Section
         /\ tables \subseteq Section /\ pmChanges \in 0 .. MaxPmChange
<1>1. NumCpu \in Struct
  BY DEF Struct, NumCpu
<1>2. Last \in Nat /\ UserBottom \in Nat /\ UserBottom < Last
  BY <1>1, Areas
<1>3. 0 \in 0 .. Last - UserBottom - 1 /\ 0 \in 0 .. Last
  BY <1>2
<1>4. 0 \in Slot /\ 0 \in Section
  BY <1>3 DEF Slot, Section, Last
<1> QED
  BY <1>4 DEF IInv, TypeOK, Tcb, Entry

LEMMA TypedBlocks ==
  ASSUME IInv, UNCHANGED <<pm, pmChanges>>,
         call' \in [Running -> Call], lock' \in Running \union {Free},
         task' \in [Task -> Tcb], map' \in [Slot -> Entry], tables' \subseteq Section,
         next' \in [Node -> Node \union {Null}], prev' \in [Node -> Node \union {Null}]
  PROVE  TypeOK'
BY DEF IInv, TypeOK, Call, Tcb, Entry

\* A call that is about a task is the only one.
LEMMA Alone ==
  ASSUME IInv, NEW c \in Running, call[c].task \in Task
  PROVE  \A d \in Running \ {c} : call[d].task # call[c].task
BY NullNoNode DEF IInv, Apart

(* create_task clears the block it got. *)
LEMMA CreateKeeps ==
  ASSUME IInv, NEW c \in Running, NEW t \in Task, Create(c, t) PROVE IInv'
<1> DEFINE b == [state |-> "ready", mapid |-> 0, ttba |-> 0]
<1>1. /\ task[t].state = "none" /\ Quiet(t) /\ Begin(c, "link", t, 0)
      /\ UNCHANGED <<pm, pmChanges, lock, map, tables>>
      /\ task' = [task EXCEPT ![t] = b]
      /\ next' = [next EXCEPT ![t] = Null] /\ prev' = [prev EXCEPT ![t] = Null]
  BY DEF Create
<1>2. /\ call' \in [Running -> Call] /\ Others(c)
      /\ call[c].at = "idle" /\ call'[c].at = "link"
      /\ call[c].task = Null /\ call'[c].task = t /\ call'[c].then = "idle"
  <2>1. 0 \in 0 .. NumSection - 1 /\ "link" \in Location
    BY DEF NumSection, Location
  <2> QED
    BY <1>1, <2>1, Facts, Begun
<1>3. /\ b \in Tcb /\ b.state = "ready" /\ b.ttba = 0
  BY Blocks DEF Tcb
<1> HIDE DEF b
<1>4. task' \in [Task -> Tcb] /\ task'[t] = b /\ \A u \in Task \ {t} : task'[u] = task[u]
  BY <1>1, <1>3, Blocks
<1>5. next' \in [Node -> Node \union {Null}] /\ prev' \in [Node -> Node \union {Null}]
  BY <1>1, Facts DEF Node
<1>6. TypeOK'
  BY <1>1, <1>2, <1>4, <1>5, TypedBlocks, Blocks, Facts
<1>7. Core(c)'
  BY <1>2, <1>3, <1>4 DEF Core, HasLock, Actor, About, Starter, Ranger
<1>8. \A d \in Running \ {c} : call[d].at \in {"test", "claim"} => AreaIsOwn(call[d].ssi)'
  BY <1>2, <1>3, <1>4, AreasKept
<1>9. \A d \in Running \ {c} : call[d].at = "claim" => map'[call[d].i].state = "INIT"
  BY <1>1, Facts DEF Starter
<1>10. Apart' /\ \A d \in Running \ {c} : Core(d)'
  BY <1>1, <1>2, <1>4, <1>8, <1>9, QuietTask, OtherCores
<1>11. \A u \in Task : Placed(u)' => u # t /\ Placed(u)
  BY <1>2, <1>3, <1>4 DEF Placed, Others
<1>12. SlotOwner' /\ TableIntact'
  BY <1>1, <1>3, <1>4, <1>11 DEF IInv, SlotOwner, TableIntact
<1> QED
  BY <1>6, <1>7, <1>10, <1>12 DEF IInv

(* start_task sets the state last. *)
LEMMA StartedKeeps ==
  ASSUME IInv, NEW c \in Running, Started(c) PROVE IInv'
<1> DEFINE t == call[c].task
<1>1. /\ call[c].at = "test" /\ Return(c)
      /\ UNCHANGED <<pm, pmChanges, lock, map, tables, next, prev>>
      /\ task' = [task EXCEPT ![t].state = "running"]
  BY DEF Started, ringVars
<1>2. t \in Task /\ task[t].state = "ready" /\ task[t] \in Tcb
  BY <1>1, Facts, Blocks DEF Actor, About
<1>3. \A d \in Running \ {c} : call[d].task # t
  BY <1>2, Alone
<1> HIDE DEF t
<1>4. /\ call' \in [Running -> Call] /\ Others(c)
      /\ call'[c].at = "idle" /\ call'[c].task = Null /\ call'[c].then = "idle"
  BY <1>1, Facts, Returned
<1>5. /\ task' \in [Task -> Tcb] /\ \A u \in Task \ {t} : task'[u] = task[u]
      /\ task'[t].state = "running" /\ task'[t].mapid = task[t].mapid
      /\ task'[t].ttba = task[t].ttba
  BY <1>1, <1>2, Blocks DEF Tcb
<1>6. TypeOK'
  BY <1>1, <1>4, <1>5, TypedBlocks, Blocks, Facts
<1>7. Core(c)'
  BY <1>4 DEF Core, HasLock, Actor, About, Starter, Ranger
<1>8. \A d \in Running \ {c} : call[d].at \in {"test", "claim"} => AreaIsOwn(call[d].ssi)'
  BY <1>4, <1>5, AreasKept
<1>9. \A d \in Running \ {c} : call[d].at = "claim" => map'[call[d].i].state = "INIT"
  BY <1>1, Facts DEF Starter
<1>10. \A d \in Running \ {c} : call[d].then = "range" =>
         \A s \in Slot : call[d].i <= s /\ s < Limit(d) /\ map[s].state # "INIT"
                         => map[s].task # t
  BY <1>2, Facts DEF Ranger, Over
<1>11. Apart' /\ \A d \in Running \ {c} : Core(d)'
  BY <1>1, <1>2, <1>3, <1>4, <1>5, <1>8, <1>9, <1>10, OtherCores
<1>12. \A u \in Task : Placed(u)' => Placed(u)
  BY <1>1, <1>4, <1>5 DEF Placed, Others, t
<1>13. \A u \in Task : task'[u].mapid = task[u].mapid /\ task'[u].ttba = task[u].ttba
  BY <1>5
<1>14. SlotOwner' /\ TableIntact'
  <2>1. SlotOwner'
    BY <1>1, <1>12, <1>13 DEF IInv, SlotOwner
  <2>2. TableIntact'
    BY <1>1, <1>2, <1>5, <1>13 DEF IInv, TableIntact
  <2> QED
    BY <2>1, <2>2
<1> QED
  BY <1>6, <1>7, <1>11, <1>14 DEF IInv

(***************************************************************************)
(* end_task, without the lock: the slot it writes is one that its task has *)
(* and that is in use, so nobody claims it nor destroys what is in it.     *)
(***************************************************************************)
LEMMA EndKeeps ==
  ASSUME IInv, "slotless" \notin Careless, NEW c \in Running, NEW t \in Task, End(c, t)
  PROVE  IInv'
<1> DEFINE m == task[t].mapid
<1>1. /\ call[c] = Idle /\ task[t].state = "running" /\ Quiet(t) /\ task[t].ttba # 0
      /\ UNCHANGED <<pm, pmChanges, lock, tables, next, prev, call>>
      /\ map' = [map EXCEPT ![m].state = "WAIT_INIT"]
      /\ task' = [task EXCEPT ![t].state = "finished"]
  BY DEF End, MayGo, ringVars
<1>2. task[t] \in Tcb /\ m \in Slot /\ map[m] \in Entry
  BY Blocks DEF Tcb
<1>3. Placed(t)
  BY <1>1, QuietTask DEF Placed
<1>4. map[m].task = t /\ map[m].state # "INIT"
  BY <1>3 DEF IInv, SlotOwner
<1> HIDE DEF m
<1>5. /\ task' \in [Task -> Tcb] /\ \A u \in Task \ {t} : task'[u] = task[u]
      /\ task'[t].state = "finished" /\ task'[t].mapid = task[t].mapid
      /\ task'[t].ttba = task[t].ttba
  BY <1>1, <1>2, Blocks DEF Tcb
<1>6. /\ map' \in [Slot -> Entry] /\ \A s \in Slot \ {m} : map'[s] = map[s]
      /\ map'[m].state = "WAIT_INIT" /\ map'[m].task = t
  BY <1>1, <1>2, <1>4, Blocks DEF Entry
<1>7. Others(c) /\ call[c].at = "idle" /\ call[c].then = "idle" /\ call'[c] = call[c]
      /\ call' \in [Running -> Call]
  BY <1>1, Facts, Typed DEF Others, Idle
<1>8. TypeOK'
  BY <1>1, <1>5, <1>6, <1>7, TypedBlocks, Blocks, Facts
<1>9. Core(c)'
  BY <1>7 DEF Core, HasLock, Actor, About, Starter, Ranger
<1>10. \A d \in Running \ {c} : call[d].at \in {"test", "claim"} => AreaIsOwn(call[d].ssi)'
  BY <1>5, <1>7, AreasKept
<1>11. \A d \in Running \ {c} : call[d].at = "claim" => map'[call[d].i].state = "INIT"
  <2> SUFFICES ASSUME NEW d \in Running \ {c}, call[d].at = "claim"
               PROVE  map'[call[d].i].state = "INIT"
    OBVIOUS
  <2>1. map[call[d].i].state = "INIT"
    BY Facts DEF Starter
  <2>2. call[d].i \in Slot
    <3>1. call[d].i \in Nat /\ call[d].ssi \in Struct /\ call[d].i < MaxNum(call[d].ssi)
      BY Facts, Typed DEF Starter
    <3>2. call[d].i \in 0 .. Last - UserBottom - 1
      BY <3>1, Areas
    <3> QED
      BY <3>2 DEF Slot, Last
  <2> QED
    BY <1>4, <1>6, <2>1, <2>2
<1>12. \A d \in Running \ {c} : call[d].then = "range" =>
         \A s \in Slot :
           /\ call[d].i <= s /\ s < Limit(d) => s # m /\ map[s].task # t
           /\ map[s].state = "INIT" => s # m
  BY <1>1, <1>4, QuietTask
<1>13. Apart' /\ \A d \in Running \ {c} : Core(d)'
  BY <1>1, <1>5, <1>6, <1>7, <1>10, <1>11, <1>12, QuietTask, OtherCores
<1>14. \A u \in Task : /\ Placed(u)' => Placed(u)
                       /\ task'[u].mapid = task[u].mapid /\ task'[u].ttba = task[u].ttba
  BY <1>1, <1>5 DEF Placed
<1>15. \A s \in Slot : /\ map'[s].task = map[s].task
                       /\ map[s].state # "INIT" => map'[s].state # "INIT"
  BY <1>4, <1>6
<1>16. SlotOwner' /\ TableIntact'
  <2>1. \A u \in Task : task[u].mapid \in Slot
    BY Blocks DEF Tcb
  <2>2. SlotOwner'
    BY <1>14, <1>15, <2>1 DEF IInv, SlotOwner
  <2>3. TableIntact'
    BY <1>1, <1>5, <1>14 DEF IInv, TableIntact
  <2> QED
    BY <2>2, <2>3
<1> QED
  BY <1>8, <1>9, <1>13, <1>16 DEF IInv

(***************************************************************************)
(* destroy_task clears, without the lock, the section of a task that has   *)
(* ended: no other task has that section.                                  *)
(***************************************************************************)
LEMMA ClearKeeps ==
  ASSUME IInv, NEW c \in Running, Clear(c) PROVE IInv'
<1> DEFINE t == call[c].task
<1>1. /\ At(c, "clear", "unmap") /\ tables' = tables \ {task[t].ttba}
      /\ UNCHANGED <<pm, pmChanges, lock, map, task, next, prev>>
  BY DEF Clear, ringVars
<1>2. /\ call' \in [Running -> Call] /\ Others(c)
      /\ call[c].at = "clear" /\ call'[c].at = "unmap"
      /\ call'[c].task = t /\ call'[c].i = call[c].i
      /\ call'[c].ssi = call[c].ssi /\ call'[c].then = call[c].then
  <2>1. "unmap" \in Location
    BY DEF Location
  <2> QED
    BY <1>1, <2>1, Facts, Moved
<1>3. t \in Task /\ task[t].state = "finished" /\ task[t].ttba # 0
  BY <1>2, Facts DEF Actor, About
<1>4. \A d \in Running \ {c} : call[d].task # t
  BY <1>3, Alone
<1>5. TypeOK'
  <2>1. tables' \subseteq Section
    BY <1>1, Blocks
  <2> QED
    BY <1>1, <1>2, <2>1, TypedBlocks, Blocks, Facts
<1>6. Core(c)'
  <2>1. Ranger(c)'
    BY <1>1, <1>2, Facts, RangerStays
  <2> QED
    BY <1>1, <1>2, <1>3, <2>1 DEF Core, HasLock, Actor, About, Starter
<1>7. \A d \in Running \ {c} : call[d].at \in {"test", "claim"} => AreaIsOwn(call[d].ssi)'
  BY <1>1, <1>2, AreasKept
<1>8. \A d \in Running \ {c} : call[d].at = "claim" => map'[call[d].i].state = "INIT"
  BY <1>1, Facts DEF Starter
<1>9. \A d \in Running \ {c} : call[d].then = "range" =>
        \A s \in Slot : call[d].i <= s /\ s < Limit(d) /\ map[s].state # "INIT"
                        => map[s].task # t
  BY <1>3, Facts DEF Ranger, Over
<1>10. Apart' /\ \A d \in Running \ {c} : Core(d)'
  BY <1>1, <1>2, <1>3, <1>4, <1>7, <1>8, <1>9, OtherCores
<1>11. \A u \in Task : Placed(u)' <=> Placed(u)
  BY <1>1, <1>2 DEF Placed, Others
<1>12. SlotOwner'
  BY <1>1, <1>11 DEF IInv, SlotOwner
<1>13. TableIntact'
  <2>1. ASSUME NEW u \in Task, task[u].state \in {"ready", "running"}, task[u].ttba # 0
        PROVE  task[u].ttba \in tables'
    <3>1. Placed(u)
      <4>1. \A d \in Running : call[d].task = u => call[d].at \notin {"unlink", "free"}
        BY <2>1, Facts DEF Actor
      <4> QED
        BY <2>1, <4>1 DEF Placed
    <3>2. Placed(t)
      BY <1>2, <1>3, <1>4 DEF Placed
    <3>3. task[u].ttba # task[t].ttba
      BY <1>3, <2>1, <3>1, <3>2 DEF IInv, SlotOwner
    <3> QED
      BY <1>1, <2>1, <3>3 DEF IInv, TableIntact
  <2>2. 0 \in tables'
    BY <1>1, <1>3 DEF IInv, TableIntact
  <2> QED
    BY <1>1, <2>1, <2>2 DEF TableIntact
<1> QED
  BY <1>5, <1>6, <1>10, <1>12, <1>13 DEF IInv

(* The slot is given back with the lock. *)
LEMMA UnmapKeeps ==
  ASSUME IInv, NEW c \in Running, Unmap(c) PROVE IInv'
<1> DEFINE t == call[c].task
           m == task[t].mapid
           e == [state |-> "INIT", task |-> Null]
<1>1. /\ At(c, "unmap", "unlink") /\ lock = Free /\ lock' = c
      /\ map' = [map EXCEPT ![m] = e]
      /\ UNCHANGED <<pm, pmChanges, tables, task, next, prev>>
  BY DEF Unmap, ringVars
<1>2. /\ call' \in [Running -> Call] /\ Others(c)
      /\ call[c].at = "unmap" /\ call'[c].at = "unlink"
      /\ call'[c].task = t /\ call'[c].i = call[c].i
      /\ call'[c].ssi = call[c].ssi /\ call'[c].then = call[c].then
  <2>1. "unlink" \in Location
    BY DEF Location
  <2> QED
    BY <1>1, <2>1, Facts, Moved
<1>3. t \in Task /\ task[t].state = "finished" /\ task[t].ttba # 0
  BY <1>2, Facts DEF Actor, About
<1>4. \A d \in Running \ {c} : call[d].task # t
  BY <1>3, Alone
<1>5. task[t] \in Tcb /\ m \in Slot
  BY <1>3, Blocks DEF Tcb
<1>6. Placed(t)
  BY <1>2, <1>3, <1>4 DEF Placed
<1>7. map[m].task = t
  BY <1>3, <1>6 DEF IInv, SlotOwner
<1>8. e \in Entry /\ e.state = "INIT"
  BY DEF Entry
<1> HIDE DEF e
<1>9. map' \in [Slot -> Entry] /\ map'[m].state = "INIT"
      /\ \A s \in Slot \ {m} : map'[s] = map[s]
  BY <1>1, <1>5, <1>8, Blocks
<1>10. TypeOK'
  BY <1>1, <1>2, <1>9, TypedBlocks, Blocks, Facts
<1>11. \A s \in Slot : map'[s].state # "INIT" => map'[s] = map[s]
  BY <1>9
<1>12. \A s \in Slot : map[s].state = "INIT" => map'[s].state = "INIT"
  BY <1>9
<1> HIDE DEF m
<1>13. Core(c)'
  <2>1. HasLock(c)' /\ Actor(c)' /\ Starter(c)'
    BY <1>1, <1>2, <1>3 DEF HasLock, Actor, About, Starter
  <2>2. ASSUME call[c].then = "range" PROVE Ranger(c)'
    <3>1. Ranger(c)
      BY Facts
    <3>2. \A s \in Slot : map'[s] = map[s] /\ Over(c, s) => Over(c, s)'
      BY <1>1, <1>2 DEF Over, Others
    <3> QED
      BY <1>1, <1>2, <1>11, <1>12, <2>2, <3>1, <3>2 DEF Ranger, Others
  <2>3. Ranger(c)'
    BY <1>2, <2>2 DEF Ranger
  <2> QED
    BY <2>1, <2>3 DEF Core
<1>14. \A d \in Running \ {c} : call[d].at \in {"test", "claim"} => AreaIsOwn(call[d].ssi)'
  BY <1>1, <1>2, AreasKept
<1>15. \A d \in Running \ {c} : call[d].at = "claim" => map'[call[d].i].state = "INIT"
  <2>1. \A d \in Running : d # Free
    BY Facts, Typed
  <2> QED
    BY <1>1, <2>1, Facts DEF HasLock
<1>16. \A d \in Running \ {c} : call[d].then = "range" =>
         \A s \in Slot : call[d].i <= s /\ s < Limit(d) /\ map[s].state # "INIT"
                         => map[s].task # t
  BY <1>3, Facts DEF Ranger, Over
<1>17. Apart' /\ \A d \in Running \ {c} : Core(d)'
  <2>1. \A d \in Running \ {c} : lock # d
    BY <1>1, Facts, Typed
  <2> QED
    BY <1>1, <1>2, <1>3, <1>4, <1>11, <1>12, <1>14, <1>15, <1>16, <2>1, OtherCores
<1>18. \A u \in Task : Placed(u)' => Placed(u) /\ u # t
  BY <1>1, <1>2 DEF Placed, Others
<1>19. \A u \in Task : Placed(u) /\ u # t => map'[task[u].mapid] = map[task[u].mapid]
  <2> SUFFICES ASSUME NEW u \in Task, Placed(u), u # t
               PROVE  map'[task[u].mapid] = map[task[u].mapid]
    OBVIOUS
  <2>1. map[task[u].mapid].task = u /\ task[u].mapid \in Slot
    BY Blocks DEF IInv, SlotOwner, Tcb
  <2> QED
    BY <1>7, <1>9, <2>1
<1>20. SlotOwner' /\ TableIntact'
  BY <1>1, <1>18, <1>19 DEF IInv, SlotOwner, TableIntact
<1> QED
  BY <1>10, <1>13, <1>17, <1>20 DEF IInv

(* The block is freed; destroy_core_tasks goes on to the next slot. *)
LEMMA FreeBlockKeeps ==
  ASSUME IInv, NEW c \in Running, FreeBlock(c) PROVE IInv'
<1> DEFINE t == call[c].task
           b == [state |-> "none", mapid |-> 0, ttba |-> 0]
<1>1. /\ call[c].at = "free" /\ task' = [task EXCEPT ![t] = b]
      /\ UNCHANGED <<pm, pmChanges, lock, map, tables, next, prev>>
      /\ IF call[c].then = "idle" THEN Return(c)
         ELSE call' = [call EXCEPT ![c].at = "range", ![c].task = Null, ![c].i = @ + 1]
  BY DEF FreeBlock, ringVars
<1>2. t \in Task /\ task[t].state = "finished"
  BY <1>1, Facts DEF Actor, About
<1>3. \A d \in Running \ {c} : call[d].task # t
  BY <1>2, Alone
<1>4. b \in Tcb /\ b.ttba = 0 /\ b.state = "none"
  BY Blocks DEF Tcb
<1> HIDE DEF b
<1>5. task' \in [Task -> Tcb] /\ task'[t] = b /\ \A u \in Task \ {t} : task'[u] = task[u]
  BY <1>1, <1>2, <1>4, Blocks
<1>6. /\ call' \in [Running -> Call] /\ Others(c) /\ call'[c].task = Null
      /\ \/ call'[c].at = "idle" /\ call'[c].then = "idle"
         \/ /\ call'[c].at = "range" /\ call'[c].then = "range"
            /\ call[c].then = "range" /\ call'[c].i = call[c].i + 1
  <2>1. CASE call[c].then = "idle"
    BY <1>1, <2>1, Facts, Returned
  <2>2. CASE call[c].then = "range"
    <3>1. call[c].i + 1 \in 0 .. NumSection - 1
      <4>1. call[c].i < Limit(c)
        BY <1>1, <2>2, Facts DEF Ranger
      <4>2. call[c].i \in Nat /\ Limit(c) \in Nat /\ Limit(c) < NumSection
            /\ NumSection \in Nat
        BY Facts, Typed, ModRange
      <4> QED
        BY <4>1, <4>2
    <3>2. call[c] \in Call /\ call \in [Running -> Call]
      BY Facts, Typed
    <3>3. call' = [call EXCEPT ![c] = [call[c] EXCEPT !.at = "range", !.task = Null,
                                                      !.i = call[c].i + 1]]
      BY <1>1, <2>2, <3>2
    <3> QED
      BY <2>2, <3>1, <3>2, <3>3 DEF Call, Location, Others
  <2> QED
    BY <2>1, <2>2, Facts, Typed
<1>7. TypeOK'
  BY <1>1, <1>5, <1>6, TypedBlocks, Blocks, Facts
<1>8. Core(c)'
  <2>1. CASE call'[c].then = "idle"
    BY <1>6, <2>1 DEF Core, HasLock, Actor, About, Starter, Ranger
  <2>2. CASE call'[c].then = "range"
    <3>1. Ranger(c) /\ call[c].then = "range" /\ call'[c].i = call[c].i + 1
          /\ call'[c].at = "range"
      BY <1>6, <2>2, Facts
    <3>2. First(c) <= call'[c].i /\ \A s \in Slot : call'[c].i <= s =>
                                       call[c].i <= s /\ s # call[c].i
      <4>1. /\ First(c) \in Nat /\ call[c].i \in Nat /\ First(c) <= call[c].i
            /\ \A s \in Slot : s \in Nat
        BY <3>1, Facts, Typed DEF Ranger
      <4> QED
        BY <3>1, <4>1
    <3>3. ASSUME NEW s \in Slot, call'[c].i <= s, s < Limit(c), map[s].state # "INIT"
          PROVE  Over(c, s)'
      <4>1. Over(c, s)
        BY <3>1, <3>2, <3>3 DEF Ranger
      <4>2. task[t].mapid = call[c].i
        BY <1>1, <3>1 DEF Ranger
      <4>3. map[s].task # t
        BY <3>2, <3>3, <4>1, <4>2 DEF Over
      <4> QED
        BY <1>1, <1>5, <1>6, <4>1, <4>3 DEF Over, Others
    <3>4. Ranger(c)'
      BY <1>1, <1>6, <3>1, <3>2, <3>3 DEF Ranger, Others
    <3> QED
      BY <1>6, <3>1, <3>4 DEF Core, HasLock, Actor, About, Starter
  <2> QED
    BY <1>6, <2>1, <2>2
<1>9. \A d \in Running \ {c} : call[d].at \in {"test", "claim"} => AreaIsOwn(call[d].ssi)'
  BY <1>4, <1>5, <1>6, AreasKept
<1>10. \A d \in Running \ {c} : call[d].at = "claim" => map'[call[d].i].state = "INIT"
  BY <1>1, Facts DEF Starter
<1>11. \A d \in Running \ {c} : call[d].then = "range" =>
         \A s \in Slot : call[d].i <= s /\ s < Limit(d) /\ map[s].state # "INIT"
                         => map[s].task # t
  BY <1>2, Facts DEF Ranger, Over
<1>12. Apart' /\ \A d \in Running \ {c} : Core(d)'
  BY <1>1, <1>2, <1>3, <1>5, <1>6, <1>9, <1>10, <1>11, OtherCores
<1>13. \A u \in Task : Placed(u)' => u # t /\ Placed(u)
  BY <1>3, <1>4, <1>5, <1>6 DEF Placed, Others
<1>14. SlotOwner' /\ TableIntact'
  BY <1>1, <1>4, <1>5, <1>13 DEF IInv, SlotOwner, TableIntact
<1> QED
  BY <1>7, <1>8, <1>12, <1>14 DEF IInv

(***************************************************************************)
(* The claim of a slot: the section that goes with it is no other task's,  *)
(* for tasks in the area have the section of their own slot, which this is *)
(* not, and areas of other structures are apart.                           *)
(***************************************************************************)
LEMMA ClaimKeeps ==
  ASSUME IInv, NEW c \in Running, Claim(c) PROVE IInv'
<1> DEFINE t == call[c].task
           i == call[c].i
           k == call[c].ssi
           x == i + Bottom(k)
           e == [state |-> "RUNNING", task |-> t]
<1>1. /\ call[c].at = "claim" /\ lock' = Free /\ Iterate(c, "test")
      /\ map' = [map EXCEPT ![i] = e]
      /\ task' = [task EXCEPT ![t].mapid = i, ![t].ttba = x]
      /\ tables' = tables \union {x}
      /\ UNCHANGED <<pm, pmChanges, next, prev>>
  BY DEF Claim, ringVars
<1>2. /\ t \in Task /\ task[t].state = "ready" /\ task[t] \in Tcb /\ lock = c
  BY <1>1, Facts, Blocks DEF Actor, About, HasLock
<1>3. /\ k = SsiIndex(c, pm) /\ k \in Struct /\ AreaIsOwn(k) /\ i < MaxNum(k)
      /\ map[i].state = "INIT" /\ i \in Nat
  BY <1>1, Facts, Typed DEF Starter
<1>4. \A d \in Running \ {c} : call[d].task # t
  BY <1>2, Alone
<1>5. call[c].then # "range"
  BY <1>1, Facts DEF Ranger
<1> HIDE DEF t, i, k
<1>6. /\ i \in Slot /\ i + 1 < NumSection /\ x \in Section /\ x \in Nat /\ x # 0
      /\ x \in Bottom(k) .. Ends(k)
  <2>1. /\ Last \in Nat /\ UserBottom \in Nat /\ Last < NumSection /\ NumSection \in Nat
        /\ 1 <= UserBottom /\ Bottom(k) \in Nat /\ 1 <= Bottom(k) /\ MaxNum(k) \in Nat
        /\ MaxNum(k) + Bottom(k) <= Last /\ MaxNum(k) <= Last - UserBottom
        /\ Ends(k) = MaxNum(k) + Bottom(k)
    BY <1>3, Areas
  <2>2. i \in 0 .. Last - UserBottom - 1 /\ i + 1 < NumSection
    BY <1>3, <2>1
  <2>3. x \in 0 .. Last /\ x # 0 /\ x \in Bottom(k) .. Ends(k)
    BY <1>3, <2>1
  <2> QED
    BY <2>2, <2>3 DEF Slot, Section, Last
<1>7. /\ call' \in [Running -> Call] /\ Others(c) /\ call'[c].at = "test"
      /\ call'[c].task = t /\ call'[c].ssi = k /\ call'[c].then = call[c].then
  <2>1. "test" \in Location
    BY DEF Location
  <2> QED
    BY <1>1, <1>6, <2>1, Facts, Iterated DEF t, k, i
<1>8. e \in Entry /\ e.state = "RUNNING" /\ e.task = t
  BY <1>2 DEF Entry
<1> HIDE DEF e, x
<1>9. /\ map' \in [Slot -> Entry] /\ map'[i] = e
      /\ \A s \in Slot \ {i} : map'[s] = map[s]
  BY <1>1, <1>6, <1>8, Blocks
<1>10. /\ task' \in [Task -> Tcb] /\ \A u \in Task \ {t} : task'[u] = task[u]
       /\ task'[t].mapid = i /\ task'[t].ttba = x /\ task'[t].state = task[t].state
  BY <1>1, <1>2, <1>6, Blocks DEF Tcb
<1>11. TypeOK'
  <2>1. tables' \subseteq Section
    BY <1>1, <1>6, Blocks
  <2> QED
    BY <1>1, <1>7, <1>9, <1>10, <2>1, TypedBlocks, Facts
<1>12. ASSUME NEW d \in Running, AreaIsOwn(SsiIndex(d, pm))
       PROVE  AreaIsOwn(SsiIndex(d, pm))'
  <2> DEFINE j == SsiIndex(d, pm)
  <2>1. x \in Bottom(j) .. Ends(j) => x = Bottom(j) + i
    <3>1. CASE j = k
      <4>1. Bottom(k) \in Nat
        BY <1>3, Areas
      <4> QED
        BY <1>3, <3>1, <4>1 DEF x
    <3>2. CASE j # k
      BY <1>3, <1>6, <3>2, Facts, Disjoint
    <3> QED
      BY <3>1, <3>2
  <2>2. j' = j
    BY <1>1
  <2> HIDE DEF j
  <2>3. AreaIsOwn(j) => \A u \in Task : task'[u].ttba \in Bottom(j) .. Space[j].last
                                         => task'[u].ttba = Bottom(j) + task'[u].mapid
    BY <1>10, <2>1 DEF AreaIsOwn, Ends
  <2> QED
    BY <1>12, <2>2, <2>3 DEF AreaIsOwn, j
<1>13. Core(c)'
  <2>1. Starter(c)'
    <3>1. AreaIsOwn(SsiIndex(c, pm))'
      BY <1>3, <1>12
    <3> QED
      BY <1>1, <1>3, <1>7, <3>1 DEF Starter, AreaIsOwn
  <2> QED
    BY <1>2, <1>5, <1>7, <1>10, <2>1 DEF Core, HasLock, Actor, About, Ranger
<1>14. \A d \in Running \ {c} : call[d].at \in {"test", "claim"} => AreaIsOwn(call[d].ssi)'
  <2> SUFFICES ASSUME NEW d \in Running \ {c}, call[d].at \in {"test", "claim"}
               PROVE  AreaIsOwn(call[d].ssi)'
    OBVIOUS
  <2>1. call[d].ssi = SsiIndex(d, pm) /\ AreaIsOwn(call[d].ssi) /\ call'[d] = call[d]
    BY <1>7, Facts DEF Starter, Others
  <2>2. AreaIsOwn(SsiIndex(d, pm))'
    BY <1>12, <2>1
  <2> QED
    BY <1>1, <2>1, <2>2 DEF AreaIsOwn
<1>15. \A d \in Running \ {c} : call[d].at # "claim" /\ lock # d
  BY <1>2, Facts DEF HasLock
<1>16. ASSUME NEW d \in Running \ {c}, call[d].then = "range", NEW s \in Slot
       PROVE  /\ InRange(d, s) => s # i
              /\ call[d].i <= s /\ s < Limit(d) => s # i
              /\ call[d].i <= s /\ s < Limit(d) /\ map[s].state # "INIT" => map[s].task # t
  <2>1. MaxNum(k) <= First(d) /\ First(d) <= call[d].i
    BY <1>3, <1>16, Facts DEF Ranger
  <2>2. First(d) \in Nat /\ call[d].i \in Nat /\ s \in Nat /\ MaxNum(k) \in Nat
    BY <1>3, Facts, Typed, Areas
  <2>3. call[d].i <= s /\ s < Limit(d) /\ map[s].state # "INIT" => map[s].task # t
    BY <1>16, Facts DEF Ranger, Over, t
  <2> QED
    BY <1>3, <2>1, <2>2, <2>3 DEF InRange
<1>17. Apart' /\ \A d \in Running \ {c} : Core(d)'
  <2>1. \A d \in Running \ {c} : call[d].then = "range" =>
          \A s \in Slot :
            /\ call[d].i <= s /\ s < Limit(d) /\ map'[s].state # "INIT"
               => map'[s] = map[s] /\ map[s].task # t
            /\ InRange(d, s) /\ map[s].state = "INIT" => map'[s].state = "INIT"
    <3> SUFFICES ASSUME NEW d \in Running \ {c}, call[d].then = "range", NEW s \in Slot
                 PROVE  /\ call[d].i <= s /\ s < Limit(d) /\ map'[s].state # "INIT"
                           => map'[s] = map[s] /\ map[s].task # t
                        /\ InRange(d, s) /\ map[s].state = "INIT" => map'[s].state = "INIT"
      OBVIOUS
    <3>1. s # i => map'[s] = map[s]
      BY <1>9
    <3> QED
      BY <1>16, <3>1
  <2>2. call'[c].then # "range" /\ call'[c].task = t /\ pm' = pm
    BY <1>1, <1>5, <1>7
  <2>3. \A d \in Running \ {c} : call[d].task # t /\ (lock = d => lock' = d)
    BY <1>4, <1>15
  <2>4. \A d \in Running \ {c} : call[d].at = "claim" => map'[call[d].i].state = "INIT"
    BY <1>15
  <2>5. t \in Task /\ Others(c) /\ \A u \in Task \ {t} : task'[u] = task[u]
    BY <1>2, <1>7, <1>10
  <2> QED
    BY <1>14, <2>1, <2>2, <2>3, <2>4, <2>5, OtherCores
<1>18. \A u \in Task \ {t} : Placed(u)' => Placed(u)
  BY <1>7, <1>10 DEF Placed, Others, t
<1>19. ASSUME NEW u \in Task \ {t}, Placed(u)
       PROVE  /\ task[u].mapid \in Slot /\ task[u].mapid # i /\ task[u].ttba # x
  <2>1. task[u].mapid \in Slot /\ task[u].mapid # i
    BY <1>3, <1>19, Blocks DEF IInv, SlotOwner, Tcb
  <2>2. ASSUME task[u].ttba = x PROVE FALSE
    <3>1. task[u].ttba = Bottom(k) + task[u].mapid
      BY <1>3, <1>6, <2>2 DEF AreaIsOwn, Ends
    <3>2. task[u].mapid \in Nat /\ Bottom(k) \in Nat
      BY <1>3, <2>1, Facts, Typed, Areas
    <3> QED
      BY <1>3, <2>1, <2>2, <3>1, <3>2 DEF x
  <2> QED
    BY <2>1, <2>2
<1>20. SlotOwner'
  <2> SUFFICES ASSUME NEW u \in Task, Placed(u)'
               PROVE  /\ map'[task'[u].mapid].task = u
                      /\ map'[task'[u].mapid].state # "INIT"
                      /\ \A v \in Task : Placed(v)' /\ task'[v].ttba = task'[u].ttba => v = u
    BY DEF SlotOwner
  <2>1. CASE u = t
    BY <1>8, <1>9, <1>10, <1>18, <1>19, <2>1
  <2>2. CASE u # t
    <3>1. Placed(u) /\ task'[u] = task[u] /\ map'[task[u].mapid] = map[task[u].mapid]
      BY <1>9, <1>10, <1>18, <1>19, <2>2
    <3>2. task'[u].ttba # task'[t].ttba
      BY <1>10, <1>19, <2>2, <3>1
    <3> QED
      BY <1>10, <1>18, <3>1, <3>2 DEF IInv, SlotOwner
  <2> QED
    BY <2>1, <2>2
<1>21. TableIntact'
  BY <1>1, <1>10 DEF IInv, TableIntact
<1> QED
  BY <1>11, <1>13, <1>17, <1>20, <1>21 DEF IInv

(* The mode changes while nobody is in a call. *)
LEMMA ChangePmKeeps ==
  ASSUME IInv, "pm" \notin Careless, NEW new \in Modes, ChangePm(new) PROVE IInv'
<1>1. /\ pm' = new /\ pmChanges < MaxPmChange /\ pmChanges' = pmChanges + 1
      /\ \A c \in Running : call[c] = Idle
      /\ UNCHANGED <<lock, map, tables, task, next, prev, call>>
  BY DEF ChangePm, ringVars
<1>2. TypeOK'
  <2>1. pmChanges' \in 0 .. MaxPmChange
    BY <1>1, TaskBound, Blocks
  <2> QED
    BY <1>1, <2>1 DEF IInv, TypeOK
<1>3. \A c \in Running : Core(c)'
  BY <1>1 DEF Core, HasLock, Actor, About, Starter, Ranger, Idle
<1>4. Apart' /\ SlotOwner' /\ TableIntact'
  BY <1>1 DEF IInv, Apart, SlotOwner, TableIntact, Placed
<1> QED
  BY <1>2, <1>3, <1>4 DEF IInv
-----------------------------------------------------------------------------
LEMMA Begins == Init => IInv
<1> SUFFICES ASSUME Init PROVE IInv
  OBVIOUS
<1>1. NumCpu \in Struct
  BY DEF Struct, NumCpu
<1>2. Last \in Nat /\ UserBottom \in Nat /\ UserBottom < Last
  BY <1>1, Areas
<1>3. 0 \in 0 .. Last - UserBottom - 1 /\ 0 \in 0 .. Last
  BY <1>2
<1>4. 0 \in Slot /\ 0 \in Section
  BY <1>3 DEF Slot, Section, Last
<1>5. Idle \in Call
  <2>1. 0 \in 0 .. NumSection - 1 /\ 0 \in Struct
    BY DEF NumSection, Struct, NumCpu
  <2> QED
    BY <2>1 DEF Idle, Call, Location
<1>6. TypeOK
  <2>1. /\ pm \in Modes /\ pmChanges \in 0 .. MaxPmChange
        /\ lock \in Running \union {Free} /\ tables \subseteq Section
    BY <1>4, TaskBound DEF Init
  <2>2. /\ next \in [Node -> Node \union {Null}] /\ prev \in [Node -> Node \union {Null}]
    BY DEF Init, Node
  <2>3. call \in [Running -> Call]
    BY <1>5 DEF Init
  <2>4. task \in [Task -> Tcb] /\ map \in [Slot -> Entry]
    BY <1>4 DEF Init, Tcb, Entry
  <2> QED
    BY <2>1, <2>2, <2>3, <2>4 DEF TypeOK, Call, Tcb, Entry
<1>7. \A c \in Running : call[c].at = "idle" /\ call[c].task = Null /\ call[c].then = "idle"
  BY DEF Init, Idle
<1>8. (\A c \in Running : Core(c)) /\ Apart
  BY <1>7 DEF Core, HasLock, Actor, About, Starter, Ranger, Apart
<1>9. SlotOwner /\ TableIntact
  BY DEF Init, SlotOwner, TableIntact, Placed
<1> QED
  BY <1>6, <1>8, <1>9 DEF IInv

LEMMA StepKeeps ==
  ASSUME Careless = {}, IInv, [Next]_vars
  PROVE  IInv'
<1>1. ASSUME NEW c \in Running, Step(c) PROVE IInv'
  BY <1>1, ReadLastKeeps, WriteLinksKeeps, TestKeeps, ClaimKeeps, StartedKeeps,
     ClearKeeps, UnmapKeeps, UnlinkKeeps, FreeBlockKeeps, DestroyNextKeeps,
     MoveNextKeeps, RangeDoneKeeps
     DEF Step
<1>2. ASSUME NEW c \in Running, NEW t \in Task,
             Create(c, t) \/ Start(c, t) \/ End(c, t) \/ Destroy(c, t)
      PROVE  IInv'
  BY <1>2, CreateKeeps, StartKeeps, EndKeeps, DestroyKeeps
<1>3. ASSUME NEW c \in Running, DestroyCoreTasks(c) \/ MoveTaskSpaces(c) PROVE IInv'
  BY <1>3, DestroyCoreTasksKeeps, MoveTaskSpacesKeeps
<1>4. ASSUME NEW new \in Modes, ChangePm(new) PROVE IInv'
  BY <1>4, ChangePmKeeps
<1>5. ASSUME UNCHANGED vars PROVE IInv'
  <2>1. UNCHANGED <<pm, pmChanges, lock, map, tables, task, next, prev, call>>
    BY <1>5 DEF vars, ringVars
  <2>2. ASSUME NEW c \in Running PROVE Core(c)'
    <3>1. HasLock(c)' /\ Actor(c)' /\ Starter(c)'
      BY <2>1, Facts DEF HasLock, Actor, Starter, AreaIsOwn
    <3>2. \A s \in Slot : Over(c, s) => Over(c, s)'
      BY <2>1 DEF Over
    <3>3. Ranger(c)'
      BY <2>1, <3>2, Facts DEF Ranger
    <3> QED
      BY <3>1, <3>3 DEF Core
  <2>3. TypeOK' /\ Apart' /\ SlotOwner' /\ TableIntact'
    BY <2>1 DEF IInv, TypeOK, Apart, SlotOwner, Placed, TableIntact
  <2> QED
    BY <2>2, <2>3 DEF IInv
<1> QED
  BY <1>1, <1>2, <1>3, <1>4, <1>5 DEF Next, MoveTaskSpace

LEMMA Invariance == ASSUME Careless = {} PROVE Spec => []IInv
<1>1. IInv /\ [Next]_vars => IInv'
  BY StepKeeps
<1> QED
  BY <1>1, Begins, PTL DEF Spec

(***************************************************************************)
(* Callers that take the precautions never index the map beyond its end,   *)
(* nor go through a pointer that is null, in any of these functions.       *)
(***************************************************************************)
THEOREM TypeCorrect == ASSUME Careless = {} PROVE Spec => []TypeOK
<1>1. IInv => TypeOK
  BY DEF IInv
<1> QED
  BY <1>1, Invariance, PTL

(***************************************************************************)
(* For them, the slot a task names names the task until destroy_task gives *)
(* it back, and no two tasks have one section, whatever the modes were.    *)
(***************************************************************************)
THEOREM SlotsOwned == ASSUME Careless = {} PROVE Spec => []SlotOwner
<1>1. IInv => SlotOwner
  BY DEF IInv
<1> QED
  BY <1>1, Invariance, PTL

(***************************************************************************)
(* And what destroy_task clears without the lock is never the table of a   *)
(* task that has not ended, nor of a kernel.                               *)
(***************************************************************************)
THEOREM TablesKept == ASSUME Careless = {} PROVE Spec => []TableIntact
<1>1. IInv => TableIntact
  BY DEF IInv
<1> QED
  BY <1>1, Invariance, PTL
-----------------------------------------------------------------------------
(***************************************************************************)
(* The ring, also while a core has the lock: a block is in it from the     *)
(* write of its links until it is taken out, and the core that is about to *)
(* write the links has read the last task.                                 *)
(***************************************************************************)
Off == {"link", "write", "free"}

OnRing ==
  {t \in Task : task[t].state # "none" /\
                \A c \in Running : call[c].task = t => call[c].at \notin Off}
  \union {Head}

RInv ==
  /\ IsRing(OnRing)
  /\ \A c \in Running : call[c].at = "write" => call[c].last = prev[Head]

\* A ring whose nodes and links stay is still a ring.
LEMMA RingStays ==
  ASSUME IsRing(OnRing), OnRing' = OnRing,
         \A n \in OnRing : next'[n] = next[n] /\ prev'[n] = prev[n]
  PROVE  IsRing(OnRing)'
BY DEF IsRing

(***************************************************************************)
(* A step of core c that is not about the ring.                            *)
(***************************************************************************)
LEMMA BesideRing ==
  ASSUME RInv, NEW c \in Running, UNCHANGED <<next, prev>>, Others(c),
         call[c].at \notin Off, call'[c].at \notin Off,
         \A t \in Task : task'[t].state = "none" <=> task[t].state = "none"
  PROVE  RInv'
<1>1. OnRing' = OnRing
  BY DEF OnRing, Others
<1>2. IsRing(OnRing)'
  BY <1>1, RingStays DEF RInv
<1> QED
  BY <1>2 DEF RInv, Others, Off

(* create_task: a new block is not in the ring yet. *)
LEMMA CreateRing ==
  ASSUME IInv, RInv, NEW c \in Running, NEW t \in Task, Create(c, t) PROVE RInv'
<1>1. /\ task[t].state = "none" /\ Begin(c, "link", t, 0)
      /\ task' = [task EXCEPT ![t] = [state |-> "ready", mapid |-> 0, ttba |-> 0]]
      /\ next' = [next EXCEPT ![t] = Null] /\ prev' = [prev EXCEPT ![t] = Null]
  BY DEF Create
<1>2. /\ Others(c) /\ call[c].at = "idle" /\ call'[c].at = "link"
      /\ call[c].task = Null /\ call'[c].task = t
  <2>1. 0 \in 0 .. NumSection - 1 /\ "link" \in Location
    BY DEF NumSection, Location
  <2> QED
    BY <1>1, <2>1, Facts, Begun
<1>3. \A u \in Task \ {t} : task'[u] = task[u]
  BY <1>1, Blocks
<1>4. OnRing' = OnRing
  <2>1. t \notin OnRing /\ t \notin OnRing'
    BY <1>1, <1>2, HeadNoTask DEF OnRing, Off
  <2>2. \A u \in Task \ {t} : u \in OnRing <=> u \in OnRing'
    BY <1>2, <1>3, NullNoNode, HeadNoTask DEF OnRing, Others, Node
  <2>3. OnRing \subseteq Node /\ OnRing' \subseteq Node /\ Head \in OnRing /\ Head \in OnRing'
    BY DEF OnRing, Node
  <2> QED
    BY <2>1, <2>2, <2>3 DEF Node
<1>5. \A n \in OnRing : next'[n] = next[n] /\ prev'[n] = prev[n] /\ n # t
  <2>1. t \notin OnRing
    BY <1>1, HeadNoTask DEF OnRing
  <2>2. OnRing \subseteq Node
    BY DEF OnRing, Node
  <2> QED
    BY <1>1, <2>1, <2>2, Facts
<1>6. IsRing(OnRing)'
  BY <1>4, <1>5, RingStays DEF RInv
<1>7. Head \in OnRing
  BY DEF OnRing
<1> QED
  BY <1>2, <1>5, <1>6, <1>7 DEF RInv, Others

LEMMA ReadLastRing ==
  ASSUME IInv, RInv, NEW c \in Running, ReadLast(c) PROVE RInv'
<1>1. /\ call[c].at = "link" /\ UNCHANGED <<task, next, prev>>
      /\ call' = [call EXCEPT ![c].at = "write", ![c].last = prev[Head]]
  BY DEF ReadLast, ringVars
<1>2. /\ Others(c) /\ call'[c].at = "write" /\ call'[c].task = call[c].task
      /\ call'[c].last = prev[Head]
  <2>1. call[c] \in Call /\ call \in [Running -> Call]
    BY Facts, Typed
  <2> QED
    BY <1>1, <2>1 DEF Call, Others
<1>3. OnRing' = OnRing
  <2>1. \A u \in Task, d \in Running :
          (call'[d].task = u => call'[d].at \notin Off)
          <=> (call[d].task = u => call[d].at \notin Off)
    BY <1>1, <1>2 DEF Others, Off
  <2> QED
    BY <1>1, <2>1 DEF OnRing
<1>4. IsRing(OnRing)'
  BY <1>1, <1>3, RingStays DEF RInv
<1> QED
  BY <1>1, <1>2, <1>4 DEF RInv, Others

\* IsRing of any links.
Circle(nodes, nx, pv) ==
  /\ \A n \in nodes : /\ nx[n] \in nodes /\ pv[nx[n]] = n
                      /\ pv[n] \in nodes /\ nx[pv[n]] = n
  /\ \A part \in SUBSET nodes :
       Head \in part /\ (\A n \in part : nx[n] \in part) => part = nodes

Link == [Node -> Node \union {Null}]

(* A ring with a new last node. *)
LEMMA Insertion ==
  ASSUME NEW nx \in Link, NEW pv \in Link, NEW S \in SUBSET Node, NEW t \in Node,
         t \notin S, Head \in S, Circle(S, nx, pv)
  PROVE  Circle(S \union {t}, [nx EXCEPT ![pv[Head]] = t, ![t] = Head],
                              [pv EXCEPT ![t] = pv[Head], ![Head] = t])
<1> DEFINE R == S \union {t}
           last == pv[Head]
           nx2 == [nx EXCEPT ![last] = t, ![t] = Head]
           pv2 == [pv EXCEPT ![t] = last, ![Head] = t]
<1>1. last \in S /\ nx[last] = Head /\ last # t
  BY DEF Circle
<1>2. /\ nx2[last] = t /\ nx2[t] = Head
      /\ \A n \in S \ {last} : nx2[n] = nx[n]
  BY <1>1 DEF Link
<1>3. /\ pv2[t] = last /\ pv2[Head] = t
      /\ \A n \in S \ {Head} : pv2[n] = pv[n]
  BY <1>1 DEF Link
<1> HIDE DEF last, nx2, pv2
<1>4. ASSUME NEW n \in R
      PROVE  /\ nx2[n] \in R /\ pv2[nx2[n]] = n
             /\ pv2[n] \in R /\ nx2[pv2[n]] = n
  <2>1. CASE n = t
    BY <1>1, <1>2, <1>3, <2>1
  <2>2. CASE n \in S
    <3>1. /\ nx[n] \in S /\ pv[nx[n]] = n
          /\ pv[n] \in S /\ nx[pv[n]] = n
      BY <2>2 DEF Circle
    <3>2. nx2[n] \in R /\ pv2[nx2[n]] = n
      <4>1. CASE n = last
        BY <1>2, <1>3, <4>1
      <4>2. CASE n # last
        <5>1. nx[n] # Head
          BY <3>1, <4>2 DEF last
        <5> QED
          BY <1>2, <1>3, <2>2, <3>1, <4>2, <5>1
      <4> QED
        BY <4>1, <4>2
    <3>3. pv2[n] \in R /\ nx2[pv2[n]] = n
      <4>1. CASE n = Head
        BY <1>2, <1>3, <4>1
      <4>2. CASE n # Head
        <5>1. pv[n] # last
          BY <1>1, <3>1, <4>2
        <5> QED
          BY <1>2, <1>3, <2>2, <3>1, <4>2, <5>1
      <4> QED
        BY <4>1, <4>2
    <3> QED
      BY <3>2, <3>3
  <2> QED
    BY <2>1, <2>2
<1>5. ASSUME NEW part \in SUBSET R, Head \in part, \A n \in part : nx2[n] \in part
      PROVE  part = R
  <2> DEFINE old == part \ {t}
  <2>1. \A n \in old : nx[n] \in old
    <3> SUFFICES ASSUME NEW n \in old PROVE nx[n] \in old
      OBVIOUS
    <3>1. n \in S /\ nx[n] \in S /\ nx[n] # t
      BY DEF Circle
    <3> QED
      BY <1>1, <1>2, <1>5, <3>1
  <2>2. old \in SUBSET S /\ Head \in old
    BY <1>5
  <2>3. old = S
    BY <2>1, <2>2 DEF Circle
  <2>4. t \in part
    BY <1>1, <1>2, <1>5, <2>3
  <2> QED
    BY <2>3, <2>4
<1>6. Circle(R, nx2, pv2)
  BY <1>4, <1>5 DEF Circle
<1> QED
  BY <1>6 DEF nx2, pv2, last

(* create_task links the block in behind the last one. *)
LEMMA WriteLinksRing ==
  ASSUME IInv, RInv, NEW c \in Running, WriteLinks(c) PROVE RInv'
<1> DEFINE t == call[c].task
<1>1. /\ call[c].at = "write" /\ Return(c) /\ UNCHANGED task
      /\ next' = [next EXCEPT ![call[c].last] = t, ![t] = Head]
      /\ prev' = [prev EXCEPT ![t] = call[c].last, ![Head] = t]
  BY DEF WriteLinks
<1>2. lock = c /\ t \in Task /\ task[t].state = "ready" /\ call[c].last = prev[Head]
  BY <1>1, Facts DEF HasLock, Actor, About, RInv
<1>3. \A d \in Running \ {c} : call[d].task # t
  BY <1>2, Alone
<1> HIDE DEF t
<1>4. Others(c) /\ call'[c].at = "idle" /\ call'[c].task = Null
  BY <1>1, Facts, Returned
<1>5. t \notin OnRing /\ Head \in OnRing /\ OnRing \subseteq Node /\ t \in Node
  BY <1>1, <1>2, HeadNoTask DEF OnRing, Off, Node, t
<1>6. OnRing' = OnRing \union {t}
  <2>1. \A u \in Task \ {t} : u \in OnRing <=> u \in OnRing'
    BY <1>1, <1>4, HeadNoTask, NullNoNode DEF OnRing, Others, Node, t
  <2>2. t \in OnRing'
    BY <1>1, <1>2, <1>3, <1>4, NullNoNode DEF OnRing, Others, Node
  <2>3. Head \in OnRing' /\ OnRing' \subseteq Node
    BY DEF OnRing, Node
  <2> QED
    BY <1>5, <2>1, <2>2, <2>3 DEF Node
<1>7. IsRing(OnRing)'
  <2>1. next \in Link /\ prev \in Link
    BY Facts DEF Link
  <2>2. Circle(OnRing, next, prev)
    BY DEF RInv, IsRing, Circle
  <2>3. Circle(OnRing \union {t}, [next EXCEPT ![prev[Head]] = t, ![t] = Head],
               [prev EXCEPT ![t] = prev[Head], ![Head] = t])
    BY <1>5, <2>1, <2>2, Insertion
  <2>4. next' = [next EXCEPT ![prev[Head]] = t, ![t] = Head] /\ prev' = [prev EXCEPT ![t] = prev[Head], ![Head] = t]
    BY <1>1, <1>2
  <2>5. Circle(OnRing', next', prev')
    BY <1>6, <2>3, <2>4
  <2> QED
    BY <2>5 DEF IsRing, Circle
<1>8. \A d \in Running \ {c} : call[d].at # "write"
  BY <1>2, Facts DEF HasLock
<1> QED
  BY <1>4, <1>7, <1>8 DEF RInv, Others

(* A ring with a node taken out. *)
LEMMA Removal ==
  ASSUME NEW nx \in Link, NEW pv \in Link, NEW S \in SUBSET Node, NEW t \in S,
         t # Head, Head \in S, Circle(S, nx, pv)
  PROVE  Circle(S \ {t}, [nx EXCEPT ![pv[t]] = nx[t]], [pv EXCEPT ![nx[t]] = pv[t]])
<1> DEFINE R == S \ {t}
           p == pv[t]
           q == nx[t]
           nx2 == [nx EXCEPT ![p] = q]
           pv2 == [pv EXCEPT ![q] = p]
<1>1. p \in S /\ nx[p] = t /\ q \in S /\ pv[q] = t
  BY DEF Circle
<1>2. nx2[p] = q /\ \A n \in S \ {p} : nx2[n] = nx[n]
  BY <1>1 DEF Link
<1>3. pv2[q] = p /\ \A n \in S \ {q} : pv2[n] = pv[n]
  BY <1>1 DEF Link
<1> HIDE DEF nx2, pv2
<1>4. p # t /\ q # t
  <2>1. SUFFICES ASSUME p = t PROVE FALSE
    BY <1>1
  <2>2. \A n \in R : nx[n] \in R
    BY <2>1 DEF Circle
  <2>3. R = S
    BY <2>2 DEF Circle
  <2> QED
    BY <2>3
<1>5. ASSUME NEW n \in R
      PROVE  /\ nx2[n] \in R /\ pv2[nx2[n]] = n
             /\ pv2[n] \in R /\ nx2[pv2[n]] = n
  <2>1. /\ nx[n] \in S /\ pv[nx[n]] = n
        /\ pv[n] \in S /\ nx[pv[n]] = n
    BY DEF Circle
  <2>2. nx2[n] \in R /\ pv2[nx2[n]] = n
    <3>1. CASE n = p
      BY <1>1, <1>2, <1>3, <1>4, <3>1
    <3>2. CASE n # p
      <4>1. nx[n] # t /\ nx[n] # q
        BY <1>1, <2>1, <3>2
      <4> QED
        BY <1>2, <1>3, <2>1, <3>2, <4>1
    <3> QED
      BY <3>1, <3>2
  <2>3. pv2[n] \in R /\ nx2[pv2[n]] = n
    <3>1. CASE n = q
      BY <1>1, <1>2, <1>3, <1>4, <3>1
    <3>2. CASE n # q
      <4>1. pv[n] # t /\ pv[n] # p
        BY <1>1, <2>1, <3>2
      <4> QED
        BY <1>2, <1>3, <2>1, <3>2, <4>1
    <3> QED
      BY <3>1, <3>2
  <2> QED
    BY <2>2, <2>3
<1>6. ASSUME NEW part \in SUBSET R, Head \in part, \A n \in part : nx2[n] \in part
      PROVE  part = R
  <2>1. CASE p \in part
    <3> DEFINE old == part \union {t}
    <3>1. \A n \in old : nx[n] \in old
      <4> SUFFICES ASSUME NEW n \in old PROVE nx[n] \in old
        OBVIOUS
      <4>1. n = t => nx[n] \in part
        BY <1>2, <1>6, <2>1
      <4>2. n = p => nx[n] = t
        BY <1>1
      <4>3. n \in part /\ n # p => nx[n] \in part
        BY <1>2, <1>6
      <4> QED
        BY <4>1, <4>2, <4>3
    <3>2. old \in SUBSET S /\ Head \in old
      BY <1>6
    <3>3. old = S
      BY <3>1, <3>2 DEF Circle
    <3> QED
      BY <3>3
  <2>2. CASE p \notin part
    <3>1. \A n \in part : nx[n] \in part
      BY <1>2, <1>6, <2>2
    <3>2. part = S
      BY <1>6, <3>1 DEF Circle
    <3> QED
      BY <1>1, <2>2, <3>2
  <2> QED
    BY <2>1, <2>2
<1>7. Circle(R, nx2, pv2)
  BY <1>5, <1>6 DEF Circle
<1> QED
  BY <1>7 DEF nx2, pv2

(* destroy_task takes the block out. *)
LEMMA UnlinkRing ==
  ASSUME IInv, RInv, NEW c \in Running, Unlink(c) PROVE RInv'
<1> DEFINE t == call[c].task
<1>1. /\ At(c, "unlink", "free") /\ UNCHANGED task
      /\ next' = [next EXCEPT ![prev[t]] = next[t]]
      /\ prev' = [prev EXCEPT ![next[t]] = prev[t]]
  BY DEF Unlink
<1>2. /\ Others(c) /\ call[c].at = "unlink" /\ call'[c].at = "free" /\ call'[c].task = t
  <2>1. "free" \in Location
    BY DEF Location
  <2> QED
    BY <1>1, <2>1, Facts, Moved
<1>3. lock = c /\ t \in Task /\ task[t].state = "finished"
  BY <1>2, Facts DEF HasLock, Actor, About
<1>4. \A d \in Running \ {c} : call[d].task # t
  BY <1>3, Alone
<1>5. t \in OnRing /\ Head \in OnRing /\ OnRing \subseteq Node /\ t # Head
  BY <1>2, <1>3, <1>4, HeadNoTask DEF OnRing, Off, Node
<1>6. OnRing' = OnRing \ {t}
  <2>1. \A u \in Task \ {t} : u \in OnRing <=> u \in OnRing'
    BY <1>1, <1>2, HeadNoTask DEF OnRing, Others
  <2>2. t \notin OnRing'
    BY <1>2, <1>3, HeadNoTask DEF OnRing, Off
  <2>3. Head \in OnRing' /\ OnRing' \subseteq Node
    BY DEF OnRing, Node
  <2> QED
    BY <1>5, <2>1, <2>2, <2>3 DEF Node
<1> HIDE DEF t
<1>7. IsRing(OnRing)'
  <2>1. next \in Link /\ prev \in Link
    BY Facts DEF Link
  <2>2. Circle(OnRing, next, prev)
    BY DEF RInv, IsRing, Circle
  <2>3. Circle(OnRing \ {t}, [next EXCEPT ![prev[t]] = next[t]],
               [prev EXCEPT ![next[t]] = prev[t]])
    BY <1>5, <2>1, <2>2, Removal
  <2>4. next' = [next EXCEPT ![prev[t]] = next[t]] /\ prev' = [prev EXCEPT ![next[t]] = prev[t]]
    BY <1>1
  <2>5. Circle(OnRing', next', prev')
    BY <1>6, <2>3, <2>4
  <2> QED
    BY <2>5 DEF IsRing, Circle
<1>8. \A d \in Running \ {c} : call[d].at # "write"
  BY <1>3, Facts DEF HasLock
<1> QED
  BY <1>2, <1>7, <1>8 DEF RInv, Others

(* The block that is freed is out of the ring. *)
LEMMA FreeBlockRing ==
  ASSUME IInv, RInv, NEW c \in Running, FreeBlock(c) PROVE RInv'
<1> DEFINE t == call[c].task
           b == [state |-> "none", mapid |-> 0, ttba |-> 0]
<1>1. /\ call[c].at = "free" /\ task' = [task EXCEPT ![t] = b] /\ UNCHANGED <<next, prev>>
      /\ IF call[c].then = "idle" THEN Return(c)
         ELSE call' = [call EXCEPT ![c].at = "range", ![c].task = Null, ![c].i = @ + 1]
  BY DEF FreeBlock, ringVars
<1>2. t \in Task
  BY <1>1, Facts DEF Actor, About
<1>3. task'[t].state = "none" /\ \A u \in Task \ {t} : task'[u] = task[u]
  BY <1>1, <1>2, Blocks
<1>4. Others(c) /\ call'[c].task = Null /\ call'[c].at \in {"idle", "range"}
  <2>1. CASE call[c].then = "idle"
    BY <1>1, <2>1, Facts, Returned
  <2>2. CASE call[c].then # "idle"
    <3>1. call[c] \in Call /\ call \in [Running -> Call]
      BY Facts, Typed
    <3> QED
      BY <1>1, <2>2, <3>1 DEF Call, Others
  <2> QED
    BY <2>1, <2>2
<1>5. OnRing' = OnRing
  <2>1. t \notin OnRing
    BY <1>1, <1>2, HeadNoTask DEF OnRing, Off
  <2>2. t \notin OnRing'
    BY <1>2, <1>3, HeadNoTask DEF OnRing
  <2>3. \A u \in Task \ {t} : u \in OnRing <=> u \in OnRing'
    BY <1>3, <1>4, HeadNoTask, NullNoNode DEF OnRing, Others, Node
  <2>4. OnRing \subseteq Node /\ OnRing' \subseteq Node /\ Head \in OnRing /\ Head \in OnRing'
    BY DEF OnRing, Node
  <2> QED
    BY <2>1, <2>2, <2>3, <2>4 DEF Node
<1>6. IsRing(OnRing)'
  BY <1>1, <1>5, RingStays DEF RInv
<1> QED
  BY <1>1, <1>4, <1>6 DEF RInv, Others

(* The calls that leave the ring alone. *)
LEMMA CallsBeside ==
  ASSUME IInv, RInv, NEW c \in Running,
         \/ Test(c) \/ Claim(c) \/ Started(c) \/ Clear(c) \/ Unmap(c)
         \/ DestroyNext(c) \/ MoveNext(c) \/ RangeDone(c)
         \/ DestroyCoreTasks(c) \/ MoveTaskSpaces(c)
         \/ \E t \in Task : Start(c, t) \/ End(c, t) \/ Destroy(c, t)
  PROVE  RInv'
<1>1. /\ call[c] \in Call /\ call \in [Running -> Call] /\ UNCHANGED <<next, prev>>
  <2>1. call[c] \in Call /\ call \in [Running -> Call]
    BY Facts, Typed
  <2>2. UNCHANGED <<next, prev>>
    BY DEF Test, Claim, Started, Clear, Unmap, DestroyNext, MoveNext, RangeDone,
           DestroyCoreTasks, MoveTaskSpaces, Start, End, Destroy, ringVars
  <2> QED
    BY <2>1, <2>2
<1>2. Others(c) /\ call[c].at \notin Off /\ call'[c].at \notin Off
  <2>1. CASE Test(c) \/ MoveNext(c) \/ Claim(c) \/ DestroyNext(c)
    BY <1>1, <2>1 DEF Test, MoveNext, Claim, DestroyNext, At, Iterate, Off, Others, Call
  <2>2. CASE Started(c) \/ RangeDone(c)
    BY <1>1, <2>2 DEF Started, RangeDone, Return, Idle, Off, Others
  <2>3. CASE Clear(c) \/ Unmap(c)
    BY <1>1, <2>3 DEF Clear, Unmap, At, Off, Others, Call
  <2>4. CASE DestroyCoreTasks(c)
    BY <1>1, <2>4 DEF DestroyCoreTasks, Idle, Off, Others
  <2>5. ASSUME NEW at \in {"test", "clear", "move"}, NEW t, NEW i, Begin(c, at, t, i)
        PROVE  Others(c) /\ call[c].at \notin Off /\ call'[c].at \notin Off
    <3>1. call[c].at = "idle"
      BY <2>5 DEF Begin, Idle
    <3>2. Others(c) /\ call'[c].at = at
      BY <1>1, <2>5 DEF Begin, Idle, Others
    <3> QED
      BY <3>1, <3>2 DEF Off
  <2>6. CASE MoveTaskSpaces(c)
    BY <2>5, <2>6 DEF MoveTaskSpaces
  <2>7. CASE \E t \in Task : Start(c, t) \/ Destroy(c, t)
    BY <2>5, <2>7 DEF Start, Destroy
  <2>8. CASE \E t \in Task : End(c, t)
    BY <1>1, <2>8 DEF End, Idle, Off, Others
  <2> QED
    BY <2>1, <2>2, <2>3, <2>4, <2>6, <2>7, <2>8
<1>3. \A t \in Task : task'[t].state = "none" <=> task[t].state = "none"
  <2>1. CASE Claim(c)
    <3>1. call[c].task \in Task
      BY <2>1, Facts DEF Claim, Actor, About
    <3>2. task[call[c].task] \in Tcb
      BY <3>1, Blocks
    <3>3. task' = [task EXCEPT ![call[c].task].mapid = call[c].i,
                               ![call[c].task].ttba = call[c].i + Bottom(call[c].ssi)]
      BY <2>1 DEF Claim
    <3> QED
      BY <3>1, <3>2, <3>3, Blocks DEF Tcb
  <2>2. CASE Started(c)
    <3>1. call[c].task \in Task /\ task[call[c].task].state = "ready"
      BY <2>2, Facts DEF Started, Actor, About
    <3>2. task[call[c].task] \in Tcb
      BY <3>1, Blocks
    <3> QED
      BY <2>2, <3>1, <3>2, Blocks DEF Started, Tcb
  <2>3. ASSUME NEW t \in Task, End(c, t)
        PROVE  \A u \in Task : task'[u].state = "none" <=> task[u].state = "none"
    <3>1. task[t] \in Tcb
      BY Blocks
    <3> QED
      BY <2>3, <3>1, Blocks DEF End, Tcb
  <2>4. CASE UNCHANGED task
    BY <2>4
  <2> QED
    BY <2>1, <2>2, <2>3, <2>4
       DEF Test, Clear, Unmap, DestroyNext, MoveNext, RangeDone,
           DestroyCoreTasks, MoveTaskSpaces, Start, Destroy
<1> QED
  BY <1>1, <1>2, <1>3, BesideRing

LEMMA RingSteps == ASSUME IInv, RInv, [Next]_vars PROVE RInv'
<1>1. ASSUME NEW c \in Running, Step(c) PROVE RInv'
  BY <1>1, ReadLastRing, WriteLinksRing, UnlinkRing, FreeBlockRing, CallsBeside DEF Step
<1>2. ASSUME NEW c \in Running, NEW t \in Task,
             Create(c, t) \/ Start(c, t) \/ End(c, t) \/ Destroy(c, t)
      PROVE  RInv'
  BY <1>2, CreateRing, CallsBeside
<1>3. ASSUME NEW c \in Running, DestroyCoreTasks(c) \/ MoveTaskSpaces(c) PROVE RInv'
  BY <1>3, CallsBeside
<1>4. ASSUME UNCHANGED <<task, next, prev, call>> PROVE RInv'
  <2>1. OnRing' = OnRing
    BY <1>4 DEF OnRing
  <2>2. IsRing(OnRing)'
    BY <1>4, <2>1, RingStays DEF RInv
  <2> QED
    BY <1>4, <2>2 DEF RInv
<1>5. ASSUME NEW new \in Modes, ChangePm(new) PROVE RInv'
  BY <1>4, <1>5 DEF ChangePm, ringVars
<1>6. ASSUME UNCHANGED vars PROVE RInv'
  BY <1>4, <1>6 DEF vars, ringVars
<1> QED
  BY <1>1, <1>2, <1>3, <1>5, <1>6 DEF Next, MoveTaskSpace

LEMMA RingBegins == Init => RInv
<1> SUFFICES ASSUME Init PROVE RInv
  OBVIOUS
<1>1. OnRing = {Head}
  BY DEF Init, OnRing
<1>2. next[Head] = Head /\ prev[Head] = Head
  BY DEF Init, Node
<1>3. IsRing({Head})
  BY <1>2 DEF IsRing
<1>4. \A c \in Running : call[c].at = "idle"
  BY DEF Init, Idle
<1> QED
  BY <1>1, <1>3, <1>4 DEF RInv

(***************************************************************************)
(* For careful callers the ring is one ring whenever nobody has the lock,  *)
(* of whatever tasks are created and destroyed on however many cores.      *)
(***************************************************************************)
THEOREM RingKept == ASSUME Careless = {} PROVE Spec => []RingWellFormed
<1>1. IInv /\ RInv /\ [Next]_vars => RInv'
  BY RingSteps
<1>2. ASSUME IInv, RInv, lock = Free PROVE IsRing(Linked \union {Head})
  <2>1. \A c \in Running : call[c].at # "write"
    BY <1>2, Facts, Typed DEF HasLock
  <2>2. Linked \union {Head} = OnRing
    BY <2>1 DEF Linked, OnRing, Off
  <2> QED
    BY <1>2, <2>2 DEF RInv
<1>3. IInv /\ RInv => RingWellFormed
  BY <1>2 DEF RingWellFormed
<1> QED
  BY <1>1, <1>3, RingBegins, Invariance, PTL DEF Spec
-----------------------------------------------------------------------------
(***************************************************************************)
(* The sections as a grant of identifiers (Grants, which Asid implements   *)
(* too): a task gets the section its table lies in when start_task is      *)
(* done, however many it claimed on the way, and loses it when             *)
(* destroy_task gives its slot back.                                       *)
(***************************************************************************)
SectionOf ==
  [t \in Task |-> IF task[t].state \in {"running", "finished"} /\ Placed(t)
                  THEN task[t].ttba ELSE 0]

Grant == INSTANCE Grants WITH Holder <- Task, Id <- Section \ {0}, NoId <- 0,
                              has <- SectionOf, kept <- {}, void <- FALSE

Gone == {"unlink", "free"}

(* What a step of a call changes, when the task's state stays. *)
LEMMA SameSections ==
  ASSUME NEW c \in Running, Others(c), UNCHANGED task,
         call[c].at \in Gone <=> call'[c].at \in Gone,
         call[c].at \in Gone => call'[c].task = call[c].task
  PROVE  UNCHANGED SectionOf
<1>1. \A t \in Task : Placed(t)' <=> Placed(t)
  BY DEF Placed, Others, Gone
<1> QED
  BY <1>1 DEF SectionOf

(* The calls, and the steps of calls, that neither give nor take a section. *)
LEMMA OtherSections ==
  ASSUME IInv, NEW c \in Running,
         \/ ReadLast(c) \/ WriteLinks(c) \/ Test(c) \/ Clear(c) \/ Unlink(c)
         \/ DestroyNext(c) \/ MoveNext(c) \/ RangeDone(c)
         \/ DestroyCoreTasks(c) \/ MoveTaskSpaces(c)
         \/ \E t \in Task : Start(c, t) \/ Destroy(c, t)
  PROVE  UNCHANGED SectionOf
<1>1. call[c] \in Call /\ call \in [Running -> Call]
  BY Facts, Typed
<1>2. CASE ReadLast(c) \/ Test(c) \/ MoveNext(c) \/ DestroyNext(c)
  BY <1>1, <1>2, SameSections
     DEF ReadLast, Test, MoveNext, DestroyNext, At, Iterate, Gone, Others, Call
<1>3. CASE WriteLinks(c) \/ RangeDone(c)
  BY <1>1, <1>3, SameSections DEF WriteLinks, RangeDone, Return, Idle, Gone, Others
<1>4. CASE Clear(c) \/ Unlink(c)
  BY <1>1, <1>4, SameSections DEF Clear, Unlink, At, Gone, Others, Call
<1>5. CASE DestroyCoreTasks(c)
  BY <1>1, <1>5, SameSections DEF DestroyCoreTasks, Idle, Gone, Others
<1>6. ASSUME NEW at \in {"test", "clear", "move"}, NEW t, NEW i, Begin(c, at, t, i),
             UNCHANGED task
      PROVE  UNCHANGED SectionOf
  <2>1. call[c].at = "idle"
    BY <1>6 DEF Begin, Idle
  <2>2. Others(c) /\ call'[c].at = at
    BY <1>1, <1>6 DEF Begin, Idle, Others
  <2> QED
    BY <1>6, <2>1, <2>2, SameSections DEF Gone
<1>7. CASE MoveTaskSpaces(c)
  BY <1>6, <1>7 DEF MoveTaskSpaces
<1>8. CASE \E t \in Task : Start(c, t) \/ Destroy(c, t)
  BY <1>6, <1>8 DEF Start, Destroy
<1> QED
  BY <1>2, <1>3, <1>4, <1>5, <1>7, <1>8

(* A task that is not running or ended has no section; no more has one whose
   slot destroy_task has given back. *)
LEMMA UnstartedSections ==
  ASSUME IInv, NEW c \in Running,
         (\E t \in Task : Create(c, t)) \/ Claim(c) \/ FreeBlock(c)
  PROVE  UNCHANGED SectionOf
<1>1. call[c] \in Call /\ call \in [Running -> Call] /\ TypeOK
  BY Facts, Typed
<1>2. ASSUME NEW t \in Task, SectionOf[t] = 0, SectionOf'[t] = 0,
             \A u \in Task \ {t} : task'[u] = task[u] /\ (Placed(u)' <=> Placed(u))
      PROVE  UNCHANGED SectionOf
  BY <1>2 DEF SectionOf
<1>3. ASSUME NEW t \in Task, Create(c, t) PROVE UNCHANGED SectionOf
  <2> DEFINE b == [state |-> "ready", mapid |-> 0, ttba |-> 0]
  <2>1. task[t].state = "none" /\ task' = [task EXCEPT ![t] = b] /\ b.state = "ready"
    BY <1>3 DEF Create
  <2> HIDE DEF b
  <2>2. task'[t].state = "ready" /\ \A u \in Task \ {t} : task'[u] = task[u]
    BY <2>1, Blocks
  <2>3. call[c].at = "idle" /\ Others(c) /\ call'[c].at = "link"
    <3>1. 0 \in 0 .. NumSection - 1 /\ "link" \in Location /\ Begin(c, "link", t, 0)
      BY <1>3 DEF NumSection, Location, Create
    <3> QED
      BY <1>1, <3>1, Begun
  <2>4. \A u \in Task \ {t} : Placed(u)' <=> Placed(u)
    BY <2>2, <2>3 DEF Placed, Others
  <2> QED
    BY <1>2, <2>1, <2>2, <2>4 DEF SectionOf
<1>4. CASE Claim(c)
  <2> DEFINE t == call[c].task
  <2>1. t \in Task /\ task[t].state = "ready" /\ task[t] \in Tcb
    BY <1>4, Facts, Blocks DEF Claim, Actor, About
  <2>2. task'[t].state = "ready" /\ \A u \in Task \ {t} : task'[u] = task[u]
    BY <1>4, <2>1, Blocks DEF Claim, Tcb
  <2>3. call[c].at = "claim" /\ call'[c].at = "test" /\ Others(c)
    BY <1>1, <1>4 DEF Claim, Iterate, Call, Others
  <2>4. \A u \in Task \ {t} : Placed(u)' <=> Placed(u)
    BY <2>2, <2>3 DEF Placed, Others
  <2> HIDE DEF t
  <2> QED
    BY <1>2, <2>1, <2>2, <2>4 DEF SectionOf
<1>5. CASE FreeBlock(c)
  <2> DEFINE t == call[c].task
  <2>1. t \in Task /\ call[c].at = "free"
    BY <1>5, Facts DEF FreeBlock, Actor, About
  <2>2. task'[t].state = "none" /\ \A u \in Task \ {t} : task'[u] = task[u]
    BY <1>5, <2>1, Blocks DEF FreeBlock
  <2>3. Others(c) /\ call'[c].at \in {"idle", "range"}
    BY <1>1, <1>5 DEF FreeBlock, Return, Idle, Others, Call
  <2>4. \A u \in Task \ {t} : Placed(u)' <=> Placed(u)
    BY <2>2, <2>3 DEF Placed, Others, t
  <2>5. ~ Placed(t)
    BY <2>1 DEF Placed
  <2> HIDE DEF t
  <2> QED
    BY <1>2, <2>1, <2>2, <2>4, <2>5 DEF SectionOf
<1> QED
  BY <1>3, <1>4, <1>5

(* end_task leaves the task its section. *)
LEMMA EndSections ==
  ASSUME IInv, NEW c \in Running, NEW t \in Task, End(c, t)
  PROVE  UNCHANGED SectionOf
<1>1. /\ task[t].state = "running" /\ task'[t].state = "finished"
      /\ task'[t].ttba = task[t].ttba /\ \A u \in Task \ {t} : task'[u] = task[u]
      /\ UNCHANGED call
  BY Blocks DEF End, Tcb
<1>2. \A u \in Task : Placed(u)' <=> Placed(u)
  BY <1>1 DEF Placed
<1> QED
  BY <1>1, <1>2 DEF SectionOf

(* The end of start_task: the section is nobody else's. *)
LEMMA StartedGrants ==
  ASSUME IInv, NEW c \in Running, Started(c)
  PROVE  [Grant!Serve]_SectionOf
<1> DEFINE t == call[c].task
<1>1. /\ t \in Task /\ task[t].state = "ready" /\ call[c].at = "test"
      /\ \A d \in Running \ {c} : call[d].task # t
  BY Facts, Alone DEF Started, Actor, About
<1>2. /\ task'[t].state = "running" /\ task'[t].ttba = task[t].ttba
      /\ \A u \in Task \ {t} : task'[u] = task[u]
      /\ task[t].ttba \in Section
  BY <1>1, Blocks DEF Started, Tcb
<1>3. Others(c) /\ call'[c].at = "idle"
  BY Facts, Returned DEF Started
<1>4. \A u \in Task : Placed(u)' <=> Placed(u)
  BY <1>1, <1>2, <1>3 DEF Placed, Others
<1>5. Placed(t) <=> task[t].ttba # 0
  BY <1>1 DEF Placed
<1> HIDE DEF t
<1>6. SectionOf[t] = 0 /\ SectionOf' = [SectionOf EXCEPT ![t] = task[t].ttba]
  BY <1>1, <1>2, <1>4, <1>5 DEF SectionOf
<1>7. CASE task[t].ttba = 0
  <2>1. SectionOf' = SectionOf
    BY <1>1, <1>6, <1>7 DEF SectionOf
  <2> QED
    BY <2>1
<1>8. CASE task[t].ttba # 0
  <2>1. Grant!Unowned(task[t].ttba)
    BY <1>1, <1>5, <1>8 DEF Grant!Unowned, SectionOf, IInv, SlotOwner
  <2>2. Grant!Grant(t, task[t].ttba)
    BY <1>6, <2>1 DEF Grant!Grant
  <2> QED
    BY <1>1, <1>2, <1>8, <2>2 DEF Grant!Serve
<1> QED
  BY <1>7, <1>8

(* destroy_task gives the slot back. *)
LEMMA UnmapGivesUp ==
  ASSUME IInv, NEW c \in Running, Unmap(c)
  PROVE  Grant!Serve
<1>1. PICK t \in Task : call[c].task = t
  BY Facts DEF Unmap, At, Actor, About
<1>2. Others(c) /\ call[c].at = "unmap" /\ call'[c].at = "unlink" /\ call'[c].task = t
  BY <1>1, Facts, Moved DEF Unmap, Location
<1>3. UNCHANGED task
  BY DEF Unmap
<1>4. ~ Placed(t)' /\ \A u \in Task \ {t} : Placed(u)' <=> Placed(u)
  BY <1>1, <1>2, <1>3 DEF Placed, Others
<1>5. SectionOf' = [SectionOf EXCEPT ![t] = 0]
  BY <1>3, <1>4 DEF SectionOf
<1>6. Grant!GiveUp(t)
  BY <1>5 DEF Grant!GiveUp
<1> QED
  BY <1>6 DEF Grant!Serve

LEMMA SectionSteps == ASSUME IInv, [Next]_vars PROVE [Grant!Serve]_SectionOf
<1>1. ASSUME UNCHANGED <<task, call>> PROVE UNCHANGED SectionOf
  BY <1>1 DEF SectionOf, Placed
<1>2. ASSUME NEW new \in Modes, ChangePm(new) PROVE UNCHANGED SectionOf
  BY <1>1, <1>2 DEF ChangePm
<1>3. CASE UNCHANGED vars
  BY <1>1, <1>3 DEF vars
<1>4. ASSUME NEW c \in Running, Step(c) PROVE [Grant!Serve]_SectionOf
  BY <1>4, OtherSections, UnstartedSections, StartedGrants, UnmapGivesUp DEF Step
<1>5. ASSUME NEW c \in Running, DestroyCoreTasks(c) \/ MoveTaskSpaces(c) \/ MoveTaskSpace(c)
      PROVE  [Grant!Serve]_SectionOf
  BY <1>3, <1>5, OtherSections DEF MoveTaskSpace
<1>6. ASSUME NEW c \in Running, NEW t \in Task,
             Create(c, t) \/ Start(c, t) \/ End(c, t) \/ Destroy(c, t)
      PROVE  [Grant!Serve]_SectionOf
  BY <1>6, OtherSections, UnstartedSections, EndSections
<1> QED
  BY <1>2, <1>3, <1>4, <1>5, <1>6 DEF Next

(***************************************************************************)
(* For careful callers the map of task spaces implements the grant of      *)
(* sections: a started task gets one that no other task has and keeps it,  *)
(* through everything other cores do and through end_task, until           *)
(* destroy_task gives it back.                                             *)
(***************************************************************************)
THEOREM SectionsGranted == ASSUME Careless = {} PROVE Spec => Grant!Spec
<1>1. Init => Grant!Init
  BY DEF Init, SectionOf, Grant!Init
<1>2. IInv /\ [Next]_vars => [Grant!Next]_(Grant!vars)
  BY SectionSteps DEF Grant!vars, Grant!Next
<1> QED
  BY <1>1, <1>2, Invariance, PTL DEF Spec, Grant!Spec
=============================================================================
