-------------------------- MODULE Exceptions_proof --------------------------
(***************************************************************************)
(* Proofs about entering and leaving exceptions, for any number of         *)
(* interrupts and data aborts nested in any way.  The stack of frames is   *)
(* the invariant's subject: which code may lie on which (Shape), and,      *)
(* while no interrupt has come between a cpsie i and its return, what each *)
(* SPSR holds for the frame below (Banked).                                *)
(***************************************************************************)
EXTENDS Exceptions, SequenceTheorems, TLAPS

(***************************************************************************)
(* The three things that happen to the stack, by index.                    *)
(***************************************************************************)
LEMMA Push ==
  ASSUME NEW S, NEW s \in Seq(S), NEW f \in S
  PROVE  LET p == <<f>> \o s
         IN  /\ p \in Seq(S) /\ Len(p) = Len(s) + 1 /\ p[1] = f
             /\ \A k \in 2 .. Len(s) + 1 : p[k] = s[k - 1]
OBVIOUS

LEMMA Replace ==
  ASSUME NEW S, NEW s \in Seq(S), Len(s) >= 1, NEW f \in S
  PROVE  LET p == <<f>> \o Tail(s)
         IN  /\ p \in Seq(S) /\ Len(p) = Len(s) /\ p[1] = f
             /\ \A k \in 2 .. Len(s) : p[k] = s[k]
<1> DEFINE u == Tail(s)
<1>1. /\ u \in Seq(S) /\ Len(u) = Len(s) - 1
      /\ \A k \in 1 .. Len(s) - 1 : u[k] = s[k + 1]
  OBVIOUS
<1> HIDE DEF u
<1> DEFINE p == <<f>> \o u
<1>2. /\ p \in Seq(S) /\ Len(p) = Len(u) + 1 /\ p[1] = f
      /\ \A k \in 2 .. Len(u) + 1 : p[k] = u[k - 1]
  BY <1>1, Push
<1> HIDE DEF p
<1>3. Len(s) \in Nat
  OBVIOUS
<1>4. \A k \in 2 .. Len(s) : p[k] = s[k]
  <2> TAKE k \in 2 .. Len(s)
  <2>1. p[k] = u[k - 1]
    BY <1>1, <1>2, <1>3
  <2>2. u[k - 1] = s[(k - 1) + 1]
    BY <1>1, <1>3
  <2> QED
    BY <2>1, <2>2
<1>5. p \in Seq(S) /\ Len(p) = Len(s) /\ p[1] = f
  BY <1>1, <1>2, <1>3
<1> QED
  BY <1>4, <1>5 DEF p, u

LEMMA Pop ==
  ASSUME NEW S, NEW s \in Seq(S), Len(s) >= 2, NEW f \in S
  PROVE  LET p == <<f>> \o Tail(Tail(s))
         IN  /\ p \in Seq(S) /\ Len(p) = Len(s) - 1 /\ p[1] = f
             /\ \A k \in 2 .. Len(s) - 1 : p[k] = s[k + 1]
<1> DEFINE u == Tail(s)
<1>1. /\ u \in Seq(S) /\ Len(u) = Len(s) - 1
      /\ \A k \in 1 .. Len(s) - 1 : u[k] = s[k + 1]
  OBVIOUS
<1> HIDE DEF u
<1>2. Len(u) >= 1 /\ Len(s) \in Nat
  BY <1>1
<1> DEFINE p == <<f>> \o Tail(u)
<1>3. /\ p \in Seq(S) /\ Len(p) = Len(u) /\ p[1] = f
      /\ \A k \in 2 .. Len(u) : p[k] = u[k]
  BY <1>1, <1>2, Replace
<1> HIDE DEF p
<1>4. \A k \in 2 .. Len(s) - 1 : p[k] = s[k + 1]
  BY <1>1, <1>2, <1>3
<1> QED
  BY <1>1, <1>3, <1>4 DEF p, u
-----------------------------------------------------------------------------
(***************************************************************************)
(* The program lies at the bottom and only there, handlers are never at a  *)
(* store, and an abort lies on a frame that stands at its load.            *)
(***************************************************************************)
Shape ==
  /\ frames \in Seq(Frame) /\ irqs \in Nat /\ faults \in Nat
  /\ 1 <= Len(frames) /\ Len(frames) <= irqs + faults + 1
  /\ \A k \in 1 .. Len(frames) :
       /\ frames[k].at \in {Probe, ProbeReturn, StoreReturn}
       /\ frames[k].code = "program" <=> k = Len(frames)
       /\ frames[k].code = "program" => frames[k].phase = "body"
       /\ frames[k].code = "dabort" => /\ frames[k + 1].at = Probe
                                       /\ frames[k + 1].code # "dabort"

\* The CPSR under which the code of a frame runs.
Home(f) ==
  CASE f.code = "program" -> Svc
    [] f.code = "irq"     -> [mode |-> "irq", irq |-> IF f.phase = "return" THEN "on" ELSE "off"]
    [] f.code = "dabort"  -> [mode |-> "abt", irq |-> IF f.phase = "return" THEN "on" ELSE "off"]

(***************************************************************************)
(* An interrupt lies on the program, an abort on the program or on the C   *)
(* part of an interrupt, and nothing on an abort; the SPSR of each is the  *)
(* CPSR of what it lies on.                                                *)
(***************************************************************************)
Banked ==
  /\ cpsr = Home(frames[1])
  /\ \A k \in 1 .. Len(frames) :
       /\ frames[k].code = "irq" => /\ k + 1 = Len(frames) /\ spsr["irq"] = Svc
                                    /\ k # 1 => frames[k].phase = "body"
       /\ frames[k].code = "dabort" => k = 1 /\ spsr["abt"] = Home(frames[2])

IInv == TypeOK /\ Shape /\ (~hit => Banked)

LEMMA FrameFields ==
  ASSUME NEW f \in Frame
  PROVE  /\ f.code \in {"program", "irq", "dabort"} /\ f.at \in 0 .. 3
         /\ f.phase \in {"save", "body", "enable", "return"}
         /\ \A p \in {"save", "body", "enable", "return"} :
              /\ [f EXCEPT !.phase = p] \in Frame
              /\ [f EXCEPT !.phase = p].phase = p
              /\ [f EXCEPT !.phase = p].code = f.code
              /\ [f EXCEPT !.phase = p].at = f.at
         /\ \A a \in 0 .. 3 :
              /\ [f EXCEPT !.at = a] \in Frame
              /\ [f EXCEPT !.at = a].at = a
              /\ [f EXCEPT !.at = a].code = f.code
              /\ [f EXCEPT !.at = a].phase = f.phase
BY DEF Frame

(* The running frame is the first one. *)
LEMMA Top ==
  ASSUME Shape
  PROVE  /\ Running = frames[1] /\ Running \in Frame /\ Len(frames) \in Nat
         /\ frames[1].code # "program" => Len(frames) >= 2 /\ frames[2] \in Frame
         /\ DOMAIN frames = 1 .. Len(frames)
         /\ \A k \in 1 .. Len(frames) : frames[k] \in Frame
BY DEF Shape, Running

LEMMA Bounded ==
  ASSUME TypeOK, Shape', irqs' \in 0 .. MaxIrq, faults' \in 0 .. MaxFault,
         cpsr' \in Psr, spsr' \in [{"irq", "abt"} -> Psr], hit' \in BOOLEAN
  PROVE  TypeOK'
<1>1. /\ frames' \in Seq(Frame) /\ 1 <= Len(frames')
      /\ Len(frames') <= irqs' + faults' + 1
  BY DEF Shape
<1>2. Len(frames') \in 1 .. MaxIrq + MaxFault + 1
  <2>1. Len(frames') \in Nat
    BY <1>1
  <2> QED
    BY <1>1, <2>1, BoundAssumption
<1> QED
  BY <1>1, <1>2 DEF TypeOK

(***************************************************************************)
(* A step of the running code that moves it on: to another position, or to *)
(* another phase.                                                          *)
(***************************************************************************)
LEMMA MoveKeepsShape ==
  ASSUME Shape, NEW f \in Frame, SetRunning(f), UNCHANGED <<irqs, faults>>,
         f.code = Running.code,
         f.at \in {Probe, ProbeReturn, StoreReturn},
         f.code = "program" => f.phase = "body"
  PROVE  /\ Shape' /\ frames'[1] = f /\ Len(frames') = Len(frames)
         /\ \A k \in 2 .. Len(frames) : frames'[k] = frames[k]
<1>1. /\ frames' \in Seq(Frame) /\ Len(frames') = Len(frames) /\ frames'[1] = f
      /\ \A k \in 2 .. Len(frames) : frames'[k] = frames[k]
  BY Replace DEF Shape, SetRunning
<1>2. \A k \in 1 .. Len(frames) : frames'[k].code = frames[k].code
  BY <1>1, Top DEF Shape
<1>3. \A k \in 1 .. Len(frames) :
        /\ frames'[k].at \in {Probe, ProbeReturn, StoreReturn}
        /\ frames'[k].code = "program" => frames'[k].phase = "body"
  BY <1>1, <1>2, Top DEF Shape
<1>4. \A k \in 1 .. Len(frames) : frames'[k].code = "dabort" =>
        /\ k + 1 \in 2 .. Len(frames)
        /\ frames'[k + 1] = frames[k + 1]
        /\ frames[k + 1].at = Probe /\ frames[k + 1].code # "dabort"
  <2> SUFFICES ASSUME NEW k \in 1 .. Len(frames), frames'[k].code = "dabort"
               PROVE  /\ k + 1 \in 2 .. Len(frames)
                      /\ frames'[k + 1] = frames[k + 1]
                      /\ frames[k + 1].at = Probe /\ frames[k + 1].code # "dabort"
    OBVIOUS
  <2>1. frames[k].code = "dabort"
    BY <1>2
  <2>2. k # Len(frames)
    BY <2>1 DEF Shape
  <2>3. k + 1 \in 2 .. Len(frames)
    <3>1. Len(frames) \in Nat
      BY Top
    <3> QED
      BY <3>1, <2>2
  <2> QED
    BY <1>1, <2>1, <2>3 DEF Shape
<1> QED
  BY <1>1, <1>2, <1>3, <1>4 DEF Shape

(* While it moves on in its phase or to a phase, the banked registers stay. *)
LEMMA MoveKeepsBanked ==
  ASSUME Shape, Banked, NEW f \in Frame, spsr' = spsr, cpsr' = Home(f),
         f.code = frames[1].code,
         frames'[1] = f, Len(frames') = Len(frames),
         \A k \in 2 .. Len(frames) : frames'[k] = frames[k]
  PROVE  Banked'
<1>1. \A k \in 1 .. Len(frames) : frames'[k].code = frames[k].code
  BY Top
<1>2. \A k \in 1 .. Len(frames) : frames'[k].code = "irq" =>
        /\ k + 1 = Len(frames) /\ spsr["irq"] = Svc
        /\ k # 1 => frames'[k].phase = "body"
  BY <1>1, Top DEF Banked
<1>3. \A k \in 1 .. Len(frames) : frames'[k].code = "dabort" =>
        k = 1 /\ Len(frames) >= 2 /\ spsr["abt"] = Home(frames[2])
  BY <1>1, Top DEF Banked, Shape
<1>4. Len(frames) >= 2 => frames'[2] = frames[2]
  BY Top
<1>5. Home(f)' = Home(f)
  BY DEF Home, Svc
<1> QED
  BY <1>2, <1>3, <1>4 DEF Banked, Home, Svc

(* read32 goes on, and its return. *)
LEMMA ReadKeeps == ASSUME IInv, Read \/ ReturnToLoop PROVE IInv'
<1> DEFINE a == IF Running.at = Probe THEN ProbeReturn ELSE Probe
           f == [Running EXCEPT !.at = a]
<1>1. /\ Shape /\ SetRunning(f) /\ UNCHANGED <<cpsr, spsr, hit, irqs, faults>>
  BY DEF IInv, Read, ReturnToLoop, Probe, ProbeReturn, StoreReturn
<1>2. /\ Running = frames[1] /\ Running \in Frame /\ a \in {Probe, ProbeReturn}
  BY <1>1, Top
<1>3. /\ f \in Frame /\ f.code = Running.code /\ f.phase = Running.phase
      /\ f.at \in {Probe, ProbeReturn, StoreReturn}
  BY <1>2 DEF Frame, Probe, ProbeReturn, StoreReturn
<1>4. Running.code = "program" => f.phase = "body"
  BY <1>1, <1>2, <1>3, Top DEF Shape
<1> HIDE DEF f
<1>5. /\ Shape' /\ frames'[1] = f /\ Len(frames') = Len(frames)
      /\ \A k \in 2 .. Len(frames) : frames'[k] = frames[k]
  BY <1>1, <1>3, <1>4, MoveKeepsShape
<1>6. TypeOK'
  BY <1>1, <1>5, Bounded DEF IInv, TypeOK
<1>7. Home(f) = Home(frames[1])
  BY <1>2, <1>3 DEF Home
<1>8. ~hit' => Banked'
  BY <1>1, <1>2, <1>3, <1>5, <1>7, MoveKeepsBanked DEF IInv, Banked
<1> QED
  BY <1>5, <1>6, <1>8 DEF IInv

(***************************************************************************)
(* A handler saves registers, returns from its C part, and enables         *)
(* interrupts: its phase changes, and with the last its I bit.             *)
(***************************************************************************)
LEMMA PhaseKeeps == ASSUME IInv, Save \/ EndBody \/ EnableIrq PROVE IInv'
<1> DEFINE p == CASE Running.phase = "save" -> "body"
                  [] Running.phase = "body" -> "enable"
                  [] OTHER -> "return"
           f == [Running EXCEPT !.phase = p]
<1>1. /\ Shape /\ TypeOK /\ SetRunning(f) /\ UNCHANGED <<spsr, hit, irqs, faults>>
      /\ Running.code = "program" => Running.phase # "body"
      /\ Running.phase \in {"save", "body", "enable"}
      /\ cpsr' = IF Running.phase = "enable" THEN [cpsr EXCEPT !.irq = "on"] ELSE cpsr
  BY DEF IInv, Save, StartBody, EndBody, EnableIrq
<1>2. /\ Running = frames[1] /\ Running \in Frame /\ p \in {"body", "enable", "return"}
      /\ Running.code # "program"
  BY <1>1, Top DEF Shape
<1>3. /\ f \in Frame /\ f.code = Running.code /\ f.phase = p /\ f.at = Running.at
  BY <1>2 DEF Frame
<1>4. f.at \in {Probe, ProbeReturn, StoreReturn}
  BY <1>1, <1>2, <1>3 DEF Shape
<1> HIDE DEF f
<1>5. /\ Shape' /\ frames'[1] = f /\ Len(frames') = Len(frames)
      /\ \A k \in 2 .. Len(frames) : frames'[k] = frames[k]
  BY <1>1, <1>2, <1>3, <1>4, MoveKeepsShape
<1>6. cpsr' \in Psr
  BY <1>1 DEF TypeOK, Psr
<1>7. TypeOK'
  BY <1>1, <1>5, <1>6, Bounded DEF TypeOK
<1>8. ASSUME Banked PROVE cpsr' = Home(f)
  <2>1. cpsr = Home(Running) /\ Running.code \in {"irq", "dabort"}
    BY <1>2, <1>8 DEF Banked, Frame
  <2>2. \E m : /\ cpsr = [mode |-> m, irq |-> "off"]
               /\ Home(f) = [mode |-> m, irq |-> IF p = "return" THEN "on" ELSE "off"]
    BY <1>1, <1>3, <2>1 DEF Home
  <2>3. p = "return" <=> Running.phase = "enable"
    BY <1>1
  <2> HIDE DEF p
  <2> QED
    BY <1>1, <2>2, <2>3
<1>9. ~hit' => Banked'
  BY <1>1, <1>2, <1>3, <1>5, <1>8, MoveKeepsBanked DEF IInv
<1> QED
  BY <1>5, <1>7, <1>9 DEF IInv

(***************************************************************************)
(* An exception: the CPSR goes to the SPSR of its mode, and its frame on   *)
(* the stack.  An abort comes at the load of code that probes.             *)
(***************************************************************************)
LEMMA EnterKeeps ==
  ASSUME IInv, DataAbort \/ TakeIrq PROVE IInv'
<1> DEFINE code == IF DataAbort THEN "dabort" ELSE "irq"
           f == [code |-> code, phase |-> "save", at |-> Probe]
<1>1. /\ Shape /\ TypeOK /\ frames' = <<f>> \o frames
      /\ irqs' \in Nat /\ faults' \in Nat /\ irqs' + faults' = irqs + faults + 1
      /\ irqs' \in 0 .. MaxIrq /\ faults' \in 0 .. MaxFault
      /\ code = "dabort" => Running.at = Probe /\ Running.code # "dabort"
  <2>1. CASE DataAbort
    BY <2>1, BoundAssumption DEF DataAbort, Enter, Probing, IInv, TypeOK
  <2>2. CASE TakeIrq /\ ~DataAbort
    BY <2>2, BoundAssumption DEF TakeIrq, Enter, IInv, TypeOK
  <2> QED
    BY <2>1, <2>2
<1>2. f \in Frame /\ f.code = code /\ f.phase = "save" /\ f.at = Probe
      /\ code \in {"irq", "dabort"}
  BY DEF Frame, Probe
<1> HIDE DEF f
<1>3. /\ Running = frames[1] /\ Len(frames) \in Nat /\ Len(frames) >= 1
  BY <1>1, Top DEF Shape
<1>4. /\ frames' \in Seq(Frame) /\ Len(frames') = Len(frames) + 1 /\ frames'[1] = f
      /\ \A k \in 2 .. Len(frames) + 1 : frames'[k] = frames[k - 1]
  BY <1>1, <1>2, Push DEF Shape
<1>5. Shape'
  <2>1. ASSUME NEW k \in 1 .. Len(frames')
        PROVE  /\ frames'[k].at \in {Probe, ProbeReturn, StoreReturn}
               /\ frames'[k].code = "program" <=> k = Len(frames')
               /\ frames'[k].code = "program" => frames'[k].phase = "body"
               /\ frames'[k].code = "dabort" => /\ frames'[k + 1].at = Probe
                                                /\ frames'[k + 1].code # "dabort"
    <3>1. CASE k = 1
      <4>1. frames'[2] = frames[1]
        BY <1>3, <1>4
      <4>2. frames'[1] = f /\ k # Len(frames')
        BY <1>3, <1>4, <3>1
      <4>3. code = "dabort" => frames'[2].at = Probe /\ frames'[2].code # "dabort"
        BY <1>1, <1>3, <4>1
      <4> QED
        BY <1>2, <3>1, <4>2, <4>3
    <3>2. CASE k # 1
      <4>1. k - 1 \in 1 .. Len(frames) /\ k \in 2 .. Len(frames) + 1 /\ (k - 1) + 1 = k
        BY <1>3, <1>4, <3>2
      <4>2. frames'[k] = frames[k - 1] /\ (k = Len(frames') <=> k - 1 = Len(frames))
        BY <1>3, <1>4, <4>1
      <4>3. ASSUME frames'[k].code = "dabort"
            PROVE  frames'[k + 1].at = Probe /\ frames'[k + 1].code # "dabort"
        <5>1. k - 1 # Len(frames) /\ frames[k].at = Probe /\ frames[k].code # "dabort"
          BY <1>1, <4>1, <4>2, <4>3 DEF Shape
        <5>2. k + 1 \in 2 .. Len(frames) + 1 /\ (k + 1) - 1 = k
          BY <1>3, <4>1, <5>1
        <5>3. frames'[k + 1] = frames[k]
          BY <1>4, <5>2
        <5> QED
          BY <5>1, <5>3
      <4> QED
        BY <1>1, <4>1, <4>2, <4>3 DEF Shape
    <3> QED
      BY <3>1, <3>2
  <2>2. 1 <= Len(frames') /\ Len(frames') <= irqs' + faults' + 1
    <3>1. Len(frames) <= irqs + faults + 1 /\ irqs \in Nat /\ faults \in Nat
      BY <1>1 DEF Shape
    <3> QED
      BY <1>1, <1>3, <1>4, <3>1
  <2> QED
    BY <1>1, <1>4, <2>1, <2>2 DEF Shape
<1>6. TypeOK'
  <2>1. cpsr' \in Psr
    BY DEF DataAbort, TakeIrq, Enter, Psr, Mode
  <2>2. spsr' \in [{"irq", "abt"} -> Psr]
    <3>1. cpsr \in Psr /\ spsr \in [{"irq", "abt"} -> Psr]
      BY <1>1 DEF TypeOK
    <3> QED
      BY <3>1 DEF DataAbort, TakeIrq, Enter
  <2>3. hit' \in BOOLEAN
    BY <1>1, Zenon DEF TypeOK, DataAbort, TakeIrq
  <2> QED
    BY <1>1, <1>5, <2>1, <2>2, <2>3, Bounded
<1>7. ~hit' => Banked'
  <2> SUFFICES ASSUME ~hit' PROVE Banked'
    OBVIOUS
  <2>1. ~hit /\ Banked /\ (code = "irq" => Running.phase # "return" /\ cpsr.irq = "on")
    <3>1. CASE DataAbort
      BY <3>1 DEF IInv, DataAbort
    <3>2. CASE TakeIrq
      BY <3>2 DEF IInv, TakeIrq, DataAbort
    <3> QED
      BY <3>1, <3>2
  <2>2. cpsr = Home(frames[1]) /\ frames[1] \in Frame
    BY <2>1, <1>1, <1>3, Top DEF Banked
  <2>3. CASE code = "irq"
    <3>1. frames[1].code = "program"
      <4>1. (frames[1].phase # "return") = TRUE
        BY <2>1, <2>3, <1>3
      <4> QED
        BY <2>1, <2>2, <2>3, <4>1, FrameFields DEF Home
    <3>2. Len(frames) = 1 /\ cpsr = Svc
      <4>1. 1 \in 1 .. Len(frames)
        BY <1>3
      <4>2. Len(frames) = 1
        BY <1>1, <3>1, <4>1 DEF Shape
      <4> QED
        BY <2>2, <3>1, <4>2 DEF Home
    <3>3. spsr'["irq"] = Svc /\ cpsr' = [mode |-> "irq", irq |-> "off"]
      BY <2>3, <3>2 DEF IInv, TypeOK, DataAbort, TakeIrq, Enter
    <3>4. Home(f) = [mode |-> "irq", irq |-> "off"]
      BY <1>2, <2>3 DEF Home
    <3>5. frames'[2] = frames[1] /\ Len(frames') = 2
      BY <1>4, <3>2
    <3>6. cpsr' = Home(frames'[1])
      BY <1>4, <3>3, <3>4
    <3>7. \A k \in 1 .. Len(frames') :
            /\ frames'[k].code = "irq" => k = 1 /\ k + 1 = Len(frames')
            /\ frames'[k].code # "dabort"
      <4>1. frames'[1].code = "irq" /\ frames'[2].code = "program"
        BY <1>2, <1>4, <2>3, <3>1, <3>5
      <4>2. 1 .. Len(frames') = {1, 2}
        BY <3>5
      <4> HIDE DEF code
      <4> QED
        BY <3>5, <4>1, <4>2
    <3>8. (cpsr = Home(frames[1]))'
      BY <3>6 DEF Home, Svc
    <3> QED
      BY <3>3, <3>7, <3>8 DEF Banked
  <2>4. CASE code = "dabort"
    <3>1. /\ spsr'["abt"] = cpsr /\ spsr'["irq"] = spsr["irq"]
          /\ cpsr' = [mode |-> "abt", irq |-> "off"]
      BY <2>4 DEF IInv, TypeOK, DataAbort, Enter
    <3>2. frames'[2] = frames[1] /\ frames[1].code # "dabort"
      BY <1>1, <1>3, <1>4, <2>4
    <3>3. frames[1].phase = "body"
      BY <1>3, <2>4 DEF DataAbort, Probing
    <3>4. Home(f) = [mode |-> "abt", irq |-> "off"]
      BY <1>2, <2>4 DEF Home
    <3>5. \A k \in 1 .. Len(frames') : frames'[k].code = "dabort" => k = 1
      <4> SUFFICES ASSUME NEW k \in 1 .. Len(frames'), k # 1 PROVE frames'[k].code # "dabort"
        OBVIOUS
      <4>1. k - 1 \in 1 .. Len(frames) /\ k \in 2 .. Len(frames) + 1
        BY <1>3, <1>4
      <4> QED
        BY <1>4, <2>1, <3>2, <4>1 DEF Banked
    <3>6. \A k \in 1 .. Len(frames') : frames'[k].code = "irq" =>
            k + 1 = Len(frames') /\ spsr["irq"] = Svc /\ frames'[k].phase = "body"
      <4> SUFFICES ASSUME NEW k \in 1 .. Len(frames'), frames'[k].code = "irq"
                   PROVE  k + 1 = Len(frames') /\ spsr["irq"] = Svc /\ frames'[k].phase = "body"
        OBVIOUS
      <4>1. k # 1
        BY <1>2, <1>4, <2>4
      <4>2. k - 1 \in 1 .. Len(frames) /\ k \in 2 .. Len(frames) + 1
        BY <1>3, <1>4, <4>1
      <4>3. frames'[k] = frames[k - 1]
        BY <1>4, <4>2
      <4>4. (k - 1) + 1 = Len(frames) /\ spsr["irq"] = Svc /\ frames[k - 1].phase = "body"
        BY <2>1, <3>3, <4>2, <4>3 DEF Banked
      <4> QED
        BY <1>3, <1>4, <4>2, <4>3, <4>4
    <3>7. spsr'["abt"] = Home(frames'[2]) /\ cpsr' = Home(frames'[1])
      BY <1>4, <2>2, <3>1, <3>2, <3>4
    <3> QED
      BY <3>1, <3>5, <3>6, <3>7 DEF Banked, Home, Svc
  <2> QED
    BY <1>2, <2>3, <2>4
<1> QED
  BY <1>5, <1>6, <1>7 DEF IInv

(***************************************************************************)
(* A handler returns to the frame below it, which an abort moves past its  *)
(* load; the CPSR becomes what the SPSR of the mode holds.                 *)
(***************************************************************************)
LEMMA ReturnKeeps == ASSUME IInv, Return PROVE IInv'
<1> DEFINE f == Resume(frames[2], Running.code)
<1>1. /\ Shape /\ TypeOK /\ Running.phase = "return"
      /\ frames' = <<f>> \o Tail(Tail(frames))
      /\ UNCHANGED <<spsr, hit, irqs, faults>>
      /\ cpsr' = IF cpsr.mode = "svc" THEN cpsr ELSE spsr[cpsr.mode]
  BY DEF IInv, Return, Unwind
<1>2. /\ Running = frames[1] /\ Running \in Frame /\ Len(frames) \in Nat
  BY <1>1, Top
<1>3. /\ Running.code \in {"irq", "dabort"} /\ 1 \in 1 .. Len(frames)
  BY <1>1, <1>2 DEF Shape, Frame
<1>4. /\ Len(frames) >= 2 /\ frames[2] \in Frame /\ 2 \in 1 .. Len(frames)
  BY <1>1, <1>2, <1>3, Top
<1>5. Running.code = "dabort" => frames[2].at = Probe /\ frames[2].code # "dabort"
  BY <1>1, <1>2, <1>3 DEF Shape
<1>6. /\ f \in Frame /\ f.code = frames[2].code /\ f.phase = frames[2].phase
      /\ f.at \in {Probe, ProbeReturn, StoreReturn}
      /\ Running.code = "irq" => f = frames[2]
  <2>1. frames[2].at \in {Probe, ProbeReturn, StoreReturn}
    BY <1>1, <1>4 DEF Shape
  <2>2. CASE Running.code = "irq"
    BY <1>4, <2>1, <2>2 DEF Resume
  <2>3. CASE Running.code = "dabort"
    <3>1. f = [frames[2] EXCEPT !.at = 3]
      BY <1>4, <1>5, <2>3 DEF Resume, Probe, Frame
    <3> QED
      BY <1>4, <2>3, <3>1 DEF Frame, StoreReturn
  <2> QED
    BY <1>3, <2>2, <2>3
<1> HIDE DEF f
<1>7. /\ frames' \in Seq(Frame) /\ Len(frames') = Len(frames) - 1 /\ frames'[1] = f
      /\ \A k \in 2 .. Len(frames) - 1 : frames'[k] = frames[k + 1]
  BY <1>1, <1>4, <1>6, Pop DEF Shape
<1>8. \A k \in 1 .. Len(frames') :
        /\ k + 1 \in 1 .. Len(frames) /\ frames'[k].code = frames[k + 1].code
        /\ frames'[k].phase = frames[k + 1].phase
        /\ k # 1 => frames'[k] = frames[k + 1]
  <2> SUFFICES ASSUME NEW k \in 1 .. Len(frames')
               PROVE  /\ k + 1 \in 1 .. Len(frames)
                      /\ frames'[k].code = frames[k + 1].code
                      /\ frames'[k].phase = frames[k + 1].phase
                      /\ k # 1 => frames'[k] = frames[k + 1]
    OBVIOUS
  <2>1. CASE k = 1
    BY <1>2, <1>4, <1>6, <1>7, <2>1
  <2>2. CASE k # 1
    <3>1. k \in 2 .. Len(frames) - 1 /\ k + 1 \in 1 .. Len(frames)
      BY <1>2, <1>7, <2>2
    <3> QED
      BY <1>7, <3>1
  <2> QED
    BY <2>1, <2>2
<1>9. Shape'
  <2>1. ASSUME NEW k \in 1 .. Len(frames')
        PROVE  /\ frames'[k].at \in {Probe, ProbeReturn, StoreReturn}
               /\ frames'[k].code = "program" <=> k = Len(frames')
               /\ frames'[k].code = "program" => frames'[k].phase = "body"
               /\ frames'[k].code = "dabort" => /\ frames'[k + 1].at = Probe
                                                /\ frames'[k + 1].code # "dabort"
    <3>1. k + 1 = Len(frames) <=> k = Len(frames')
      BY <1>2, <1>7
    <3>2. /\ frames'[k].code = "program" <=> k = Len(frames')
          /\ frames'[k].code = "program" => frames'[k].phase = "body"
      BY <1>1, <1>8, <3>1 DEF Shape
    <3>3. frames'[k].at \in {Probe, ProbeReturn, StoreReturn}
      BY <1>1, <1>6, <1>7, <1>8 DEF Shape
    <3>4. ASSUME frames'[k].code = "dabort"
          PROVE  frames'[k + 1].at = Probe /\ frames'[k + 1].code # "dabort"
      <4>1. k # Len(frames')
        BY <3>2, <3>4
      <4>2. k + 1 \in 1 .. Len(frames') /\ k + 1 # 1
        BY <1>2, <1>7, <4>1
      <4>3. frames'[k + 1] = frames[(k + 1) + 1]
        BY <1>8, <4>2
      <4> QED
        BY <1>1, <1>8, <3>4, <4>3 DEF Shape
    <3> QED
      BY <3>2, <3>3, <3>4
  <2>2. 1 <= Len(frames') /\ Len(frames') <= irqs' + faults' + 1
    <3>1. Len(frames) <= irqs + faults + 1 /\ irqs \in Nat /\ faults \in Nat
      BY <1>1 DEF Shape
    <3> QED
      BY <1>1, <1>2, <1>4, <1>7, <3>1
  <2> QED
    BY <1>1, <1>7, <2>1, <2>2 DEF Shape
<1>10. TypeOK'
  <2>1. cpsr \in Psr /\ spsr \in [{"irq", "abt"} -> Psr]
    BY <1>1 DEF TypeOK
  <2>2. cpsr.mode \in Mode
    BY <2>1 DEF Psr
  <2>3. cpsr' \in Psr
    BY <1>1, <2>1, <2>2 DEF Mode
  <2> QED
    BY <1>1, <1>9, <2>1, <2>3, Bounded DEF TypeOK
<1>11. ~hit' => Banked'
  <2> SUFFICES ASSUME Banked PROVE Banked'
    BY <1>1 DEF IInv
  <2>1. CASE Running.code = "irq"
    <3>1. cpsr' = Svc /\ Len(frames) = 2
      <4>1. 1 + 1 = Len(frames) /\ spsr["irq"] = Svc /\ cpsr = Home(frames[1])
        BY <1>2, <1>3, <2>1 DEF Banked
      <4>2. cpsr.mode = "irq"
        BY <1>2, <2>1, <4>1 DEF Home
      <4> QED
        BY <1>1, <4>1, <4>2
    <3>2. Len(frames') = 1 /\ frames'[1].code = "program"
      BY <1>1, <1>4, <1>6, <1>7, <3>1 DEF Shape
    <3>3. (cpsr = Home(frames[1]))'
      BY <3>1, <3>2 DEF Home, Svc
    <3>4. \A k \in 1 .. Len(frames') : frames'[k].code = "program"
      BY <3>2
    <3> QED
      BY <3>3, <3>4 DEF Banked
  <2>2. CASE Running.code = "dabort"
    <3>1. cpsr = Home(frames[1]) /\ spsr["abt"] = Home(frames[2])
      BY <1>2, <1>3, <2>2 DEF Banked
    <3>2. cpsr.mode = "abt"
      BY <1>2, <2>2, <3>1 DEF Home
    <3>3. cpsr' = Home(frames[2])
      BY <1>1, <3>1, <3>2
    <3>4. (cpsr = Home(frames[1]))'
      BY <1>6, <1>7, <3>3 DEF Home, Svc
    <3>5. \A k \in 1 .. Len(frames') : frames'[k].code # "dabort"
      <4> SUFFICES ASSUME NEW k \in 1 .. Len(frames') PROVE frames'[k].code # "dabort"
        OBVIOUS
      <4>1. k + 1 \in 1 .. Len(frames) /\ k + 1 # 1 /\ frames'[k].code = frames[k + 1].code
        BY <1>8
      <4> QED
        BY <4>1 DEF Banked
    <3>6. \A k \in 1 .. Len(frames') : frames'[k].code = "irq" =>
            k + 1 = Len(frames') /\ spsr["irq"] = Svc /\ frames'[k].phase = "body"
      <4> SUFFICES ASSUME NEW k \in 1 .. Len(frames'), frames'[k].code = "irq"
                   PROVE  /\ k + 1 = Len(frames') /\ spsr["irq"] = Svc
                          /\ frames'[k].phase = "body"
        OBVIOUS
      <4>1. /\ k + 1 \in 1 .. Len(frames) /\ k + 1 # 1
            /\ frames'[k].code = frames[k + 1].code
            /\ frames'[k].phase = frames[k + 1].phase
        BY <1>8
      <4>2. (k + 1) + 1 = Len(frames) /\ spsr["irq"] = Svc /\ frames[k + 1].phase = "body"
        BY <4>1 DEF Banked
      <4> QED
        BY <1>2, <1>7, <4>1, <4>2
    <3> QED
      BY <1>1, <3>4, <3>5, <3>6 DEF Banked
  <2> QED
    BY <1>3, <2>1, <2>2
<1> QED
  BY <1>9, <1>10, <1>11 DEF IInv
-----------------------------------------------------------------------------
LEMMA Start == Init => IInv
<1> SUFFICES ASSUME Init PROVE IInv
  OBVIOUS
<1> DEFINE f == [code |-> "program", phase |-> "body", at |-> Probe]
<1>1. f \in Frame /\ frames = <<f>>
  BY DEF Init, Frame, Probe
<1>2. frames \in Seq(Frame) /\ Len(frames) = 1 /\ frames[1] = f
  BY <1>1
<1>3. Shape
  BY <1>2 DEF Shape, Init
<1>4. TypeOK
  <2>1. Len(frames) \in 1 .. MaxIrq + MaxFault + 1
    BY <1>2, BoundAssumption
  <2>2. cpsr \in Psr
    BY DEF Init, Svc, Psr, Mode
  <2>3. hit \in BOOLEAN
    BY Zenon DEF Init
  <2> QED
    BY <1>2, <2>1, <2>2, <2>3, BoundAssumption DEF TypeOK, Init
<1>5. Banked
  BY <1>2 DEF Banked, Home, Init
<1> QED
  BY <1>3, <1>4, <1>5 DEF IInv

LEMMA StepKeeps == IInv /\ [Next]_vars => IInv'
<1> SUFFICES ASSUME IInv, [Next]_vars PROVE IInv'
  OBVIOUS
<1>1. CASE Read \/ ReturnToLoop
  BY <1>1, ReadKeeps
<1>2. CASE Save \/ EndBody \/ EnableIrq
  BY <1>2, PhaseKeeps
<1>3. CASE DataAbort \/ TakeIrq
  BY <1>3, EnterKeeps
<1>4. CASE Return
  BY <1>4, ReturnKeeps
<1>5. CASE UNCHANGED vars
  BY <1>5 DEF IInv, TypeOK, Shape, Banked, Home, Svc, vars
<1> QED
  BY <1>1, <1>2, <1>3, <1>4, <1>5 DEF Next

LEMMA Invariance == Spec => []IInv
BY Start, StepKeeps, PTL DEF Spec

(***************************************************************************)
(* The stack of frames is never empty nor deeper than the exceptions that  *)
(* were taken, and the banked registers hold what registers can.           *)
(***************************************************************************)
THEOREM TypeCorrect == Spec => []TypeOK
<1>1. IInv => TypeOK
  BY DEF IInv
<1> QED
  BY <1>1, Invariance, PTL

(***************************************************************************)
(* However interrupts and aborts nest, no frame comes to stand at the      *)
(* store that follows read32: what an abort moves on is at its load.       *)
(***************************************************************************)
THEOREM ProbeSafe == Spec => []ProbeNeverStores
<1>1. IInv => ProbeNeverStores
  BY Top DEF IInv, Shape, ProbeNeverStores, Store, Probe, ProbeReturn, StoreReturn
<1> QED
  BY <1>1, Invariance, PTL

(***************************************************************************)
(* Unless an interrupt came between a cpsie i and its return, the program  *)
(* runs in SVC mode and each handler in its own, for any nesting.          *)
(***************************************************************************)
THEOREM ModesKept == Spec => []ModesRestored
<1>1. ASSUME IInv PROVE ModesRestored
  <2> SUFFICES ASSUME ~hit PROVE ModesRestored
    BY DEF ModesRestored
  <2>1. cpsr = Home(Running) /\ Running \in Frame
    BY <1>1, Top DEF IInv, Banked
  <2> QED
    BY <2>1 DEF ModesRestored, MaskedUntilEnable, Home, Svc, Frame
<1> QED
  BY <1>1, Invariance, PTL

(***************************************************************************)
(* Then interrupt_handler is on the stack once: its frame is the last one  *)
(* but the program's.                                                      *)
(***************************************************************************)
THEOREM EnteredOnce == Spec => []HandlerOnce
<1>1. ASSUME IInv PROVE HandlerOnce
  <2> SUFFICES ASSUME ~hit, NEW j \in DOMAIN frames, NEW k \in DOMAIN frames,
                      InHandler(frames[j]), InHandler(frames[k])
               PROVE  j = k
    BY DEF HandlerOnce
  <2>1. /\ DOMAIN frames = 1 .. Len(frames) /\ Len(frames) \in Nat
    BY <1>1, Top DEF IInv
  <2>2. j + 1 = Len(frames) /\ k + 1 = Len(frames)
    BY <1>1, <2>1 DEF IInv, Banked, InHandler
  <2> QED
    BY <2>1, <2>2
<1> QED
  BY <1>1, Invariance, PTL
=============================================================================
