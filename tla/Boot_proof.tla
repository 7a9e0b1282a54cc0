----------------------------- MODULE Boot_proof -----------------------------
(***************************************************************************)
(* Proofs about the start of the cores, for any set of slow cores.         *)
(*                                                                         *)
(* What a core may still do is a sequence of operations, so that the       *)
(* invariant says of each sequence that it fits the state it starts in.    *)
(* A View is what a core knows of the state before one of its operations;  *)
(* Rule says which views an operation leads from and to, as a Hoare triple *)
(* does, and a sequence is Good from a view when there are views for all   *)
(* its operations.  The programs, and the handler put in front of one, are *)
(* shown Good from the views they start in, one function at a time.        *)
(***************************************************************************)
EXTENDS Boot, SequenceTheorems, FiniteSetTheorems, TLAPS

Fact == {"fresh", "on", "irq", "tested"}

(* An interrupt handler may run before the next operation.                 *)
Open(x) == "on" \in x.knows /\ "irq" \notin x.knows

(***************************************************************************)
(* The locks the core holds; whether what it read of the count is the      *)
(* count (fresh), its mailbox interrupts are enabled (on), it is in a      *)
(* handler (irq) and has seen a count of 4 (tested); the cores it has not  *)
(* sent the start address; the increments it still has to do.              *)
(***************************************************************************)
Views == [held : SUBSET Lock, knows : SUBSET Fact, unsent : SUBSET Cpu, left : Nat]
View  == {x \in Views : Open(x) => x.held \subseteq {"info"}}

(* The locks a core that waits for l may hold: the order of the locks.     *)
Under(l) == CASE l = "info" -> {}
              [] l = "exp"  -> {"info"}
              [] l = "uart" -> {"info", "exp"}

ReqRule(x, l, y) ==
  /\ x.held \subseteq Under(l) /\ (Open(x) => l = "info")
  /\ y = [x EXCEPT !.held = @ \union {l}]

RelRule(x, l, y) ==
  /\ l \in x.held
  /\ y = [x EXCEPT !.held = @ \ {l},
                   !.knows = IF l = "info" THEN @ \ {"fresh"} ELSE @]

PutsRule(x, y) == "uart" \notin x.held /\ ~ Open(x) /\ y = x

LoadRule(x, y) == "info" \in x.held /\ y = [x EXCEPT !.knows = @ \union {"fresh"}]

StoreRule(x, y) ==
  /\ "info" \in x.held /\ "fresh" \in x.knows /\ x.left > 0
  /\ y = [x EXCEPT !.knows = @ \ {"fresh"}, !.left = @ - 1]

EnableRule(c, x, y) ==
  /\ c # PCore /\ x.held = {} /\ "on" \notin x.knows /\ "irq" \notin x.knows
  /\ y = [x EXCEPT !.knows = @ \union {"on"}]

ReportRule(x, y) == ("irq" \in x.knows \/ "tested" \in x.knows) /\ y = x

ReturnRule(x, y) ==
  /\ "irq" \in x.knows /\ x.held \subseteq {"info"}
  /\ y = [x EXCEPT !.knows = @ \ {"irq"}]

SendRule(c, x, d, y) ==
  c = PCore /\ d \in x.unsent /\ y = [x EXCEPT !.unsent = @ \ {d}]

AnswerRule(c, x, y) ==
  /\ c = PCore /\ x.held = {} /\ x.left = 0 /\ y = x
  /\ x.knows \intersect {"on", "irq", "fresh"} = {}

TestRule(c, x, y) ==
  /\ c = PCore /\ x.held = {} /\ "fresh" \notin x.knows /\ ~ Open(x)
  /\ y = [x EXCEPT !.knows = @ \union {"tested"}]

Rule(c, x, op, y) ==
  /\ op[1] = "req"    => ReqRule(x, op[2], y)
  /\ op[1] = "rel"    => RelRule(x, op[2], y)
  /\ op[1] = "puts"   => PutsRule(x, y)
  /\ op[1] = "load"   => LoadRule(x, y)
  /\ op[1] = "store"  => StoreRule(x, y)
  /\ op[1] = "mmu"    => y = x
  /\ op[1] = "enable" => EnableRule(c, x, y)
  /\ op[1] = "report" => ReportRule(x, y)
  /\ op[1] = "return" => ReturnRule(x, y)
  /\ op[1] = "send"   => SendRule(c, x, op[2], y)
  /\ op[1] = "answer" => AnswerRule(c, x, y)
  /\ op[1] = "test"   => TestRule(c, x, y)
  /\ op[1] = "ipi"    => op[2] \in {2, 3} /\ y = x

(* There are views for all the operations of s, the first of them x.       *)
Through(c, s, x) ==
  \E f \in [0 .. Len(s) -> View] :
    f[0] = x /\ \A k \in 1 .. Len(s) : Rule(c, f[k - 1], s[k], f[k])

Good(c, s, x) ==
  s \in Seq(Op) /\ x \in View /\ x.left = Increments(s) /\ Through(c, s, x)

-----------------------------------------------------------------------------
(***************************************************************************)
(* Sequences: the first operation of a sequence and of a concatenation.    *)
(***************************************************************************)
LEMMA HeadAndTail ==
  ASSUME NEW s \in Seq(Op), s # <<>>
  PROVE  /\ Head(s) \in Op /\ Tail(s) \in Seq(Op)
         /\ Len(s) \in Nat \ {0} /\ Len(Tail(s)) = Len(s) - 1
         /\ Head(s) = s[1] /\ \A k \in 1 .. Len(s) - 1 : Tail(s)[k] = s[k + 1]
<1>1. Len(s) \in Nat \ {0}
  BY EmptySeq
<1>2. Head(s) = s[1]
  OBVIOUS
<1> QED
  BY <1>1, <1>2, HeadTailProperties

LEMMA FrontOfConcat ==
  ASSUME NEW s \in Seq(Op), s # <<>>, NEW t \in Seq(Op)
  PROVE  /\ s \o t \in Seq(Op) /\ s \o t # <<>>
         /\ Head(s \o t) = Head(s) /\ Tail(s \o t) = Tail(s) \o t
<1> DEFINE u == s \o t
<1>1. u \in Seq(Op) /\ Len(u) = Len(s) + Len(t) /\ Len(s) \in Nat \ {0} /\ Len(t) \in Nat
  BY ConcatProperties, EmptySeq, LenProperties
<1>2. \A i \in 1 .. Len(s) + Len(t) : u[i] = IF i <= Len(s) THEN s[i] ELSE t[i - Len(s)]
  BY ConcatProperties
<1>3. u # <<>>
  BY <1>1
<1>4. Head(u) = Head(s)
  <2>1. Head(u) = u[1] /\ Head(s) = s[1]
    BY <1>1, <1>3
  <2> QED
    BY <2>1, <1>1, <1>2
<1>5. Tail(u) = Tail(s) \o t
  <2>1. Tail(u) \in Seq(Op) /\ Len(Tail(u)) = Len(s) + Len(t) - 1
        /\ \A k \in 1 .. Len(s) + Len(t) - 1 : Tail(u)[k] = u[k + 1]
    BY <1>1, <1>3, HeadAndTail
  <2>2. Tail(s) \in Seq(Op) /\ Len(Tail(s)) = Len(s) - 1
        /\ \A k \in 1 .. Len(s) - 1 : Tail(s)[k] = s[k + 1]
    BY HeadAndTail
  <2> DEFINE w == Tail(s) \o t
  <2>3. w \in Seq(Op) /\ Len(w) = Len(s) - 1 + Len(t)
        /\ \A i \in 1 .. Len(s) - 1 + Len(t) :
             w[i] = IF i <= Len(s) - 1 THEN Tail(s)[i] ELSE t[i - (Len(s) - 1)]
    BY <2>2, ConcatProperties
  <2>4. ASSUME NEW i \in 1 .. Len(Tail(u))
        PROVE  Tail(u)[i] = w[i]
    <3>1. Tail(u)[i] = u[i + 1] /\ i \in 1 .. Len(s) + Len(t) - 1
      BY <2>1, <2>4, <1>1
    <3>2. u[i + 1] = IF i + 1 <= Len(s) THEN s[i + 1] ELSE t[i + 1 - Len(s)]
      BY <3>1, <1>2, <1>1
    <3>3. w[i] = IF i <= Len(s) - 1 THEN Tail(s)[i] ELSE t[i - (Len(s) - 1)]
      BY <3>1, <2>3, <1>1
    <3>4. i <= Len(s) - 1 => Tail(s)[i] = s[i + 1]
      BY <3>1, <2>2, <1>1
    <3>5. i + 1 - Len(s) = i - (Len(s) - 1)
      BY <1>1
    <3> QED
      BY <3>1, <3>2, <3>3, <3>4, <3>5, <1>1
  <2>5. Len(Tail(u)) = Len(w)
    BY <2>1, <2>3, <1>1
  <2> HIDE DEF u, w
  <2>6. Tail(u) = w
    BY <2>1, <2>3, <2>4, <2>5, SeqEqual
  <2> QED
    BY <2>6 DEF w
<1> QED
  BY <1>1, <1>3, <1>4, <1>5

LEMMA Closed ==
  ASSUME NEW s \in Seq(Op), NEW t \in Seq(Op)
  PROVE  s \o t \in Seq(Op)
BY ConcatProperties

(* Under a name, so that the provers need not search for the four.         *)
Regrouped(a, b, c, d) == ((a \o b) \o c) \o d = a \o (b \o (c \o d))

LEMMA Assoc ==
  ASSUME NEW a \in Seq(Op), NEW b \in Seq(Op), NEW c \in Seq(Op), NEW d \in Seq(Op)
  PROVE  Regrouped(a, b, c, d)
<1>1. a \o b \in Seq(Op) /\ c \o d \in Seq(Op)
  BY Closed
<1>2. \A s \in Seq(Op) : (s \o c) \o d = s \o (c \o d)
  BY ConcatAssociative
<1>3. \A s \in Seq(Op) : (a \o b) \o s = a \o (b \o s)
  BY ConcatAssociative
<1>4. ((a \o b) \o c) \o d = (a \o b) \o (c \o d)
  BY <1>1, <1>2
<1>5. (a \o b) \o (c \o d) = a \o (b \o (c \o d))
  BY <1>1, <1>3
<1> QED
  BY <1>4, <1>5 DEF Regrouped

(***************************************************************************)
(* The increments of a sequence are those of its tail and its first.       *)
(***************************************************************************)
Stores(s) == {k \in DOMAIN s : s[k][1] = "store"}

LEMMA IncrementsOfTail ==
  ASSUME NEW s \in Seq(Op), s # <<>>
  PROVE  /\ Increments(s) \in Nat /\ Increments(Tail(s)) \in Nat
         /\ Increments(s) = Increments(Tail(s)) + (IF Head(s)[1] = "store" THEN 1 ELSE 0)
<1> DEFINE t == Tail(s)  B == Stores(t)  M == {k \in Stores(s) : k # 1}
<1>1. /\ t \in Seq(Op) /\ Len(s) \in Nat \ {0} /\ Len(t) = Len(s) - 1
      /\ Head(s) = s[1] /\ \A k \in 1 .. Len(s) - 1 : t[k] = s[k + 1]
  BY HeadAndTail
<1>2. DOMAIN s = 1 .. Len(s) /\ DOMAIN t = 1 .. Len(s) - 1
  BY <1>1, LenProperties
<1>3. B = {k \in 1 .. Len(s) - 1 : s[k + 1][1] = "store"}
  BY <1>1, <1>2 DEF Stores
<1>4. M = {k \in 1 .. Len(s) : k # 1 /\ s[k][1] = "store"}
  BY <1>2 DEF Stores
<1>5. IsFiniteSet(B) /\ IsFiniteSet(Stores(s))
  <2>1. IsFiniteSet(1 .. Len(s) - 1) /\ IsFiniteSet(1 .. Len(s))
    BY <1>1, FS_Interval
  <2>2. B \in SUBSET (1 .. Len(s) - 1) /\ Stores(s) \in SUBSET (1 .. Len(s))
    BY <1>2 DEF Stores
  <2> QED
    BY <2>1, <2>2, FS_Subset
<1> HIDE DEF B, M
<1>6. Cardinality(M) = Cardinality(B) /\ IsFiniteSet(M)
  <2> DEFINE g == [k \in B |-> k + 1]
  <2>1. g \in [B -> M]
    BY <1>1, <1>3, <1>4
  <2>2. \A m \in M : \E k \in B : g[k] = m
    <3> SUFFICES ASSUME NEW m \in M PROVE \E k \in B : g[k] = m
      OBVIOUS
    <3>1. m - 1 \in B /\ (m - 1) + 1 = m
      BY <1>1, <1>3, <1>4
    <3> QED
      BY <3>1
  <2>3. \A j, k \in B : g[j] = g[k] => j = k
    BY <1>1, <1>3
  <2>4. g \in Bijection(B, M)
    BY <2>1, <2>2, <2>3 DEF Bijection, Injection, Surjection, IsInjective
  <2> HIDE DEF g
  <2> QED
    BY <2>4, <1>5, FS_Bijection DEF ExistsBijection
<1>7. Increments(s) = Cardinality(Stores(s)) /\ Increments(t) = Cardinality(B)
  BY DEF Increments, Stores, B
<1>8. CASE Head(s)[1] = "store"
  <2>1. Stores(s) = M \union {1} /\ 1 \notin M
    BY <1>1, <1>2, <1>4, <1>8 DEF Stores
  <2> QED
    BY <2>1, <1>5, <1>6, <1>7, <1>8, FS_AddElement, FS_CardinalityType
<1>9. CASE Head(s)[1] # "store"
  <2>1. Stores(s) = M
    BY <1>1, <1>2, <1>4, <1>9 DEF Stores
  <2> QED
    BY <2>1, <1>5, <1>6, <1>7, <1>9, FS_CardinalityType
<1> QED
  BY <1>8, <1>9

LEMMA IncrementsOfEmpty ==
  Increments(<<>>) = 0
<1>1. {k \in DOMAIN <<>> : <<>>[k][1] = "store"} = {}
  OBVIOUS
<1> QED
  BY <1>1, FS_EmptySet DEF Increments

LEMMA IncrementsInNat ==
  ASSUME NEW s \in Seq(Op)
  PROVE  Increments(s) \in Nat
BY IncrementsOfTail, IncrementsOfEmpty


-----------------------------------------------------------------------------
(***************************************************************************)
(* Good sequences: from the first operation to the rest and back.          *)
(***************************************************************************)
LEMMA OpNames ==
  ASSUME NEW op \in Op
  PROVE  /\ op[1] \in {"req", "rel", "puts", "load", "store", "mmu", "enable", "report",
                       "return", "send", "answer", "test", "ipi"}
         /\ op[1] \in {"req", "rel"} => op[2] \in Lock
         /\ op[1] \in {"send", "answer", "ipi"} => op[2] \in Cpu
BY DEF Op, Puts

LEMMA ViewFields ==
  ASSUME NEW x \in View
  PROVE  /\ x \in Views
         /\ x.held \subseteq Lock /\ x.knows \subseteq Fact /\ x.unsent \subseteq Cpu
         /\ x.left \in Nat /\ (Open(x) => x.held \subseteq {"info"})
BY DEF View, Views

(* An operation changes what is left to count as its name says.            *)
LEMMA RuleLeft ==
  ASSUME NEW c, NEW x \in View, NEW op \in Op, NEW y \in View, Rule(c, x, op, y)
  PROVE  x.left = y.left + (IF op[1] = "store" THEN 1 ELSE 0)
<1>1. x \in Views /\ x.left \in Nat
  BY ViewFields
<1>2. CASE op[1] = "store"
  <2>1. StoreRule(x, y)
    BY <1>2 DEF Rule
  <2> QED
    BY <1>1, <1>2, <2>1 DEF StoreRule, Views
<1>3. CASE op[1] # "store"
  <2>1. y.left = x.left
    BY <1>1, <1>3, OpNames DEF Rule, Views, ReqRule, RelRule, PutsRule, LoadRule,
      EnableRule, ReportRule, ReturnRule, SendRule, AnswerRule, TestRule
  <2> QED
    BY <2>1, <1>1, <1>3
<1> QED
  BY <1>2, <1>3

LEMMA GoodEmpty ==
  ASSUME NEW c, NEW x \in View, x.left = 0
  PROVE  Good(c, <<>>, x)
<1>1. Through(c, <<>>, x)
  <2> DEFINE f == [k \in 0 .. Len(<<>>) |-> x]
  <2>1. f \in [0 .. Len(<<>>) -> View] /\ f[0] = x
    OBVIOUS
  <2>2. \A k \in 1 .. Len(<<>>) : Rule(c, f[k - 1], <<>>[k], f[k])
    OBVIOUS
  <2> QED
    BY <2>1, <2>2 DEF Through
<1> QED
  BY <1>1, IncrementsOfEmpty, EmptySeq DEF Good

LEMMA GoodHead ==
  ASSUME NEW c, NEW s, s # <<>>, NEW x, Good(c, s, x)
  PROVE  \E y \in View : Rule(c, x, Head(s), y) /\ Good(c, Tail(s), y)
<1>1. s \in Seq(Op) /\ x \in View /\ x.left = Increments(s) /\ Through(c, s, x)
  BY DEF Good
<1>2. PICK f \in [0 .. Len(s) -> View] :
        f[0] = x /\ \A k \in 1 .. Len(s) : Rule(c, f[k - 1], s[k], f[k])
  BY <1>1 DEF Through
<1> DEFINE t == Tail(s)
<1>3. /\ Head(s) \in Op /\ t \in Seq(Op) /\ Len(s) \in Nat \ {0} /\ Len(t) = Len(s) - 1
      /\ Head(s) = s[1] /\ \A k \in 1 .. Len(s) - 1 : t[k] = s[k + 1]
  BY <1>1, HeadAndTail
<1> HIDE DEF t
<1>4. f[1] \in View /\ Rule(c, x, Head(s), f[1])
  <2>1. 1 \in 1 .. Len(s) /\ 1 \in 0 .. Len(s) /\ 1 - 1 = 0
    BY <1>3
  <2>2. Rule(c, f[0], s[1], f[1])
    BY <2>1, <1>2
  <2> QED
    BY <2>1, <2>2, <1>2, <1>3
<1>5. Through(c, t, f[1])
  <2> DEFINE g == [k \in 0 .. Len(t) |-> f[k + 1]]
  <2>1. g \in [0 .. Len(t) -> View] /\ g[0] = f[1]
    BY <1>3, <1>2
  <2>2. ASSUME NEW k \in 1 .. Len(t) PROVE Rule(c, g[k - 1], t[k], g[k])
    <3>1. k + 1 \in 1 .. Len(s) /\ (k + 1) - 1 = k /\ t[k] = s[k + 1]
          /\ g[k - 1] = f[k] /\ g[k] = f[k + 1]
      BY <1>3
    <3>2. Rule(c, f[k], s[k + 1], f[k + 1])
      BY <3>1, <1>2
    <3> QED
      BY <3>1, <3>2
  <2> QED
    BY <2>1, <2>2 DEF Through
<1>6. f[1].left = Increments(t)
  <2>1. x.left = f[1].left + (IF Head(s)[1] = "store" THEN 1 ELSE 0)
    BY <1>1, <1>3, <1>4, RuleLeft
  <2>2. x.left = Increments(t) + (IF Head(s)[1] = "store" THEN 1 ELSE 0) /\ Increments(t) \in Nat
    BY <1>1, IncrementsOfTail DEF t
  <2>3. f[1].left \in Nat
    BY <1>4, ViewFields
  <2> QED
    BY <2>1, <2>2, <2>3
<1> QED
  BY <1>3, <1>4, <1>5, <1>6 DEF Good, t

LEMMA GoodCons ==
  ASSUME NEW c, NEW s \in Seq(Op), s # <<>>, NEW x \in View, NEW y,
         Rule(c, x, Head(s), y), Good(c, Tail(s), y)
  PROVE  Good(c, s, x)
<1> DEFINE t == Tail(s)
<1>1. t \in Seq(Op) /\ y \in View /\ y.left = Increments(t) /\ Through(c, t, y)
  BY DEF Good
<1>2. PICK f \in [0 .. Len(t) -> View] :
        f[0] = y /\ \A k \in 1 .. Len(t) : Rule(c, f[k - 1], t[k], f[k])
  BY <1>1 DEF Through
<1>3. /\ Head(s) \in Op /\ Len(s) \in Nat \ {0} /\ Len(t) = Len(s) - 1
      /\ Head(s) = s[1] /\ \A k \in 1 .. Len(s) - 1 : t[k] = s[k + 1]
  BY HeadAndTail
<1>4. x.left = Increments(s)
  BY <1>1, <1>3, RuleLeft, IncrementsOfTail
<1> HIDE DEF t
<1>5. Through(c, s, x)
  <2> DEFINE g == [k \in 0 .. Len(s) |-> IF k = 0 THEN x ELSE f[k - 1]]
  <2>1. g \in [0 .. Len(s) -> View] /\ g[0] = x
    BY <1>2, <1>3
  <2>2. ASSUME NEW k \in 1 .. Len(s) PROVE Rule(c, g[k - 1], s[k], g[k])
    <3>1. CASE k = 1
      <4>1. g[k - 1] = x /\ g[k] = f[0] /\ s[k] = Head(s)
        BY <3>1, <1>3
      <4> QED
        BY <4>1, <1>2
    <3>2. CASE k # 1
      <4>1. k - 1 \in 1 .. Len(t) /\ s[k] = t[k - 1] /\ g[k - 1] = f[(k - 1) - 1] /\ g[k] = f[k - 1]
        BY <3>2, <1>3
      <4>2. Rule(c, f[(k - 1) - 1], t[k - 1], f[k - 1])
        BY <4>1, <1>2
      <4> QED
        BY <4>1, <4>2
    <3> QED
      BY <3>1, <3>2
  <2> QED
    BY <2>1, <2>2 DEF Through
<1> QED
  BY <1>4, <1>5 DEF Good

(* A function is called: its first operation, then the rest of it.         *)
LEMMA GoodFront ==
  ASSUME NEW c, NEW s \in Seq(Op), s # <<>>, NEW t, NEW x \in View, NEW y,
         Rule(c, x, Head(s), y), t \in Seq(Op), Good(c, Tail(s) \o t, y)
  PROVE  Good(c, s \o t, x)
BY FrontOfConcat, GoodCons


-----------------------------------------------------------------------------
(***************************************************************************)
(* The functions, from the end of what follows to their first operation.   *)
(***************************************************************************)
LEMMA OpsTyped ==
  /\ \A l \in Lock : Req(l) \in Op /\ Rel(l) \in Op
  /\ Puts \in Op /\ <<"load", "waking">> \in Op /\ <<"store", "waking">> \in Op
  /\ <<"test", "waking">> \in Op /\ <<"mmu", "on">> \in Op /\ <<"enable", "ipi">> \in Op
  /\ <<"report", "sections">> \in Op /\ <<"return", "irq">> \in Op
  /\ \A d \in Cpu : <<"send", d>> \in Op /\ <<"answer", d>> \in Op /\ <<"ipi", d>> \in Op
BY DEF Op, Req, Rel, Puts

LEMMA Take ==
  ASSUME NEW x \in View, NEW l \in Lock, Open(x) => l = "info"
  PROVE  /\ [x EXCEPT !.held = @ \union {l}] \in View
         /\ [x EXCEPT !.held = @ \union {l}].held = x.held \union {l}
         /\ [x EXCEPT !.held = @ \union {l}].knows = x.knows
BY DEF View, Views, Open

(* The print: the lock is taken and given back.                            *)
LEMMA UartGood ==
  ASSUME NEW c, NEW t, NEW x \in View, PutsRule(x, x), Good(c, t, x)
  PROVE  Good(c, <<Req("uart"), Rel("uart")>> \o t, x)
<1> DEFINE y == [x EXCEPT !.held = @ \union {"uart"}]
<1>1. "uart" \in Lock /\ "uart" \notin x.held /\ ~ Open(x)
  BY DEF PutsRule, Lock
<1>2. y \in View /\ y.held = x.held \union {"uart"} /\ y.knows = x.knows
  BY <1>1, Take
<1>3. Rule(c, x, Req("uart"), y)
  <2>1. x.held \subseteq Under("uart")
    BY <1>1, ViewFields DEF Under, Lock
  <2> QED
    BY <2>1, <1>1 DEF Rule, Req, ReqRule
<1>4. Rule(c, y, Rel("uart"), x)
  <2>1. x = [y EXCEPT !.held = @ \ {"uart"}, !.knows = @]
    BY <1>1, ViewFields DEF Views
  <2> QED
    BY <2>1, <1>2 DEF Rule, Rel, RelRule
<1> HIDE DEF y
<1>5. t \in Seq(Op)
  BY DEF Good
<1>6. Good(c, <<Rel("uart")>> \o t, y)
  <2> DEFINE s == <<Rel("uart")>>
  <2>1. s \in Seq(Op) /\ s # <<>> /\ Head(s) = Rel("uart") /\ Tail(s) = <<>>
    BY <1>1, OpsTyped
  <2>2. Tail(s) \o t = t
    BY <2>1, <1>5, ConcatEmptySeq
  <2> HIDE DEF s
  <2> QED
    BY <2>1, <2>2, <1>2, <1>4, <1>5, GoodFront DEF s
<1>7. Good(c, <<Req("uart"), Rel("uart")>> \o t, x)
  <2> DEFINE s == <<Req("uart"), Rel("uart")>>
  <2>1. s \in Seq(Op) /\ s # <<>> /\ Head(s) = Req("uart") /\ Tail(s) = <<Rel("uart")>>
    BY <1>1, OpsTyped
  <2> HIDE DEF s
  <2> QED
    BY <2>1, <1>3, <1>5, <1>6, GoodFront DEF s
<1> QED
  BY <1>7


(* output_access_policy, after the count of 4 or in the handler.           *)
LEMMA ReportGood ==
  ASSUME NEW c, NEW t, NEW x \in View, ReportRule(x, x), ~ Open(x), x.held \subseteq {"info"},
         Good(c, t, x)
  PROVE  Good(c, OutputAccessPolicy \o t, x)
<1> DEFINE y == [x EXCEPT !.held = @ \union {"exp"}]
           s4 == <<Rel("exp")>>
           s3 == << <<"report", "sections">>, Rel("exp") >>
           s2 == <<Puts, <<"report", "sections">>, Rel("exp") >>
<1>1. "exp" \in Lock /\ t \in Seq(Op)
  BY DEF Lock, Good
<1>2. y \in View /\ y.held = x.held \union {"exp"} /\ y.knows = x.knows
  BY <1>1, Take
<1>3. Rule(c, x, Req("exp"), y)
  BY DEF Rule, Req, ReqRule, Under
<1>4. Rule(c, y, Rel("exp"), x)
  <2>1. x = [y EXCEPT !.held = @ \ {"exp"}, !.knows = @]
    BY ViewFields DEF Views
  <2> QED
    BY <2>1, <1>2 DEF Rule, Rel, RelRule
<1>5. Rule(c, y, Puts, y)
  BY <1>2 DEF Rule, Puts, PutsRule, Open
<1>6. Rule(c, y, <<"report", "sections">>, y)
  BY <1>2 DEF Rule, ReportRule
<1> HIDE DEF y
<1>7. Good(c, s4 \o t, y)
  <2>1. s4 \in Seq(Op) /\ s4 # <<>> /\ Head(s4) = Rel("exp") /\ Tail(s4) = <<>>
    BY <1>1, OpsTyped
  <2>2. Tail(s4) \o t = t
    BY <2>1, <1>1, ConcatEmptySeq
  <2> HIDE DEF s4
  <2> QED
    BY <2>1, <2>2, <1>1, <1>2, <1>4, GoodFront
<1>8. Good(c, s3 \o t, y)
  <2>1. s3 \in Seq(Op) /\ s3 # <<>> /\ Head(s3) = <<"report", "sections">> /\ Tail(s3) = s4
    BY <1>1, OpsTyped
  <2> HIDE DEF s3, s4
  <2> QED
    BY <2>1, <1>1, <1>2, <1>6, <1>7, GoodFront
<1>9. Good(c, s2 \o t, y)
  <2>1. s2 \in Seq(Op) /\ s2 # <<>> /\ Head(s2) = Puts /\ Tail(s2) = s3
    BY <1>1, OpsTyped
  <2> HIDE DEF s2, s3
  <2> QED
    BY <2>1, <1>1, <1>2, <1>5, <1>8, GoodFront
<1>10. OutputAccessPolicy \in Seq(Op) /\ OutputAccessPolicy # <<>>
       /\ Head(OutputAccessPolicy) = Req("exp") /\ Tail(OutputAccessPolicy) = s2
  BY <1>1, OpsTyped DEF OutputAccessPolicy
<1> HIDE DEF s2
<1> QED
  BY <1>1, <1>3, <1>9, <1>10, GoodFront

(* inc_waking_cores does one increment, with the lock and a fresh count.   *)
LEMMA IncGood ==
  ASSUME NEW c, NEW t, NEW x \in View, NEW y \in View,
         x.held = {}, y.held = {}, "fresh" \notin y.knows,
         x.knows = y.knows, x.unsent = y.unsent, x.left = y.left + 1,
         Good(c, t, y)
  PROVE  Good(c, IncWakingCores \o t, x)
<1> DEFINE x1 == [x EXCEPT !.held = @ \union {"info"}]
           x2 == [x1 EXCEPT !.knows = @ \union {"fresh"}]
           x3 == [y EXCEPT !.held = @ \union {"info"}]
           s4 == <<Rel("info")>>
           s3 == << <<"store", "waking">>, Rel("info") >>
           s2 == << <<"load", "waking">>, <<"store", "waking">>, Rel("info") >>
<1>1. "info" \in Lock /\ t \in Seq(Op) /\ y \in Views /\ y.left \in Nat /\ y.knows \subseteq Fact
  BY ViewFields DEF Lock, Good
<1>2. x \in Views
  BY ViewFields
<1>3. x3 \in View /\ x3.held = {"info"} /\ x3.knows = y.knows
  BY <1>1, Take
<1>4. Rule(c, x3, Rel("info"), y)
  <2>1. y = [x3 EXCEPT !.held = @ \ {"info"}, !.knows = @ \ {"fresh"}]
    BY <1>1 DEF Views
  <2> QED
    BY <2>1, <1>3 DEF Rule, Rel, RelRule
<1>5. /\ x1 \in View /\ x1.held = {"info"} /\ x1.knows = y.knows /\ x1.left = y.left + 1
      /\ x1.unsent = y.unsent
  BY <1>1, <1>2 DEF View, Views, Open
<1>6. /\ x2 \in View /\ x2.held = {"info"} /\ x2.knows = y.knows \union {"fresh"}
      /\ x2.left = y.left + 1 /\ x2.unsent = y.unsent
  BY <1>1, <1>5 DEF View, Views, Open, Fact
<1>7. Rule(c, x, Req("info"), x1)
  BY <1>2 DEF Rule, Req, ReqRule, Under
<1>8. Rule(c, x1, <<"load", "waking">>, x2)
  BY <1>5 DEF Rule, LoadRule
<1>9. Rule(c, x2, <<"store", "waking">>, x3)
  <2>1. x3 = [x2 EXCEPT !.knows = @ \ {"fresh"}, !.left = @ - 1]
    <3> DEFINE w == [x2 EXCEPT !.knows = @ \ {"fresh"}, !.left = @ - 1]
    <3>1. w.left = x3.left /\ w.knows = x3.knows /\ w.held = x3.held /\ w.unsent = x3.unsent
      BY <1>1, <1>2, <1>6 DEF Views
    <3>2. w \in Views /\ x3 \in Views
      <4>1. x3 \in Views /\ x2 \in Views
        BY <1>3, <1>6, ViewFields
      <4>2. x2.left - 1 \in Nat
        BY <1>1, <1>6
      <4>3. w \in Views
        BY <4>1, <4>2 DEF Views
      <4> QED
        BY <4>1, <4>3
    <3> QED
      BY <3>1, <3>2 DEF Views
  <2>2. x2.left > 0
    BY <1>1, <1>6
  <2> QED
    BY <2>1, <2>2, <1>6 DEF Rule, StoreRule
<1> HIDE DEF x1, x2, x3
<1>10. Good(c, s4 \o t, x3)
  <2>1. s4 \in Seq(Op) /\ s4 # <<>> /\ Head(s4) = Rel("info") /\ Tail(s4) = <<>>
    BY <1>1, OpsTyped
  <2>2. Tail(s4) \o t = t
    BY <2>1, <1>1, ConcatEmptySeq
  <2> HIDE DEF s4
  <2> QED
    BY <2>1, <2>2, <1>1, <1>3, <1>4, GoodFront
<1>11. Good(c, s3 \o t, x2)
  <2>1. s3 \in Seq(Op) /\ s3 # <<>> /\ Head(s3) = <<"store", "waking">> /\ Tail(s3) = s4
    BY <1>1, OpsTyped
  <2> HIDE DEF s3, s4
  <2> QED
    BY <2>1, <1>1, <1>6, <1>9, <1>10, GoodFront
<1>12. Good(c, s2 \o t, x1)
  <2>1. s2 \in Seq(Op) /\ s2 # <<>> /\ Head(s2) = <<"load", "waking">> /\ Tail(s2) = s3
    BY <1>1, OpsTyped
  <2> HIDE DEF s2, s3
  <2> QED
    BY <2>1, <1>1, <1>5, <1>8, <1>11, GoodFront
<1>13. IncWakingCores \in Seq(Op) /\ IncWakingCores # <<>>
       /\ Head(IncWakingCores) = Req("info") /\ Tail(IncWakingCores) = s2
  BY <1>1, OpsTyped DEF IncWakingCores
<1> HIDE DEF s2
<1> QED
  BY <1>1, <1>7, <1>12, <1>13, GoodFront

(* The loop of core 0: the count is read and tested.                       *)
LEMMA WaitGood ==
  ASSUME NEW c, NEW t, NEW x \in View, NEW y, TestRule(c, x, y), Good(c, t, y)
  PROVE  Good(c, WaitForCores \o t, x)
<1> DEFINE x1 == [x EXCEPT !.held = @ \union {"info"}]
           x2 == [x1 EXCEPT !.knows = @ \union {"fresh"}]
           s4 == << <<"test", "waking">> >>
           u  == s4 \o t
           s3 == <<Rel("info")>>
           s2 == << <<"load", "waking">>, Rel("info")>>
<1>1. "info" \in Lock /\ t \in Seq(Op) /\ x \in Views /\ x.held = {} /\ "fresh" \notin x.knows
      /\ x.knows \subseteq Fact
  BY ViewFields DEF Lock, Good, TestRule
<1>2. x1 \in View /\ x1.held = {"info"} /\ x1.knows = x.knows
  BY <1>1, Take
<1>3. x2 \in View /\ x2.held = {"info"} /\ x2.knows = x.knows \union {"fresh"}
  BY <1>1, <1>2 DEF View, Views, Open, Fact
<1>4. Rule(c, x, Req("info"), x1)
  BY <1>1 DEF Rule, Req, ReqRule, Under
<1>5. Rule(c, x1, <<"load", "waking">>, x2)
  BY <1>2 DEF Rule, LoadRule
<1>6. Rule(c, x2, Rel("info"), x)
  <2>1. x = [x2 EXCEPT !.held = @ \ {"info"}, !.knows = @ \ {"fresh"}]
    BY <1>1 DEF Views
  <2> QED
    BY <2>1, <1>3 DEF Rule, Rel, RelRule
<1>7. Rule(c, x, <<"test", "waking">>, y)
  BY DEF Rule
<1> HIDE DEF x1, x2
<1>8. Good(c, u, x) /\ s4 \in Seq(Op) /\ u \in Seq(Op)
  <2>1. s4 \in Seq(Op) /\ s4 # <<>> /\ Head(s4) = <<"test", "waking">> /\ Tail(s4) = <<>>
    BY <1>1, OpsTyped
  <2>2. Tail(s4) \o t = t
    BY <2>1, <1>1, ConcatEmptySeq
  <2> HIDE DEF s4
  <2> QED
    BY <2>1, <2>2, <1>1, <1>7, GoodFront, FrontOfConcat
<1> HIDE DEF u
<1>9. Good(c, s3 \o u, x2)
  <2>1. s3 \in Seq(Op) /\ s3 # <<>> /\ Head(s3) = Rel("info") /\ Tail(s3) = <<>>
    BY <1>1, OpsTyped
  <2>2. Tail(s3) \o u = u
    BY <2>1, <1>8, ConcatEmptySeq
  <2> HIDE DEF s3
  <2> QED
    BY <2>1, <2>2, <1>3, <1>6, <1>8, GoodFront
<1>10. Good(c, s2 \o u, x1)
  <2>1. s2 \in Seq(Op) /\ s2 # <<>> /\ Head(s2) = <<"load", "waking">> /\ Tail(s2) = s3
    BY <1>1, OpsTyped
  <2> HIDE DEF s2, s3
  <2> QED
    BY <2>1, <1>2, <1>5, <1>8, <1>9, GoodFront
<1>11. GetWakingCores \in Seq(Op) /\ GetWakingCores # <<>>
       /\ Head(GetWakingCores) = Req("info") /\ Tail(GetWakingCores) = s2
  BY <1>1, OpsTyped DEF GetWakingCores
<1> HIDE DEF s2, s4
<1>12. Good(c, GetWakingCores \o u, x)
  BY <1>4, <1>8, <1>10, <1>11, GoodFront
<1>13. GetWakingCores \o u = WaitForCores \o t
  BY <1>1, <1>8, <1>11, ConcatAssociative DEF u, s4, WaitForCores
<1> QED
  BY <1>12, <1>13

(* A single operation in front.                                            *)
LEMMA OneGood ==
  ASSUME NEW c, NEW t, NEW op \in Op, NEW x \in View, NEW y, Rule(c, x, op, y), Good(c, t, y)
  PROVE  Good(c, <<op>> \o t, x)
<1> DEFINE s == <<op>>
<1>1. s \in Seq(Op) /\ s # <<>> /\ Head(s) = op /\ Tail(s) = <<>>
  OBVIOUS
<1>2. t \in Seq(Op)
  BY DEF Good
<1>3. Tail(s) \o t = t
  BY <1>1, <1>2, ConcatEmptySeq
<1> HIDE DEF s
<1>4. Good(c, s \o t, x)
  BY <1>1, <1>2, <1>3, GoodFront
<1> QED
  BY <1>4 DEF s

(* Two operations in front.                                                *)
LEMMA TwoGood ==
  ASSUME NEW c, NEW t, NEW a \in Op, NEW b \in Op, NEW x \in View, NEW y \in View, NEW z,
         Rule(c, x, a, y), Rule(c, y, b, z), Good(c, t, z)
  PROVE  Good(c, <<a, b>> \o t, x)
<1> DEFINE s == <<a, b>>  r == <<b>>
<1>1. s \in Seq(Op) /\ s # <<>> /\ Head(s) = a /\ Tail(s) = r
  OBVIOUS
<1>2. t \in Seq(Op)
  BY DEF Good
<1>3. Good(c, r \o t, y)
  BY OneGood
<1> HIDE DEF s, r
<1>4. Good(c, s \o t, x)
  BY <1>1, <1>2, <1>3, GoodFront
<1> QED
  BY <1>4 DEF s

(* start_mmu_no_lock: two prints around the MMU.                           *)
LEMMA MmuGood ==
  ASSUME NEW c, NEW t, NEW x \in View, PutsRule(x, x), Good(c, t, x)
  PROVE  Good(c, StartMmuNoLock \o t, x)
<1> DEFINE s2 == << <<"mmu", "on">>, Puts>>
<1>1. Rule(c, x, Puts, x) /\ Rule(c, x, <<"mmu", "on">>, x)
  BY DEF Rule, Puts
<1>2. t \in Seq(Op)
  BY DEF Good
<1>3. Good(c, s2 \o t, x)
  BY <1>1, OpsTyped, TwoGood
<1>4. StartMmuNoLock \in Seq(Op) /\ StartMmuNoLock # <<>>
      /\ Head(StartMmuNoLock) = Puts /\ Tail(StartMmuNoLock) = s2
  BY OpsTyped DEF StartMmuNoLock
<1> HIDE DEF s2
<1> QED
  BY <1>1, <1>2, <1>3, <1>4, GoodFront

(* One round of start_secondary_core.                                      *)
LEMMA StartGood ==
  ASSUME NEW d \in Cpu, NEW t, NEW x \in View, NEW y \in View,
         AnswerRule(PCore, y, y), d \notin y.unsent, x.unsent = y.unsent \union {d},
         x.held = y.held, x.knows = y.knows, x.left = y.left, Good(PCore, t, y)
  PROVE  Good(PCore, StartOne(d) \o t, x)
<1>1. x \in Views /\ y \in Views
  BY ViewFields
<1>2. y = [x EXCEPT !.unsent = @ \ {d}]
  BY <1>1 DEF Views
<1>3. Rule(PCore, x, <<"send", d>>, y)
  BY <1>2 DEF Rule, SendRule
<1>4. Rule(PCore, y, <<"answer", d>>, y)
  BY DEF Rule
<1>5. Good(PCore, << <<"send", d>>, <<"answer", d>> >> \o t, x)
  BY <1>3, <1>4, OpsTyped, TwoGood
<1> QED
  BY <1>5 DEF StartOne

(* The rest of init_smp_kernel after start_secondary_core.                 *)
LEMMA AfterGood ==
  ASSUME NEW x \in View, AnswerRule(PCore, x, x)
  PROVE  Good(PCore, AfterStart, x)
<1> DEFINE y == [x EXCEPT !.knows = @ \union {"tested"}]
           ipis == << <<"ipi", 2>>, <<"ipi", 3>> >>
<1>1. x.held = {} /\ x.left = 0 /\ x.knows \intersect {"on", "irq", "fresh"} = {}
      /\ x \in Views /\ x.knows \subseteq Fact
  BY ViewFields DEF AnswerRule
<1>2. y \in View /\ y.held = {} /\ y.left = 0 /\ "tested" \in y.knows /\ "on" \notin y.knows
  BY <1>1 DEF View, Views, Open, Fact
<1>3. TestRule(PCore, x, y)
  BY <1>1 DEF TestRule, Open
<1> HIDE DEF y
<1>4. Good(PCore, ipis, y) /\ ipis \in Seq(Op)
  <2>1. Rule(PCore, y, <<"ipi", 2>>, y) /\ Rule(PCore, y, <<"ipi", 3>>, y)
    BY DEF Rule
  <2>2. Good(PCore, <<>>, y)
    BY <1>2, GoodEmpty
  <2>3. <<"ipi", 2>> \in Op /\ <<"ipi", 3>> \in Op
    BY OpsTyped DEF Cpu
  <2>4. ipis \in Seq(Op)
    BY <2>3
  <2>5. Good(PCore, ipis \o <<>>, y)
    BY <1>2, <2>1, <2>2, <2>3, TwoGood
  <2> HIDE DEF ipis
  <2> QED
    BY <2>4, <2>5, ConcatEmptySeq
<1>5. Good(PCore, OutputAllPmAccessPolicy, y)
  <2> HIDE DEF ipis
  <2> QED
    BY <1>2, <1>4, ReportGood DEF ReportRule, Open, OutputAllPmAccessPolicy, ipis
<1> QED
  BY <1>3, <1>5, WaitGood DEF AfterStart

(* Between two functions, before and after the mailbox is enabled: no lock *)
(* is held and the count not just read.                                    *)
Off(u, n) == [held |-> {}, knows |-> {}, unsent |-> u, left |-> n]
On(n)     == [held |-> {}, knows |-> {"on"}, unsent |-> {}, left |-> n]

IsOff(x, u, n) ==
  /\ x \in View /\ PutsRule(x, x)
  /\ x.held = {} /\ x.knows = {} /\ x.unsent = u /\ x.left = n

LEMMA OffView ==
  ASSUME NEW u \in SUBSET Cpu, NEW n \in Nat
  PROVE  IsOff(Off(u, n), u, n)
BY DEF Off, IsOff, View, Views, Open, PutsRule

LEMMA OnView ==
  ASSUME NEW n \in Nat
  PROVE  /\ On(n) \in View /\ On(n).held = {} /\ On(n).knows = {"on"}
         /\ On(n).unsent = {} /\ On(n).left = n
BY DEF On, View, Views, Fact

(* What a core starts with: core 1 is counted a second time.               *)
Start(c) == Off(IF c = PCore THEN Secondaries ELSE {}, IF c = 1 THEN 2 ELSE 1)

LEMMA StartView ==
  ASSUME NEW c \in Cpu
  PROVE  /\ Start(c) \in View /\ PutsRule(Start(c), Start(c))
         /\ Start(c).held = {} /\ Start(c).knows = {} /\ Start(c).left = IF c = 1 THEN 2 ELSE 1
         /\ Start(c).unsent = IF c = PCore THEN Secondaries ELSE {}
<1> DEFINE u == IF c = PCore THEN Secondaries ELSE {}  n == IF c = 1 THEN 2 ELSE 1
<1>1. u \in SUBSET Cpu /\ n \in Nat
  BY DEF Secondaries
<1>2. Start(c) = Off(u, n)
  BY DEF Start
<1> HIDE DEF u, n
<1>3. /\ Start(c) \in View /\ PutsRule(Start(c), Start(c)) /\ Start(c).held = {}
      /\ Start(c).knows = {} /\ Start(c).unsent = u /\ Start(c).left = n
  <2>1. IsOff(Off(u, n), u, n)
    BY <1>1, OffView
  <2> QED
    BY <2>1, <1>2 DEF IsOff
<1> QED
  BY <1>3 DEF u, n

LEMMA FunctionsTyped ==
  /\ StartMmuNoLock \in Seq(Op) /\ IncWakingCores \in Seq(Op) /\ OutputAccessPolicy \in Seq(Op)
  /\ \A d \in {1, 2, 3} : StartOne(d) \in Seq(Op)
<1>1. StartMmuNoLock \in Seq(Op)
  BY OpsTyped DEF StartMmuNoLock
<1>2. IncWakingCores \in Seq(Op)
  BY OpsTyped DEF IncWakingCores, Lock
<1>3. OutputAccessPolicy \in Seq(Op)
  BY OpsTyped DEF OutputAccessPolicy, Lock
<1>4. ASSUME NEW d \in {1, 2, 3} PROVE StartOne(d) \in Seq(Op)
  <2>1. <<"send", d>> \in Op /\ <<"answer", d>> \in Op
    BY OpsTyped DEF Cpu
  <2> QED
    BY <2>1 DEF StartOne
<1> QED
  BY <1>1, <1>2, <1>3, <1>4

(* One round of start_secondary_core from the views between functions.     *)
LEMMA StartRound ==
  ASSUME NEW d \in {1, 2, 3}, NEW u \in SUBSET Cpu, d \notin u, NEW t,
         Good(PCore, t, Off(u, 0))
  PROVE  Good(PCore, StartOne(d) \o t, Off(u \union {d}, 0))
<1> DEFINE x == Off(u \union {d}, 0)  y == Off(u, 0)
<1>1. d \in Cpu /\ u \union {d} \in SUBSET Cpu
  BY DEF Cpu
<1>2. /\ x \in View /\ x.held = {} /\ x.knows = {} /\ x.unsent = u \union {d} /\ x.left = 0
      /\ y \in View /\ y.held = {} /\ y.knows = {} /\ y.unsent = u /\ y.left = 0
  <2>1. IsOff(Off(u \union {d}, 0), u \union {d}, 0) /\ IsOff(Off(u, 0), u, 0)
    BY <1>1, OffView
  <2> QED
    BY <2>1 DEF IsOff
<1>3. Good(PCore, t, y)
  OBVIOUS
<1> HIDE DEF x, y
<1>4. AnswerRule(PCore, y, y)
  BY <1>2 DEF AnswerRule
<1>5. Good(PCore, StartOne(d) \o t, x)
  BY <1>1, <1>2, <1>3, <1>4, StartGood
<1> QED
  BY <1>5 DEF x

LEMMA PrimaryGood ==
  Good(PCore, Program(PCore), Start(PCore))
<1> DEFINE t3 == StartOne(3) \o AfterStart
           t2 == StartOne(2) \o t3
           t1 == StartOne(1) \o t2
           t0 == IncWakingCores \o t1
<1>1. Good(PCore, AfterStart, Off({}, 0))
  <2>1. Off({}, 0) \in View /\ AnswerRule(PCore, Off({}, 0), Off({}, 0))
    <3>1. IsOff(Off({}, 0), {}, 0)
      BY OffView
    <3> QED
      BY <3>1 DEF IsOff, AnswerRule
  <2> QED
    BY <2>1, AfterGood
<1>2. Good(PCore, t3, Off({3}, 0))
  <2>1. Good(PCore, t3, Off({} \union {3}, 0))
    BY <1>1, StartRound
  <2> QED
    BY <2>1
<1> HIDE DEF t3
<1>3. Good(PCore, t2, Off({2, 3}, 0))
  <2>1. Good(PCore, t2, Off({3} \union {2}, 0))
    BY <1>2, StartRound DEF Cpu
  <2>2. {3} \union {2} = {2, 3}
    OBVIOUS
  <2> HIDE DEF t2
  <2> QED
    BY <2>1, <2>2
<1> HIDE DEF t2
<1>4. Good(PCore, t1, Off({1, 2, 3}, 0))
  <2>1. Good(PCore, t1, Off({2, 3} \union {1}, 0))
    BY <1>3, StartRound DEF Cpu
  <2>2. {2, 3} \union {1} = {1, 2, 3}
    OBVIOUS
  <2> HIDE DEF t1
  <2> QED
    BY <2>1, <2>2
<1> HIDE DEF t1
<1>5. Good(PCore, t0, Off({1, 2, 3}, 1))
  <2> DEFINE x == Off({1, 2, 3}, 1)  y == Off({1, 2, 3}, 0)
  <2>1. {1, 2, 3} \in SUBSET Cpu
    BY DEF Cpu
  <2>2. /\ x \in View /\ x.held = {} /\ x.knows = {} /\ x.unsent = {1, 2, 3} /\ x.left = 1
        /\ y \in View /\ y.held = {} /\ y.knows = {} /\ y.unsent = {1, 2, 3} /\ y.left = 0
    <3>1. IsOff(Off({1, 2, 3}, 1), {1, 2, 3}, 1) /\ IsOff(Off({1, 2, 3}, 0), {1, 2, 3}, 0)
      BY <2>1, OffView
    <3> QED
      BY <3>1 DEF IsOff
  <2>3. Good(PCore, t1, y)
    BY <1>4
  <2> HIDE DEF x, y
  <2>4. "fresh" \notin y.knows /\ x.left = y.left + 1 /\ x.knows = y.knows /\ x.unsent = y.unsent
    BY <2>2
  <2>5. Good(PCore, t0, x)
    BY <2>2, <2>3, <2>4, IncGood
  <2> QED
    BY <2>5 DEF x
<1>6. Start(PCore) = Off({1, 2, 3}, 1)
  <2>1. Secondaries = {1, 2, 3}
    BY DEF Secondaries, Cpu, PCore
  <2> QED
    BY <2>1 DEF Start, PCore
<1>7. Good(PCore, StartMmuNoLock \o t0, Start(PCore))
  <2> HIDE DEF t0
  <2> QED
    BY <1>5, <1>6, StartView, MmuGood DEF PCore, Cpu
<1>8. SysInitPrimary = StartMmuNoLock \o t0
  <2> DEFINE A == StartOne(1)  B == StartOne(2)  C == StartOne(3)
             M == StartMmuNoLock  I == IncWakingCores  Z == AfterStart
  <2>1. /\ Z \in Seq(Op) /\ t3 \in Seq(Op) /\ t2 \in Seq(Op) /\ t1 \in Seq(Op)
        /\ A \in Seq(Op) /\ B \in Seq(Op) /\ C \in Seq(Op)
        /\ M \in Seq(Op) /\ I \in Seq(Op)
    BY <1>1, <1>2, <1>3, <1>4, FunctionsTyped DEF Good
  <2>2. t3 = C \o Z /\ t2 = B \o t3 /\ t1 = A \o t2 /\ t0 = I \o t1
    BY DEF t3, t2, t1
  <2>3. SysInitPrimary = ((M \o I) \o ((A \o B) \o C)) \o Z
    BY DEF SysInitPrimary, StartSecondaryCore
  <2> HIDE DEF A, B, C, M, I, Z, t0
  <2> DEFINE S == (A \o B) \o C
  <2>4. S \in Seq(Op)
    BY <2>1, Closed
  <2>5. S \o Z = t1
    <3>1. Regrouped(A, B, C, Z)
      BY <2>1, Assoc
    <3> QED
      BY <3>1, <2>2 DEF Regrouped
  <2>6. SysInitPrimary = ((M \o I) \o S) \o Z
    BY <2>3
  <2> HIDE DEF S
  <2>7. Regrouped(M, I, S, Z)
    BY <2>1, <2>4, Assoc
  <2>8. M \o (I \o (S \o Z)) = M \o t0
    BY <2>2, <2>5
  <2> QED
    BY <2>6, <2>7, <2>8 DEF M, Regrouped
<1> QED
  BY <1>7, <1>8 DEF Program

LEMMA SecondaryGood ==
  ASSUME NEW c \in Secondaries
  PROVE  Good(c, Program(c), Start(c))
<1> DEFINE n    == IF c = 1 THEN 1 ELSE 0
           more == IF c = 1 THEN IncWakingCores ELSE <<>>
           t1   == IncWakingCores \o more
           en   == << <<"enable", "ipi">> >>
           last == On(0)
           x2   == On(n)
           x1   == On(n + 1)
<1>1. c \in Cpu /\ c # PCore /\ n \in {0, 1} /\ n \in Nat /\ n + 1 \in Nat
  BY DEF Secondaries
<1>2. /\ last \in View /\ last.held = {} /\ last.knows = {"on"} /\ last.unsent = {} /\ last.left = 0
      /\ x2 \in View /\ x2.held = {} /\ x2.knows = {"on"} /\ x2.unsent = {} /\ x2.left = n
      /\ x1 \in View /\ x1.held = {} /\ x1.knows = {"on"} /\ x1.unsent = {} /\ x1.left = n + 1
  <2> HIDE DEF n
  <2>1. 0 \in Nat
    OBVIOUS
  <2> QED
    BY <1>1, <2>1, OnView
<1>3. /\ n = IF c = 1 THEN 1 ELSE 0
      /\ c # 1 => x2 = last
  OBVIOUS
<1> HIDE DEF n, last, x1, x2
<1>4. x1.left = x2.left + 1 /\ (c = 1 => x2.left = last.left + 1)
  BY <1>2, <1>3
<1>5. EnableRule(c, Start(c), x1)
  <2>1. /\ Start(c) \in Views /\ x1 \in Views /\ Start(c).held = {} /\ Start(c).knows = {}
        /\ Start(c).left = n + 1 /\ Start(c).unsent = {}
    BY <1>1, <1>2, <1>3, StartView, ViewFields
  <2>2. x1 = [Start(c) EXCEPT !.knows = @ \union {"on"}]
    BY <1>2, <2>1 DEF Views
  <2> QED
    BY <1>1, <2>1, <2>2 DEF EnableRule
<1>6. IncWakingCores \in Seq(Op)
  BY FunctionsTyped
<1>7. Good(c, <<>>, last)
  BY <1>2, GoodEmpty
<1>8. Good(c, more, x2) /\ IncWakingCores \in Seq(Op) /\ more \in Seq(Op)
  <2>1. IncWakingCores \in Seq(Op)
    BY FunctionsTyped
  <2>2. CASE c = 1
    <3>1. Good(c, IncWakingCores \o <<>>, x2)
      BY <1>2, <1>4, <1>7, <2>2, IncGood
    <3>2. IncWakingCores \o <<>> = more
      BY <2>1, <2>2, ConcatEmptySeq
    <3> QED
      BY <2>1, <2>2, <3>1, <3>2
  <2>3. CASE c # 1
    BY <1>3, <1>7, <2>1, <2>3, EmptySeq
  <2> QED
    BY <2>2, <2>3
<1> HIDE DEF more
<1>9. Good(c, t1, x1) /\ t1 \in Seq(Op)
  <2>1. Good(c, t1, x1)
    BY <1>2, <1>4, <1>8, IncGood
  <2> QED
    BY <2>1, <1>8, Closed DEF t1
<1> HIDE DEF t1
<1>10. Good(c, en \o t1, Start(c)) /\ en \in Seq(Op)
  <2>1. Rule(c, Start(c), <<"enable", "ipi">>, x1)
    BY <1>5 DEF Rule
  <2>2. Good(c, en \o t1, Start(c))
    BY <1>1, <1>2, <1>9, <2>1, StartView, OneGood, OpsTyped
  <2> QED
    BY <2>2, OpsTyped
<1> HIDE DEF en
<1>11. Good(c, StartMmuNoLock \o (en \o t1), Start(c))
  BY <1>1, <1>10, StartView, MmuGood
<1>12. SysInitSecondary(c) = StartMmuNoLock \o (en \o t1)
  <2> DEFINE M == StartMmuNoLock  I == IncWakingCores
  <2>1. M \in Seq(Op) /\ I \in Seq(Op) /\ t1 = I \o more
    BY FunctionsTyped DEF t1
  <2>2. SysInitSecondary(c) = ((M \o en) \o I) \o more
    BY DEF SysInitSecondary, more, en
  <2> HIDE DEF M, I
  <2>3. Regrouped(M, en, I, more)
    BY <1>8, <1>10, <2>1, Assoc
  <2> QED
    BY <2>1, <2>2, <2>3 DEF M, Regrouped
<1> QED
  BY <1>1, <1>11, <1>12 DEF Program

(* The interrupt handler, in front of what it interrupts.                  *)
LEMMA HandlerGood ==
  ASSUME NEW c, NEW t, NEW y \in View, Open(y), Good(c, t, y)
  PROVE  /\ [y EXCEPT !.knows = @ \union {"irq"}] \in View
         /\ Good(c, OutputAccessPolicy \o << <<"return", "irq">> >> \o t,
                    [y EXCEPT !.knows = @ \union {"irq"}])
<1> DEFINE x == [y EXCEPT !.knows = @ \union {"irq"}]
           ret == << <<"return", "irq">> >>
<1>1. y \in Views /\ y.held \subseteq {"info"} /\ "irq" \notin y.knows /\ y.knows \subseteq Fact
  BY ViewFields DEF Open
<1>2. x \in View /\ x.held = y.held /\ "irq" \in x.knows
  BY <1>1 DEF View, Views, Open, Fact
<1>3. y = [x EXCEPT !.knows = @ \ {"irq"}]
  BY <1>1 DEF Views
<1> HIDE DEF x
<1>4. Rule(c, x, <<"return", "irq">>, y)
  BY <1>1, <1>2, <1>3 DEF Rule, ReturnRule
<1>5. Good(c, ret \o t, x) /\ ret \in Seq(Op) /\ t \in Seq(Op)
  <2>1. Good(c, ret \o t, x)
    BY <1>2, <1>4, OneGood, OpsTyped
  <2>2. ret \in Seq(Op)
    BY OpsTyped
  <2>3. t \in Seq(Op)
    BY DEF Good
  <2> QED
    BY <2>1, <2>2, <2>3
<1> HIDE DEF ret
<1>6. Good(c, OutputAccessPolicy \o (ret \o t), x)
  BY <1>1, <1>2, <1>5, ReportGood DEF ReportRule, Open
<1>7. OutputAccessPolicy \in Seq(Op)
  BY OpsTyped DEF OutputAccessPolicy, Lock
<1>8. (OutputAccessPolicy \o ret) \o t = OutputAccessPolicy \o (ret \o t)
  BY <1>5, <1>7, ConcatAssociative
<1> QED
  BY <1>2, <1>6, <1>8 DEF x, ret


-----------------------------------------------------------------------------
(***************************************************************************)
(* The invariant: what is left to each core is Good from a view that fits  *)
(* the state; a core that has not started has nothing to do and holds      *)
(* nothing; a core other than 0 whose lock functions print is stuck before *)
(* the end of its first print with the MMU on.                             *)
(***************************************************************************)
Fits(c, x) ==
  /\ x.held = {l \in Lock : lock[l] = c}
  /\ "fresh" \in x.knows => reg[c] = waking /\ lock["info"] = c
  /\ "on" \in x.knows <=> c \in ipiOn
  /\ "irq" \in x.knows <=> c \in masked
  /\ "tested" \in x.knows => traced = {}
  /\ x.unsent \intersect (startBox \union started) = {}
  /\ x.unsent # {} => c = PCore

Runs(c) == \E x \in View : Good(c, todo[c], x) /\ Fits(c, x)

Asleep(c) ==
  /\ todo[c] = <<>> /\ c \notin mmu /\ c \notin ipiOn /\ c \notin masked
  /\ \A l \in Lock : lock[l] # c

Stuck(c) ==
  /\ todo[c] # <<>> /\ Increments(todo[c]) = Increments(Program(c))
  /\ IF c \in mmu THEN Head(todo[c]) \in {Puts, Req("uart")}
     ELSE todo[c] \in {Program(c), Tail(Program(c))}

Core(c) ==
  /\ c \notin started => Asleep(c)
  /\ c \in started /\ c \in traced => Stuck(c)
  /\ c \in started /\ c \notin traced => Runs(c)

IInv ==
  /\ TypeOK /\ Counted /\ OnlyCore0Wakes /\ PCore \in started
  /\ traced # {} => reg[PCore] <= 1
  /\ \A c \in Cpu : Core(c)

(* What is counted at most; and how a secondary program begins.            *)
LEMMA ProgramCount ==
  ASSUME NEW c \in Cpu
  PROVE  Program(c) \in Seq(Op) /\ Increments(Program(c)) = IF c = 1 THEN 2 ELSE 1
<1>1. Good(c, Program(c), Start(c))
  BY PrimaryGood, SecondaryGood DEF Secondaries
<1>2. Start(c).left = IF c = 1 THEN 2 ELSE 1
  BY StartView
<1> QED
  BY <1>1, <1>2 DEF Good

LEMMA SecondaryFront ==
  ASSUME NEW c \in Secondaries
  PROVE  LET p == Program(c)
         IN  /\ p \in Seq(Op) /\ p # <<>> /\ Head(p) = Puts
             /\ Tail(p) \in Seq(Op) /\ Tail(p) # <<>> /\ Head(Tail(p)) = <<"mmu", "on">>
             /\ Tail(Tail(p)) \in Seq(Op) /\ Tail(Tail(p)) # <<>> /\ Head(Tail(Tail(p))) = Puts
<1> DEFINE m == << <<"mmu", "on">>, Puts>>
           q == <<Puts>>
           r == << <<"enable", "ipi">> >> \o (IncWakingCores
                   \o (IF c = 1 THEN IncWakingCores ELSE <<>>))
<1>1. c \in Cpu /\ c # PCore
  BY DEF Secondaries
<1>2. /\ StartMmuNoLock \in Seq(Op) /\ StartMmuNoLock # <<>> /\ Head(StartMmuNoLock) = Puts
      /\ Tail(StartMmuNoLock) = m
  BY OpsTyped DEF StartMmuNoLock
<1>3. m \in Seq(Op) /\ m # <<>> /\ Head(m) = <<"mmu", "on">> /\ Tail(m) = q
  BY OpsTyped
<1>4. q \in Seq(Op) /\ q # <<>> /\ Head(q) = Puts
  BY OpsTyped
<1>5. r \in Seq(Op) /\ Program(c) = StartMmuNoLock \o r
  <2> DEFINE en == << <<"enable", "ipi">> >>  more == IF c = 1 THEN IncWakingCores ELSE <<>>
             M == StartMmuNoLock  I == IncWakingCores
  <2>1. en \in Seq(Op) /\ more \in Seq(Op) /\ I \in Seq(Op) /\ M \in Seq(Op)
    BY FunctionsTyped, OpsTyped, EmptySeq
  <2>2. Program(c) = ((M \o en) \o I) \o more /\ r = en \o (I \o more)
    BY <1>1 DEF Program, SysInitSecondary
  <2> HIDE DEF M, I, en, more, r
  <2>3. Regrouped(M, en, I, more)
    BY <2>1, Assoc
  <2>4. I \o more \in Seq(Op)
    BY <2>1, Closed
  <2>5. r \in Seq(Op)
    BY <2>1, <2>2, <2>4, Closed
  <2> QED
    BY <2>2, <2>3, <2>5 DEF M, Regrouped
<1> HIDE DEF m, q, r
<1>6. /\ Program(c) # <<>> /\ Program(c) \in Seq(Op)
      /\ Head(Program(c)) = Puts /\ Tail(Program(c)) = m \o r
  BY <1>2, <1>5, FrontOfConcat
<1>7. m \o r \in Seq(Op) /\ m \o r # <<>> /\ Head(m \o r) = <<"mmu", "on">> /\ Tail(m \o r) = q \o r
  BY <1>3, <1>5, FrontOfConcat
<1>8. q \o r \in Seq(Op) /\ q \o r # <<>> /\ Head(q \o r) = Puts
  BY <1>4, <1>5, FrontOfConcat
<1> QED
  BY <1>6, <1>7, <1>8

-----------------------------------------------------------------------------
(***************************************************************************)
(* A step of one core: what the other cores know of the state stays true,  *)
(* and so does the count.                                                  *)
(***************************************************************************)
Untouched(d) ==
  /\ todo'[d] = todo[d] /\ reg'[d] = reg[d]
  /\ \A l \in Lock : lock'[l] = d <=> lock[l] = d
  /\ lock["info"] = d => waking' = waking
  /\ d \in mmu' <=> d \in mmu
  /\ d \in ipiOn' <=> d \in ipiOn
  /\ d \in masked' <=> d \in masked
  /\ d \in started' <=> d \in started
  /\ d = PCore => (startBox' \union started') \subseteq (startBox \union started)
  /\ traced' = traced

LEMMA UntouchedKept ==
  ASSUME NEW d \in Cpu, Core(d), Untouched(d)
  PROVE  Core(d)'
<1>1. Asleep(d) => Asleep(d)'
  BY DEF Asleep, Untouched
<1>2. Stuck(d) => Stuck(d)'
  BY DEF Stuck, Untouched
<1>3. Runs(d) => Runs(d)'
  <2> SUFFICES ASSUME NEW x \in View, Good(d, todo[d], x), Fits(d, x)
               PROVE  Runs(d)'
    BY DEF Runs
  <2>1. Good(d, todo'[d], x)
    BY DEF Untouched
  <2>2. Fits(d, x)'
    <3>1. "info" \in Lock
      BY DEF Lock
    <3>2. {l \in Lock : lock'[l] = d} = {l \in Lock : lock[l] = d}
      BY DEF Untouched
    <3>3. "fresh" \in x.knows => reg'[d] = waking' /\ lock'["info"] = d
      BY <3>1 DEF Fits, Untouched
    <3>4. x.unsent \intersect (startBox' \union started') = {}
      BY DEF Fits, Untouched
    <3> QED
      BY <3>2, <3>3, <3>4 DEF Fits, Untouched
  <2> QED
    BY <2>1, <2>2 DEF Runs
<1> QED
  BY <1>1, <1>2, <1>3 DEF Core, Untouched

LEMMA DoneBound ==
  ASSUME NEW c \in Cpu, todo' \in [Cpu -> Seq(Op)]
  PROVE  Done(c)' \in Int /\ Done(c)' <= IF c = 1 THEN 2 ELSE 1
<1>1. Increments(todo'[c]) \in Nat
  BY IncrementsInNat
<1>2. Increments(Program(c)) = IF c = 1 THEN 2 ELSE 1
  BY ProgramCount
<1> QED
  BY <1>1, <1>2 DEF Done


(* What a step of c adds to the count is what c has done of its program.   *)
LEMMA CountKept ==
  ASSUME TypeOK, Counted, NEW c \in Cpu, todo' \in [Cpu -> Seq(Op)],
         \A d \in Cpu \ {c} : Untouched(d), waking' = waking + (Done(c)' - Done(c))
  PROVE  Counted' /\ waking' <= 5
<1>1. \A d \in Cpu : Done(d) \in Int
  <2> SUFFICES ASSUME NEW d \in Cpu PROVE Done(d) \in Int
    OBVIOUS
  <2>1. Increments(todo[d]) \in Nat
    BY IncrementsInNat DEF TypeOK
  <2>2. Increments(Program(d)) \in Int
    BY ProgramCount
  <2> QED
    BY <2>1, <2>2 DEF Done
<1>2. \A d \in Cpu : Done(d)' \in Int /\ Done(d)' <= IF d = 1 THEN 2 ELSE 1
  BY DoneBound
<1>3. \A d \in Cpu \ {c} : Done(d)' = Done(d)
  BY DEF Untouched, Done
<1>4. /\ Done(0) \in Int /\ Done(1) \in Int /\ Done(2) \in Int /\ Done(3) \in Int
      /\ Done(0)' \in Int /\ Done(1)' \in Int /\ Done(2)' \in Int /\ Done(3)' \in Int
      /\ Done(0)' <= 1 /\ Done(1)' <= 2 /\ Done(2)' <= 1 /\ Done(3)' <= 1
  BY <1>1, <1>2 DEF Cpu
<1>5. waking = Done(0) + Done(1) + Done(2) + Done(3)
  BY DEF Counted
<1>6. waking' = Done(0)' + Done(1)' + Done(2)' + Done(3)'
  <2>1. c \in {0, 1, 2, 3} /\ \A d \in {0, 1, 2, 3} : d # c => Done(d)' = Done(d)
    BY <1>3 DEF Cpu
  <2>2. CASE c = 0
    BY <2>1, <2>2, <1>4, <1>5
  <2>3. CASE c = 1
    BY <2>1, <2>3, <1>4, <1>5
  <2>4. CASE c = 2
    BY <2>1, <2>4, <1>4, <1>5
  <2>5. CASE c = 3
    BY <2>1, <2>5, <1>4, <1>5
  <2> QED
    BY <2>1, <2>2, <2>3, <2>4, <2>5
<1>7. Counted'
  BY <1>6 DEF Counted
<1>8. waking' <= 5
  BY <1>4, <1>6
<1> QED
  BY <1>7, <1>8

LEMMA StepKept ==
  ASSUME IInv, NEW c \in Cpu, TypeOK', \A d \in Cpu \ {c} : Untouched(d), Core(c)',
         waking' = waking + (Done(c)' - Done(c)), PCore \in started', traced' = traced,
         traced # {} => ipiOn' = {} /\ reports' = {} /\ reg'[PCore] <= 1
  PROVE  IInv'
<1>1. Counted'
  BY CountKept DEF IInv, TypeOK
<1>2. \A d \in Cpu : Core(d)'
  BY UntouchedKept DEF IInv
<1>3. OnlyCore0Wakes'
  <2> SUFFICES ASSUME traced' # {} PROVE waking' <= 1
    BY DEF OnlyCore0Wakes
  <2>1. traced' = Secondaries
    BY DEF TypeOK
  <2>2. ASSUME NEW d \in Secondaries PROVE Done(d)' = 0
    <3>1. CASE d \in started'
      <4>1. Stuck(d)'
        BY <1>2, <2>1, <3>1 DEF Core, Secondaries
      <4>2. Increments(todo'[d]) = Increments(Program(d))
        BY <4>1 DEF Stuck
      <4>3. Increments(Program(d)) \in Int
        BY ProgramCount DEF Secondaries
      <4> QED
        BY <3>1, <4>2, <4>3 DEF Done
    <3>2. CASE d \notin started'
      BY <3>2 DEF Done
    <3> QED
      BY <3>1, <3>2
  <2>3. Done(1)' = 0 /\ Done(2)' = 0 /\ Done(3)' = 0
    BY <2>2 DEF Secondaries, Cpu, PCore
  <2>4. Done(0)' \in Int /\ Done(0)' <= 1
    BY DoneBound DEF TypeOK, Cpu
  <2>5. waking' = Done(0)' + Done(1)' + Done(2)' + Done(3)'
    BY <1>1 DEF Counted
  <2> QED
    BY <2>3, <2>4, <2>5
<1> QED
  BY <1>1, <1>2, <1>3 DEF IInv

(* What the next operation of a core that runs tells.                      *)
LEMMA NextOp ==
  ASSUME TypeOK, NEW c \in Cpu, todo[c] # <<>>
  PROVE  /\ todo[c] \in Seq(Op) /\ Head(todo[c]) \in Op /\ Tail(todo[c]) \in Seq(Op)
BY HeadAndTail DEF TypeOK

LEMMA RunsNext ==
  ASSUME TypeOK, NEW c \in Cpu, todo[c] # <<>>, Runs(c)
  PROVE  \E x, y \in View :
           /\ Good(c, todo[c], x) /\ Fits(c, x)
           /\ Rule(c, x, Head(todo[c]), y) /\ Good(c, Tail(todo[c]), y)
<1>1. PICK x \in View : Good(c, todo[c], x) /\ Fits(c, x)
  BY DEF Runs
<1>2. PICK y \in View : Rule(c, x, Head(todo[c]), y) /\ Good(c, Tail(todo[c]), y)
  BY <1>1, GoodHead
<1> QED
  BY <1>1, <1>2

LEMMA DoNext ==
  ASSUME TypeOK, NEW c \in Cpu, todo[c] # <<>>, NEW ops \in Seq(Op), Do(c, ops)
  PROVE  /\ todo' \in [Cpu -> Seq(Op)] /\ todo'[c] = ops \o Tail(todo[c])
         /\ ops = <<>> => todo'[c] = Tail(todo[c])
         /\ \A d \in Cpu \ {c} : todo'[d] = todo[d]
<1>1. Tail(todo[c]) \in Seq(Op)
  BY NextOp
<1>2. ops \o Tail(todo[c]) \in Seq(Op)
  BY <1>1, Closed
<1>3. <<>> \o Tail(todo[c]) = Tail(todo[c])
  BY <1>1, ConcatEmptySeq
<1> QED
  BY <1>2, <1>3 DEF Do, TypeOK

(* A core with an operation has started; without tracing it runs.          *)
LEMMA NextRuns ==
  ASSUME IInv, NEW c \in Cpu, todo[c] # <<>>
  PROVE  c \in started /\ (c \notin traced => Runs(c)) /\ (c \in traced => Stuck(c))
BY DEF IInv, Core, Asleep


LEMMA SameDone ==
  ASSUME TypeOK, NEW c \in Cpu, c \in started' <=> c \in started,
         Increments(todo'[c]) = Increments(todo[c]), waking' = waking
  PROVE  waking' = waking + (Done(c)' - Done(c))
<1>1. Increments(todo[c]) \in Nat /\ Increments(Program(c)) \in Int /\ waking \in Int
  BY IncrementsInNat, ProgramCount DEF TypeOK
<1>2. Done(c)' = Done(c) /\ Done(c) \in Int
  BY <1>1 DEF Done
<1> QED
  BY <1>1, <1>2

(* Two operations that are not increments, in front.                       *)
LEMMA TwoMore ==
  ASSUME NEW a \in Op, NEW b \in Op, a[1] # "store", b[1] # "store", NEW t \in Seq(Op)
  PROVE  LET s == <<a, b>> \o t
         IN  s # <<>> /\ Head(s) = a /\ Increments(s) = Increments(t)
<1> DEFINE p == <<a, b>>  q == <<b>>
<1>1. p \in Seq(Op) /\ p # <<>> /\ Head(p) = a /\ Tail(p) = q
  OBVIOUS
<1>2. q \in Seq(Op) /\ q # <<>> /\ Head(q) = b /\ Tail(q) = <<>>
  OBVIOUS
<1> HIDE DEF p, q
<1>3. p \o t \in Seq(Op) /\ p \o t # <<>> /\ Head(p \o t) = a /\ Tail(p \o t) = q \o t
  BY <1>1, FrontOfConcat
<1>4. q \o t \in Seq(Op) /\ q \o t # <<>> /\ Head(q \o t) = b /\ Tail(q \o t) = <<>> \o t
  BY <1>2, FrontOfConcat
<1>5. <<>> \o t = t
  BY ConcatEmptySeq
<1> DEFINE u == p \o t  v == q \o t
<1>6. u \in Seq(Op) /\ u # <<>> /\ Head(u) = a /\ Tail(u) = v
  BY <1>3
<1>7. v \in Seq(Op) /\ v # <<>> /\ Head(v) = b /\ Tail(v) = t
  BY <1>4, <1>5
<1> HIDE DEF u, v
<1>8. Increments(v) \in Nat /\ Increments(u) = Increments(v) + 0
  BY <1>6, IncrementsOfTail
<1>9. Increments(t) \in Nat /\ Increments(v) = Increments(t) + 0
  BY <1>7, IncrementsOfTail
<1> QED
  BY <1>6, <1>8, <1>9 DEF p, u

(* A stuck core with the MMU on goes round in its print.                   *)
LEMMA StuckHead ==
  ASSUME IInv, NEW c \in Cpu, todo[c] # <<>>, c \in traced
  PROVE  /\ Stuck(c) /\ c \in Secondaries /\ Head(todo[c])[1] # "store"
         /\ Increments(Tail(todo[c])) = Increments(todo[c])
         /\ c \in mmu => Head(todo[c]) \in {Puts, Req("uart")}
         /\ c \notin mmu => Head(todo[c]) \in {Puts, <<"mmu", "on">>}
<1>1. Stuck(c) /\ c \in Secondaries /\ todo[c] \in Seq(Op)
  BY NextRuns, NextOp DEF IInv, TypeOK
<1>2. /\ c \in mmu => Head(todo[c]) \in {Puts, Req("uart")}
      /\ c \notin mmu => Head(todo[c]) \in {Puts, <<"mmu", "on">>}
  BY <1>1, SecondaryFront DEF Stuck
<1>3. Head(todo[c])[1] # "store"
  BY <1>2 DEF Puts, Req
<1>4. /\ Increments(todo[c]) = Increments(Tail(todo[c])) + 0
      /\ Increments(Tail(todo[c])) \in Nat
  BY <1>1, <1>3, IncrementsOfTail
<1> QED
  BY <1>1, <1>2, <1>3, <1>4

LEMMA ReqKept ==
  ASSUME IInv, NEW c \in Cpu, SpinReq(c)
  PROVE  IInv'
<1> DEFINE l == Arg(c)
<1>1. /\ TypeOK /\ todo[c] # <<>> /\ Head(todo[c])[1] = "req" /\ lock[l] = Nobody
      /\ Head(todo[c])[2] = l
      /\ lock' = [lock EXCEPT ![l] = c] /\ Do(c, Trace(c))
      /\ UNCHANGED <<mmu, waking, reg, mailVars, reports, traced>>
  BY DEF IInv, SpinReq, Next1, Arg
<1>2. /\ todo[c] \in Seq(Op) /\ Tail(todo[c]) \in Seq(Op) /\ l \in Lock /\ c # Nobody
      /\ c \in started
  BY <1>1, NextOp, OpNames, NextRuns DEF Cpu, Nobody
<1> HIDE DEF l
<1>3. Trace(c) \in Seq(Op)
  BY OpsTyped DEF Trace, RegisterValuePuts
<1>4. /\ todo' \in [Cpu -> Seq(Op)] /\ todo'[c] = Trace(c) \o Tail(todo[c])
      /\ Trace(c) = <<>> => todo'[c] = Tail(todo[c])
      /\ \A d \in Cpu \ {c} : todo'[d] = todo[d]
  BY <1>1, <1>3, DoNext
<1>5. lock' \in [Lock -> Cpu \union {Nobody}]
      /\ \A k \in Lock : lock'[k] = IF k = l THEN c ELSE lock[k]
  BY <1>1, <1>2 DEF TypeOK
<1>6. TypeOK'
  BY <1>1, <1>4, <1>5 DEF TypeOK, mailVars
<1>7. ASSUME NEW d \in Cpu \ {c} PROVE Untouched(d)
  <2>1. d # Nobody /\ d # c
    BY DEF Cpu, Nobody
  <2>2. \A k \in Lock : lock'[k] = d <=> lock[k] = d
    BY <2>1, <1>1, <1>2, <1>5
  <2> QED
    BY <2>1, <2>2, <1>1, <1>4 DEF Untouched, mailVars
<1>8. Core(c)' /\ Increments(todo'[c]) = Increments(todo[c])
  <2>1. CASE c \notin traced
    <3>1. PICK x, y \in View :
            /\ Good(c, todo[c], x) /\ Fits(c, x)
            /\ Rule(c, x, Head(todo[c]), y) /\ Good(c, Tail(todo[c]), y)
      BY <1>1, <2>1, NextRuns, RunsNext
    <3>2. ReqRule(x, l, y)
      BY <1>1, <3>1 DEF Rule
    <3>3. /\ y.held = x.held \union {l} /\ y.knows = x.knows /\ y.unsent = x.unsent
          /\ y.left = x.left
      BY <3>2, ViewFields DEF ReqRule, Views
    <3>4. Fits(c, y)'
      <4>1. y.held = {k \in Lock : lock'[k] = c}
        BY <3>1, <3>3, <1>2, <1>5 DEF Fits
      <4>2. "fresh" \in y.knows => reg'[c] = waking' /\ lock'["info"] = c
        BY <3>1, <3>3, <1>1, <1>5 DEF Fits, Lock
      <4> QED
        BY <4>1, <4>2, <3>1, <3>3, <1>1 DEF Fits, mailVars
    <3>5. todo'[c] = Tail(todo[c])
      BY <1>4, <2>1 DEF Trace
    <3>6. Runs(c)'
      BY <3>1, <3>4, <3>5 DEF Runs
    <3> QED
      BY <1>1, <1>2, <2>1, <3>1, <3>3, <3>5, <3>6 DEF Core, Good, mailVars
  <2>2. CASE c \in traced
    <3>1. c \in mmu /\ Stuck(c) /\ Increments(Tail(todo[c])) = Increments(todo[c])
      BY <1>1, <2>2, StuckHead DEF Puts, Req
    <3>2. todo'[c] = <<Puts, Puts>> \o Tail(todo[c])
      BY <1>4, <2>2 DEF Trace, RegisterValuePuts
    <3>3. todo'[c] # <<>> /\ Head(todo'[c]) = Puts /\ Increments(todo'[c]) = Increments(Tail(todo[c]))
      <4>1. Puts \in Op /\ Puts[1] # "store"
        BY OpsTyped DEF Puts
      <4> QED
        BY <1>2, <3>2, <4>1, TwoMore
    <3>4. Stuck(c)'
      BY <1>1, <3>1, <3>3 DEF Stuck
    <3> QED
      BY <1>1, <1>2, <2>2, <3>1, <3>3, <3>4 DEF Core, mailVars
  <2> QED
    BY <2>1, <2>2
<1>9. waking' = waking + (Done(c)' - Done(c))
  BY <1>1, <1>8, SameDone DEF mailVars
<1> QED
  BY <1>1, <1>6, <1>7, <1>8, <1>9, StepKept DEF IInv, OnlyCore0Wakes, mailVars


(***************************************************************************)
(* The other steps, of cores that run.                                     *)
(***************************************************************************)
LEMMA Running ==
  ASSUME IInv, NEW c \in Cpu, todo[c] # <<>>,
         c \notin traced \/ Head(todo[c])[1] \notin {"req", "puts", "mmu"}
  PROVE  /\ c \in started /\ c \notin traced
         /\ \E x, y \in View :
              /\ Good(c, todo[c], x) /\ Fits(c, x)
              /\ Rule(c, x, Head(todo[c]), y) /\ Good(c, Tail(todo[c]), y)
<1>1. c \notin traced
  BY StuckHead DEF Puts, Req
<1>2. c \in started /\ Runs(c) /\ TypeOK
  BY <1>1, NextRuns DEF IInv
<1> QED
  BY <1>1, <1>2, RunsNext

LEMMA RunKept ==
  ASSUME IInv, NEW c \in Cpu, c \in started, c \notin traced, TypeOK',
         \A d \in Cpu \ {c} : Untouched(d),
         NEW z \in View, Good(c, todo'[c], z), Fits(c, z)', z.left = Increments(todo[c]),
         waking' = waking, started' = started, traced' = traced,
         traced # {} => ipiOn' = {} /\ reports' = {} /\ reg'[PCore] <= 1
  PROVE  IInv'
<1>1. Runs(c)'
  BY DEF Runs
<1>2. Core(c)'
  BY <1>1 DEF Core
<1>3. Increments(todo'[c]) = Increments(todo[c])
  BY DEF Good
<1>4. waking' = waking + (Done(c)' - Done(c))
  BY <1>3, SameDone DEF IInv
<1>5. PCore \in started'
  BY DEF IInv
<1> QED
  BY <1>2, <1>4, <1>5, StepKept

LEMMA RelKept ==
  ASSUME IInv, NEW c \in Cpu, SpinRel(c)
  PROVE  IInv'
<1> DEFINE l == Arg(c)
<1>1. /\ TypeOK /\ todo[c] # <<>> /\ Head(todo[c])[1] = "rel"
      /\ Head(todo[c])[2] = l
      /\ lock' = [lock EXCEPT ![l] = Nobody] /\ Do(c, Trace(c))
      /\ UNCHANGED <<mmu, waking, reg, mailVars, reports, traced>>
  BY DEF IInv, SpinRel, Next1, Arg
<1>2. l \in Lock
  BY <1>1, NextOp, OpNames
<1> HIDE DEF l
<1>3. c \in started /\ c \notin traced
  BY <1>1, Running
<1>4. PICK x, y \in View :
        /\ Good(c, todo[c], x) /\ Fits(c, x)
        /\ Rule(c, x, Head(todo[c]), y) /\ Good(c, Tail(todo[c]), y)
  BY <1>1, Running
<1>5. /\ l \in x.held /\ y.held = x.held \ {l} /\ y.unsent = x.unsent /\ y.left = x.left
      /\ y.knows = IF l = "info" THEN x.knows \ {"fresh"} ELSE x.knows
  <2>1. RelRule(x, l, y)
    BY <1>1, <1>4 DEF Rule
  <2> QED
    BY <2>1, ViewFields DEF RelRule, Views
<1>6. lock[l] = c /\ lock' \in [Lock -> Cpu \union {Nobody}]
      /\ \A k \in Lock : lock'[k] = IF k = l THEN Nobody ELSE lock[k]
  BY <1>1, <1>2, <1>4, <1>5 DEF TypeOK, Fits
<1>7. todo' \in [Cpu -> Seq(Op)] /\ todo'[c] = Tail(todo[c])
      /\ \A d \in Cpu \ {c} : todo'[d] = todo[d]
  BY <1>1, <1>3, DoNext, EmptySeq DEF Trace
<1>8. TypeOK'
  BY <1>1, <1>6, <1>7 DEF TypeOK, mailVars
<1>9. ASSUME NEW d \in Cpu \ {c} PROVE Untouched(d)
  <2>1. d # Nobody /\ d # c
    BY DEF Cpu, Nobody
  <2>2. \A k \in Lock : lock'[k] = d <=> lock[k] = d
    BY <2>1, <1>6
  <2> QED
    BY <2>1, <2>2, <1>1, <1>7 DEF Untouched, mailVars
<1>10. Fits(c, y)'
  <2>1. c # Nobody /\ "info" \in Lock
    BY DEF Cpu, Nobody, Lock
  <2>2. y.held = {k \in Lock : lock'[k] = c}
    BY <2>1, <1>4, <1>5, <1>6 DEF Fits
  <2>3. "fresh" \in y.knows => reg'[c] = waking' /\ lock'["info"] = c
    BY <2>1, <1>1, <1>4, <1>5, <1>6 DEF Fits
  <2>4. /\ "on" \in y.knows <=> "on" \in x.knows
        /\ "irq" \in y.knows <=> "irq" \in x.knows
        /\ "tested" \in y.knows <=> "tested" \in x.knows
    BY <1>5
  <2> QED
    BY <2>2, <2>3, <2>4, <1>1, <1>4, <1>5 DEF Fits, mailVars
<1>11. traced # {} => ipiOn' = {} /\ reports' = {} /\ reg'[PCore] <= 1
  BY <1>1 DEF IInv, OnlyCore0Wakes, mailVars
<1>12. y.left = Increments(todo[c]) /\ Good(c, todo'[c], y)
  BY <1>4, <1>5, <1>7 DEF Good
<1> QED
  BY <1>1, <1>3, <1>8, <1>9, <1>10, <1>11, <1>12, RunKept DEF mailVars


LEMMA PutsKept ==
  ASSUME IInv, NEW c \in Cpu, UartPuts(c)
  PROVE  IInv'
<1> DEFINE ops == IF c \in mmu THEN <<Req("uart"), Rel("uart")>> ELSE <<>>
<1>1. /\ TypeOK /\ todo[c] # <<>> /\ Head(todo[c])[1] = "puts" /\ Do(c, ops)
      /\ UNCHANGED <<mmu, lock, waking, reg, mailVars, reports, traced>>
  BY DEF IInv, UartPuts, Next1
<1>2. Req("uart") \in Op /\ Rel("uart") \in Op /\ Req("uart")[1] # "store" /\ Rel("uart")[1] # "store"
  BY OpsTyped DEF Lock, Req, Rel
<1>3. ops \in Seq(Op)
  BY <1>2
<1> HIDE DEF ops
<1>4. /\ todo' \in [Cpu -> Seq(Op)] /\ todo'[c] = ops \o Tail(todo[c])
      /\ ops = <<>> => todo'[c] = Tail(todo[c])
      /\ \A d \in Cpu \ {c} : todo'[d] = todo[d]
  BY <1>1, <1>3, DoNext
<1>5. c \in started /\ Tail(todo[c]) \in Seq(Op)
  BY <1>1, NextRuns, NextOp
<1>6. TypeOK'
  BY <1>1, <1>4 DEF TypeOK, mailVars
<1>7. ASSUME NEW d \in Cpu \ {c} PROVE Untouched(d)
  BY <1>1, <1>4 DEF Untouched, mailVars
<1>8. traced # {} => ipiOn' = {} /\ reports' = {} /\ reg'[PCore] <= 1
  BY <1>1 DEF IInv, OnlyCore0Wakes, mailVars
<1>9. CASE c \notin traced
  <2>1. PICK x, y \in View :
          /\ Good(c, todo[c], x) /\ Fits(c, x)
          /\ Rule(c, x, Head(todo[c]), y) /\ Good(c, Tail(todo[c]), y)
    BY <1>1, <1>9, Running
  <2>2. PutsRule(x, x) /\ y = x
    BY <1>1, <2>1 DEF Rule, PutsRule
  <2>3. Good(c, todo'[c], x)
    <3>1. CASE c \in mmu
      BY <1>4, <2>1, <2>2, <3>1, UartGood DEF ops
    <3>2. CASE c \notin mmu
      BY <1>4, <2>1, <2>2, <3>2 DEF ops
    <3> QED
      BY <3>1, <3>2
  <2>4. Fits(c, x)'
    BY <1>1, <2>1 DEF Fits, mailVars
  <2>5. x.left = Increments(todo[c])
    BY <2>1 DEF Good
  <2> QED
    BY <1>1, <1>5, <1>6, <1>7, <1>8, <1>9, <2>3, <2>4, <2>5, RunKept DEF mailVars
<1>10. CASE c \in traced
  <2>1. /\ Stuck(c) /\ c \in Secondaries /\ Increments(Tail(todo[c])) = Increments(todo[c])
        /\ c \in mmu => Head(todo[c]) \in {Puts, Req("uart")}
        /\ c \notin mmu => Head(todo[c]) \in {Puts, <<"mmu", "on">>}
    BY <1>1, <1>10, StuckHead
  <2>2. Stuck(c)' /\ Increments(todo'[c]) = Increments(todo[c])
    <3>1. CASE c \in mmu
      <4>1. todo'[c] = <<Req("uart"), Rel("uart")>> \o Tail(todo[c])
        BY <1>4, <3>1 DEF ops
      <4>2. /\ todo'[c] # <<>> /\ Head(todo'[c]) = Req("uart")
            /\ Increments(todo'[c]) = Increments(Tail(todo[c]))
        <5> DEFINE a == Req("uart")  b == Rel("uart")  t == Tail(todo[c])
        <5>1. a \in Op /\ b \in Op /\ a[1] # "store" /\ b[1] # "store" /\ t \in Seq(Op)
          BY <1>2, <1>5
        <5>2. todo'[c] = <<a, b>> \o t
          BY <4>1
        <5> HIDE DEF a, b, t
        <5>3. todo'[c] # <<>> /\ Head(todo'[c]) = a /\ Increments(todo'[c]) = Increments(t)
          BY <5>1, <5>2, TwoMore
        <5> QED
          BY <5>3 DEF a, t
      <4> QED
        BY <1>1, <2>1, <3>1, <4>2 DEF Stuck
    <3>2. CASE c \notin mmu
      <4>1. todo'[c] = Tail(todo[c])
        BY <1>4, <3>2 DEF ops
      <4>2. todo[c] = Program(c)
        <5>1. todo[c] \in {Program(c), Tail(Program(c))}
          BY <2>1, <3>2 DEF Stuck
        <5>2. Head(Tail(Program(c)))[1] = "mmu"
          BY <2>1, SecondaryFront
        <5> QED
          BY <1>1, <5>1, <5>2
      <4>3. Tail(Program(c)) # <<>>
        BY <2>1, SecondaryFront
      <4> QED
        BY <1>1, <2>1, <3>2, <4>1, <4>2, <4>3 DEF Stuck
    <3> QED
      BY <3>1, <3>2
  <2>3. Core(c)'
    BY <1>1, <1>5, <1>10, <2>2 DEF Core, mailVars
  <2>4. waking' = waking + (Done(c)' - Done(c))
    BY <1>1, <2>2, SameDone DEF mailVars
  <2> QED
    BY <1>1, <1>5, <1>6, <1>7, <1>8, <2>3, <2>4, StepKept DEF IInv, mailVars
<1> QED
  BY <1>9, <1>10

LEMMA MmuKept ==
  ASSUME IInv, NEW c \in Cpu, EnableMmu(c)
  PROVE  IInv'
<1>1. /\ TypeOK /\ todo[c] # <<>> /\ Head(todo[c])[1] = "mmu" /\ Do(c, <<>>)
      /\ mmu' = mmu \union {c}
      /\ UNCHANGED <<lock, waking, reg, mailVars, reports, traced>>
  BY DEF IInv, EnableMmu, Next1
<1>2. /\ todo' \in [Cpu -> Seq(Op)] /\ todo'[c] = Tail(todo[c])
      /\ \A d \in Cpu \ {c} : todo'[d] = todo[d]
  BY <1>1, DoNext, EmptySeq
<1>3. c \in started
  BY <1>1, NextRuns
<1>4. TypeOK'
  BY <1>1, <1>2 DEF TypeOK, mailVars
<1>5. ASSUME NEW d \in Cpu \ {c} PROVE Untouched(d)
  BY <1>1, <1>2 DEF Untouched, mailVars
<1>6. traced # {} => ipiOn' = {} /\ reports' = {} /\ reg'[PCore] <= 1
  BY <1>1 DEF IInv, OnlyCore0Wakes, mailVars
<1>7. CASE c \notin traced
  <2>1. PICK x, y \in View :
          /\ Good(c, todo[c], x) /\ Fits(c, x)
          /\ Rule(c, x, Head(todo[c]), y) /\ Good(c, Tail(todo[c]), y)
    BY <1>1, <1>7, Running
  <2>2. y = x
    BY <1>1, <2>1 DEF Rule
  <2>3. Fits(c, x)'
    BY <1>1, <2>1 DEF Fits, mailVars
  <2>4. x.left = Increments(todo[c])
    BY <2>1 DEF Good
  <2> QED
    BY <1>1, <1>2, <1>3, <1>4, <1>5, <1>6, <1>7, <2>1, <2>2, <2>3, <2>4, RunKept DEF mailVars
<1>8. CASE c \in traced
  <2>1. /\ Stuck(c) /\ c \in Secondaries /\ Increments(Tail(todo[c])) = Increments(todo[c])
        /\ c \notin mmu
    BY <1>1, <1>8, StuckHead DEF Puts, Req
  <2>2. todo'[c] = Tail(Tail(Program(c)))
    <3>1. todo[c] \in {Program(c), Tail(Program(c))}
      BY <2>1 DEF Stuck
    <3>2. Head(Program(c))[1] = "puts"
      BY <2>1, SecondaryFront DEF Puts
    <3> QED
      BY <1>1, <1>2, <3>1, <3>2
  <2>3. todo'[c] # <<>> /\ Head(todo'[c]) = Puts /\ Increments(todo'[c]) = Increments(todo[c])
    BY <1>2, <2>1, <2>2, SecondaryFront
  <2>4. Stuck(c)'
    BY <1>1, <2>1, <2>3 DEF Stuck
  <2>5. Core(c)'
    BY <1>1, <1>3, <1>8, <2>4 DEF Core, mailVars
  <2>6. waking' = waking + (Done(c)' - Done(c))
    BY <1>1, <2>3, SameDone DEF mailVars
  <2> QED
    BY <1>1, <1>3, <1>4, <1>5, <1>6, <2>5, <2>6, StepKept DEF IInv, mailVars
<1> QED
  BY <1>7, <1>8


LEMMA LoadKept ==
  ASSUME IInv, NEW c \in Cpu, Load(c)
  PROVE  IInv'
<1>1. /\ TypeOK /\ todo[c] # <<>> /\ Head(todo[c])[1] = "load" /\ Do(c, <<>>)
      /\ reg' = [reg EXCEPT ![c] = waking]
      /\ UNCHANGED <<mmu, lock, waking, mailVars, reports, traced>>
  BY DEF IInv, Load, Next1, Arg
<1>2. /\ todo' \in [Cpu -> Seq(Op)] /\ todo'[c] = Tail(todo[c])
      /\ \A d \in Cpu \ {c} : todo'[d] = todo[d]
  BY <1>1, DoNext, EmptySeq
<1>3. c \in started /\ c \notin traced
  BY <1>1, Running
<1>4. PICK x, y \in View :
        /\ Good(c, todo[c], x) /\ Fits(c, x)
        /\ Rule(c, x, Head(todo[c]), y) /\ Good(c, Tail(todo[c]), y)
  BY <1>1, Running
<1>5. /\ "info" \in x.held /\ y.held = x.held /\ y.unsent = x.unsent /\ y.left = x.left
      /\ y.knows = x.knows \union {"fresh"}
  <2>1. LoadRule(x, y)
    BY <1>1, <1>4 DEF Rule
  <2> QED
    BY <2>1, ViewFields DEF LoadRule, Views
<1>6. TypeOK'
  BY <1>1, <1>2 DEF TypeOK, mailVars
<1>7. ASSUME NEW d \in Cpu \ {c} PROVE Untouched(d)
  BY <1>1, <1>2 DEF Untouched, mailVars
<1>8. Fits(c, y)'
  <2>1. lock["info"] = c /\ reg'[c] = waking
    BY <1>1, <1>4, <1>5 DEF Fits, TypeOK
  <2> QED
    BY <2>1, <1>1, <1>4, <1>5 DEF Fits, mailVars
<1>9. traced # {} => ipiOn' = {} /\ reports' = {} /\ reg'[PCore] <= 1
  BY <1>1 DEF IInv, OnlyCore0Wakes, mailVars, TypeOK, PCore, Cpu
<1>10. y.left = Increments(todo[c]) /\ Good(c, todo'[c], y)
  BY <1>2, <1>4, <1>5 DEF Good
<1> QED
  BY <1>1, <1>3, <1>6, <1>7, <1>8, <1>9, <1>10, RunKept DEF mailVars

LEMMA StoreKept ==
  ASSUME IInv, NEW c \in Cpu, Store(c)
  PROVE  IInv'
<1>1. /\ TypeOK /\ todo[c] # <<>> /\ Head(todo[c])[1] = "store" /\ Do(c, <<>>)
      /\ waking' = reg[c] + 1
      /\ UNCHANGED <<mmu, lock, reg, mailVars, reports, traced>>
  BY DEF IInv, Store, Next1, Arg
<1>2. /\ todo' \in [Cpu -> Seq(Op)] /\ todo'[c] = Tail(todo[c])
      /\ \A d \in Cpu \ {c} : todo'[d] = todo[d]
  BY <1>1, DoNext, EmptySeq
<1>3. c \in started /\ c \notin traced
  BY <1>1, Running
<1>4. PICK x, y \in View :
        /\ Good(c, todo[c], x) /\ Fits(c, x)
        /\ Rule(c, x, Head(todo[c]), y) /\ Good(c, Tail(todo[c]), y)
  BY <1>1, Running
<1>5. /\ "info" \in x.held /\ "fresh" \in x.knows /\ y.held = x.held /\ y.unsent = x.unsent
      /\ y.left = x.left - 1 /\ y.knows = x.knows \ {"fresh"} /\ x.left \in Nat
  <2>1. StoreRule(x, y)
    BY <1>1, <1>4 DEF Rule
  <2> QED
    BY <2>1, ViewFields DEF StoreRule, Views
<1>6. lock["info"] = c /\ waking' = waking + 1 /\ waking \in 0 .. 5
  BY <1>1, <1>4, <1>5 DEF Fits, TypeOK
<1>7. ASSUME NEW d \in Cpu \ {c} PROVE Untouched(d)
  BY <1>1, <1>2, <1>6 DEF Untouched, mailVars
<1>8. waking' = waking + (Done(c)' - Done(c))
  <2>1. Increments(todo'[c]) = Increments(todo[c]) - 1 /\ Increments(todo[c]) \in Nat
    BY <1>2, <1>4, <1>5 DEF Good
  <2>2. Increments(Program(c)) \in Int
    BY ProgramCount
  <2>3. Done(c)' = Increments(Program(c)) - Increments(todo'[c])
        /\ Done(c) = Increments(Program(c)) - Increments(todo[c])
    BY <1>1, <1>3 DEF Done, mailVars
  <2> QED
    BY <1>6, <2>1, <2>2, <2>3
<1>9. waking' <= 5
  BY <1>1, <1>2, <1>7, <1>8, CountKept DEF IInv
<1>10. TypeOK'
  <2>1. waking' \in 0 .. 5
    BY <1>6, <1>9
  <2> QED
    BY <2>1, <1>1, <1>2 DEF TypeOK, mailVars
<1>11. Core(c)'
  <2>1. Fits(c, y)'
    BY <1>1, <1>4, <1>5 DEF Fits, mailVars
  <2>2. Runs(c)'
    BY <2>1, <1>2, <1>4 DEF Runs
  <2> QED
    BY <2>2, <1>1, <1>3 DEF Core, mailVars
<1>12. traced # {} => ipiOn' = {} /\ reports' = {} /\ reg'[PCore] <= 1
  BY <1>1 DEF IInv, OnlyCore0Wakes, mailVars
<1> QED
  BY <1>1, <1>7, <1>8, <1>10, <1>11, <1>12, StepKept DEF IInv, mailVars

LEMMA EnableKept ==
  ASSUME IInv, NEW c \in Cpu, EnableIpi(c)
  PROVE  IInv'
<1>1. /\ TypeOK /\ todo[c] # <<>> /\ Head(todo[c])[1] = "enable" /\ Do(c, <<>>)
      /\ ipiOn' = ipiOn \union {c}
      /\ UNCHANGED <<mmu, lock, waking, reg, startBox, started, ipiBox, masked, gaveUp, reports, traced>>
  BY DEF IInv, EnableIpi, Next1, Arg
<1>2. /\ todo' \in [Cpu -> Seq(Op)] /\ todo'[c] = Tail(todo[c])
      /\ \A d \in Cpu \ {c} : todo'[d] = todo[d]
  BY <1>1, DoNext, EmptySeq
<1>3. c \in started /\ c \notin traced
  BY <1>1, Running
<1>4. PICK x, y \in View :
        /\ Good(c, todo[c], x) /\ Fits(c, x)
        /\ Rule(c, x, Head(todo[c]), y) /\ Good(c, Tail(todo[c]), y)
  BY <1>1, Running
<1>5. /\ c # PCore /\ y.held = x.held /\ y.unsent = x.unsent /\ y.left = x.left
      /\ y.knows = x.knows \union {"on"}
  <2>1. EnableRule(c, x, y)
    BY <1>1, <1>4 DEF Rule
  <2> QED
    BY <2>1, ViewFields DEF EnableRule, Views
<1>6. TypeOK'
  BY <1>1, <1>2 DEF TypeOK
<1>7. ASSUME NEW d \in Cpu \ {c} PROVE Untouched(d)
  BY <1>1, <1>2 DEF Untouched
<1>8. Fits(c, y)'
  BY <1>1, <1>4, <1>5 DEF Fits
<1>9. traced = {}
  BY <1>1, <1>3, <1>5 DEF TypeOK, Secondaries
<1>10. y.left = Increments(todo[c]) /\ Good(c, todo'[c], y)
  BY <1>2, <1>4, <1>5 DEF Good
<1> QED
  BY <1>1, <1>3, <1>6, <1>7, <1>8, <1>9, <1>10, RunKept

LEMMA ReportKept ==
  ASSUME IInv, NEW c \in Cpu, Report(c)
  PROVE  IInv'
<1>1. /\ TypeOK /\ todo[c] # <<>> /\ Head(todo[c])[1] = "report" /\ Do(c, <<>>)
      /\ reports' = reports \union {c}
      /\ UNCHANGED <<mmu, lock, waking, reg, mailVars, traced>>
  BY DEF IInv, Report, Next1, Arg
<1>2. /\ todo' \in [Cpu -> Seq(Op)] /\ todo'[c] = Tail(todo[c])
      /\ \A d \in Cpu \ {c} : todo'[d] = todo[d]
  BY <1>1, DoNext, EmptySeq
<1>3. c \in started /\ c \notin traced
  BY <1>1, Running
<1>4. PICK x, y \in View :
        /\ Good(c, todo[c], x) /\ Fits(c, x)
        /\ Rule(c, x, Head(todo[c]), y) /\ Good(c, Tail(todo[c]), y)
  BY <1>1, Running
<1>5. y = x /\ ("irq" \in x.knows \/ "tested" \in x.knows)
  BY <1>1, <1>4 DEF Rule, ReportRule
<1>6. TypeOK'
  BY <1>1, <1>2 DEF TypeOK, mailVars
<1>7. ASSUME NEW d \in Cpu \ {c} PROVE Untouched(d)
  BY <1>1, <1>2 DEF Untouched, mailVars
<1>8. Fits(c, y)'
  BY <1>1, <1>4, <1>5 DEF Fits, mailVars
<1>9. traced = {}
  <2>1. CASE "irq" \in x.knows
    <3>1. c \in ipiOn
      BY <1>1, <1>4, <2>1 DEF Fits, TypeOK
    <3> QED
      BY <3>1 DEF IInv, OnlyCore0Wakes
  <2>2. CASE "tested" \in x.knows
    BY <1>4, <2>2 DEF Fits
  <2> QED
    BY <1>5, <2>1, <2>2
<1>10. y.left = Increments(todo[c]) /\ Good(c, todo'[c], y)
  BY <1>2, <1>4, <1>5 DEF Good
<1> QED
  BY <1>1, <1>3, <1>6, <1>7, <1>8, <1>9, <1>10, RunKept DEF mailVars

LEMMA ReturnKept ==
  ASSUME IInv, NEW c \in Cpu, ReturnFromIrq(c)
  PROVE  IInv'
<1>1. /\ TypeOK /\ todo[c] # <<>> /\ Head(todo[c])[1] = "return" /\ Do(c, <<>>)
      /\ masked' = masked \ {c}
      /\ UNCHANGED <<mmu, lock, waking, reg, startBox, started, ipiBox, ipiOn, gaveUp, reports, traced>>
  BY DEF IInv, ReturnFromIrq, Next1, Arg
<1>2. /\ todo' \in [Cpu -> Seq(Op)] /\ todo'[c] = Tail(todo[c])
      /\ \A d \in Cpu \ {c} : todo'[d] = todo[d]
  BY <1>1, DoNext, EmptySeq
<1>3. c \in started /\ c \notin traced
  BY <1>1, Running
<1>4. PICK x, y \in View :
        /\ Good(c, todo[c], x) /\ Fits(c, x)
        /\ Rule(c, x, Head(todo[c]), y) /\ Good(c, Tail(todo[c]), y)
  BY <1>1, Running
<1>5. /\ y.held = x.held /\ y.unsent = x.unsent /\ y.left = x.left
      /\ y.knows = x.knows \ {"irq"}
  <2>1. ReturnRule(x, y)
    BY <1>1, <1>4 DEF Rule
  <2> QED
    BY <2>1, ViewFields DEF ReturnRule, Views
<1>6. TypeOK'
  BY <1>1, <1>2 DEF TypeOK
<1>7. ASSUME NEW d \in Cpu \ {c} PROVE Untouched(d)
  BY <1>1, <1>2 DEF Untouched
<1>8. Fits(c, y)'
  BY <1>1, <1>4, <1>5 DEF Fits
<1>9. traced # {} => ipiOn' = {} /\ reports' = {} /\ reg'[PCore] <= 1
  BY <1>1 DEF IInv, OnlyCore0Wakes
<1>10. y.left = Increments(todo[c]) /\ Good(c, todo'[c], y)
  BY <1>2, <1>4, <1>5 DEF Good
<1> QED
  BY <1>1, <1>3, <1>6, <1>7, <1>8, <1>9, <1>10, RunKept

LEMMA SendKept ==
  ASSUME IInv, NEW c \in Cpu, SendAddress(c)
  PROVE  IInv'
<1>1. /\ TypeOK /\ todo[c] # <<>> /\ Head(todo[c])[1] = "send" /\ Do(c, <<>>)
      /\ startBox' = startBox \union {Arg(c)} /\ Arg(c) = Head(todo[c])[2]
      /\ UNCHANGED <<mmu, lock, waking, reg, started, ipiBox, ipiOn, masked, gaveUp, reports, traced>>
  BY DEF IInv, SendAddress, Next1, Arg
<1>2. /\ todo' \in [Cpu -> Seq(Op)] /\ todo'[c] = Tail(todo[c])
      /\ \A d \in Cpu \ {c} : todo'[d] = todo[d]
  BY <1>1, DoNext, EmptySeq
<1>3. c \in started /\ c \notin traced
  BY <1>1, Running
<1>4. PICK x, y \in View :
        /\ Good(c, todo[c], x) /\ Fits(c, x)
        /\ Rule(c, x, Head(todo[c]), y) /\ Good(c, Tail(todo[c]), y)
  BY <1>1, Running
<1> DEFINE e == Arg(c)
<1>5. /\ c = PCore /\ e \in x.unsent /\ y.held = x.held /\ y.unsent = x.unsent \ {e}
      /\ y.left = x.left /\ y.knows = x.knows
  <2>1. SendRule(c, x, e, y)
    BY <1>1, <1>4 DEF Rule
  <2> QED
    BY <2>1, ViewFields DEF SendRule, Views
<1>6. e \in Cpu /\ e \notin started /\ startBox' = startBox \union {e}
  BY <1>1, <1>4, <1>5, NextOp, OpNames DEF Fits
<1> HIDE DEF e
<1>7. TypeOK'
  BY <1>1, <1>2, <1>6 DEF TypeOK
<1>8. ASSUME NEW d \in Cpu \ {c} PROVE Untouched(d)
  BY <1>1, <1>2, <1>5 DEF Untouched
<1>9. Fits(c, y)'
  BY <1>1, <1>4, <1>5, <1>6 DEF Fits
<1>10. traced # {} => ipiOn' = {} /\ reports' = {} /\ reg'[PCore] <= 1
  BY <1>1 DEF IInv, OnlyCore0Wakes
<1>11. y.left = Increments(todo[c]) /\ Good(c, todo'[c], y)
  BY <1>2, <1>4, <1>5 DEF Good
<1> QED
  BY <1>1, <1>3, <1>7, <1>8, <1>9, <1>10, <1>11, RunKept

LEMMA AnsweredKept ==
  ASSUME IInv, NEW c \in Cpu, Answered(c)
  PROVE  IInv'
<1>1. /\ TypeOK /\ todo[c] # <<>> /\ Head(todo[c])[1] = "answer" /\ Do(c, <<>>)
      /\ UNCHANGED <<mmu, lock, waking, reg, mailVars, reports, traced>>
  BY DEF IInv, Answered, Next1, Arg
<1>2. /\ todo' \in [Cpu -> Seq(Op)] /\ todo'[c] = Tail(todo[c])
      /\ \A d \in Cpu \ {c} : todo'[d] = todo[d]
  BY <1>1, DoNext, EmptySeq
<1>3. c \in started /\ c \notin traced
  BY <1>1, Running
<1>4. PICK x, y \in View :
        /\ Good(c, todo[c], x) /\ Fits(c, x)
        /\ Rule(c, x, Head(todo[c]), y) /\ Good(c, Tail(todo[c]), y)
  BY <1>1, Running
<1>5. y = x
  BY <1>1, <1>4 DEF Rule, AnswerRule
<1>6. TypeOK'
  BY <1>1, <1>2, <1>5 DEF TypeOK, mailVars
<1>7. ASSUME NEW d \in Cpu \ {c} PROVE Untouched(d)
  BY <1>1, <1>2 DEF Untouched, mailVars
<1>8. Fits(c, y)'
  BY <1>1, <1>4, <1>5 DEF Fits, mailVars
<1>9. traced # {} => ipiOn' = {} /\ reports' = {} /\ reg'[PCore] <= 1
  BY <1>1 DEF IInv, OnlyCore0Wakes, mailVars
<1>10. y.left = Increments(todo[c]) /\ Good(c, todo'[c], y)
  BY <1>2, <1>4, <1>5 DEF Good
<1> QED
  BY <1>1, <1>3, <1>6, <1>7, <1>8, <1>9, <1>10, RunKept DEF mailVars

LEMMA IpiKept ==
  ASSUME IInv, NEW c \in Cpu, SendIpi(c)
  PROVE  IInv'
<1>1. /\ TypeOK /\ todo[c] # <<>> /\ Head(todo[c])[1] = "ipi" /\ Do(c, <<>>)
      /\ ipiBox' = ipiBox \union {Arg(c)} /\ Arg(c) = Head(todo[c])[2]
      /\ UNCHANGED <<mmu, lock, waking, reg, startBox, started, ipiOn, masked, gaveUp, reports, traced>>
  BY DEF IInv, SendIpi, Next1, Arg
<1>2. /\ todo' \in [Cpu -> Seq(Op)] /\ todo'[c] = Tail(todo[c])
      /\ \A d \in Cpu \ {c} : todo'[d] = todo[d]
  BY <1>1, DoNext, EmptySeq
<1>3. c \in started /\ c \notin traced
  BY <1>1, Running
<1>4. PICK x, y \in View :
        /\ Good(c, todo[c], x) /\ Fits(c, x)
        /\ Rule(c, x, Head(todo[c]), y) /\ Good(c, Tail(todo[c]), y)
  BY <1>1, Running
<1>5. y = x /\ Arg(c) \in {2, 3}
  BY <1>1, <1>4 DEF Rule
<1>6. TypeOK'
  BY <1>1, <1>2, <1>5 DEF TypeOK
<1>7. ASSUME NEW d \in Cpu \ {c} PROVE Untouched(d)
  BY <1>1, <1>2 DEF Untouched
<1>8. Fits(c, y)'
  BY <1>1, <1>4, <1>5 DEF Fits
<1>9. traced # {} => ipiOn' = {} /\ reports' = {} /\ reg'[PCore] <= 1
  BY <1>1 DEF IInv, OnlyCore0Wakes
<1>10. y.left = Increments(todo[c]) /\ Good(c, todo'[c], y)
  BY <1>2, <1>4, <1>5 DEF Good
<1> QED
  BY <1>1, <1>3, <1>6, <1>7, <1>8, <1>9, <1>10, RunKept

LEMMA TestKept ==
  ASSUME IInv, NEW c \in Cpu, TestCount(c)
  PROVE  IInv'
<1> DEFINE ops == IF reg[c] >= 4 THEN <<>> ELSE WaitForCores
<1>1. /\ TypeOK /\ todo[c] # <<>> /\ Head(todo[c])[1] = "test" /\ Do(c, ops)
      /\ UNCHANGED <<mmu, lock, waking, reg, mailVars, reports, traced>>
  BY DEF IInv, TestCount, Next1, Arg
<1>2. WaitForCores \in Seq(Op) /\ ops \in Seq(Op)
  <2>1. Req("info") \in Op /\ Rel("info") \in Op /\ <<"load", "waking">> \in Op
        /\ <<"test", "waking">> \in Op
    BY OpsTyped DEF Lock
  <2>2. GetWakingCores \in Seq(Op) /\ << <<"test", "waking">> >> \in Seq(Op)
    BY <2>1 DEF GetWakingCores
  <2> QED
    BY <2>2, Closed, EmptySeq DEF WaitForCores
<1>3. /\ todo' \in [Cpu -> Seq(Op)] /\ todo'[c] = ops \o Tail(todo[c])
      /\ ops = <<>> => todo'[c] = Tail(todo[c])
      /\ \A d \in Cpu \ {c} : todo'[d] = todo[d]
  <2> HIDE DEF ops
  <2> QED
    BY <1>1, <1>2, DoNext
<1>4. c \in started /\ c \notin traced
  BY <1>1, Running
<1>5. PICK x, y \in View :
        /\ Good(c, todo[c], x) /\ Fits(c, x)
        /\ Rule(c, x, Head(todo[c]), y) /\ Good(c, Tail(todo[c]), y)
  BY <1>1, Running
<1>6. TestRule(c, x, y)
  BY <1>1, <1>5 DEF Rule
<1>7. /\ c = PCore /\ y.held = x.held /\ y.unsent = x.unsent /\ y.left = x.left
      /\ y.knows = x.knows \union {"tested"}
  BY <1>6, ViewFields DEF TestRule, Views
<1>8. TypeOK'
  BY <1>1, <1>3 DEF TypeOK, mailVars
<1>9. ASSUME NEW d \in Cpu \ {c} PROVE Untouched(d)
  BY <1>1, <1>3 DEF Untouched, mailVars
<1>10. traced # {} => ipiOn' = {} /\ reports' = {} /\ reg'[PCore] <= 1
  BY <1>1 DEF IInv, OnlyCore0Wakes, mailVars
<1>11. x.left = Increments(todo[c])
  BY <1>5 DEF Good
<1>12. CASE reg[c] >= 4
  <2>1. traced = {}
    <3>1. reg[PCore] \in 0 .. 5
      BY <1>1 DEF TypeOK, PCore, Cpu
    <3> QED
      BY <1>12, <1>7, <3>1 DEF IInv
  <2>2. Fits(c, y)'
    BY <1>1, <1>5, <1>7, <2>1 DEF Fits, mailVars
  <2>3. Good(c, todo'[c], y) /\ y.left = Increments(todo[c])
    BY <1>3, <1>5, <1>7, <1>11, <1>12
  <2> QED
    BY <1>1, <1>4, <1>8, <1>9, <1>10, <2>2, <2>3, RunKept DEF mailVars
<1>13. CASE ~ (reg[c] >= 4)
  <2>1. Good(c, todo'[c], x)
    BY <1>3, <1>5, <1>6, <1>13, WaitGood
  <2>2. Fits(c, x)'
    BY <1>1, <1>5 DEF Fits, mailVars
  <2> QED
    BY <1>1, <1>4, <1>8, <1>9, <1>10, <1>11, <2>1, <2>2, RunKept DEF mailVars
<1> QED
  BY <1>12, <1>13

LEMMA TimedOutKept ==
  ASSUME IInv, NEW c \in Cpu, TimedOut(c)
  PROVE  IInv'
<1> DEFINE p3 == <<Puts, Puts, Puts>>  p2 == <<Puts, Puts>>
<1>1. /\ TypeOK /\ todo[c] # <<>> /\ Head(todo[c])[1] = "answer"
      /\ todo' = [todo EXCEPT ![c] = p3 \o AfterStart] /\ gaveUp' = TRUE
      /\ UNCHANGED <<mmu, lock, waking, reg, startBox, started, ipiBox, ipiOn, masked, reports, traced>>
  BY DEF IInv, TimedOut, Next1, Arg
<1>2. c \in started /\ c \notin traced
  BY <1>1, Running
<1>3. PICK x, y \in View :
        /\ Good(c, todo[c], x) /\ Fits(c, x)
        /\ Rule(c, x, Head(todo[c]), y) /\ Good(c, Tail(todo[c]), y)
  BY <1>1, Running
<1>4. AnswerRule(c, x, x) /\ c = PCore
  BY <1>1, <1>3 DEF Rule, AnswerRule
<1>5. PutsRule(x, x) /\ Rule(c, x, Puts, x)
  BY <1>4 DEF AnswerRule, PutsRule, Rule, Puts, Open
<1>6. Good(c, p3 \o AfterStart, x)
  <2>1. Good(c, AfterStart, x)
    BY <1>4, AfterGood
  <2>2. AfterStart \in Seq(Op) /\ Puts \in Op
    BY <2>1, OpsTyped DEF Good
  <2>3. Good(c, p2 \o AfterStart, x)
    BY <1>5, <2>1, <2>2, TwoGood
  <2>4. p3 \in Seq(Op) /\ p3 # <<>> /\ Head(p3) = Puts /\ Tail(p3) = p2
    BY <2>2
  <2> HIDE DEF p2, p3
  <2> QED
    BY <1>5, <2>2, <2>3, <2>4, GoodFront
<1> HIDE DEF p3
<1>7. /\ todo' \in [Cpu -> Seq(Op)] /\ todo'[c] = p3 \o AfterStart
      /\ \A d \in Cpu \ {c} : todo'[d] = todo[d]
  <2>1. p3 \o AfterStart \in Seq(Op)
    BY <1>6 DEF Good
  <2> QED
    BY <1>1, <2>1 DEF TypeOK
<1>8. TypeOK'
  BY <1>1, <1>7 DEF TypeOK
<1>9. ASSUME NEW d \in Cpu \ {c} PROVE Untouched(d)
  BY <1>1, <1>7 DEF Untouched
<1>10. Fits(c, x)'
  BY <1>1, <1>3 DEF Fits
<1>11. traced # {} => ipiOn' = {} /\ reports' = {} /\ reg'[PCore] <= 1
  BY <1>1 DEF IInv, OnlyCore0Wakes
<1>12. x.left = Increments(todo[c])
  BY <1>3 DEF Good
<1>13. Good(c, todo'[c], x)
  BY <1>6, <1>7
<1> QED
  BY <1>1, <1>2, <1>8, <1>9, <1>10, <1>11, <1>12, <1>13, RunKept

(***************************************************************************)
(* A core that starts has its whole program to do.                         *)
(***************************************************************************)
LEMMA FirmwareKept ==
  ASSUME IInv, NEW c \in Cpu, FirmwareStart(c)
  PROVE  IInv'
<1>1. /\ TypeOK /\ c \in startBox
      /\ startBox' = startBox \ {c} /\ started' = started \union {c}
      /\ todo' = [todo EXCEPT ![c] = Program(c)]
      /\ UNCHANGED <<mmu, lock, waking, reg, ipiBox, ipiOn, masked, gaveUp, reports, traced>>
  BY DEF IInv, FirmwareStart
<1>2. c \notin started /\ c # PCore /\ c \in Secondaries /\ Asleep(c)
  BY <1>1 DEF IInv, TypeOK, Core, Secondaries
<1>3. Program(c) \in Seq(Op) /\ Increments(Program(c)) \in Int
  BY ProgramCount
<1>4. /\ todo' \in [Cpu -> Seq(Op)] /\ todo'[c] = Program(c)
      /\ \A d \in Cpu \ {c} : todo'[d] = todo[d]
  BY <1>1, <1>3 DEF TypeOK
<1>5. TypeOK'
  BY <1>1, <1>4 DEF TypeOK
<1>6. ASSUME NEW d \in Cpu \ {c} PROVE Untouched(d)
  BY <1>1, <1>4 DEF Untouched
<1>7. waking' = waking + (Done(c)' - Done(c))
  <2>1. Done(c) = 0
    BY <1>2 DEF Done
  <2>2. Done(c)' = Increments(Program(c)) - Increments(Program(c))
    BY <1>1, <1>4 DEF Done
  <2> QED
    BY <1>1, <1>3, <2>1, <2>2 DEF TypeOK
<1>8. ASSUME c \notin traced PROVE Core(c)'
  <2>1. Good(c, todo'[c], Start(c)) /\ Start(c) \in View
    BY <1>2, <1>4, SecondaryGood, StartView
  <2>2. Start(c).held = {} /\ Start(c).knows = {} /\ Start(c).unsent = {}
    BY <1>2, StartView
  <2>3. {l \in Lock : lock'[l] = c} = {}
    BY <1>1, <1>2 DEF Asleep
  <2>4. c \notin ipiOn' /\ c \notin masked'
    BY <1>1, <1>2 DEF Asleep
  <2>5. Fits(c, Start(c))'
    BY <2>2, <2>3, <2>4 DEF Fits
  <2>6. Runs(c)'
    BY <2>1, <2>5 DEF Runs
  <2> QED
    BY <1>1, <1>8, <2>6 DEF Core
<1>9. ASSUME c \in traced PROVE Core(c)'
  <2>1. Program(c) # <<>> /\ c \notin mmu'
    BY <1>1, <1>2, SecondaryFront DEF Asleep
  <2>2. Stuck(c)'
    BY <1>4, <2>1 DEF Stuck
  <2> QED
    BY <1>1, <1>9, <2>2 DEF Core
<1>10. Core(c)'
  BY <1>8, <1>9
<1>11. traced # {} => ipiOn' = {} /\ reports' = {} /\ reg'[PCore] <= 1
  BY <1>1 DEF IInv, OnlyCore0Wakes
<1>12. PCore \in started'
  BY <1>1 DEF IInv
<1> QED
  BY <1>1, <1>5, <1>6, <1>7, <1>10, <1>11, <1>12, StepKept

(***************************************************************************)
(* An interrupt is taken where a core may hold the lock of the count only. *)
(***************************************************************************)
LEMMA IrqKept ==
  ASSUME IInv, NEW c \in Cpu, Irq(c)
  PROVE  IInv'
<1> DEFINE h == OutputAccessPolicy \o << <<"return", "irq">> >> \o todo[c]
<1>1. /\ TypeOK /\ c \in ipiOn /\ c \notin masked
      /\ masked' = masked \union {c} /\ ipiBox' = ipiBox \ {c}
      /\ todo' = [todo EXCEPT ![c] = h]
      /\ UNCHANGED <<mmu, lock, waking, reg, startBox, started, ipiOn, gaveUp, reports, traced>>
  BY DEF IInv, Irq
<1>2. c \in started /\ traced = {} /\ c \notin traced /\ Runs(c)
  BY <1>1 DEF IInv, Core, Asleep, OnlyCore0Wakes
<1>3. PICK y \in View : Good(c, todo[c], y) /\ Fits(c, y)
  BY <1>2 DEF Runs
<1>4. Open(y)
  BY <1>1, <1>3 DEF Fits, Open
<1> DEFINE x == [y EXCEPT !.knows = @ \union {"irq"}]
<1>5. x \in View /\ Good(c, h, x)
  BY <1>3, <1>4, HandlerGood
<1>6. x.held = y.held /\ x.unsent = y.unsent /\ x.left = y.left /\ x.knows = y.knows \union {"irq"}
  BY ViewFields DEF Views
<1> HIDE DEF x, h
<1>7. /\ todo' \in [Cpu -> Seq(Op)] /\ todo'[c] = h
      /\ \A d \in Cpu \ {c} : todo'[d] = todo[d]
  BY <1>1, <1>5 DEF TypeOK, Good
<1>8. TypeOK'
  BY <1>1, <1>7 DEF TypeOK
<1>9. ASSUME NEW d \in Cpu \ {c} PROVE Untouched(d)
  BY <1>1, <1>7 DEF Untouched
<1>10. Fits(c, x)'
  BY <1>1, <1>3, <1>6 DEF Fits
<1>11. traced # {} => ipiOn' = {} /\ reports' = {} /\ reg'[PCore] <= 1
  BY <1>2
<1>12. x.left = Increments(todo[c])
  BY <1>3, <1>6 DEF Good
<1>13. Good(c, todo'[c], x)
  BY <1>5, <1>7
<1> QED
  BY <1>1, <1>2, <1>5, <1>8, <1>9, <1>10, <1>11, <1>12, <1>13, RunKept

-----------------------------------------------------------------------------
(***************************************************************************)
(* The invariant holds in every state.                                     *)
(***************************************************************************)
LEMMA InitInv ==
  Init => IInv
<1> SUFFICES ASSUME Init PROVE IInv
  OBVIOUS
<1>1. /\ todo = [c \in Cpu |-> IF c = PCore THEN Program(c) ELSE <<>>]
      /\ mmu = {} /\ lock = [l \in Lock |-> Nobody]
      /\ waking = 0 /\ reg = [c \in Cpu |-> 0]
      /\ startBox = {} /\ started = {PCore}
      /\ ipiBox = {} /\ ipiOn = {} /\ masked = {} /\ gaveUp = FALSE /\ reports = {}
      /\ traced \in {{}, Secondaries}
  BY DEF Init
<1>2. PCore \in Cpu /\ PCore \notin Secondaries
  BY DEF PCore, Cpu, Secondaries
<1>3. Program(PCore) \in Seq(Op) /\ Increments(Program(PCore)) \in Int
  BY <1>2, ProgramCount
<1>4. todo \in [Cpu -> Seq(Op)]
  <2>1. <<>> \in Seq(Op)
    BY EmptySeq
  <2> QED
    BY <2>1, <1>1, <1>3
<1>5. TypeOK
  <2>1. lock \in [Lock -> Cpu \union {Nobody}] /\ reg \in [Cpu -> 0 .. 5] /\ waking \in 0 .. 5
    BY <1>1
  <2>2. mmu \subseteq Cpu /\ startBox \subseteq Cpu /\ started \subseteq Cpu
        /\ startBox \intersect started = {}
    BY <1>1, <1>2
  <2>3. ipiBox \subseteq {2, 3} /\ ipiOn \subseteq Cpu /\ masked \subseteq ipiOn
        /\ gaveUp \in BOOLEAN /\ reports \subseteq Cpu /\ traced \in {{}, Secondaries}
    BY <1>1
  <2> QED
    BY <1>4, <2>1, <2>2, <2>3 DEF TypeOK
<1>6. \A d \in Cpu, l \in Lock : lock[l] # d
  BY <1>1 DEF Cpu, Nobody
<1>7. Counted
  <2>1. Done(PCore) = 0
    BY <1>1, <1>2, <1>3 DEF Done
  <2>2. Done(1) = 0 /\ Done(2) = 0 /\ Done(3) = 0
    BY <1>1 DEF Done, PCore
  <2>3. Done(0) = 0
    BY <2>1 DEF PCore
  <2> QED
    BY <1>1, <2>2, <2>3 DEF Counted
<1>8. OnlyCore0Wakes /\ PCore \in started /\ reg[PCore] <= 1
  BY <1>1, <1>2 DEF OnlyCore0Wakes
<1>9. ASSUME NEW c \in Cpu PROVE Core(c)
  <2>1. CASE c = PCore
    <3>1. Good(c, todo[c], Start(c)) /\ Start(c) \in View
      BY <1>1, <1>2, <2>1, PrimaryGood, StartView
    <3>2. Start(c).held = {} /\ Start(c).knows = {} /\ Start(c).unsent = Secondaries
      BY <2>1, StartView
    <3>3. {l \in Lock : lock[l] = c} = {}
      BY <1>6
    <3>4. Secondaries \intersect (startBox \union started) = {}
      BY <1>1, <1>2
    <3>5. Fits(c, Start(c))
      BY <1>1, <2>1, <3>2, <3>3, <3>4 DEF Fits
    <3>6. Runs(c)
      BY <3>1, <3>5 DEF Runs
    <3> QED
      BY <1>1, <1>2, <2>1, <3>6 DEF Core
  <2>2. CASE c # PCore
    BY <1>1, <1>6, <2>2 DEF Core, Asleep
  <2> QED
    BY <2>1, <2>2
<1> QED
  BY <1>5, <1>7, <1>8, <1>9 DEF IInv

LEMMA StutterKept ==
  ASSUME IInv, UNCHANGED vars
  PROVE  IInv'
<1>1. /\ todo' = todo /\ mmu' = mmu /\ lock' = lock /\ waking' = waking /\ reg' = reg
      /\ startBox' = startBox /\ started' = started /\ ipiBox' = ipiBox /\ ipiOn' = ipiOn
      /\ masked' = masked /\ gaveUp' = gaveUp /\ reports' = reports /\ traced' = traced
  BY DEF vars, mailVars
<1>2. TypeOK'
  BY <1>1 DEF TypeOK, IInv
<1>3. Counted'
  BY <1>1 DEF Counted, Done, IInv
<1>4. ASSUME NEW d \in Cpu PROVE Core(d)'
  <2>1. Untouched(d)
    BY <1>1 DEF Untouched
  <2> QED
    BY <2>1, UntouchedKept DEF IInv
<1> QED
  BY <1>1, <1>2, <1>3, <1>4 DEF IInv, OnlyCore0Wakes

LEMMA NextInv ==
  IInv /\ [Next]_vars => IInv'
<1> SUFFICES ASSUME IInv, [Next]_vars PROVE IInv'
  OBVIOUS
<1>1. ASSUME NEW c \in Cpu, SpinReq(c) PROVE IInv'
  BY <1>1, ReqKept
<1>2. ASSUME NEW c \in Cpu, SpinRel(c) PROVE IInv'
  BY <1>2, RelKept
<1>3. ASSUME NEW c \in Cpu, UartPuts(c) PROVE IInv'
  BY <1>3, PutsKept
<1>4. ASSUME NEW c \in Cpu, Load(c) PROVE IInv'
  BY <1>4, LoadKept
<1>5. ASSUME NEW c \in Cpu, Store(c) PROVE IInv'
  BY <1>5, StoreKept
<1>6. ASSUME NEW c \in Cpu, EnableMmu(c) PROVE IInv'
  BY <1>6, MmuKept
<1>7. ASSUME NEW c \in Cpu, EnableIpi(c) PROVE IInv'
  BY <1>7, EnableKept
<1>8. ASSUME NEW c \in Cpu, Report(c) PROVE IInv'
  BY <1>8, ReportKept
<1>9. ASSUME NEW c \in Cpu, ReturnFromIrq(c) PROVE IInv'
  BY <1>9, ReturnKept
<1>10. ASSUME NEW c \in Cpu, SendAddress(c) PROVE IInv'
  BY <1>10, SendKept
<1>11. ASSUME NEW c \in Cpu, Answered(c) PROVE IInv'
  BY <1>11, AnsweredKept
<1>12. ASSUME NEW c \in Cpu, TimedOut(c) PROVE IInv'
  BY <1>12, TimedOutKept
<1>13. ASSUME NEW c \in Cpu, TestCount(c) PROVE IInv'
  BY <1>13, TestKept
<1>14. ASSUME NEW c \in Cpu, SendIpi(c) PROVE IInv'
  BY <1>14, IpiKept
<1>15. ASSUME NEW c \in Cpu, FirmwareStart(c) PROVE IInv'
  BY <1>15, FirmwareKept
<1>16. ASSUME NEW c \in Cpu, Irq(c) PROVE IInv'
  BY <1>16, IrqKept
<1>17. CASE InfLoop \/ SpinForEver \/ UNCHANGED vars
  BY <1>17, StutterKept DEF InfLoop, SpinForEver
<1> QED
  BY <1>1, <1>2, <1>3, <1>4, <1>5, <1>6, <1>7, <1>8, <1>9, <1>10, <1>11, <1>12, <1>13,
     <1>14, <1>15, <1>16, <1>17 DEF Next, Step

THEOREM Invariance == Spec => []IInv
<1>1. Init => IInv
  BY InitInv
<1>2. IInv /\ [Next]_vars => IInv'
  BY NextInv
<1> QED
  BY <1>1, <1>2, PTL DEF Spec

(***************************************************************************)
(* A core that waits for a lock holds only locks before it in the order    *)
(* info, exp, uart: a ring would have to go up for ever.  A core that is   *)
(* stuck waits for uart_lock, whose holder waits for no other core.        *)
(***************************************************************************)
LEMMA RingFree ==
  IInv => NoWaitRing
<1> SUFFICES ASSUME IInv, NEW S \in (SUBSET Cpu) \ {{}},
                    \A c \in S : Waiting(c) /\ lock[Arg(c)] \in S,
                    \A c \in S : ~ WaitsToTrace(c)
             PROVE  FALSE
  BY DEF NoWaitRing
<1>r. ASSUME NEW c \in S, c \notin traced
      PROVE  Arg(c) \in Lock /\ \A l \in Lock : lock[l] = c => l \in Under(Arg(c))
  <2>1. c \in Cpu /\ TypeOK /\ todo[c] # <<>> /\ Head(todo[c])[1] = "req"
    BY DEF Waiting, Next1, IInv
  <2>2. PICK x, y \in View :
          /\ Good(c, todo[c], x) /\ Fits(c, x)
          /\ Rule(c, x, Head(todo[c]), y) /\ Good(c, Tail(todo[c]), y)
    BY <1>r, <2>1, NextRuns, RunsNext
  <2>3. ReqRule(x, Arg(c), y) /\ Arg(c) \in Lock
    BY <2>1, <2>2, NextOp, OpNames DEF Rule, Arg
  <2>4. x.held = {l \in Lock : lock[l] = c} /\ x.held \subseteq Under(Arg(c))
    BY <2>2, <2>3 DEF Fits, ReqRule
  <2> QED
    BY <2>3, <2>4
<1>s. ASSUME NEW c \in S PROVE c \notin traced
  <2> SUFFICES ASSUME c \in traced PROVE FALSE
    OBVIOUS
  <2>1. todo[c] # <<>> /\ Head(todo[c])[1] = "req" /\ lock[Arg(c)] \in S /\ c \in Cpu
    BY DEF Waiting, Next1
  <2>2. Head(todo[c]) \in {Puts, Req("uart"), <<"mmu", "on">>}
    BY <2>1, StuckHead
  <2>3. Arg(c) = "uart"
    BY <2>1, <2>2 DEF Puts, Req, Arg
  <2> DEFINE d == lock["uart"]
  <2>4. d \in S /\ d \in Cpu /\ Waiting(d)
    BY <2>1, <2>3
  <2>5. CASE d \in traced
    <3>1. todo[d] # <<>> /\ Head(todo[d])[1] = "req"
      BY <2>4 DEF Waiting, Next1
    <3>2. Head(todo[d]) \in {Puts, Req("uart"), <<"mmu", "on">>}
      BY <2>4, <2>5, <3>1, StuckHead
    <3>3. Arg(d) = "uart"
      BY <3>1, <3>2 DEF Puts, Req, Arg
    <3> QED
      BY <2>4, <2>5, <3>3 DEF WaitsToTrace
  <2>6. CASE d \notin traced
    <3>1. Arg(d) \in Lock /\ "uart" \in Under(Arg(d))
      BY <2>4, <2>6, <1>r DEF Lock
    <3> QED
      BY <3>1 DEF Under, Lock
  <2> QED
    BY <2>5, <2>6
<1>1. ASSUME NEW c \in S
      PROVE  Arg(c) \in Lock /\ \A l \in Lock : lock[l] = c => l \in Under(Arg(c))
  BY <1>r, <1>s
<1>2. ASSUME NEW c \in S
      PROVE  lock[Arg(c)] \in S /\ Arg(c) \in Under(Arg(lock[Arg(c)]))
  BY <1>1
<1>3. ASSUME NEW c \in S PROVE Arg(c) \in {"info", "exp"}
  <2>1. Arg(c) \in Under(Arg(lock[Arg(c)])) /\ Arg(lock[Arg(c)]) \in Lock
    BY <1>1, <1>2
  <2> QED
    BY <2>1 DEF Under, Lock
<1>4. ASSUME NEW c \in S PROVE Arg(c) = "info"
  <2>1. Arg(c) \in Under(Arg(lock[Arg(c)])) /\ Arg(lock[Arg(c)]) \in {"info", "exp"}
    BY <1>2, <1>3
  <2> QED
    BY <2>1 DEF Under
<1>5. PICK c \in S : TRUE
  OBVIOUS
<1>6. Arg(c) \in Under(Arg(lock[Arg(c)])) /\ Arg(lock[Arg(c)]) = "info"
  BY <1>2, <1>4
<1> QED
  BY <1>6 DEF Under

(***************************************************************************)
(* The start of the cores, whichever cores are slow.  What is left to a    *)
(* core are operations of the model, and its count stays below 6.          *)
(***************************************************************************)
THEOREM TypeCorrect == Spec => []TypeOK
<1>1. IInv => TypeOK
  BY DEF IInv
<1> QED
  BY <1>1, Invariance, PTL

(***************************************************************************)
(* No cores ever wait for each other in a ring for the locks of the        *)
(* console, of the count and of the report, interrupts included, but for a *)
(* core that waits for itself to print that it has got uart_lock.          *)
(***************************************************************************)
THEOREM NoRing == Spec => []NoWaitRing
BY RingFree, Invariance, PTL

(***************************************************************************)
(* waking_cores is at every moment the number of increments the cores      *)
(* have done: none is lost between its read and its write.                 *)
(***************************************************************************)
THEOREM CountKeptAlways == Spec => []Counted
<1>1. IInv => Counted
  BY DEF IInv
<1> QED
  BY <1>1, Invariance, PTL

(***************************************************************************)
(* With the prints inside spin_req no core but 0 is ever counted, enables  *)
(* its mailbox interrupts or reports, and core 0 never leaves its loop.    *)
(***************************************************************************)
THEOREM StuckForEver == Spec => []OnlyCore0Wakes
<1>1. IInv => OnlyCore0Wakes
  BY DEF IInv
<1> QED
  BY <1>1, Invariance, PTL

(***************************************************************************)
(* How the callers of spin_req and spin_rel use the locks: only the owner  *)
(* gives one back, which SpinLock takes for granted; a count is stored     *)
(* with its lock and only while the copy is the count; and where an        *)
(* interrupt can come a core has at most the lock of the count, which no   *)
(* handler takes.                                                          *)
(***************************************************************************)
LockUse ==
  \A c \in Cpu :
    /\ Next1(c, "rel") => lock[Arg(c)] = c
    /\ Next1(c, "store") => lock["info"] = c /\ reg[c] = waking
    /\ c \in ipiOn \ masked => \A l \in Lock : lock[l] = c => l = "info"

THEOREM LocksUsed == Spec => []LockUse
<1>1. IInv => LockUse
  <2> SUFFICES ASSUME IInv, NEW c \in Cpu
               PROVE  /\ Next1(c, "rel") => lock[Arg(c)] = c
                      /\ Next1(c, "store") => lock["info"] = c /\ reg[c] = waking
                      /\ c \in ipiOn \ masked => \A l \in Lock : lock[l] = c => l = "info"
    BY DEF LockUse
  <2>1. ASSUME Next1(c, "rel") PROVE lock[Arg(c)] = c
    <3>1. todo[c] # <<>> /\ Head(todo[c])[1] = "rel"
      BY <2>1 DEF Next1
    <3>2. PICK x, y \in View : Fits(c, x) /\ Rule(c, x, Head(todo[c]), y)
      BY <3>1, Running
    <3>3. Arg(c) \in x.held
      BY <3>1, <3>2 DEF Rule, RelRule, Arg
    <3> QED
      BY <3>2, <3>3 DEF Fits
  <2>2. ASSUME Next1(c, "store") PROVE lock["info"] = c /\ reg[c] = waking
    <3>1. todo[c] # <<>> /\ Head(todo[c])[1] = "store"
      BY <2>2 DEF Next1
    <3>2. PICK x, y \in View : Fits(c, x) /\ Rule(c, x, Head(todo[c]), y)
      BY <3>1, Running
    <3>3. "fresh" \in x.knows
      BY <3>1, <3>2 DEF Rule, StoreRule
    <3> QED
      BY <3>2, <3>3 DEF Fits
  <2>3. ASSUME c \in ipiOn \ masked, NEW l \in Lock, lock[l] = c PROVE l = "info"
    <3>1. c \in started /\ c \notin traced
      BY <2>3 DEF IInv, Core, Asleep, OnlyCore0Wakes
    <3>2. PICK x \in View : Fits(c, x)
      BY <3>1 DEF IInv, Core, Runs
    <3>3. Open(x) /\ l \in x.held
      BY <2>3, <3>2 DEF Fits, Open
    <3> QED
      BY <3>2, <3>3 DEF View
  <2> QED
    BY <2>1, <2>2, <2>3
<1> QED
  BY <1>1, Invariance, PTL
=============================================================================
