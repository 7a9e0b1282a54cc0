-------------------------------- MODULE Heap --------------------------------
(***************************************************************************)
(* _malloc and _free (util.c), behind kmalloc and kfree: a circular list   *)
(* of free blocks, in the order of their addresses, with the block base of *)
(* size 0 at the bottom of the heap as its sentinel.                       *)
(*                                                                         *)
(* An address counts units of HEAP_UNIT_SIZE from the bottom.  mem has the *)
(* headers that stand in front of a block; every other unit belongs to the *)
(* contents of a block, which the two functions never read as a header     *)
(* (TLC would stop at an address outside the domain of mem).               *)
(*                                                                         *)
(* freep is what kernel_heap_freep says.  The functions assign their own   *)
(* copy of it only, so that it never changes.  init_sysinfos sets it to    *)
(* NULL and no code of the program makes a first block: Init has that      *)
(* state, and the one with a single free block that the functions expect.  *)
(***************************************************************************)
EXTENDS Integers, FiniteSetsExt

CONSTANTS Units,        \* the size of the heap in units
          HeapUnitSize, \* HEAP_UNIT_SIZE, the bytes of a header
          Requests      \* the sizes asked for, in bytes

ASSUME HeapAssumption ==
  Units \in Nat \ {0, 1} /\ HeapUnitSize \in Nat \ {0} /\ Requests \subseteq Nat

Addr == 0 .. Units - 1
Null == Units
Base == 0

VARIABLES mem,     \* the headers: next free block and size in units
          freep,   \* where the callers say the list starts
          held     \* what the owner of each allocated block asked for
vars == <<mem, freep, held>>

Header == [ptr : Addr, size : 0 .. Units]

TypeOK ==
  /\ DOMAIN mem \subseteq Addr /\ \A a \in DOMAIN mem : mem[a] \in Header
  /\ freep \in {Base, Null}
  /\ DOMAIN held \subseteq DOMAIN mem /\ \A a \in DOMAIN held : held[a] \in Requests

Nothing == [a \in {} |-> 0]

Init ==
  /\ held = Nothing
  /\ \/ freep = Null /\ mem = Nothing
     \/ freep = Base /\ mem = [a \in {0, 1} |-> IF a = Base
                                 THEN [ptr |-> 1, size |-> 0]
                                 ELSE [ptr |-> Base, size |-> Units - 1]]
-----------------------------------------------------------------------------
\* The units for so many bytes and a header.
NUnits(nbytes) == (nbytes + HeapUnitSize - 1) \div HeapUnitSize + 1

\* The list m from a block on: the block after k steps.
Chain(m, from) ==
  LET at[k \in Nat] == IF k = 0 THEN from ELSE m[at[k - 1]].ptr IN at

Steps(m) == 0 .. Cardinality(DOMAIN m)

(***************************************************************************)
(* The loop of _malloc: prevp after k steps has a next block that is big   *)
(* enough, or is the start of the list again.                              *)
(***************************************************************************)
FirstFit(m, n) ==
  LET at == Chain(m, Base)
      k  == Min({i \in Steps(m) : m[at[i + 1]].size >= n \/ at[i + 1] = Base})
  IN [prevp |-> at[k], p |-> at[k + 1]]

\* The list _malloc works on: an empty one is made of base alone.
List == IF freep = Null THEN [a \in {Base} |-> [ptr |-> Base, size |-> 0]] ELSE mem

Set(m, a, ptr, size) ==
  [x \in DOMAIN m \union {a} |-> IF x = a THEN [ptr |-> ptr, size |-> size] ELSE m[x]]

SetPtr(m, a, ptr) == [m EXCEPT ![a].ptr = ptr]

Keep(f, D) == [a \in D |-> f[a]]

(***************************************************************************)
(* A block of the right size leaves the list; of a larger one the tail is  *)
(* given.  The ptr of a block with an owner is left over: here it is Base. *)
(* The mutant computes the tail before it has taken n from the size.       *)
(***************************************************************************)
TakeExact(m, prevp, p) == SetPtr(SetPtr(m, prevp, m[p].ptr), p, Base)

TailUnshrunk(m, p, n) == p + m[p].size
Tail(m, p, n) == p + m[p].size - n

SplitTail(m, p, n) == Set([m EXCEPT ![p].size = @ - n], Tail(m, p, n), Base, n)

Malloc(nbytes) ==
  LET n == NUnits(nbytes)
      f == FirstFit(List, n)
      size == List[f.p].size
      Give(p) == held' = [a \in DOMAIN held \union {p} |->
                            IF a = p THEN nbytes ELSE held[a]]
  IN /\ UNCHANGED freep
     /\ \/ size < n /\ mem' = List /\ UNCHANGED held         \* none left: NULL
        \/ size = n /\ mem' = TakeExact(List, f.prevp, f.p) /\ Give(f.p)
        \/ size > n /\ mem' = SplitTail(List, f.p, n) /\ Give(Tail(List, f.p, n))

(***************************************************************************)
(* The loop of _free: prevp is the block before p in the list, or the last *)
(* one when p is above it or below the first.  The mutant does not look.   *)
(***************************************************************************)
BeforeUnsearched(m, p) == Base
Before(m, p) ==
  LET at == Chain(m, Base)
      Between(a) == p > a /\ p < m[a].ptr
      AtEnd(a)   == a >= m[a].ptr /\ (p > a \/ p < m[a].ptr)
  IN at[Min({i \in Steps(m) : Between(at[i]) \/ AtEnd(at[i])})]

\* p takes the free block behind it in; the mutant keeps its own size.
JoinUpperUnsized(m, p, next) ==
  IF p + m[p].size = next
    THEN Keep(SetPtr(m, p, m[next].ptr), DOMAIN m \ {next})
    ELSE SetPtr(m, p, next)
JoinUpper(m, p, next) ==
  IF p + m[p].size = next
    THEN Keep(Set(m, p, m[next].ptr, m[p].size + m[next].size), DOMAIN m \ {next})
    ELSE SetPtr(m, p, next)

\* The free block before p takes p in; one mutant only links it, the other
\* does not look whether it ends where p begins.
JoinLowerLinked(m, prevp, p) == SetPtr(m, prevp, p)
JoinLowerUnchecked(m, prevp, p) ==
  Keep(Set(m, prevp, m[p].ptr, m[prevp].size + m[p].size), DOMAIN m \ {p})
JoinLower(m, prevp, p) ==
  IF prevp + m[prevp].size = p
    THEN Keep(Set(m, prevp, m[p].ptr, m[prevp].size + m[p].size), DOMAIN m \ {p})
    ELSE SetPtr(m, prevp, p)

Free(p) ==
  LET prevp == Before(mem, p)
  IN /\ mem'  = JoinLower(JoinUpper(mem, p, mem[prevp].ptr), prevp, p)
     /\ held' = Keep(held, DOMAIN held \ {p})
     /\ UNCHANGED freep

Next ==
  \/ \E nbytes \in Requests : Malloc(nbytes)
  \/ \E p \in DOMAIN held : Free(p)

Spec == Init /\ [][Next]_vars
-----------------------------------------------------------------------------
OnList == {Chain(List, Base)[k] : k \in Steps(List)}
Block(a) == a .. a + mem[a].size - 1

(***************************************************************************)
(* Every block has an owner or is on the list, two blocks never overlap,   *)
(* none goes past the heap, and together they are the heap: no sequence of *)
(* calls loses a unit or gives it to two owners.                           *)
(***************************************************************************)
Partition ==
  freep = Base =>
    /\ DOMAIN mem = OnList \union DOMAIN held /\ OnList \intersect DOMAIN held = {}
    /\ UNION {Block(a) : a \in DOMAIN mem} = 1 .. Units - 1
    /\ \A a, b \in DOMAIN mem : a # b => Block(a) \intersect Block(b) = {}

(***************************************************************************)
(* Following the list from base, which _free needs to find its place, one  *)
(* meets every free block once, at growing addresses, and base again.      *)
(***************************************************************************)
ListInOrder ==
  \A a \in OnList :
    LET above == {b \in OnList : b > a}
    IN List[a].ptr = IF above = {} THEN Base ELSE Min(above)

(***************************************************************************)
(* util.c:103, "none left": _malloc returns NULL only when nobody could    *)
(* have the memory: no run of units that no owner holds is long enough.    *)
(* For that _free has to join every block with its neighbours.             *)
(***************************************************************************)
NoneLeft ==
  freep = Base =>
    \A nbytes \in Requests :
      LET n == NUnits(nbytes)
          owned == UNION {Block(a) : a \in DOMAIN held}
      IN mem[FirstFit(mem, n).p].size < n =>
           \A a \in 1 .. Units - n : (a .. a + n - 1) \intersect owned # {}

(***************************************************************************)
(* _malloc and _free implement the allocator their callers rely on: every  *)
(* call gives one block, which nobody has, or takes one back, or changes   *)
(* nothing of what the owners have, neither the place nor the size.        *)
(***************************************************************************)
Owned == [a \in DOMAIN held |-> [size |-> mem[a].size, asked |-> held[a]]]

A == INSTANCE Allocator WITH owned <- Owned

ImplementsAllocator == A!Spec
=============================================================================
