----------------------------- MODULE Allocator ------------------------------
(***************************************************************************)
(* What kmalloc and kfree (src/util.c) promise their callers: a block that *)
(* is given lies in the heap, is just large enough for the bytes asked for *)
(* and has no unit of a block with an owner; it stays as it is, whatever   *)
(* others ask for and give back, until its owner gives it back.  Which     *)
(* block is given is not promised.                                         *)
(***************************************************************************)
EXTENDS Integers

CONSTANTS Units,        \* the heap has the units 1 .. Units - 1 for blocks
          HeapUnitSize, \* the bytes of a unit; a header takes one
          Requests      \* the sizes asked for, in bytes

VARIABLE owned   \* for the first unit of each block with an owner: its
                 \* units, and the bytes asked for

Span(a) == a .. a + owned[a].size - 1

\* A block of n units has a header and room for the bytes.
Enough(n, nbytes) == (n - 1) * HeapUnitSize >= nbytes

Init == owned = [a \in {} |-> 0]

Give(nbytes) ==
  \E n \in 1 .. Units - 1 :
    /\ Enough(n, nbytes) /\ ~ Enough(n - 1, nbytes)
    /\ \E a \in 1 .. Units - n :
         /\ \A b \in DOMAIN owned : Span(b) \intersect (a .. a + n - 1) = {}
         /\ owned' = [b \in DOMAIN owned \union {a} |->
                        IF b = a THEN [size |-> n, asked |-> nbytes] ELSE owned[b]]

TakeBack(a) == owned' = [b \in DOMAIN owned \ {a} |-> owned[b]]

Next ==
  \/ \E nbytes \in Requests : Give(nbytes)
  \/ \E a \in DOMAIN owned : TakeBack(a)

Spec == Init /\ [][Next]_owned
=============================================================================
