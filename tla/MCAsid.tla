------------------------------- MODULE MCAsid -------------------------------
(***************************************************************************)
(* Identifiers in small: two or three per core instead of 64.  A run goes  *)
(* on until a second kind of misuse has happened.                          *)
(***************************************************************************)
EXTENDS Asid, FiniteSets, TLC

Symmetry == Permutations(Task)

OneMisuse == Cardinality(misuse) <= 1
=============================================================================
