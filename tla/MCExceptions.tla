---------------------------- MODULE MCExceptions ----------------------------
(* The constants are given in the configurations. *)
EXTENDS Exceptions
=============================================================================
