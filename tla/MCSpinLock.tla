----------------------------- MODULE MCSpinLock -----------------------------
(* The spin lock with the four cores of the BCM2836; the constants are      *)
(* given in the configuration.                                              *)
EXTENDS SpinLock
=============================================================================
