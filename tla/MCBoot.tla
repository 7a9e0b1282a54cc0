------------------------------- MODULE MCBoot -------------------------------
(* Any core but core 0 may answer too late.                                 *)
EXTENDS Boot

MCSlow == Secondaries
=============================================================================
