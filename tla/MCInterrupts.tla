---------------------------- MODULE MCInterrupts ----------------------------
(* The two interrupts ipi_handler knows; a stray line before and after the  *)
(* UART's.                                                                  *)
EXTENDS Interrupts

MCIpi   == {1, 2}
MCStray == {9, 64}
=============================================================================
