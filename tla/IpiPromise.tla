----------------------------- MODULE IpiPromise -----------------------------
(***************************************************************************)
(* What send_ipi and local_int_handler promise about one core: an          *)
(* interrupt that was sent is owed until its handler starts, a handler     *)
(* starts only for an interrupt that is owed, and none while another one   *)
(* is held up, and no interrupt is owed for ever if none is held up again  *)
(* and again.  Sending one that is owed already changes nothing.           *)
(***************************************************************************)
CONSTANT Ipi       \* the interrupts

VARIABLES
  owed,      \* those sent whose handler has not started since
  held       \* whether a handler is held up: an input, which changes at any time

TypeOK == owed \subseteq Ipi /\ held \in BOOLEAN

Init == owed = {}

Send(i)  == owed' = owed \union {i}
Start(i) == ~held /\ i \in owed /\ owed' = owed \ {i}

Next == \E i \in Ipi : Send(i) \/ Start(i)

Spec == Init /\ [][Next]_owed /\ \A i \in Ipi : WF_owed(Start(i))
=============================================================================
