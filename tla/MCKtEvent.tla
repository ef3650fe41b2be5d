------------------------------ MODULE MCKtEvent ------------------------------
(* Three threads on a flag of two bits.  The requests cover both matching  *)
(* modes, the three clear modes, and a wait that a clearing wait can rob.  *)
EXTENDS KtEvent

CONSTANTS t1, t2, t3, b1, b2

Requests == {[pattern |-> {b1, b2}, all |-> TRUE, clear |-> "none"],
             [pattern |-> {b1}, all |-> TRUE, clear |-> "pattern"],
             [pattern |-> {b1, b2}, all |-> FALSE, clear |-> "all"]}
=============================================================================
