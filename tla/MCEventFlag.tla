----------------------------- MODULE MCEventFlag -----------------------------
(* One guest thread owns the flag and may use clearing requests, the other *)
(* only waits and polls.  What tells "all" from "any" is in MCKtEvent.     *)
EXTENDS EventFlag

CONSTANTS owner, other, b1

OneBit(mode) == [pattern |-> {b1}, all |-> FALSE, clear |-> mode]
Requests == {OneBit("pattern"), OneBit("all"), OneBit("none")}

Owned == [t \in {owner, other} |->
            IF t = owner THEN Requests \ {OneBit("none")} ELSE {OneBit("none")}]
OtherClears == [t \in {owner, other} |-> IF t = owner THEN {} ELSE {OneBit("pattern")}]
SharedOneBit == [t \in {owner, other} |-> {OneBit("pattern")}]
=============================================================================
