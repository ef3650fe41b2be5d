---------------------------- MODULE ReentrantLock ----------------------------
(***************************************************************************)
(* What a mutex promises the threads that use it: each call that changes   *)
(* who has it, and how often, does so in one step, and never while another *)
(* thread has it.  KtMutex implements it (KtMutex!Abstract), although its  *)
(* calls take many steps and begin by reading fields another thread may be *)
(* writing.                                                                *)
(***************************************************************************)
EXTENDS Integers

CONSTANT Thread

VARIABLES
    recursive,  \* the lock may be taken again by the thread that has it
    depth,      \* depth[t]: how often t has it
    destroyed

vars == <<recursive, depth, destroyed>>

Free == \A u \in Thread : depth[u] = 0

Init ==
    /\ recursive \in BOOLEAN
    /\ depth = [t \in Thread |-> 0]
    /\ destroyed = FALSE

Grant(t) ==
    /\ ~destroyed
    /\ Free
    /\ depth' = [depth EXCEPT ![t] = 1]
    /\ UNCHANGED <<recursive, destroyed>>

Again(t) ==
    /\ recursive
    /\ depth[t] > 0
    /\ depth' = [depth EXCEPT ![t] = @ + 1]
    /\ UNCHANGED <<recursive, destroyed>>

(* One level off, or for a last level the lock itself. *)
Leave(t) ==
    /\ depth[t] > 0
    /\ depth' = [depth EXCEPT ![t] = @ - 1]
    /\ UNCHANGED <<recursive, destroyed>>

Destroy ==
    /\ ~destroyed
    /\ Free
    /\ destroyed' = TRUE
    /\ UNCHANGED <<recursive, depth>>

Next == Destroy \/ \E t \in Thread : Grant(t) \/ Again(t) \/ Leave(t)

Spec == Init /\ [][Next]_vars
=============================================================================
