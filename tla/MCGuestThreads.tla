---------------------------- MODULE MCGuestThreads ----------------------------
(* One worker with four callers of which one is the worker itself, and     *)
(* three threads at a pthread_once.  The two share nothing; their steps    *)
(* interleave.                                                             *)
EXTENDS KtThread, PthreadOnce

CONSTANTS self, c1, c2, c3, t1, t2, t3

ThreadsInit == Init /\ OnceInit

ThreadsNext == \/ Next /\ UNCHANGED onceVars
               \/ OnceNext /\ UNCHANGED vars

ThreadsSpec == ThreadsInit /\ [][ThreadsNext]_<<vars, onceVars>>
FairThreadsSpec == ThreadsSpec /\ Fairness
=============================================================================
