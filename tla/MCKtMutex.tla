------------------------------ MODULE MCKtMutex ------------------------------
(* Three threads: one that holds, one that acquires next, and one whose    *)
(* reads of locked and owner fall between their writes.                    *)
EXTENDS KtMutex, TLC

CONSTANTS t1, t2, t3

MCSym == Permutations({t1, t2, t3})
=============================================================================
