------------------------------- MODULE MCKtSem -------------------------------
(* Three threads, two tokens, requests of one and two tokens: two waiters  *)
(* of different size and a third thread that posts, cancels or deletes.    *)
EXTENDS KtSem

CONSTANTS t1, t2, t3
=============================================================================
