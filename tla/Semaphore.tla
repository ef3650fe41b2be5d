------------------------------ MODULE Semaphore ------------------------------
(***************************************************************************)
(* What a counting semaphore with multi-token requests promises its        *)
(* callers, with no lock, no condition variable and no wake-up in sight.   *)
(* KtSem implements it (KtSem!Abstract).                                   *)
(*                                                                         *)
(* A caller whose request cannot be met parks; tokens go to a caller only  *)
(* as one whole request; a parked caller leaves with its tokens (Grant) or *)
(* without them (Abandon: timeout, cancel or delete).                      *)
(***************************************************************************)
EXTENDS Integers

CONSTANTS Thread, MaxValue, InitValue, Count

VARIABLES
    tokens,   \* tokens nobody holds
    parked,   \* callers whose request is pending
    want,     \* want[t]: the size of t's pending request, 0 when t has none
    served    \* callers whose last request was met

vars == <<tokens, parked, want, served>>

Init ==
    /\ tokens = InitValue
    /\ parked = {}
    /\ want = [t \in Thread |-> 0]
    /\ served = {}

(* A request that can be met is met at once. *)
Take(t, n) ==
    /\ t \notin parked
    /\ tokens >= n
    /\ tokens' = tokens - n
    /\ served' = served \union {t}
    /\ UNCHANGED <<parked, want>>

(* A request is turned away: it was not to wait, or not after a cancel or  *)
(* a delete.                                                               *)
Refuse(t) ==
    /\ t \notin parked
    /\ served' = served \ {t}
    /\ UNCHANGED <<tokens, parked, want>>

(* Nobody parks in front of enough tokens. *)
Park(t, n) ==
    /\ t \notin parked
    /\ tokens < n
    /\ parked' = parked \union {t}
    /\ want' = [want EXCEPT ![t] = n]
    /\ served' = served \ {t}
    /\ UNCHANGED tokens

Grant(t) ==
    /\ t \in parked
    /\ tokens >= want[t]
    /\ tokens' = tokens - want[t]
    /\ served' = served \union {t}
    /\ parked' = parked \ {t}
    /\ want' = [want EXCEPT ![t] = 0]

Abandon(t) ==
    /\ t \in parked
    /\ parked' = parked \ {t}
    /\ want' = [want EXCEPT ![t] = 0]
    /\ served' = served \ {t}
    /\ UNCHANGED tokens

Release(n) ==
    /\ tokens + n <= MaxValue
    /\ tokens' = tokens + n
    /\ UNCHANGED <<parked, want, served>>

Assign(v) ==
    /\ tokens' = v
    /\ UNCHANGED <<parked, want, served>>

Next ==
    \/ \E t \in Thread, n \in Count : Take(t, n) \/ Park(t, n)
    \/ \E t \in Thread : Grant(t) \/ Abandon(t) \/ Refuse(t)
    \/ \E n \in Count : Release(n)
    \/ \E v \in 0..MaxValue : Assign(v)

Spec == Init /\ [][Next]_vars

(* A caller in front of enough tokens is not passed over for ever. *)
FairSpec == Spec /\ \A t \in Thread : WF_vars(Grant(t))
=============================================================================
