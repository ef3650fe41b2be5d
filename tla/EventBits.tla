------------------------------ MODULE EventBits ------------------------------
(***************************************************************************)
(* What an event flag promises its callers: a set of bits, and requests    *)
(* that are granted in one indivisible look, take off what they clear and  *)
(* leave nothing of it for a second caller.  KtEvent implements it.        *)
(***************************************************************************)
EXTENDS Integers

CONSTANTS Thread, Bit, InitBits, Request

VARIABLES
    flag,     \* the bits that are set
    parked,   \* callers whose request is pending
    want,     \* the pending request of a parked caller
    served    \* callers whose last request was granted

vars == <<flag, parked, want, served>>

NoRequest == [pattern |-> {}, all |-> FALSE, clear |-> "none"]

Satisfied(r) == IF r.all THEN \A b \in r.pattern : b \in flag
                         ELSE \E b \in r.pattern : b \in flag

Left(r) == {b \in flag : r.clear = "none" \/ (r.clear = "pattern" /\ b \notin r.pattern)}

Init ==
    /\ flag = InitBits
    /\ parked = {}
    /\ want = [t \in Thread |-> NoRequest]
    /\ served = {}

(* A request that can be met is met at once. *)
Take(t, r) ==
    /\ t \notin parked
    /\ Satisfied(r)
    /\ flag' = Left(r)
    /\ served' = served \union {t}
    /\ UNCHANGED <<parked, want>>

(* A request is turned away: it was not to wait, or not after a cancel or  *)
(* a delete.                                                               *)
Refuse(t) ==
    /\ t \notin parked
    /\ served' = served \ {t}
    /\ UNCHANGED <<flag, parked, want>>

(* Nobody parks in front of its bits. *)
Park(t, r) ==
    /\ t \notin parked
    /\ ~Satisfied(r)
    /\ parked' = parked \union {t}
    /\ want' = [want EXCEPT ![t] = r]
    /\ served' = served \ {t}
    /\ UNCHANGED flag

Unpark(t) ==
    /\ t \in parked
    /\ parked' = parked \ {t}
    /\ want' = [want EXCEPT ![t] = NoRequest]

Grant(t) ==
    /\ Unpark(t)
    /\ Satisfied(want[t])
    /\ flag' = Left(want[t])
    /\ served' = served \union {t}

(* Timeout, cancel or delete. *)
Abandon(t) ==
    /\ Unpark(t)
    /\ served' = served \ {t}
    /\ UNCHANGED flag

(* Set, clear and cancel. *)
Assign(f) ==
    /\ flag' = f
    /\ UNCHANGED <<parked, want, served>>

Next ==
    \/ \E f \in SUBSET Bit : Assign(f)
    \/ \E t \in Thread :
        \/ Grant(t) \/ Abandon(t) \/ Refuse(t)
        \/ \E r \in Request : Take(t, r) \/ Park(t, r)

Spec == Init /\ [][Next]_vars

FairSpec == Spec /\ \A t \in Thread : WF_vars(Grant(t))
=============================================================================
