------------------------------- MODULE KtEvent -------------------------------
(***************************************************************************)
(* The native event flag of kt_runtime.elisa (struct KtEvent): a set of    *)
(* bits under a host mutex, waits for all or any bits of a pattern that    *)
(* may clear bits as they are granted, timed waits, cancel and delete.     *)
(*                                                                         *)
(* One locked section is one step, as in KtSem.  destroy_requested is set  *)
(* with deleted and nowhere else, so deleted stands for both.              *)
(*                                                                         *)
(* Guest contract (Alive): no call starts on an event flag whose native    *)
(* objects are being or have been destroyed.                               *)
(***************************************************************************)
EXTENDS Integers, FiniteSets

CONSTANTS
    Thread,     \* guest threads, each a host pthread
    Bit,        \* bits of the 64-bit word that are told apart
    InitBits,   \* init_pattern of kt_event_create
    Request     \* the (pattern, wait_mode) pairs of waits and polls

ClearMode == {"none", "all", "pattern"}

ASSUME EventAssumption ==
    /\ IsFiniteSet(Thread)
    /\ InitBits \subseteq Bit
    /\ Request \subseteq [pattern : SUBSET Bit \ {{}}, all : BOOLEAN, clear : ClearMode]

VARIABLES
    bits,       \* state.bits
    waiters,    \* state.waiters
    canceled,   \* state.canceled
    deleted,    \* state.deleted and state.destroy_requested
    destroyed,  \* times the native mutex and condvar were destroyed
    pc,         \* where each thread is in its call
    req,        \* what the wait in progress asks for
    timed,      \* TRUE in a wait with a deadline
    granted     \* threads whose last wait or poll returned 0

shared == <<bits, waiters, canceled, deleted, destroyed>>
vars == <<bits, waiters, canceled, deleted, destroyed, pc, req, timed, granted>>

Inside == {"asleep", "awake", "expired"}

(* Threads counted in state.waiters. *)
Waiting == {t \in Thread : pc[t] \in Inside}

(* Threads between the unlock and the destruction of the native objects. *)
Finalizing == {t \in Thread : pc[t] = "finalizing"}

Alive == destroyed = 0 /\ Finalizing = {}

NoRequest == [pattern |-> {}, all |-> FALSE, clear |-> "none"]

Init ==
    /\ bits = InitBits
    /\ waiters = 0
    /\ canceled = FALSE
    /\ deleted = FALSE
    /\ destroyed = 0
    /\ pc = [t \in Thread |-> "idle"]
    /\ req = [t \in Thread |-> NoRequest]
    /\ timed = [t \in Thread |-> FALSE]
    /\ granted = {}

-----------------------------------------------------------------------------
Matches(b, r) ==
    IF r.all THEN r.pattern \subseteq b ELSE r.pattern \intersect b # {}

Cleared(b, r) ==
    CASE r.clear = "none"    -> b
      [] r.clear = "all"     -> {}
      [] r.clear = "pattern" -> b \ r.pattern

Broadcast == [t \in Thread |-> IF pc[t] = "asleep" THEN "awake" ELSE pc[t]]

(* The caller's frame goes: it is idle, or has the natives to destroy. *)
Return(t, where) ==
    /\ pc' = [pc EXCEPT ![t] = where]
    /\ req' = [req EXCEPT ![t] = NoRequest]
    /\ timed' = [timed EXCEPT ![t] = FALSE]

-----------------------------------------------------------------------------
(* kt_event_wait: the test at the head of its loop and the exit it leads   *)
(* to, for a caller with request r while w callers, itself included, wait. *)

(* A cancel is taken before a match, by one waiter. *)
LeaveCanceled(t, w) ==
    /\ canceled
    /\ canceled' = FALSE
    /\ waiters' = w - 1
    /\ Return(t, "idle")
    /\ granted' = granted \ {t}
    /\ UNCHANGED bits

(* Mutant: every waiter that sees the delete destroys the natives. *)
MutLeaveDeleted(t, w) ==
    /\ ~canceled
    /\ deleted
    /\ waiters' = w - 1
    /\ Return(t, "finalizing")
    /\ granted' = granted \ {t}
    /\ UNCHANGED <<bits, canceled>>

LeaveDeleted(t, w) ==
    /\ ~canceled
    /\ deleted
    /\ waiters' = w - 1
    /\ Return(t, IF w = 1 THEN "finalizing" ELSE "idle")
    /\ granted' = granted \ {t}
    /\ UNCHANGED <<bits, canceled>>

(* Mutant: the waiter keeps the grant it was woken for and does not look   *)
(* again.                                                                  *)
MutGrant(t, r, w) ==
    /\ ~canceled /\ ~deleted
    /\ pc[t] = "awake" \/ Matches(bits, r)
    /\ bits' = Cleared(bits, r)
    /\ waiters' = w - 1
    /\ Return(t, "idle")
    /\ granted' = granted \union {t}
    /\ UNCHANGED canceled

Grant(t, r, w) ==
    /\ ~canceled /\ ~deleted
    /\ Matches(bits, r)
    /\ bits' = Cleared(bits, r)
    /\ waiters' = w - 1
    /\ Return(t, "idle")
    /\ granted' = granted \union {t}
    /\ UNCHANGED canceled

Sleep(t, r, w, tm) ==
    /\ ~canceled /\ ~deleted
    /\ ~Matches(bits, r)
    /\ waiters' = w
    /\ pc' = [pc EXCEPT ![t] = "asleep"]
    /\ req' = [req EXCEPT ![t] = r]
    /\ timed' = [timed EXCEPT ![t] = tm]
    /\ granted' = granted \ {t}
    /\ UNCHANGED <<bits, canceled>>

LoopHead(t, r, w, tm) ==
    /\ \/ LeaveCanceled(t, w)
       \/ LeaveDeleted(t, w)
       \/ Grant(t, r, w)
       \/ Sleep(t, r, w, tm)
    /\ UNCHANGED <<deleted, destroyed>>

Wait(t, r, tm) ==
    /\ pc[t] = "idle"
    /\ Alive
    /\ LoopHead(t, r, waiters + 1, tm)

Rewait(t) ==
    /\ pc[t] = "awake"
    /\ LoopHead(t, req[t], waiters, timed[t])

SpuriousWake(t) ==
    /\ pc[t] = "asleep"
    /\ pc' = [pc EXCEPT ![t] = "awake"]
    /\ UNCHANGED <<shared, req, timed, granted>>

(* The deadline passes: the host wakes the thread with ETIMEDOUT, which    *)
(* then still has to get the mutex back.                                   *)
Expire(t) ==
    /\ pc[t] = "asleep"
    /\ timed[t]
    /\ pc' = [pc EXCEPT ![t] = "expired"]
    /\ UNCHANGED <<shared, req, timed, granted>>

(* Mutant: the timeout path forgets the count. *)
MutLeaveExpired(t) ==
    /\ pc[t] = "expired"
    /\ Return(t, "idle")
    /\ granted' = granted \ {t}
    /\ UNCHANGED shared

(* Mutant: the timeout path counts itself out twice. *)
MutLeaveExpiredTwice(t) ==
    /\ pc[t] = "expired"
    /\ waiters' = waiters - 2
    /\ Return(t, "idle")
    /\ granted' = granted \ {t}
    /\ UNCHANGED <<bits, canceled, deleted, destroyed>>

(* Mutant: ETIMEDOUT is taken for a spurious wake-up. *)
MutLeaveExpiredAgain(t) ==
    /\ pc[t] = "expired"
    /\ pc' = [pc EXCEPT ![t] = "asleep"]
    /\ UNCHANGED <<shared, req, timed, granted>>

LeaveExpired(t) ==
    /\ pc[t] = "expired"
    /\ waiters' = waiters - 1
    /\ Return(t, "idle")
    /\ granted' = granted \ {t}
    /\ UNCHANGED <<bits, canceled, deleted, destroyed>>

-----------------------------------------------------------------------------
(* The other entry points; a set or delete that only returns an error      *)
(* changes nothing and has no step.                                        *)

Poll(t, r) ==
    /\ pc[t] = "idle"
    /\ Alive
    /\ Matches(bits, r)
    /\ bits' = Cleared(bits, r)
    /\ granted' = granted \union {t}
    /\ UNCHANGED <<waiters, canceled, deleted, destroyed, pc, req, timed>>

PollFails(t, r) ==
    /\ pc[t] = "idle"
    /\ Alive
    /\ ~Matches(bits, r)
    /\ granted' = granted \ {t}
    /\ UNCHANGED <<shared, pc, req, timed>>

(* Mutant: a set wakes one waiter. *)
MutSet(t, p) ==
    /\ pc[t] = "idle"
    /\ Alive
    /\ bits' = bits \union p
    /\ IF \E u \in Thread : pc[u] = "asleep"
       THEN \E u \in Thread : pc[u] = "asleep" /\ pc' = [pc EXCEPT ![u] = "awake"]
       ELSE UNCHANGED pc
    /\ UNCHANGED <<waiters, canceled, deleted, destroyed, req, timed, granted>>

Set(t, p) ==
    /\ pc[t] = "idle"
    /\ Alive
    /\ bits' = bits \union p
    /\ pc' = Broadcast
    /\ UNCHANGED <<waiters, canceled, deleted, destroyed, req, timed, granted>>

(* Clear keeps the bits of the mask; nobody waits for a bit to go. *)
Clear(t, mask) ==
    /\ pc[t] = "idle"
    /\ Alive
    /\ bits' = bits \intersect mask
    /\ UNCHANGED <<waiters, canceled, deleted, destroyed, pc, req, timed, granted>>

(* Mutant: cancel wakes nobody. *)
MutCancel(t, p) ==
    /\ pc[t] = "idle"
    /\ Alive
    /\ bits' = p
    /\ canceled' = TRUE
    /\ UNCHANGED <<waiters, deleted, destroyed, pc, req, timed, granted>>

Cancel(t, p) ==
    /\ pc[t] = "idle"
    /\ Alive
    /\ bits' = p
    /\ canceled' = TRUE
    /\ pc' = Broadcast
    /\ UNCHANGED <<waiters, deleted, destroyed, req, timed, granted>>

(* Mutant: delete wakes nobody. *)
MutDelete(t) ==
    /\ pc[t] = "idle"
    /\ Alive
    /\ deleted' = TRUE
    /\ pc' = [pc EXCEPT ![t] = IF waiters = 0 THEN "finalizing" ELSE "idle"]
    /\ UNCHANGED <<bits, waiters, canceled, destroyed, req, timed, granted>>

(* finalize_now is computed under the mutex, acted on after the unlock. *)
Delete(t) ==
    /\ pc[t] = "idle"
    /\ Alive
    /\ deleted' = TRUE
    /\ pc' = [Broadcast EXCEPT ![t] = IF waiters = 0 THEN "finalizing" ELSE "idle"]
    /\ UNCHANGED <<bits, waiters, canceled, destroyed, req, timed, granted>>

(* kt_event_destroy tests state.waiters without the mutex. *)
Destroy(t) ==
    /\ pc[t] = "idle"
    /\ Alive
    /\ waiters = 0
    /\ pc' = [pc EXCEPT ![t] = "finalizing"]
    /\ UNCHANGED <<shared, req, timed, granted>>

Finalize(t) ==
    /\ pc[t] = "finalizing"
    /\ destroyed' = destroyed + 1
    /\ Return(t, "idle")
    /\ UNCHANGED <<bits, waiters, canceled, deleted, granted>>

-----------------------------------------------------------------------------
Call(t) ==
    \/ \E r \in Request :
        Poll(t, r) \/ PollFails(t, r) \/ \E tm \in BOOLEAN : Wait(t, r, tm)
    \/ \E p \in SUBSET Bit : Set(t, p) \/ Clear(t, p) \/ Cancel(t, p)
    \/ Delete(t)
    \/ Destroy(t)

Continue(t) == Rewait(t) \/ LeaveExpired(t) \/ Finalize(t)

Next == \E t \in Thread : Call(t) \/ Continue(t) \/ SpuriousWake(t) \/ Expire(t)

Spec == Init /\ [][Next]_vars

(* A runnable thread gets the mutex back and the processor (Continue).  A  *)
(* deadline is an absolute time fixed before the loop, so a sleep begun    *)
(* after it ends at once: a thread that sleeps again and again does expire.*)
FairSpec ==
    /\ Spec
    /\ \A t \in Thread : WF_vars(Continue(t)) /\ SF_vars(Expire(t))

-----------------------------------------------------------------------------
(* Type invariant. *)
TypeOK ==
    /\ bits \subseteq Bit
    /\ waiters \in Nat
    /\ canceled \in BOOLEAN
    /\ deleted \in BOOLEAN
    /\ destroyed \in Nat
    /\ pc \in [Thread -> Inside \union {"idle", "finalizing"}]
    /\ req \in [Thread -> Request \union {NoRequest}]
    /\ timed \in [Thread -> BOOLEAN]
    /\ granted \subseteq Thread

(* state.waiters, which cancel and delete report to the guest and which    *)
(* decides who destroys the natives, counts exactly the threads inside a   *)
(* wait, whatever mix of grant, timeout, cancel and delete ended the rest. *)
WaitersExact == waiters = Cardinality(Waiting)

(* No lost wake-up: a thread asleep on the condvar has nothing to wake for,*)
(* although a clearing waiter may take bits it was woken for.              *)
NoLostWakeup ==
    \A t \in Thread : pc[t] = "asleep" =>
        ~Matches(bits, req[t]) /\ ~deleted /\ ~canceled

(* The native mutex and condvar are destroyed at most once, and never      *)
(* under a thread that still has to take the mutex again.                  *)
FinalizedOnce ==
    /\ destroyed + Cardinality(Finalizing) <= 1
    /\ ~Alive => Waiting = {}

(* A delete dismisses every thread that waits at that point. *)
DeleteReleases == \A t \in Thread : deleted /\ pc[t] \in Inside ~> pc[t] = "idle"

(* A cancel is taken: some thread that waits returns.  It is one thread    *)
(* only, for the first one out resets the flag and the rest sleep on.      *)
CancelIsTaken == canceled /\ waiters > 0 ~> ~canceled \/ waiters = 0

(* A timed wait returns, however often the thread is woken in vain. *)
TimedWaitReturns == \A t \in Thread : timed[t] ~> pc[t] = "idle"

(* KtEvent implements the abstract flag, fairness included: what a         *)
(* clearing wait takes it takes whole and alone, and a thread in front of  *)
(* its bits is woken and gets them unless it leaves for another reason.    *)
Abstract == INSTANCE EventBits WITH flag <- bits, parked <- Waiting, want <- req,
                                  served <- granted
ImplementsEventBits == Abstract!FairSpec
=============================================================================
