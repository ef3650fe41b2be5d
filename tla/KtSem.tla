-------------------------------- MODULE KtSem --------------------------------
(***************************************************************************)
(* The native counting semaphore of kt_runtime.elisa (struct KtSem): a     *)
(* host mutex and condition variable around a token count, with waits for  *)
(* several tokens, timed waits, cancel and a delete that hands the         *)
(* destruction of the native objects to the last waiter that leaves.       *)
(*                                                                         *)
(* What kt_raw_mutex_lock .. kt_raw_mutex_unlock encloses is one step, for *)
(* every access to the fields under it is excluded from every other; a     *)
(* thread that calls kt_raw_cond_wait releases the mutex and is "asleep"   *)
(* until a broadcast, a spurious wake-up or its deadline.                  *)
(*                                                                         *)
(* Guest contract (Alive): no call starts on a semaphore whose native      *)
(* objects are being or have been destroyed.  The code does not check it.  *)
(***************************************************************************)
EXTENDS Integers, FiniteSets

CONSTANTS
    Thread,      \* guest threads, each a host pthread
    MaxValue,    \* max_value of kt_sem_create
    InitValue,   \* value of kt_sem_create
    Count        \* the need_count and signal_count arguments callers pass

ASSUME SemAssumption ==
    /\ IsFiniteSet(Thread)
    /\ MaxValue \in Nat
    /\ InitValue \in 0..MaxValue
    /\ Count \subseteq Nat

VARIABLES
    value,              \* state.value
    waiters,            \* state.waiters
    canceled,           \* state.canceled
    deleted,            \* state.deleted
    destroy_requested,  \* state.destroy_requested
    destroyed,          \* times the native mutex and condvar were destroyed
    pc,                 \* where each thread is in its call
    need,               \* need_count of the wait in progress, 0 outside one
    timed,              \* TRUE in a kt_sem_timedwait
    granted             \* threads whose last wait or trywait returned 0

shared == <<value, waiters, canceled, deleted, destroy_requested, destroyed>>
vars == <<value, waiters, canceled, deleted, destroy_requested, destroyed,
          pc, need, timed, granted>>

Inside == {"asleep", "awake", "expired"}

(* Threads counted in state.waiters. *)
Waiting == {t \in Thread : pc[t] \in Inside}

(* Threads between the unlock and the destruction of the native objects. *)
Finalizing == {t \in Thread : pc[t] = "finalizing"}

Alive == destroyed = 0 /\ Finalizing = {}

Init ==
    /\ value = InitValue
    /\ waiters = 0
    /\ canceled = FALSE
    /\ deleted = FALSE
    /\ destroy_requested = FALSE
    /\ destroyed = 0
    /\ pc = [t \in Thread |-> "idle"]
    /\ need = [t \in Thread |-> 0]
    /\ timed = [t \in Thread |-> FALSE]
    /\ granted = {}

-----------------------------------------------------------------------------
(* The condition variable. *)

Broadcast == [t \in Thread |-> IF pc[t] = "asleep" THEN "awake" ELSE pc[t]]

(* The caller's frame goes: it is idle, or has the natives to destroy. *)
Return(t, where) ==
    /\ pc' = [pc EXCEPT ![t] = where]
    /\ need' = [need EXCEPT ![t] = 0]
    /\ timed' = [timed EXCEPT ![t] = FALSE]

-----------------------------------------------------------------------------
(* kt_sem_wait and kt_sem_timedwait.  LoopHead is the test at the head of  *)
(* `while state.value < need_count` and the exit it leads to, for a caller *)
(* that needs n tokens while w callers, itself included, are waiting.      *)

(* Mutant: every waiter that sees the delete destroys the natives. *)
MutAfterDelete(w) == IF destroy_requested THEN "finalizing" ELSE "idle"

AfterDelete(w) == IF destroy_requested /\ w = 1 THEN "finalizing" ELSE "idle"

(* Mutant: any token at all satisfies a request. *)
MutAcquire(t, n, w) ==
    /\ value >= 1
    /\ value' = IF value < n THEN 0 ELSE value - n
    /\ waiters' = w - 1
    /\ Return(t, "idle")
    /\ granted' = granted \union {t}
    /\ UNCHANGED canceled

Acquire(t, n, w) ==
    /\ value >= n
    /\ value' = value - n
    /\ waiters' = w - 1
    /\ Return(t, "idle")
    /\ granted' = granted \union {t}
    /\ UNCHANGED canceled

LeaveDeleted(t, n, w) ==
    /\ value < n
    /\ deleted
    /\ waiters' = w - 1
    /\ Return(t, AfterDelete(w))
    /\ granted' = granted \ {t}
    /\ UNCHANGED <<value, canceled>>

(* Mutant: the first waiter out consumes the cancel. *)
MutLeaveCanceled(t, n, w) ==
    /\ value < n
    /\ ~deleted
    /\ canceled
    /\ waiters' = w - 1
    /\ canceled' = FALSE
    /\ Return(t, "idle")
    /\ granted' = granted \ {t}
    /\ UNCHANGED value

LeaveCanceled(t, n, w) ==
    /\ value < n
    /\ ~deleted
    /\ canceled
    /\ waiters' = w - 1
    /\ canceled' = (w > 1)
    /\ Return(t, "idle")
    /\ granted' = granted \ {t}
    /\ UNCHANGED value

Sleep(t, n, w, tm) ==
    /\ value < n
    /\ ~deleted
    /\ ~canceled
    /\ waiters' = w
    /\ pc' = [pc EXCEPT ![t] = "asleep"]
    /\ need' = [need EXCEPT ![t] = n]
    /\ timed' = [timed EXCEPT ![t] = tm]
    /\ granted' = granted \ {t}
    /\ UNCHANGED <<value, canceled>>

LoopHead(t, n, w, tm) ==
    /\ \/ Acquire(t, n, w)
       \/ LeaveDeleted(t, n, w)
       \/ LeaveCanceled(t, n, w)
       \/ Sleep(t, n, w, tm)
    /\ UNCHANGED <<deleted, destroy_requested, destroyed>>

Wait(t, n, tm) ==
    /\ pc[t] = "idle"
    /\ Alive
    /\ LoopHead(t, n, waiters + 1, tm)

Rewait(t) ==
    /\ pc[t] = "awake"
    /\ LoopHead(t, need[t], waiters, timed[t])

SpuriousWake(t) ==
    /\ pc[t] = "asleep"
    /\ pc' = [pc EXCEPT ![t] = "awake"]
    /\ UNCHANGED <<shared, need, timed, granted>>

(* The deadline passes: the host wakes the thread with ETIMEDOUT, which    *)
(* then still has to get the mutex back.                                   *)
Expire(t) ==
    /\ pc[t] = "asleep"
    /\ timed[t]
    /\ pc' = [pc EXCEPT ![t] = "expired"]
    /\ UNCHANGED <<shared, need, timed, granted>>

(* Mutant: the timeout path forgets the count. *)
MutLeaveExpiredUncounted(t) ==
    /\ pc[t] = "expired"
    /\ Return(t, "idle")
    /\ granted' = granted \ {t}
    /\ UNCHANGED shared

(* Mutant: ETIMEDOUT is taken for a spurious wake-up. *)
MutLeaveExpiredAgain(t) ==
    /\ pc[t] = "expired"
    /\ pc' = [pc EXCEPT ![t] = "asleep"]
    /\ UNCHANGED <<shared, need, timed, granted>>

LeaveExpired(t) ==
    /\ pc[t] = "expired"
    /\ waiters' = waiters - 1
    /\ Return(t, "idle")
    /\ granted' = granted \ {t}
    /\ UNCHANGED <<value, canceled, deleted, destroy_requested, destroyed>>

-----------------------------------------------------------------------------
(* The other entry points; a post or delete that only returns an error     *)
(* changes nothing and has no step.                                        *)

TryWait(t, n) ==
    /\ pc[t] = "idle"
    /\ Alive
    /\ value >= n
    /\ value' = value - n
    /\ granted' = granted \union {t}
    /\ UNCHANGED <<waiters, canceled, deleted, destroy_requested, destroyed,
                   pc, need, timed>>

TryWaitFails(t, n) ==
    /\ pc[t] = "idle"
    /\ Alive
    /\ value < n
    /\ granted' = granted \ {t}
    /\ UNCHANGED <<shared, pc, need, timed>>

(* Mutant: a post wakes one waiter. *)
MutPostSignal(t, n) ==
    /\ pc[t] = "idle"
    /\ Alive
    /\ n <= MaxValue - value
    /\ value' = value + n
    /\ IF \E u \in Thread : pc[u] = "asleep"
       THEN \E u \in Thread : pc[u] = "asleep" /\ pc' = [pc EXCEPT ![u] = "awake"]
       ELSE UNCHANGED pc
    /\ UNCHANGED <<waiters, canceled, deleted, destroy_requested, destroyed,
                   need, timed, granted>>

(* Mutant: the overflow test looks at the count only. *)
MutPostOverflow(t, n) ==
    /\ pc[t] = "idle"
    /\ Alive
    /\ n <= MaxValue
    /\ value' = value + n
    /\ pc' = Broadcast
    /\ UNCHANGED <<waiters, canceled, deleted, destroy_requested, destroyed,
                   need, timed, granted>>

Post(t, n) ==
    /\ pc[t] = "idle"
    /\ Alive
    /\ n <= MaxValue - value
    /\ value' = value + n
    /\ pc' = Broadcast
    /\ UNCHANGED <<waiters, canceled, deleted, destroy_requested, destroyed,
                   need, timed, granted>>

Set(t, v) ==
    /\ pc[t] = "idle"
    /\ Alive
    /\ value' = v
    /\ pc' = Broadcast
    /\ UNCHANGED <<waiters, canceled, deleted, destroy_requested, destroyed,
                   need, timed, granted>>

Cancel(t, v) ==
    /\ pc[t] = "idle"
    /\ Alive
    /\ value' = v
    /\ canceled' = TRUE
    /\ pc' = Broadcast
    /\ UNCHANGED <<waiters, deleted, destroy_requested, destroyed,
                   need, timed, granted>>

(* Mutant: delete wakes nobody. *)
MutDelete(t) ==
    /\ pc[t] = "idle"
    /\ Alive
    /\ deleted' = TRUE
    /\ destroy_requested' = TRUE
    /\ pc' = [pc EXCEPT ![t] = IF waiters = 0 THEN "finalizing" ELSE "idle"]
    /\ UNCHANGED <<value, waiters, canceled, destroyed, need, timed, granted>>

(* finalize_now is computed under the mutex, acted on after the unlock. *)
Delete(t) ==
    /\ pc[t] = "idle"
    /\ Alive
    /\ deleted' = TRUE
    /\ destroy_requested' = TRUE
    /\ pc' = [Broadcast EXCEPT ![t] = IF waiters = 0 THEN "finalizing"
                                                     ELSE "idle"]
    /\ UNCHANGED <<value, waiters, canceled, destroyed, need, timed, granted>>

(* kt_sem_destroy tests state.waiters without the mutex. *)
Destroy(t) ==
    /\ pc[t] = "idle"
    /\ Alive
    /\ waiters = 0
    /\ pc' = [pc EXCEPT ![t] = "finalizing"]
    /\ UNCHANGED <<shared, need, timed, granted>>

Finalize(t) ==
    /\ pc[t] = "finalizing"
    /\ destroyed' = destroyed + 1
    /\ Return(t, "idle")
    /\ UNCHANGED <<value, waiters, canceled, deleted, destroy_requested, granted>>

-----------------------------------------------------------------------------
Call(t) ==
    \/ \E n \in Count, tm \in BOOLEAN : Wait(t, n, tm)
    \/ \E n \in Count : TryWait(t, n) \/ TryWaitFails(t, n) \/ Post(t, n)
    \/ \E v \in 0..MaxValue : Set(t, v) \/ Cancel(t, v)
    \/ Delete(t)
    \/ Destroy(t)

Continue(t) == Rewait(t) \/ LeaveExpired(t) \/ Finalize(t)

Next == \E t \in Thread : Call(t) \/ Continue(t) \/ SpuriousWake(t) \/ Expire(t)

Spec == Init /\ [][Next]_vars

(* A runnable thread gets the mutex back and the processor (Continue).  A  *)
(* deadline is an absolute time fixed before the loop, so a sleep begun    *)
(* after it ends at once: a thread that sleeps again and again does expire.*)
FairSpec ==
    /\ Spec
    /\ \A t \in Thread : WF_vars(Continue(t)) /\ SF_vars(Expire(t))

-----------------------------------------------------------------------------
(* Type invariant. *)
TypeOK ==
    /\ value \in 0..MaxValue
    /\ waiters \in Nat
    /\ canceled \in BOOLEAN
    /\ deleted \in BOOLEAN
    /\ destroy_requested \in BOOLEAN
    /\ destroyed \in Nat
    /\ pc \in [Thread -> Inside \union {"idle", "finalizing"}]
    /\ need \in [Thread -> Count \union {0}]
    /\ timed \in [Thread -> BOOLEAN]
    /\ granted \subseteq Thread

(* state.waiters, which cancel and delete report to the guest and which    *)
(* decides who destroys the natives, counts exactly the threads inside a   *)
(* wait, whatever mix of grant, timeout, cancel and delete ended the rest. *)
WaitersExact == waiters = Cardinality(Waiting)

(* No lost wake-up: a thread asleep on the condvar has nothing to wake for.*)
(* Every change that could satisfy or dismiss a waiter was broadcast.      *)
NoLostWakeup ==
    \A t \in Thread : pc[t] = "asleep" =>
        value < need[t] /\ ~deleted /\ ~canceled

(* The native mutex and condvar are destroyed at most once, and never      *)
(* under a thread that still has to take the mutex again.                  *)
FinalizedOnce ==
    /\ destroyed + Cardinality(Finalizing) <= 1
    /\ ~Alive => Waiting = {}

(* A delete dismisses every thread that waits at that point (each gets     *)
(* tokens, ETIMEDOUT or EDELETED): none is left behind on the condvar.     *)
DeleteReleases == \A t \in Thread : (deleted /\ pc[t] \in Inside) ~> (pc[t] = "idle")

(* A cancel dismisses every thread that waits at that point, although the  *)
(* flag is one bit and the first threads out run before the last ones.     *)
CancelReleases == \A t \in Thread : (canceled /\ pc[t] \in Inside) ~> (pc[t] = "idle")

(* A timed wait returns, however often the thread is woken in vain. *)
TimedWaitReturns == \A t \in Thread : timed[t] ~> (pc[t] = "idle")

(* KtSem implements the abstract semaphore, fairness included: tokens are  *)
(* neither made nor lost on the way between callers, nobody sleeps in      *)
(* front of enough tokens when it parks, and a thread in front of enough   *)
(* tokens is woken and gets them unless it leaves for another reason.      *)
Abstract == INSTANCE Semaphore WITH tokens <- value, parked <- Waiting, want <- need,
                                  served <- granted
ImplementsSemaphore == Abstract!FairSpec
=============================================================================
