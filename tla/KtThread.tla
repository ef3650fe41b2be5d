------------------------------- MODULE KtThread -------------------------------
(***************************************************************************)
(* The life of one guest thread in kt_runtime.elisa (struct KtThread).     *)
(* The worker runs the guest's entry and, when it returns or is cancelled, *)
(* kt_thread_finish in a thread-specific-data destructor.  Callers join,   *)
(* timed-join, detach and cancel it.  Whoever is last must destroy the     *)
(* record's native mutex and condition variable, and nobody else may.      *)
(*                                                                         *)
(* A section of pmutex is one step; everything after its unlock, the       *)
(* native join and detach and the destruction, is a step of its own.  A    *)
(* detach reads the host thread's id from the record after the unlock, by  *)
(* when a worker that saw it detached may have freed the record: what it   *)
(* reads then is the id or whatever the memory holds by now.               *)
(*                                                                         *)
(* Guest contract: a call is begun only on a record that is not destroyed  *)
(* and that no join or detach has given up; while one caller is in a       *)
(* timedjoin no other one joins or detaches; cancel is not called on a     *)
(* thread that has been reaped.                                            *)
(***************************************************************************)
EXTENDS Integers

CONSTANTS
    Caller,     \* threads that hold the handle
    Self        \* the caller that is the worker itself, from inside its entry

ASSUME ThreadAssumption == Self \in Caller

VARIABLES
    phase,      \* where the worker is
    finished, joined, detached,     \* the flags of the record
    mustFree,   \* kt_thread_finish's copy of detached
    seen,       \* each caller's copy of finished in kt_thread_detach
    target,     \* the host thread each caller is about to detach
    pc,         \* where each caller is
    destroyed,  \* times the native mutex and condition variable were destroyed
    reaped,     \* native joins and detaches of the host thread
    cancel      \* whether a pthread_cancel is pending or was acted upon

vars == <<phase, finished, joined, detached, mustFree, seen, target, pc,
          destroyed, reaped, cancel>>

flags == <<finished, joined, detached>>

Phase == {"entry", "exiting", "unlocked", "dead"}
Place == {"idle", "checked", "asleep", "native", "reading", "nativeDetach",
          "free", "done", "failed"}
Target == {"none", "own", "other"}

Init ==
    /\ phase = "entry"
    /\ finished = FALSE /\ joined = FALSE /\ detached = FALSE
    /\ mustFree = FALSE
    /\ seen = [c \in Caller |-> FALSE]
    /\ target = [c \in Caller |-> "none"]
    /\ pc = [c \in Caller |-> "idle"]
    /\ destroyed = 0
    /\ reaped = 0
    /\ cancel = "none"

Goto(c, where) == pc' = [pc EXCEPT ![c] = where]

-----------------------------------------------------------------------------
(* The worker. *)

Return ==
    /\ phase = "entry"
    /\ pc[Self] \in {"idle", "done"}
    /\ phase' = "exiting"
    /\ UNCHANGED <<flags, mustFree, seen, target, pc, destroyed, reaped, cancel>>

(* Mutant: a cancelled thread ends without running the destructor. *)
MutActOnCancel ==
    /\ phase = "entry"
    /\ pc[Self] \in {"idle", "done"}
    /\ cancel = "pending"
    /\ cancel' = "acted"
    /\ phase' = "dead"
    /\ UNCHANGED <<flags, mustFree, seen, target, pc, destroyed, reaped>>

(* A pending cancellation ends the entry; the destructor runs all the same. *)
ActOnCancel ==
    /\ phase = "entry"
    /\ pc[Self] \in {"idle", "done"}
    /\ cancel = "pending"
    /\ cancel' = "acted"
    /\ phase' = "exiting"
    /\ UNCHANGED <<flags, mustFree, seen, target, pc, destroyed, reaped>>

Broadcast(where) == [c \in Caller |-> IF where[c] = "asleep" THEN "checked" ELSE where[c]]

(* The locked section of kt_thread_finish, run by the TSD destructor. *)
Finish ==
    /\ phase = "exiting"
    /\ finished' = TRUE
    /\ pc' = Broadcast(pc)
    /\ mustFree' = detached
    /\ phase' = "unlocked"
    /\ UNCHANGED <<joined, detached, seen, target, destroyed, reaped, cancel>>

(* Mutant: detached is read again after the unlock. *)
MutFinishFree ==
    /\ phase = "unlocked"
    /\ destroyed' = IF detached THEN destroyed + 1 ELSE destroyed
    /\ phase' = "dead"
    /\ UNCHANGED <<flags, mustFree, seen, target, pc, reaped, cancel>>

(* After the unlock a detached worker destroys the record; the host thread *)
(* ends.                                                                   *)
FinishFree ==
    /\ phase = "unlocked"
    /\ destroyed' = IF mustFree THEN destroyed + 1 ELSE destroyed
    /\ phase' = "dead"
    /\ UNCHANGED <<flags, mustFree, seen, target, pc, reaped, cancel>>

-----------------------------------------------------------------------------
(* The callers. *)

Valid == destroyed = 0 /\ \A c \in Caller : pc[c] # "done"

(* The guest's side of the contract on timed joins. *)
NoTimedJoin == \A c \in Caller : pc[c] \notin {"checked", "asleep"}
NobodyReaps == \A c \in Caller : pc[c] = "idle"

Begin(c) ==
    /\ Valid
    /\ pc[c] = "idle"
    /\ c = Self => phase = "entry"

(* The test at the head of join, timedjoin and detach: EINVAL otherwise. *)
Joinable == ~detached /\ ~joined

(* Mutant: join looks at detached only. *)
MutJoin(c) ==
    /\ Begin(c) /\ c # Self /\ NoTimedJoin
    /\ ~detached
    /\ joined' = TRUE
    /\ Goto(c, "native")
    /\ UNCHANGED <<phase, finished, detached, mustFree, seen, target, destroyed, reaped, cancel>>

Join(c) ==
    /\ Begin(c) /\ c # Self /\ NoTimedJoin
    /\ Joinable
    /\ joined' = TRUE
    /\ Goto(c, "native")
    /\ UNCHANGED <<phase, finished, detached, mustFree, seen, target, destroyed, reaped, cancel>>

TimedJoin(c) ==
    /\ Begin(c) /\ c # Self /\ NobodyReaps
    /\ Joinable
    /\ Goto(c, "checked")
    /\ UNCHANGED <<phase, flags, mustFree, seen, target, destroyed, reaped, cancel>>

(* The wait loop of timedjoin: joined is set only once finished is. *)
TimedJoinCheck(c) ==
    /\ pc[c] = "checked"
    /\ IF finished
       THEN joined' = TRUE /\ Goto(c, "native")
       ELSE joined' = joined /\ Goto(c, "asleep")
    /\ UNCHANGED <<phase, finished, detached, mustFree, seen, target, destroyed, reaped, cancel>>

(* The deadline has passed: when it is computed, or in the wait. *)
TimedJoinExpires(c) ==
    /\ pc[c] \in {"checked", "asleep"}
    /\ Goto(c, "idle")
    /\ UNCHANGED <<phase, flags, mustFree, seen, target, destroyed, reaped, cancel>>

(* The native join waits for the host thread to end. *)
NativeJoin(c) ==
    /\ pc[c] = "native"
    /\ phase = "dead"
    /\ reaped' = reaped + 1
    /\ Goto(c, "free")
    /\ UNCHANGED <<phase, flags, mustFree, seen, target, destroyed, cancel>>

Detach(c) ==
    /\ Begin(c) /\ NoTimedJoin
    /\ Joinable
    /\ detached' = TRUE
    /\ seen' = [seen EXCEPT ![c] = finished]
    /\ Goto(c, "reading")
    /\ UNCHANGED <<phase, finished, joined, mustFree, target, destroyed, reaped, cancel>>

(* The id is read from the record, which nobody keeps from being freed.    *)
LoadThread(c) ==
    /\ pc[c] = "reading"
    /\ \E id \in IF destroyed = 0 THEN {"own"} ELSE {"own", "other"} :
          target' = [target EXCEPT ![c] = id]
    /\ Goto(c, "nativeDetach")
    /\ UNCHANGED <<phase, flags, mustFree, seen, destroyed, reaped, cancel>>

(* Mutant: the caller leaves the record to the worker in any case. *)
MutNativeDetach(c) ==
    /\ pc[c] = "nativeDetach"
    /\ IF target[c] = "own"
       THEN reaped' = reaped + 1 /\ Goto(c, "done")
       ELSE reaped' = reaped /\ Goto(c, "failed")
    /\ UNCHANGED <<phase, flags, mustFree, seen, target, destroyed, cancel>>

(* pthread_detach of anything but the worker fails, or detaches a thread   *)
(* that has nothing to do with this record.                                *)
NativeDetach(c) ==
    /\ pc[c] = "nativeDetach"
    /\ \/ /\ target[c] = "own"
          /\ reaped' = reaped + 1
          /\ Goto(c, IF seen[c] THEN "free" ELSE "done")
       \/ /\ target[c] = "other"
          /\ reaped' = reaped
          /\ Goto(c, "failed") \/ Goto(c, IF seen[c] THEN "free" ELSE "done")
    /\ UNCHANGED <<phase, flags, mustFree, seen, target, destroyed, cancel>>

(* The end of join and timedjoin, and of a detach that found the worker    *)
(* finished.                                                               *)
Free(c) ==
    /\ pc[c] = "free"
    /\ destroyed' = destroyed + 1
    /\ Goto(c, "done")
    /\ UNCHANGED <<phase, flags, mustFree, seen, target, reaped, cancel>>

Cancel(c) ==
    /\ Begin(c)
    /\ reaped = 0
    /\ cancel = "none"
    /\ cancel' = "pending"
    /\ UNCHANGED <<phase, flags, mustFree, seen, target, pc, destroyed, reaped>>

(* A spurious wake-up of the native wait. *)
SpuriousWake(c) ==
    /\ pc[c] = "asleep"
    /\ Goto(c, "checked")
    /\ UNCHANGED <<phase, flags, mustFree, seen, target, destroyed, reaped, cancel>>

-----------------------------------------------------------------------------
Worker == Finish \/ FinishFree

Going(c) ==
    \/ TimedJoinCheck(c) \/ NativeJoin(c)
    \/ LoadThread(c) \/ NativeDetach(c) \/ Free(c)

Next ==
    \/ Return \/ ActOnCancel \/ Worker
    \/ \E c \in Caller :
        \/ Join(c) \/ TimedJoin(c) \/ TimedJoinExpires(c) \/ SpuriousWake(c)
        \/ Detach(c) \/ Cancel(c) \/ Going(c)

Spec == Init /\ [][Next]_vars

(* The host schedules the worker and every caller that is not waiting; a   *)
(* pending cancellation is acted upon, an entry nobody cancels may go on   *)
(* for ever.                                                               *)
Fairness ==
    /\ WF_vars(Worker)
    /\ WF_vars(ActOnCancel)
    /\ \A c \in Caller : WF_vars(Going(c))

-----------------------------------------------------------------------------
(* Type invariant. *)
TypeOK ==
    /\ phase \in Phase
    /\ finished \in BOOLEAN /\ joined \in BOOLEAN /\ detached \in BOOLEAN
    /\ mustFree \in BOOLEAN
    /\ seen \in [Caller -> BOOLEAN]
    /\ target \in [Caller -> Target]
    /\ pc \in [Caller -> Place]
    /\ destroyed \in 0..1
    /\ reaped \in 0..1
    /\ cancel \in {"none", "pending", "acted"}

(* The worker's end and a detach race for the record: each takes a copy of *)
(* the other's flag under the lock and acts on it after the unlock.  The   *)
(* record is destroyed at most once.  When it is, nobody is still going to *)
(* lock it, sleeps on it, joins by it or destroys it; one use is left that *)
(* can come too late, the read of the id by a detacher whose worker found  *)
(* detached set.                                                           *)
DestroyedOnce ==
    /\ destroyed <= 1
    /\ destroyed = 1 =>
        /\ phase \in {"unlocked", "dead"}
        /\ \A c \in Caller :
            /\ pc[c] \notin {"checked", "asleep", "native", "free"}
            /\ pc[c] \in {"reading", "nativeDetach"} => ~seen[c]
            /\ pc[c] = "reading" => mustFree

(* A detach that found the thread joinable answers OK, as the test         *)
(* kt_thread_detach_returns_ok has it of a thread that may end any time    *)
(* (kt_runtime_stage4_tests.elisa:97).                                     *)
DetachReturnsOk == \A c \in Caller : pc[c] # "failed"

(* The host thread is joined or detached, never both and never twice: each *)
(* of those would be undefined in pthreads.                                *)
ReapedOnce ==
    /\ reaped <= 1
    /\ reaped = 1 => \A c \in Caller : pc[c] \notin {"native", "reading", "nativeDetach"}

(* A detached thread that ends leaves nothing behind, whichever of the two *)
(* came first.                                                             *)
DetachedIsFreed == detached /\ finished ~> destroyed = 1

(* A cancelled thread still runs kt_thread_finish, so whoever joins it,    *)
(* with a deadline or without, gets through.                               *)
CanceledIsReaped ==
    \A c \in Caller :
        cancel # "none" /\ pc[c] \in {"native", "asleep"} ~> pc[c] \in {"idle", "done"}
=============================================================================
