------------------------------- MODULE KtMutex -------------------------------
(***************************************************************************)
(* The native mutex and condition variable of kt_runtime.elisa (struct     *)
(* KtMutex, struct KtCond).  A KtMutex shadows its host mutex with the     *)
(* fields owner, locked and recursion, and every call begins by reading    *)
(* locked and then owner WITHOUT the host mutex, while the thread that     *)
(* has it may be writing them.  So each read and each write is a step of   *)
(* its own here; loads and stores of one thread stay in program order.     *)
(* recursion is read and written by the thread the owner test let through  *)
(* only, and goes with the write of locked.                                *)
(*                                                                         *)
(* Guest contract: cond_wait is called with the mutex locked once (the     *)
(* code resets recursion to 1, forgetting a greater depth), and a mutex is *)
(* destroyed while no other thread is in a call on it.                     *)
(***************************************************************************)
EXTENDS Integers

CONSTANTS
    Thread,     \* guest threads, each a host pthread
    NoThread,   \* a null thread handle
    MaxDepth    \* bound: no relock is begun at this depth

ASSUME MutexAssumption ==
    /\ NoThread \notin Thread
    /\ MaxDepth \in Nat \ {0}

VARIABLES
    recursive,  \* state.recursive, set by kt_mutex_create
    holder,     \* the thread that holds the host mutex
    owner,      \* state.owner
    locked,     \* state.locked
    recursion,  \* state.recursion
    destroyed,  \* the host mutex has been destroyed
    pc,         \* the next access of each thread
    op,         \* the call each thread is in
    depth       \* how often the guest thread has the mutex, by the results it got

fields == <<recursive, holder, owner, locked, recursion, destroyed>>
vars == <<recursive, holder, owner, locked, recursion, destroyed, pc, op, depth>>

Op == {"lock", "trylock", "unlock", "isowned", "wait"}

Step == {"idle", "readLocked", "readOwner", "native", "setOwner", "setLocked",
         "clear", "release", "asleep"}

Init ==
    /\ recursive \in BOOLEAN
    /\ holder = NoThread
    /\ owner = NoThread
    /\ locked = FALSE
    /\ recursion = 0
    /\ destroyed = FALSE
    /\ pc = [t \in Thread |-> "idle"]
    /\ op = [t \in Thread |-> "lock"]
    /\ depth = [t \in Thread |-> 0]

Goto(t, where) == pc' = [pc EXCEPT ![t] = where]

-----------------------------------------------------------------------------
(* `state.locked != 0 and pthread_equal(state.owner, self)`, the test at   *)
(* the head of every call: two reads.                                      *)

Begin(t, o) ==
    /\ pc[t] = "idle"
    /\ ~destroyed
    /\ o = "wait" => depth[t] <= 1
    /\ o \in {"lock", "trylock"} => depth[t] < MaxDepth
    /\ op' = [op EXCEPT ![t] = o]
    /\ Goto(t, "readLocked")
    /\ UNCHANGED <<fields, depth>>

(* lock and trylock go on to the host mutex; unlock and cond_wait return   *)
(* EPERM and isowned 0.                                                    *)
NotOwner(t) == Goto(t, IF op[t] \in {"lock", "trylock"} THEN "native" ELSE "idle")

ReadLocked(t) ==
    /\ pc[t] = "readLocked"
    /\ IF locked THEN Goto(t, "readOwner") ELSE NotOwner(t)
    /\ UNCHANGED <<fields, op, depth>>

ReadOtherOwner(t) ==
    /\ pc[t] = "readOwner"
    /\ owner # t
    /\ NotOwner(t)
    /\ UNCHANGED <<fields, op, depth>>

(* Mutant: a recursive relock asks only whether the mutex is locked. *)
MutRelockAnyone(t) ==
    /\ pc[t] = "readOwner"
    /\ op[t] \in {"lock", "trylock"}
    /\ recursive
    /\ recursion' = recursion + 1
    /\ depth' = [depth EXCEPT ![t] = @ + 1]
    /\ Goto(t, "idle")
    /\ UNCHANGED <<recursive, holder, owner, locked, destroyed, op>>

(* Mutant: a relock of a plain mutex goes to the host mutex. *)
MutRelockBlocks(t) ==
    /\ pc[t] = "readOwner"
    /\ owner = t
    /\ op[t] \in {"lock", "trylock"}
    /\ ~recursive
    /\ Goto(t, "native")
    /\ UNCHANGED <<fields, op, depth>>

(* Mutant: a relock of a plain mutex is counted too. *)
MutRelockCounts(t) ==
    /\ pc[t] = "readOwner"
    /\ owner = t
    /\ op[t] \in {"lock", "trylock"}
    /\ recursion' = recursion + 1
    /\ depth' = [depth EXCEPT ![t] = @ + 1]
    /\ Goto(t, "idle")
    /\ UNCHANGED <<recursive, holder, owner, locked, destroyed, op>>

(* A relock by the owner: counted if recursive, else EDEADLK or EBUSY. *)
Relock(t) ==
    /\ pc[t] = "readOwner"
    /\ owner = t
    /\ op[t] \in {"lock", "trylock"}
    /\ IF recursive
       THEN /\ recursion' = recursion + 1
            /\ depth' = [depth EXCEPT ![t] = @ + 1]
       ELSE UNCHANGED <<recursion, depth>>
    /\ Goto(t, "idle")
    /\ UNCHANGED <<recursive, holder, owner, locked, destroyed, op>>

(* Mutant: every unlock of a recursive mutex only takes one level off. *)
MutUnrelock(t) ==
    /\ pc[t] = "readOwner"
    /\ owner = t
    /\ op[t] = "unlock"
    /\ recursive
    /\ recursion' = recursion - 1
    /\ depth' = [depth EXCEPT ![t] = @ - 1]
    /\ Goto(t, "idle")
    /\ UNCHANGED <<recursive, holder, owner, locked, destroyed, op>>

(* An unlock that only takes one level off. *)
Unrelock(t) ==
    /\ pc[t] = "readOwner"
    /\ owner = t
    /\ op[t] = "unlock"
    /\ recursive /\ recursion > 1
    /\ recursion' = recursion - 1
    /\ depth' = [depth EXCEPT ![t] = @ - 1]
    /\ Goto(t, "idle")
    /\ UNCHANGED <<recursive, holder, owner, locked, destroyed, op>>

(* The owner gives the mutex up, for good (unlock) or in a cond_wait. *)
GiveUp(t) ==
    /\ pc[t] = "readOwner"
    /\ owner = t
    /\ \/ op[t] = "unlock" /\ ~(recursive /\ recursion > 1)
       \/ op[t] = "wait"
    /\ Goto(t, "clear")
    /\ UNCHANGED <<fields, op, depth>>

IsOwned(t) ==
    /\ pc[t] = "readOwner"
    /\ owner = t
    /\ op[t] = "isowned"
    /\ Goto(t, "idle")
    /\ UNCHANGED <<fields, op, depth>>

-----------------------------------------------------------------------------
(* The host mutex: kt_pthread_mutex_lock, trylock, and the return from     *)
(* kt_pthread_cond_wait, followed by the writes that record the owner.     *)

Acquire(t) ==
    /\ pc[t] = "native"
    /\ holder = NoThread
    /\ holder' = t
    /\ Goto(t, "setOwner")
    /\ UNCHANGED <<recursive, owner, locked, recursion, destroyed, op, depth>>

TryFails(t) ==
    /\ pc[t] = "native"
    /\ op[t] = "trylock"
    /\ holder # NoThread
    /\ Goto(t, "idle")
    /\ UNCHANGED <<fields, op, depth>>

SetOwner(t) ==
    /\ pc[t] = "setOwner"
    /\ owner' = t
    /\ Goto(t, "setLocked")
    /\ UNCHANGED <<recursive, holder, locked, recursion, destroyed, op, depth>>

(* Mutant: the depth left by the cond_wait is not set back to one. *)
MutSetLocked(t) ==
    /\ pc[t] = "setLocked"
    /\ locked' = TRUE
    /\ depth' = [depth EXCEPT ![t] = 1]
    /\ Goto(t, "idle")
    /\ UNCHANGED <<recursive, holder, owner, recursion, destroyed, op>>

SetLocked(t) ==
    /\ pc[t] = "setLocked"
    /\ locked' = TRUE
    /\ recursion' = 1
    /\ depth' = [depth EXCEPT ![t] = 1]
    /\ Goto(t, "idle")
    /\ UNCHANGED <<recursive, holder, owner, destroyed, op>>

(* Mutant: locked stays set when the host mutex is released. *)
MutClear(t) ==
    /\ pc[t] = "clear"
    /\ recursion' = 0
    /\ Goto(t, "release")
    /\ UNCHANGED <<recursive, holder, owner, locked, destroyed, op, depth>>

(* unlock and cond_wait reset the shadow first and let go of the host      *)
(* mutex afterwards; owner keeps its value.                                *)
Clear(t) ==
    /\ pc[t] = "clear"
    /\ locked' = FALSE
    /\ recursion' = 0
    /\ Goto(t, "release")
    /\ UNCHANGED <<recursive, holder, owner, destroyed, op, depth>>

Release(t) ==
    /\ pc[t] = "release"
    /\ holder' = NoThread
    /\ depth' = [depth EXCEPT ![t] = 0]
    /\ Goto(t, IF op[t] = "wait" THEN "asleep" ELSE "idle")
    /\ UNCHANGED <<recursive, owner, locked, recursion, destroyed, op>>

-----------------------------------------------------------------------------
(* The condition variable: a woken thread competes for the host mutex.     *)

(* The deadline of a timedwait, or a spurious wake-up. *)
WakeUp(t) ==
    /\ pc[t] = "asleep"
    /\ Goto(t, "native")
    /\ UNCHANGED <<fields, op, depth>>

Signal(t) ==
    /\ pc[t] = "idle"
    /\ \E u \in Thread : pc[u] = "asleep" /\ Goto(u, "native")
    /\ UNCHANGED <<fields, op, depth>>

Broadcast(t) ==
    /\ pc[t] = "idle"
    /\ pc' = [u \in Thread |-> IF pc[u] = "asleep" THEN "native" ELSE pc[u]]
    /\ UNCHANGED <<fields, op, depth>>

(* kt_mutex_destroy goes by locked, not by the host mutex. *)
Destroy(t) ==
    /\ \A u \in Thread : pc[u] = "idle"
    /\ ~destroyed
    /\ ~locked
    /\ destroyed' = TRUE
    /\ UNCHANGED <<recursive, holder, owner, locked, recursion, pc, op, depth>>

-----------------------------------------------------------------------------
Next == \E t \in Thread :
    \/ \E o \in Op : Begin(t, o)
    \/ ReadLocked(t) \/ ReadOtherOwner(t)
    \/ Relock(t) \/ Unrelock(t) \/ GiveUp(t) \/ IsOwned(t)
    \/ Acquire(t) \/ TryFails(t) \/ SetOwner(t) \/ SetLocked(t)
    \/ Clear(t) \/ Release(t)
    \/ WakeUp(t) \/ Signal(t) \/ Broadcast(t) \/ Destroy(t)

Spec == Init /\ [][Next]_vars

-----------------------------------------------------------------------------
(* Type invariant. *)
TypeOK ==
    /\ recursive \in BOOLEAN
    /\ holder \in Thread \union {NoThread}
    /\ owner \in Thread \union {NoThread}
    /\ locked \in BOOLEAN
    /\ recursion \in 0..MaxDepth
    /\ destroyed \in BOOLEAN
    /\ pc \in [Thread -> Step]
    /\ op \in [Thread -> Op]
    /\ depth \in [Thread -> 0..MaxDepth]

(* Mutual exclusion as the guest sees it: a thread that was told it has    *)
(* the mutex, and not that it gave it back, holds the host mutex, so no    *)
(* second thread has been told so; and between its calls a thread that was *)
(* told it has given the mutex back does not hold it any more.             *)
GuestExclusion ==
    \A t \in Thread :
        /\ depth[t] > 0 => holder = t
        /\ pc[t] = "idle" /\ holder = t => depth[t] > 0

(* The racy owner test is never wrong in a thread's favour: a thread that  *)
(* is about to find itself the owner holds the host mutex, although it     *)
(* read locked and owner at different moments and neither under the mutex. *)
NoFalseOwner ==
    \A t \in Thread : pc[t] = "readOwner" /\ owner = t => holder = t

(* Nor is it wrong against the holder: whatever other threads are doing,   *)
(* one that has the mutex finds itself recorded as the owner at the depth  *)
(* the results it got add up to, so its unlock is not refused with EPERM   *)
(* and releases the host mutex at the right one.                           *)
HolderRecognised ==
    \A t \in Thread : depth[t] > 0 /\ pc[t] \in {"idle", "readLocked", "readOwner"} =>
        locked /\ owner = t /\ recursion = depth[t]

(* A thread that relocks a mutex it holds gets an answer instead of        *)
(* waiting for itself in the host mutex, and one that sleeps on a condition*)
(* variable has let go of it.                                              *)
NoSelfDeadlock == \A t \in Thread : pc[t] \in {"native", "asleep"} => holder # t

(* The host mutex is not destroyed while it is held: what ImplementsLock   *)
(* and GuestExclusion come to for a mutex nobody is in a call on.          *)
DestroyedUnheld == destroyed => holder = NoThread

(* KtMutex implements the abstract lock: what the results of the calls add *)
(* up to changes one whole level at a time, first when no thread has the   *)
(* mutex, then by the thread that has it alone, and a relock of a plain    *)
(* mutex is never counted; a cond_wait gives the last level up, and only a *)
(* mutex nobody has is destroyed.                                          *)
Abstract == INSTANCE ReentrantLock
ImplementsLock == Abstract!Spec
=============================================================================
