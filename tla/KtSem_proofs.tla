----------------------------- MODULE KtSem_proofs -----------------------------
(***************************************************************************)
(* Proofs about KtSem for every set of threads, capacity and request size. *)
(* IInv, the conjunction of the four safety properties of KtSem, is        *)
(* inductive: who may destroy the natives depends on waiters being exact,  *)
(* and waiters stays a natural number only because it is exact.            *)
(***************************************************************************)
EXTENDS KtSem, FiniteSetTheorems, TLAPS

IInv == TypeOK /\ WaitersExact /\ NoLostWakeup /\ FinalizedOnce

LEMMA CountsAreNatural ==
  ASSUME TypeOK
  PROVE  value \in Nat /\ \A t \in Thread : need[t] \in Nat
  <1>1. value \in Nat
    BY SemAssumption DEF TypeOK
  <1>2. ASSUME NEW t \in Thread PROVE need[t] \in Nat
    <2>1. need[t] \in Count \union {0}
      BY DEF TypeOK
    <2>2. Count \union {0} \subseteq Nat
      BY SemAssumption
    <2>3. QED
      BY <2>1, <2>2
  <1>3. QED
    BY <1>1, <1>2

(* Only finitely many threads can be in any part of a call. *)
LEMMA ThreadSetsFinite == IsFiniteSet(Waiting) /\ IsFiniteSet(Finalizing)
  BY SemAssumption, FS_Subset DEF Waiting, Finalizing

(* A broadcast moves sleepers to awake, which counts as waiting too. *)
LEMMA BroadcastKeeps ==
  ASSUME TypeOK, pc' = Broadcast
  PROVE  /\ Waiting' = Waiting
         /\ Finalizing' = Finalizing
         /\ pc' \in [Thread -> Inside \union {"idle", "finalizing"}]
         /\ \A t \in Thread : pc'[t] # "asleep"
  BY DEF TypeOK, Broadcast, Waiting, Finalizing, Inside

(* The initial state satisfies the invariant. *)
LEMMA InitIInv == Init => IInv
  <1> SUFFICES ASSUME Init PROVE IInv
    OBVIOUS
  <1>1. TypeOK
    BY SemAssumption DEF Init, TypeOK
  <1>2. Waiting = {} /\ Finalizing = {}
    BY DEF Init, Waiting, Finalizing, Inside
  <1>3. QED
    BY <1>1, <1>2, FS_EmptySet
    DEF Init, IInv, WaitersExact, NoLostWakeup, FinalizedOnce

(* The head of the wait loop keeps the invariant, whether the thread has   *)
(* just been counted or comes back from the condvar.                       *)
LEMMA LoopHeadKeepsIInv ==
  ASSUME IInv, NEW t \in Thread, NEW n \in Count \union {0}, NEW tm \in BOOLEAN,
         pc[t] \in {"idle", "awake"}, Alive,
         NEW w, w = Cardinality(Waiting \union {t}), LoopHead(t, n, w, tm)
  PROVE  IInv'
  <1> DEFINE W == Waiting \union {t}
  <1>1. /\ IsFiniteSet(W) /\ w \in Nat /\ w >= 1
        /\ Cardinality(W \ {t}) = w - 1
        /\ w = 1 => W \ {t} = {}
    <2>1. IsFiniteSet(W)
      BY ThreadSetsFinite, FS_AddElement
    <2>2. /\ Cardinality(W) \in Nat
          /\ Cardinality(W \ {t}) = Cardinality(W) - 1
          /\ Cardinality(W \ {t}) \in Nat
          /\ Cardinality(W \ {t}) = 0 => W \ {t} = {}
      BY <2>1, FS_RemoveElement, FS_CardinalityType, FS_EmptySet
    <2>3. QED
      BY <2>1, <2>2
  <1>2. /\ Finalizing = {} /\ destroyed = 0 /\ n \in Nat /\ value \in Nat
        /\ TypeOK /\ NoLostWakeup
    BY SemAssumption DEF Alive, IInv, TypeOK
  <1>3. CASE Sleep(t, n, w, tm)
    <2>1. TypeOK'
      BY <1>1, <1>2, <1>3 DEF TypeOK, Sleep, Inside, LoopHead
    <2>2. Waiting' = W /\ Finalizing' = {}
      BY <1>2, <1>3 DEF TypeOK, Sleep, Waiting, Finalizing, Inside
    <2>3. WaitersExact'
      BY <1>3, <2>2 DEF WaitersExact, Sleep
    <2>4. NoLostWakeup'
      BY <1>2, <1>3 DEF TypeOK, NoLostWakeup, Sleep, LoopHead
    <2>5. FinalizedOnce'
      BY <1>2, <2>2, FS_EmptySet DEF FinalizedOnce, Alive, LoopHead
    <2>6. QED
      BY <2>1, <2>3, <2>4, <2>5 DEF IInv
  <1>4. CASE ~Sleep(t, n, w, tm)
    <2>1. PICK where \in {"idle", "finalizing"} :
            /\ Return(t, where)
            /\ waiters' = w - 1
            /\ where = "finalizing" => w = 1
      BY <1>4 DEF LoopHead, Acquire, LeaveDeleted, LeaveCanceled, AfterDelete
    <2>2. /\ value' \in 0..value /\ canceled' \in BOOLEAN
          /\ canceled' => canceled
          /\ UNCHANGED <<deleted, destroy_requested, destroyed>>
      BY <1>2, <1>4, SemAssumption DEF LoopHead, Acquire, LeaveDeleted, LeaveCanceled, TypeOK
    <2>3. TypeOK'
      <3>1. granted' \subseteq Thread
        BY <1>2, <1>4 DEF LoopHead, Acquire, LeaveDeleted, LeaveCanceled, TypeOK
      <3>2. QED
        BY <1>1, <1>2, <2>1, <2>2, <3>1, SemAssumption DEF TypeOK, Return, Inside
    <2>4. /\ Waiting' = W \ {t}
          /\ Finalizing' = IF where = "finalizing" THEN {t} ELSE {}
      BY <1>2, <2>1 DEF TypeOK, Return, Waiting, Finalizing, Inside
    <2>5. WaitersExact'
      BY <1>1, <2>1, <2>4 DEF WaitersExact
    <2>6. NoLostWakeup'
      <3> SUFFICES ASSUME NEW u \in Thread, pc'[u] = "asleep"
                   PROVE  value' < need'[u] /\ ~deleted' /\ ~canceled'
        BY DEF NoLostWakeup
      <3>1. u # t /\ pc[u] = "asleep" /\ need'[u] = need[u]
        BY <1>2, <2>1 DEF TypeOK, Return
      <3>2. need[u] \in Nat
        BY <1>2, SemAssumption DEF TypeOK
      <3>3. QED
        BY <1>2, <2>2, <3>1, <3>2 DEF NoLostWakeup
    <2>7. FinalizedOnce'
      <3>1. CASE where = "finalizing"
        BY <1>1, <1>2, <2>1, <2>2, <2>4, <3>1, FS_Singleton DEF FinalizedOnce
      <3>2. CASE where # "finalizing"
        BY <1>2, <2>2, <2>4, <3>2, FS_EmptySet DEF FinalizedOnce, Alive
      <3>3. QED
        BY <3>1, <3>2
    <2>8. QED
      BY <2>3, <2>5, <2>6, <2>7 DEF IInv
  <1>5. QED
    BY <1>3, <1>4

(* A wait begins by counting its thread; a woken thread is still counted. *)
LEMMA WaitKeepsIInv ==
  ASSUME IInv, NEW t \in Thread, NEW n \in Count, NEW tm \in BOOLEAN, Wait(t, n, tm)
  PROVE  IInv'
  <1>1. Cardinality(Waiting \union {t}) = waiters + 1
    <2>1. t \notin Waiting
      BY DEF Wait, Waiting, Inside
    <2>2. QED
      BY <2>1, ThreadSetsFinite, FS_AddElement DEF IInv, WaitersExact
  <1>2. QED
    BY <1>1, LoopHeadKeepsIInv DEF Wait

LEMMA RewaitKeepsIInv ==
  ASSUME IInv, NEW t \in Thread, Rewait(t)
  PROVE  IInv'
  <1>1. t \in Waiting
    BY DEF Rewait, Waiting, Inside
  <1>2. Cardinality(Waiting \union {t}) = waiters
    BY <1>1, ThreadSetsFinite, FS_AddElement DEF IInv, WaitersExact
  <1>3. Alive
    BY <1>1 DEF IInv, FinalizedOnce
  <1>4. need[t] \in Count \union {0} /\ timed[t] \in BOOLEAN
    BY DEF IInv, TypeOK
  <1>5. QED
    BY <1>2, <1>3, <1>4, LoopHeadKeepsIInv DEF Rewait

(* A spurious wake-up and a deadline only move a thread between the states *)
(* that count as waiting.                                                  *)
LEMMA WakeKeepsIInv ==
  ASSUME IInv, NEW t \in Thread, SpuriousWake(t) \/ Expire(t)
  PROVE  IInv'
  <1> USE DEF SpuriousWake, Expire, shared, Inside
  <1>1. TypeOK'
    BY DEF IInv, TypeOK
  <1>2. Waiting' = Waiting /\ Finalizing' = Finalizing
    BY DEF IInv, TypeOK, Waiting, Finalizing
  <1>3. NoLostWakeup'
    BY DEF IInv, TypeOK, NoLostWakeup
  <1>4. QED
    BY <1>1, <1>2, <1>3 DEF IInv, WaitersExact, FinalizedOnce, Alive

LEMMA LeaveExpiredKeepsIInv ==
  ASSUME IInv, NEW t \in Thread, LeaveExpired(t)
  PROVE  IInv'
  <1> USE DEF LeaveExpired, Return, Inside
  <1>1. TypeOK /\ t \in Waiting
    BY DEF IInv, Waiting
  <1>2. Waiting' = Waiting \ {t} /\ Finalizing' = Finalizing
    BY <1>1 DEF TypeOK, Waiting, Finalizing
  <1>3. Cardinality(Waiting') = waiters' /\ waiters' \in Nat
    <2>1. /\ Cardinality(Waiting \ {t}) = Cardinality(Waiting) - 1
          /\ Cardinality(Waiting \ {t}) \in Nat
      BY <1>1, ThreadSetsFinite, FS_RemoveElement, FS_CardinalityType
    <2>2. QED
      BY <1>2, <2>1 DEF IInv, WaitersExact
  <1>4. TypeOK'
    BY <1>1, <1>3 DEF TypeOK
  <1>5. NoLostWakeup'
    BY <1>1 DEF IInv, TypeOK, NoLostWakeup
  <1>6. Alive
    BY <1>1 DEF IInv, FinalizedOnce
  <1>7. QED
    BY <1>2, <1>3, <1>4, <1>5, <1>6 DEF IInv, WaitersExact, FinalizedOnce, Alive

(* The operations that change the token count. *)
LEMMA TryWaitKeepsIInv ==
  ASSUME IInv, NEW t \in Thread, NEW n \in Count, TryWait(t, n)
  PROVE  IInv'
  <1>1. Waiting' = Waiting /\ Finalizing' = Finalizing
    BY DEF TryWait, Waiting, Finalizing
  <1>2. value' \in 0..value
    BY SemAssumption DEF TryWait, IInv, TypeOK
  <1>3. TypeOK'
    BY <1>2, SemAssumption DEF TryWait, IInv, TypeOK
  <1>4. NoLostWakeup'
    <2> SUFFICES ASSUME NEW u \in Thread, pc'[u] = "asleep"
                 PROVE  value' < need'[u] /\ ~deleted' /\ ~canceled'
      BY DEF NoLostWakeup
    <2>1. UNCHANGED <<canceled, deleted, pc, need>>
      BY DEF TryWait
    <2>2. value < need[u] /\ ~deleted /\ ~canceled
      BY <2>1 DEF IInv, NoLostWakeup
    <2>3. value \in Nat /\ need[u] \in Nat
      BY CountsAreNatural DEF IInv
    <2>4. value' < need'[u]
      BY <1>2, <2>1, <2>2, <2>3
    <2>5. QED
      BY <2>1, <2>2, <2>4
  <1>5. QED
    BY <1>1, <1>3, <1>4 DEF TryWait, IInv, WaitersExact, FinalizedOnce, Alive

(* Whatever is assigned to value and canceled, the broadcast that follows  *)
(* leaves nobody asleep to be mistaken about them.                         *)
LEMMA BroadcastKeepsIInv ==
  ASSUME IInv, pc' = Broadcast, value' \in 0..MaxValue, canceled' \in BOOLEAN,
         UNCHANGED <<waiters, deleted, destroy_requested, destroyed, need, timed,
                     granted>>
  PROVE  IInv'
  <1>1. TypeOK
    BY DEF IInv
  <1>2. QED
    BY <1>1, BroadcastKeeps
    DEF IInv, TypeOK, WaitersExact, NoLostWakeup, FinalizedOnce, Alive

LEMMA TryWaitFailsKeepsIInv ==
  ASSUME IInv, NEW t \in Thread, NEW n \in Count, TryWaitFails(t, n)
  PROVE  IInv'
  <1>1. UNCHANGED <<value, waiters, canceled, deleted, destroy_requested,
                    destroyed, pc, need, timed>>
    BY DEF TryWaitFails, shared
  <1>2. granted' \subseteq Thread
    BY DEF TryWaitFails, IInv, TypeOK
  <1>3. Waiting' = Waiting /\ Finalizing' = Finalizing
    BY <1>1 DEF Waiting, Finalizing
  <1>4. QED
    BY <1>1, <1>2, <1>3 DEF IInv, TypeOK, WaitersExact, NoLostWakeup, FinalizedOnce, Alive

LEMMA PostKeepsIInv ==
  ASSUME IInv, NEW t \in Thread, NEW n \in Count, Post(t, n)
  PROVE  IInv'
  <1>1. value' \in 0..MaxValue /\ canceled' \in BOOLEAN
    BY SemAssumption DEF Post, IInv, TypeOK
  <1>2. QED
    BY <1>1, BroadcastKeepsIInv DEF Post

LEMMA SetKeepsIInv ==
  ASSUME IInv, NEW t \in Thread, NEW v \in 0..MaxValue, Set(t, v) \/ Cancel(t, v)
  PROVE  IInv'
  <1>1. canceled' \in BOOLEAN
    BY DEF Set, Cancel, IInv, TypeOK
  <1>2. QED
    BY <1>1, BroadcastKeepsIInv DEF Set, Cancel

(* Delete and destroy: the only steps, with the exit of the last waiter,   *)
(* that put a thread in charge of the natives.                             *)
LEMMA CloseKeepsIInv ==
  ASSUME IInv, NEW t \in Thread, Delete(t) \/ Destroy(t)
  PROVE  IInv'
  <1>1. /\ TypeOK /\ Finalizing = {} /\ destroyed = 0 /\ pc[t] = "idle"
        /\ waiters = 0 => Waiting = {}
    <2>1. waiters = 0 => Waiting = {}
      BY ThreadSetsFinite, FS_EmptySet DEF IInv, WaitersExact
    <2>2. QED
      BY <2>1 DEF Delete, Destroy, Alive, IInv
  <1> DEFINE where == IF waiters = 0 THEN "finalizing" ELSE "idle"
  <1>2. pc' = [Broadcast EXCEPT ![t] = where] \/ pc' = [pc EXCEPT ![t] = where]
    BY DEF Delete, Destroy
  <1>3. Waiting' = Waiting /\ Finalizing' = IF where = "finalizing" THEN {t} ELSE {}
    BY <1>1, <1>2 DEF TypeOK, Broadcast, Waiting, Finalizing, Inside
  <1>4. TypeOK'
    BY <1>1, <1>2 DEF Delete, Destroy, shared, TypeOK, Broadcast, Inside
  <1>5. UNCHANGED <<value, waiters, canceled, need, destroyed>>
    BY DEF Delete, Destroy, shared
  <1>6. NoLostWakeup'
    BY <1>1, <1>5 DEF IInv, Delete, Destroy, shared, TypeOK, Broadcast, NoLostWakeup
  <1>7. FinalizedOnce'
    <2>1. CASE where = "finalizing"
      <3>1. waiters = 0
        BY <2>1
      <3>2. Waiting' = {} /\ Finalizing' = {t} /\ destroyed' = 0
        BY <1>1, <1>3, <1>5, <2>1, <3>1
      <3>3. QED
        BY <3>2, FS_Singleton DEF FinalizedOnce
    <2>2. CASE where # "finalizing"
      BY <1>1, <1>3, <1>5, <2>2, FS_EmptySet DEF FinalizedOnce, Alive
    <2>3. QED
      BY <2>1, <2>2
  <1>8. QED
    BY <1>3, <1>4, <1>5, <1>6, <1>7 DEF IInv, WaitersExact

LEMMA FinalizeKeepsIInv ==
  ASSUME IInv, NEW t \in Thread, Finalize(t)
  PROVE  IInv'
  <1> USE DEF Finalize, Return
  <1>1. TypeOK /\ t \in Finalizing
    BY DEF IInv, Finalizing
  <1>2. Waiting' = Waiting /\ Finalizing' = Finalizing \ {t}
    BY <1>1 DEF TypeOK, Waiting, Finalizing, Inside
  <1>3. Waiting = {}
    BY <1>1 DEF IInv, FinalizedOnce, Alive
  <1>4. Cardinality(Finalizing') = Cardinality(Finalizing) - 1 /\ Cardinality(Finalizing) \in Nat
    BY <1>1, <1>2, ThreadSetsFinite, FS_RemoveElement, FS_CardinalityType
  <1>5. TypeOK'
    BY <1>1 DEF TypeOK
  <1>6. NoLostWakeup'
    BY <1>1 DEF IInv, TypeOK, NoLostWakeup
  <1>7. FinalizedOnce'
    BY <1>1, <1>2, <1>3, <1>4 DEF IInv, TypeOK, FinalizedOnce
  <1>8. QED
    BY <1>2, <1>5, <1>6, <1>7 DEF IInv, WaitersExact

(* Every step, and stuttering, keeps the invariant. *)
LEMMA NextKeepsIInv == IInv /\ [Next]_vars => IInv'
  <1> SUFFICES ASSUME IInv, [Next]_vars PROVE IInv'
    OBVIOUS
  <1>1. CASE UNCHANGED vars
    BY <1>1 DEF vars, IInv, TypeOK, WaitersExact, NoLostWakeup, FinalizedOnce,
                Alive, Waiting, Finalizing
  <1>2. CASE Next
    <2>1. PICK t \in Thread : Call(t) \/ Continue(t) \/ SpuriousWake(t) \/ Expire(t)
      BY <1>2 DEF Next
    <2>2. CASE Call(t)
      <3>2. ASSUME NEW n \in Count, NEW tm \in BOOLEAN, Wait(t, n, tm)
            PROVE  IInv'
        BY <3>2, WaitKeepsIInv
      <3>3. ASSUME NEW n \in Count, TryWait(t, n) \/ TryWaitFails(t, n) \/ Post(t, n)
            PROVE  IInv'
        BY <3>3, TryWaitKeepsIInv, TryWaitFailsKeepsIInv, PostKeepsIInv
      <3>4. ASSUME NEW v \in 0..MaxValue, Set(t, v) \/ Cancel(t, v)
            PROVE  IInv'
        BY <3>4, SetKeepsIInv
      <3>5. CASE Delete(t) \/ Destroy(t)
        BY <3>5, CloseKeepsIInv
      <3>6. QED
        BY <2>2, <3>2, <3>3, <3>4, <3>5 DEF Call
    <2>3. CASE Continue(t)
      BY <2>3, RewaitKeepsIInv, LeaveExpiredKeepsIInv, FinalizeKeepsIInv DEF Continue
    <2>4. CASE SpuriousWake(t) \/ Expire(t)
      BY <2>4, WakeKeepsIInv
    <2>5. QED
      BY <2>1, <2>2, <2>3, <2>4
  <1>3. QED
    BY <1>1, <1>2

(* In every reachable state the four properties of KtSem hold together. *)
THEOREM Inductive == Spec => []IInv
  BY InitIInv, NextKeepsIInv, PTL DEF Spec

(* The fields of struct KtSem keep their ranges: in particular no          *)
(* interleaving of waits, posts, sets and cancels takes the token count    *)
(* below zero or above max_value.                                          *)
THEOREM TypeCorrect == Spec => []TypeOK
  BY Inductive, PTL DEF IInv

(* state.waiters is the number of threads inside a wait. *)
THEOREM WaitersAreExact == Spec => []WaitersExact
  BY Inductive, PTL DEF IInv

(* No thread sleeps on the condvar with a reason to be awake. *)
THEOREM NoWakeupIsLost == Spec => []NoLostWakeup
  BY Inductive, PTL DEF IInv

(* The native objects are destroyed at most once and never under a waiter. *)
THEOREM NativesFinalizedOnce == Spec => []FinalizedOnce
  BY Inductive, PTL DEF IInv

-----------------------------------------------------------------------------
(* KtSem implements Semaphore.  The mapping reads a pending request off    *)
(* need, so it needs the invariant that a thread outside a wait has none.  *)

NoStrayNeed == \A t \in Thread : pc[t] \notin Inside => need[t] = 0

(* A thread that goes back to sleep was not granted before. *)
WaitingUnserved == \A t \in Thread : pc[t] \in Inside => t \notin granted

RInv == IInv /\ NoStrayNeed /\ WaitingUnserved

LEMMA NextKeepsRInv == RInv /\ [Next]_vars => RInv'
  <1> SUFFICES ASSUME RInv, [Next]_vars PROVE (NoStrayNeed /\ WaitingUnserved)'
    BY NextKeepsIInv DEF RInv
  <1> USE DEF NoStrayNeed, WaitingUnserved
  <1>1. TypeOK /\ NoStrayNeed /\ WaitingUnserved
    BY DEF RInv, IInv
  <1>2. CASE UNCHANGED vars
    BY <1>1, <1>2 DEF vars
  <1>3. ASSUME NEW t \in Thread, NEW n, NEW w, NEW tm, LoopHead(t, n, w, tm)
        PROVE  (NoStrayNeed /\ WaitingUnserved)'
    BY <1>1, <1>3 DEF TypeOK, LoopHead, Acquire, LeaveDeleted, LeaveCanceled,
                      Sleep, Return, Inside
  <1>4. ASSUME NEW t \in Thread, Call(t)
        PROVE  (NoStrayNeed /\ WaitingUnserved)'
    <2>1. CASE \E n \in Count, tm \in BOOLEAN : Wait(t, n, tm)
      BY <1>3, <2>1 DEF Wait
    <2>2. CASE \E n \in Count : TryWait(t, n) \/ TryWaitFails(t, n) \/ Post(t, n)
      BY <1>1, <2>2 DEF TypeOK, TryWait, TryWaitFails, Post, Broadcast, Inside
    <2>3. CASE \E v \in 0..MaxValue : Set(t, v) \/ Cancel(t, v)
      BY <1>1, <2>3 DEF TypeOK, Set, Cancel, Broadcast, Inside
    <2>4. CASE Delete(t) \/ Destroy(t)
      BY <1>1, <2>4 DEF TypeOK, Delete, Destroy, Broadcast, Inside
    <2>5. QED
      BY <1>4, <2>1, <2>2, <2>3, <2>4 DEF Call
  <1>5. ASSUME NEW t \in Thread, Continue(t)
        PROVE  (NoStrayNeed /\ WaitingUnserved)'
    <2>1. CASE Rewait(t)
      BY <1>3, <2>1 DEF Rewait
    <2>2. CASE LeaveExpired(t) \/ Finalize(t)
      BY <1>1, <2>2 DEF TypeOK, LeaveExpired, Finalize, Return, Inside
    <2>3. QED
      BY <1>5, <2>1, <2>2 DEF Continue
  <1>6. ASSUME NEW t \in Thread, SpuriousWake(t) \/ Expire(t)
        PROVE  (NoStrayNeed /\ WaitingUnserved)'
    BY <1>1, <1>6 DEF TypeOK, SpuriousWake, Expire, Inside
  <1>7. QED
    BY <1>2, <1>4, <1>5, <1>6 DEF Next

(* A call that begins a wait takes its tokens, parks, or is turned away. *)
LEMMA WaitImplements ==
  ASSUME RInv, NEW t \in Thread, NEW n \in Count, NEW tm \in BOOLEAN, Wait(t, n, tm)
  PROVE  Abstract!Take(t, n) \/ Abstract!Park(t, n) \/ Abstract!Refuse(t)
  <1>1. TypeOK /\ t \notin Waiting /\ need[t] = 0 /\ pc[t] = "idle"
    BY DEF RInv, IInv, NoStrayNeed, Wait, Waiting, Inside
  <1>2. CASE Sleep(t, n, waiters + 1, tm)
    <2>1. Waiting' = Waiting \union {t}
      BY <1>1, <1>2 DEF TypeOK, Sleep, Waiting, Inside
    <2>2. QED
      BY <1>1, <1>2, <2>1 DEF Sleep, Abstract!Park
  <1>3. CASE ~Sleep(t, n, waiters + 1, tm)
    <2>1. PICK where \in {"idle", "finalizing"} : Return(t, where)
      BY <1>3 DEF Wait, LoopHead, Acquire, LeaveDeleted, LeaveCanceled, AfterDelete
    <2>2. Waiting' = Waiting /\ need' = need
      BY <1>1, <2>1 DEF TypeOK, Return, Waiting, Inside
    <2>3. QED
      BY <1>1, <1>3, <2>2
      DEF Wait, LoopHead, Acquire, LeaveDeleted, LeaveCanceled,
          Abstract!Take, Abstract!Refuse
  <1>4. QED
    BY <1>2, <1>3

(* A woken thread gets its tokens, leaves without them, or parks on. *)
LEMMA RewaitImplements ==
  ASSUME RInv, NEW t \in Thread, Rewait(t)
  PROVE  Abstract!Grant(t) \/ Abstract!Abandon(t) \/ UNCHANGED Abstract!vars
  <1>1. TypeOK /\ t \in Waiting /\ t \notin granted
    BY DEF RInv, IInv, Rewait, Waiting, Inside, WaitingUnserved
  <1>2. CASE Sleep(t, need[t], waiters, timed[t])
    <2>1. Waiting' = Waiting /\ need' = need
      BY <1>1, <1>2 DEF TypeOK, Sleep, Waiting, Inside
    <2>2. granted' = granted
      BY <1>1, <1>2 DEF Sleep
    <2>3. QED
      BY <1>2, <2>1, <2>2 DEF Sleep, Abstract!vars
  <1>3. CASE ~Sleep(t, need[t], waiters, timed[t])
    <2>1. PICK where \in {"idle", "finalizing"} : Return(t, where)
      BY <1>3 DEF Rewait, LoopHead, Acquire, LeaveDeleted, LeaveCanceled, AfterDelete
    <2>2. Waiting' = Waiting \ {t} /\ need' = [need EXCEPT ![t] = 0]
      BY <1>1, <2>1 DEF TypeOK, Return, Waiting, Inside
    <2>3. QED
      BY <1>1, <1>3, <2>2
      DEF Rewait, LoopHead, Acquire, LeaveDeleted, LeaveCanceled,
          Abstract!Grant, Abstract!Abandon
  <1>4. QED
    BY <1>2, <1>3

LEMMA StepImplements == RInv /\ [Next]_vars => [Abstract!Next]_Abstract!vars
  <1> SUFFICES ASSUME RInv, [Next]_vars PROVE [Abstract!Next]_Abstract!vars
    OBVIOUS
  <1>1. TypeOK /\ value \in Nat
    BY CountsAreNatural DEF RInv, IInv
  <1>2. CASE UNCHANGED vars
    BY <1>2 DEF vars, Abstract!vars, Waiting
  <1>3. ASSUME NEW t \in Thread, Call(t)
        PROVE  [Abstract!Next]_Abstract!vars
    <2>1. CASE \E n \in Count, tm \in BOOLEAN : Wait(t, n, tm)
      BY <2>1, WaitImplements DEF Abstract!Next
    <2>2. ASSUME NEW n \in Count, TryWait(t, n)
          PROVE  Abstract!Take(t, n)
      BY <2>2 DEF TryWait, Waiting, Inside, Abstract!Take
    <2>3. ASSUME NEW n \in Count, TryWaitFails(t, n)
          PROVE  Abstract!Refuse(t)
      BY <2>3 DEF TryWaitFails, shared, Waiting, Inside, Abstract!Refuse
    <2>4. ASSUME NEW n \in Count, Post(t, n)
          PROVE  Abstract!Release(n)
      <3>1. Waiting' = Waiting
        BY <1>1, <2>4, BroadcastKeeps DEF Post
      <3>2. value + n <= MaxValue
        BY <1>1, <2>4, SemAssumption DEF Post
      <3>3. QED
        BY <2>4, <3>1, <3>2 DEF Post, Abstract!Release
    <2>5. ASSUME NEW v \in 0..MaxValue, Set(t, v) \/ Cancel(t, v)
          PROVE  Abstract!Assign(v)
      BY <1>1, <2>5, BroadcastKeeps DEF Set, Cancel, Abstract!Assign
    <2>6. CASE Delete(t) \/ Destroy(t)
      <3>1. Waiting' = Waiting
        BY <1>1, <2>6 DEF TypeOK, Delete, Destroy, Broadcast, Waiting, Inside
      <3>2. QED
        BY <2>6, <3>1 DEF Delete, Destroy, shared, Abstract!vars
    <2>7. QED
      BY <1>3, <2>1, <2>2, <2>3, <2>4, <2>5, <2>6 DEF Call, Abstract!Next
  <1>4. ASSUME NEW t \in Thread, Continue(t)
        PROVE  [Abstract!Next]_Abstract!vars
    <2>1. CASE Rewait(t)
      BY <2>1, RewaitImplements DEF Abstract!Next
    <2>2. CASE LeaveExpired(t)
      <3>1. t \in Waiting /\ Waiting' = Waiting \ {t}
        BY <1>1, <2>2 DEF TypeOK, LeaveExpired, Return, Waiting, Inside
      <3>2. Abstract!Abandon(t)
        BY <2>2, <3>1 DEF LeaveExpired, Return, Abstract!Abandon
      <3>3. QED
        BY <3>2 DEF Abstract!Next
    <2>3. CASE Finalize(t)
      <3>1. need[t] = 0
        BY <2>3 DEF RInv, NoStrayNeed, Finalize, Inside
      <3>2. Waiting' = Waiting /\ need' = need
        BY <1>1, <2>3, <3>1 DEF TypeOK, Finalize, Return, Waiting, Inside
      <3>3. QED
        BY <2>3, <3>2 DEF Finalize, Abstract!vars
    <2>4. QED
      BY <1>4, <2>1, <2>2, <2>3 DEF Continue
  <1>5. ASSUME NEW t \in Thread, SpuriousWake(t) \/ Expire(t)
        PROVE  UNCHANGED Abstract!vars
    <2>1. Waiting' = Waiting
      BY <1>1, <1>5 DEF TypeOK, SpuriousWake, Expire, Waiting, Inside
    <2>2. QED
      BY <1>5, <2>1 DEF SpuriousWake, Expire, shared, Abstract!vars
  <1>6. QED
    BY <1>2, <1>3, <1>4, <1>5 DEF Next

(* Every behaviour of the native semaphore is one of the abstract counting *)
(* semaphore: tokens are conserved, go to a caller as a whole request, and *)
(* no caller parks in front of enough of them.                             *)
THEOREM Refinement == Spec => Abstract!Spec
  <1>1. Init => RInv
    BY InitIInv DEF RInv, NoStrayNeed, WaitingUnserved, Init
  <1>2. Init => Abstract!Init
    BY DEF Init, Abstract!Init, Waiting, Inside
  <1>3. QED
    BY <1>1, <1>2, NextKeepsRInv, StepImplements, PTL DEF Spec, Abstract!Spec
=============================================================================
