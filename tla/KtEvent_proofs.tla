--------------------------- MODULE KtEvent_proofs ---------------------------
(***************************************************************************)
(* Proofs about KtEvent for every set of threads, bits and requests: its   *)
(* four safety properties together are inductive, and it implements        *)
(* EventBits.  The argument on the waiter count is that of KtSem_proofs;   *)
(* new is that a clearing wait only takes bits, so that nobody it leaves   *)
(* asleep can have become satisfied.                                       *)
(***************************************************************************)
EXTENDS KtEvent, FiniteSetTheorems, TLAPS

IInv == TypeOK /\ WaitersExact /\ NoLostWakeup /\ FinalizedOnce

(* What a request may be, the empty one of a thread outside a wait too. *)
AnyRequest == Request \union {NoRequest}

(* Only finitely many threads can be in any part of a call. *)
LEMMA ThreadSetsFinite == IsFiniteSet(Waiting) /\ IsFiniteSet(Finalizing)
  BY EventAssumption, FS_Subset DEF Waiting, Finalizing

(* A grant takes bits and adds none. *)
LEMMA ClearedShrinks ==
  ASSUME NEW b, NEW r \in AnyRequest
  PROVE  Cleared(b, r) \subseteq b
  <1>1. r.clear \in ClearMode
    BY EventAssumption DEF AnyRequest, NoRequest, ClearMode
  <1>2. QED
    BY <1>1 DEF Cleared, ClearMode

(* Fewer bits never satisfy a request that more bits did not. *)
LEMMA MatchesMonotone ==
  ASSUME NEW b, NEW c, c \subseteq b, NEW r, ~Matches(b, r)
  PROVE  ~Matches(c, r)
  BY DEF Matches

(* A broadcast moves sleepers to awake, which counts as waiting too. *)
LEMMA BroadcastKeeps ==
  ASSUME TypeOK, pc' = Broadcast
  PROVE  /\ Waiting' = Waiting
         /\ Finalizing' = Finalizing
         /\ pc' \in [Thread -> Inside \union {"idle", "finalizing"}]
         /\ \A t \in Thread : pc'[t] # "asleep"
  BY DEF TypeOK, Broadcast, Waiting, Finalizing, Inside

(* The initial state satisfies the invariant. *)
LEMMA InitIInv == Init => IInv
  <1> SUFFICES ASSUME Init PROVE IInv
    OBVIOUS
  <1>1. TypeOK
    <2>1. req \in [Thread -> Request \union {NoRequest}]
      BY DEF Init
    <2>2. pc \in [Thread -> Inside \union {"idle", "finalizing"}] /\ timed \in [Thread -> BOOLEAN]
      BY DEF Init
    <2>3. QED
      BY <2>1, <2>2, EventAssumption DEF Init, TypeOK
  <1>2. Waiting = {} /\ Finalizing = {}
    BY DEF Init, Waiting, Finalizing, Inside
  <1>3. QED
    BY <1>1, <1>2, FS_EmptySet
    DEF Init, IInv, WaitersExact, NoLostWakeup, FinalizedOnce

(* The head of the wait loop keeps the invariant, whether the thread has   *)
(* just been counted or comes back from the condvar.                       *)
LEMMA LoopHeadKeepsIInv ==
  ASSUME IInv, NEW t \in Thread, NEW r \in AnyRequest, NEW tm \in BOOLEAN,
         pc[t] \in {"idle", "awake"}, Alive,
         NEW w, w = Cardinality(Waiting \union {t}), LoopHead(t, r, w, tm)
  PROVE  IInv'
  <1> DEFINE W == Waiting \union {t}
  <1>1. /\ IsFiniteSet(W) /\ w \in Nat /\ w >= 1
        /\ Cardinality(W \ {t}) = w - 1
        /\ w = 1 => W \ {t} = {}
    <2>1. IsFiniteSet(W)
      BY ThreadSetsFinite, FS_AddElement
    <2>2. /\ Cardinality(W) \in Nat
          /\ Cardinality(W \ {t}) = Cardinality(W) - 1
          /\ Cardinality(W \ {t}) \in Nat
          /\ Cardinality(W \ {t}) = 0 => W \ {t} = {}
      BY <2>1, FS_RemoveElement, FS_CardinalityType, FS_EmptySet
    <2>3. QED
      BY <2>1, <2>2
  <1>2. Finalizing = {} /\ destroyed = 0 /\ TypeOK /\ NoLostWakeup
    BY DEF Alive, IInv
  <1>3. CASE Sleep(t, r, w, tm)
    <2>1. TypeOK'
      <3>1. req' \in [Thread -> AnyRequest] /\ timed' \in [Thread -> BOOLEAN]
        BY <1>2, <1>3 DEF TypeOK, Sleep, AnyRequest
      <3>2. pc' \in [Thread -> Inside \union {"idle", "finalizing"}]
        BY <1>2, <1>3 DEF TypeOK, Sleep, Inside
      <3>3. granted' \subseteq Thread
        BY <1>2, <1>3 DEF TypeOK, Sleep
      <3>4. QED
        BY <1>1, <1>2, <1>3, <3>1, <3>2, <3>3 DEF TypeOK, Sleep, LoopHead, AnyRequest
    <2>2. Waiting' = W /\ Finalizing' = {}
      BY <1>2, <1>3 DEF TypeOK, Sleep, Waiting, Finalizing, Inside
    <2>3. WaitersExact'
      BY <1>3, <2>2 DEF WaitersExact, Sleep
    <2>4. NoLostWakeup'
      <3> SUFFICES ASSUME NEW u \in Thread, pc'[u] = "asleep"
                   PROVE  ~Matches(bits', req'[u]) /\ ~deleted' /\ ~canceled'
        BY DEF NoLostWakeup
      <3>1. UNCHANGED <<bits, deleted, canceled>> /\ ~canceled /\ ~deleted
        BY <1>3 DEF Sleep, LoopHead
      <3>2. CASE u = t
        BY <1>2, <1>3, <3>1, <3>2 DEF TypeOK, Sleep
      <3>3. CASE u # t
        <4>1. pc[u] = "asleep" /\ req'[u] = req[u]
          BY <1>2, <1>3, <3>3 DEF TypeOK, Sleep
        <4>2. QED
          BY <1>2, <3>1, <4>1 DEF NoLostWakeup
      <3>4. QED
        BY <3>2, <3>3
    <2>5. FinalizedOnce'
      BY <1>2, <2>2, FS_EmptySet DEF FinalizedOnce, Alive, LoopHead
    <2>6. QED
      BY <2>1, <2>3, <2>4, <2>5 DEF IInv
  <1>4. CASE ~Sleep(t, r, w, tm)
    <2>1. PICK where \in {"idle", "finalizing"} :
            /\ Return(t, where)
            /\ waiters' = w - 1
            /\ where = "finalizing" => w = 1
      BY <1>4 DEF LoopHead, Grant, LeaveDeleted, LeaveCanceled
    <2>2. /\ bits' \subseteq bits /\ canceled' \in BOOLEAN
          /\ canceled' => canceled
          /\ UNCHANGED <<deleted, destroyed>>
      <3>1. UNCHANGED <<deleted, destroyed>>
        BY DEF LoopHead
      <3>2. canceled' = FALSE \/ canceled' = canceled
        BY <1>4 DEF LoopHead, Grant, LeaveDeleted, LeaveCanceled
      <3>3. bits' = bits \/ bits' = Cleared(bits, r)
        BY <1>4 DEF LoopHead, Grant, LeaveDeleted, LeaveCanceled
      <3>4. bits' \subseteq bits
        BY <3>3, ClearedShrinks
      <3>5. canceled' \in BOOLEAN /\ (canceled' => canceled)
        <4>1. canceled \in BOOLEAN
          BY <1>2 DEF TypeOK
        <4>2. CASE canceled' = FALSE
          BY <4>2, Zenon
        <4>3. CASE canceled' = canceled
          BY <4>1, <4>3, Zenon
        <4>4. QED
          BY <3>2, <4>2, <4>3
      <3>6. QED
        BY <3>1, <3>4, <3>5
    <2>3. TypeOK'
      <3>1. req' \in [Thread -> AnyRequest] /\ timed' \in [Thread -> BOOLEAN]
        BY <1>2, <2>1 DEF TypeOK, Return, AnyRequest
      <3>2. pc' \in [Thread -> Inside \union {"idle", "finalizing"}]
        BY <1>2, <2>1 DEF TypeOK, Return
      <3>3. granted' \subseteq Thread
        BY <1>2, <1>4 DEF TypeOK, LoopHead, Grant, LeaveDeleted, LeaveCanceled
      <3>4. QED
        BY <1>1, <1>2, <2>1, <2>2, <3>1, <3>2, <3>3 DEF TypeOK, AnyRequest
    <2>4. /\ Waiting' = W \ {t}
          /\ Finalizing' = IF where = "finalizing" THEN {t} ELSE {}
      BY <1>2, <2>1 DEF TypeOK, Return, Waiting, Finalizing, Inside
    <2>5. WaitersExact'
      BY <1>1, <2>1, <2>4 DEF WaitersExact
    <2>6. NoLostWakeup'
      <3> SUFFICES ASSUME NEW u \in Thread, pc'[u] = "asleep"
                   PROVE  ~Matches(bits', req'[u]) /\ ~deleted' /\ ~canceled'
        BY DEF NoLostWakeup
      <3>1. u # t /\ pc[u] = "asleep" /\ req'[u] = req[u]
        BY <1>2, <2>1 DEF TypeOK, Return
      <3>2. ~Matches(bits, req[u]) /\ ~deleted /\ ~canceled
        BY <1>2, <3>1 DEF NoLostWakeup
      <3>3. QED
        BY <2>2, <3>1, <3>2, MatchesMonotone
    <2>7. FinalizedOnce'
      <3>1. CASE where = "finalizing"
        BY <1>1, <1>2, <2>1, <2>2, <2>4, <3>1, FS_Singleton DEF FinalizedOnce
      <3>2. CASE where # "finalizing"
        BY <1>2, <2>2, <2>4, <3>2, FS_EmptySet DEF FinalizedOnce, Alive
      <3>3. QED
        BY <3>1, <3>2
    <2>8. QED
      BY <2>3, <2>5, <2>6, <2>7 DEF IInv
  <1>5. QED
    BY <1>3, <1>4

(* A wait begins by counting its thread; a woken thread is still counted. *)
LEMMA WaitKeepsIInv ==
  ASSUME IInv, NEW t \in Thread, NEW r \in Request, NEW tm \in BOOLEAN, Wait(t, r, tm)
  PROVE  IInv'
  <1>1. Cardinality(Waiting \union {t}) = waiters + 1
    <2>1. t \notin Waiting
      BY DEF Wait, Waiting, Inside
    <2>2. QED
      BY <2>1, ThreadSetsFinite, FS_AddElement DEF IInv, WaitersExact
  <1>2. QED
    BY <1>1, LoopHeadKeepsIInv DEF Wait, AnyRequest

LEMMA RewaitKeepsIInv ==
  ASSUME IInv, NEW t \in Thread, Rewait(t)
  PROVE  IInv'
  <1>1. t \in Waiting
    BY DEF Rewait, Waiting, Inside
  <1>2. Cardinality(Waiting \union {t}) = waiters
    BY <1>1, ThreadSetsFinite, FS_AddElement DEF IInv, WaitersExact
  <1>3. Alive
    BY <1>1 DEF IInv, FinalizedOnce
  <1>4. req[t] \in AnyRequest /\ timed[t] \in BOOLEAN
    BY DEF IInv, TypeOK, AnyRequest
  <1>5. QED
    BY <1>2, <1>3, <1>4, LoopHeadKeepsIInv DEF Rewait

(* A spurious wake-up and a deadline only move a thread between the states *)
(* that count as waiting.                                                  *)
LEMMA WakeKeepsIInv ==
  ASSUME IInv, NEW t \in Thread, SpuriousWake(t) \/ Expire(t)
  PROVE  IInv'
  <1> USE DEF SpuriousWake, Expire, shared, Inside
  <1>1. TypeOK'
    BY DEF IInv, TypeOK
  <1>2. Waiting' = Waiting /\ Finalizing' = Finalizing
    BY DEF IInv, TypeOK, Waiting, Finalizing
  <1>3. NoLostWakeup'
    BY DEF IInv, TypeOK, NoLostWakeup
  <1>4. QED
    BY <1>1, <1>2, <1>3 DEF IInv, WaitersExact, FinalizedOnce, Alive

LEMMA LeaveExpiredKeepsIInv ==
  ASSUME IInv, NEW t \in Thread, LeaveExpired(t)
  PROVE  IInv'
  <1> USE DEF LeaveExpired, Return, Inside
  <1>1. TypeOK /\ t \in Waiting
    BY DEF IInv, Waiting
  <1>2. Waiting' = Waiting \ {t} /\ Finalizing' = Finalizing
    BY <1>1 DEF TypeOK, Waiting, Finalizing
  <1>3. Cardinality(Waiting') = waiters' /\ waiters' \in Nat
    <2>1. /\ Cardinality(Waiting \ {t}) = Cardinality(Waiting) - 1
          /\ Cardinality(Waiting \ {t}) \in Nat
      BY <1>1, ThreadSetsFinite, FS_RemoveElement, FS_CardinalityType
    <2>2. QED
      BY <1>2, <2>1 DEF IInv, WaitersExact
  <1>4. TypeOK'
    BY <1>1, <1>3 DEF TypeOK
  <1>5. NoLostWakeup'
    BY <1>1 DEF IInv, TypeOK, NoLostWakeup
  <1>6. Alive
    BY <1>1 DEF IInv, FinalizedOnce
  <1>7. QED
    BY <1>2, <1>3, <1>4, <1>5, <1>6 DEF IInv, WaitersExact, FinalizedOnce, Alive

(* Poll and clear take bits and wake nobody: whoever sleeps may sleep on. *)
LEMMA TakeKeepsIInv ==
  ASSUME IInv, bits' \subseteq bits, granted' \subseteq Thread,
         UNCHANGED <<waiters, canceled, deleted, destroyed, pc, req, timed>>
  PROVE  IInv'
  <1>1. Waiting' = Waiting /\ Finalizing' = Finalizing
    BY DEF Waiting, Finalizing
  <1>2. TypeOK'
    BY DEF IInv, TypeOK
  <1>3. NoLostWakeup'
    BY MatchesMonotone DEF IInv, NoLostWakeup
  <1>4. QED
    BY <1>1, <1>2, <1>3 DEF IInv, WaitersExact, FinalizedOnce, Alive

(* Whatever is assigned to bits and canceled, the broadcast that follows   *)
(* leaves nobody asleep to be mistaken about them.                         *)
LEMMA BroadcastKeepsIInv ==
  ASSUME IInv, pc' = Broadcast, bits' \subseteq Bit, canceled' \in BOOLEAN,
         UNCHANGED <<waiters, deleted, destroyed, req, timed, granted>>
  PROVE  IInv'
  <1>1. TypeOK
    BY DEF IInv
  <1>2. QED
    BY <1>1, BroadcastKeeps
    DEF IInv, TypeOK, WaitersExact, NoLostWakeup, FinalizedOnce, Alive

LEMMA AssignKeepsIInv ==
  ASSUME IInv, NEW t \in Thread, NEW p \in SUBSET Bit, Set(t, p) \/ Clear(t, p) \/ Cancel(t, p)
  PROVE  IInv'
  <1>1. canceled' \in BOOLEAN /\ bits' \subseteq Bit
    BY DEF Set, Clear, Cancel, IInv, TypeOK
  <1>2. CASE Clear(t, p)
    <2>1. granted' \subseteq Thread
      BY <1>2 DEF Clear, IInv, TypeOK
    <2>2. QED
      BY <1>2, <2>1, TakeKeepsIInv DEF Clear
  <1>3. QED
    BY <1>1, <1>2, BroadcastKeepsIInv DEF Set, Cancel

LEMMA PollKeepsIInv ==
  ASSUME IInv, NEW t \in Thread, NEW r \in Request, Poll(t, r) \/ PollFails(t, r)
  PROVE  IInv'
  <1>1. bits' \subseteq bits
    BY ClearedShrinks DEF Poll, PollFails, shared, AnyRequest
  <1>2. granted' \subseteq Thread
    BY DEF Poll, PollFails, IInv, TypeOK
  <1>3. QED
    BY <1>1, <1>2, TakeKeepsIInv DEF Poll, PollFails, shared

(* Delete and destroy: the only steps, with the exit of the last waiter,   *)
(* that put a thread in charge of the natives.                             *)
LEMMA CloseKeepsIInv ==
  ASSUME IInv, NEW t \in Thread, Delete(t) \/ Destroy(t)
  PROVE  IInv'
  <1>1. /\ TypeOK /\ Finalizing = {} /\ destroyed = 0 /\ pc[t] = "idle"
        /\ waiters = 0 => Waiting = {}
    <2>1. waiters = 0 => Waiting = {}
      BY ThreadSetsFinite, FS_EmptySet DEF IInv, WaitersExact
    <2>2. QED
      BY <2>1 DEF Delete, Destroy, Alive, IInv
  <1> DEFINE where == IF waiters = 0 THEN "finalizing" ELSE "idle"
  <1>2. pc' = [Broadcast EXCEPT ![t] = where] \/ pc' = [pc EXCEPT ![t] = where]
    BY DEF Delete, Destroy
  <1>3. Waiting' = Waiting /\ Finalizing' = IF where = "finalizing" THEN {t} ELSE {}
    BY <1>1, <1>2 DEF TypeOK, Broadcast, Waiting, Finalizing, Inside
  <1>4. TypeOK'
    BY <1>1, <1>2 DEF Delete, Destroy, shared, TypeOK, Broadcast, Inside
  <1>5. UNCHANGED <<bits, waiters, canceled, req, destroyed>>
    BY DEF Delete, Destroy, shared
  <1>6. NoLostWakeup'
    BY <1>1, <1>5 DEF IInv, Delete, Destroy, shared, TypeOK, Broadcast, NoLostWakeup
  <1>7. FinalizedOnce'
    <2>1. CASE where = "finalizing"
      <3>1. waiters = 0
        BY <2>1
      <3>2. Waiting' = {} /\ Finalizing' = {t} /\ destroyed' = 0
        BY <1>1, <1>3, <1>5, <2>1, <3>1
      <3>3. QED
        BY <3>2, FS_Singleton DEF FinalizedOnce
    <2>2. CASE where # "finalizing"
      BY <1>1, <1>3, <1>5, <2>2, FS_EmptySet DEF FinalizedOnce, Alive
    <2>3. QED
      BY <2>1, <2>2
  <1>8. QED
    BY <1>3, <1>4, <1>5, <1>6, <1>7 DEF IInv, WaitersExact

LEMMA FinalizeKeepsIInv ==
  ASSUME IInv, NEW t \in Thread, Finalize(t)
  PROVE  IInv'
  <1> USE DEF Finalize, Return
  <1>1. TypeOK /\ t \in Finalizing
    BY DEF IInv, Finalizing
  <1>2. Waiting' = Waiting /\ Finalizing' = Finalizing \ {t}
    BY <1>1 DEF TypeOK, Waiting, Finalizing, Inside
  <1>3. Waiting = {}
    BY <1>1 DEF IInv, FinalizedOnce, Alive
  <1>4. Cardinality(Finalizing') = Cardinality(Finalizing) - 1 /\ Cardinality(Finalizing) \in Nat
    BY <1>1, <1>2, ThreadSetsFinite, FS_RemoveElement, FS_CardinalityType
  <1>5. TypeOK'
    BY <1>1 DEF TypeOK
  <1>6. NoLostWakeup'
    BY <1>1 DEF IInv, TypeOK, NoLostWakeup
  <1>7. FinalizedOnce'
    BY <1>1, <1>2, <1>3, <1>4 DEF IInv, TypeOK, FinalizedOnce
  <1>8. QED
    BY <1>2, <1>5, <1>6, <1>7 DEF IInv, WaitersExact

(* Every step, and stuttering, keeps the invariant. *)
LEMMA NextKeepsIInv == IInv /\ [Next]_vars => IInv'
  <1> SUFFICES ASSUME IInv, [Next]_vars PROVE IInv'
    OBVIOUS
  <1>1. CASE UNCHANGED vars
    BY <1>1 DEF vars, IInv, TypeOK, WaitersExact, NoLostWakeup, FinalizedOnce,
                Alive, Waiting, Finalizing
  <1>2. ASSUME NEW t \in Thread, Call(t)
        PROVE  IInv'
    BY <1>2, PollKeepsIInv, WaitKeepsIInv, AssignKeepsIInv, CloseKeepsIInv DEF Call
  <1>3. ASSUME NEW t \in Thread, Continue(t)
        PROVE  IInv'
    BY <1>3, RewaitKeepsIInv, LeaveExpiredKeepsIInv, FinalizeKeepsIInv DEF Continue
  <1>4. QED
    BY <1>1, <1>2, <1>3, WakeKeepsIInv DEF Next

(* In every reachable state the four properties of KtEvent hold together. *)
THEOREM Inductive == Spec => []IInv
  BY InitIInv, NextKeepsIInv, PTL DEF Spec

(* The fields of struct KtEvent keep their ranges. *)
THEOREM TypeCorrect == Spec => []TypeOK
  BY Inductive, PTL DEF IInv

(* state.waiters is the number of threads inside a wait. *)
THEOREM WaitersAreExact == Spec => []WaitersExact
  BY Inductive, PTL DEF IInv

(* No thread sleeps on the condvar with a reason to be awake, although     *)
(* other waiters may take the bits it was woken for.                       *)
THEOREM NoWakeupIsLost == Spec => []NoLostWakeup
  BY Inductive, PTL DEF IInv

(* The native objects are destroyed at most once and never under a waiter. *)
THEOREM NativesFinalizedOnce == Spec => []FinalizedOnce
  BY Inductive, PTL DEF IInv

-----------------------------------------------------------------------------
(* KtEvent implements EventBits.  The mapping reads a pending request off  *)
(* req, so it needs the invariant that a thread outside a wait has none.   *)

NoStrayRequest == \A t \in Thread : pc[t] \notin Inside => req[t] = NoRequest

(* A thread that goes back to sleep was not granted before. *)
WaitingUnserved == \A t \in Thread : pc[t] \in Inside => t \notin granted

RInv == IInv /\ NoStrayRequest /\ WaitingUnserved

(* The two modules look at a request alike. *)
LEMMA SameLook ==
  ASSUME NEW r \in AnyRequest
  PROVE  /\ Matches(bits, r) <=> Abstract!Satisfied(r)
         /\ Cleared(bits, r) = Abstract!Left(r)
         /\ NoRequest = Abstract!NoRequest
  <1>1. Matches(bits, r) <=> Abstract!Satisfied(r)
    BY DEF Matches, Abstract!Satisfied
  <1>2. r.clear \in ClearMode
    BY EventAssumption DEF AnyRequest, NoRequest, ClearMode
  <1>3. Cleared(bits, r) = Abstract!Left(r)
    BY <1>2 DEF Cleared, ClearMode, Abstract!Left
  <1>4. QED
    BY <1>1, <1>3 DEF NoRequest, Abstract!NoRequest

LEMMA NextKeepsRInv == RInv /\ [Next]_vars => RInv'
  <1> SUFFICES ASSUME RInv, [Next]_vars PROVE (NoStrayRequest /\ WaitingUnserved)'
    BY NextKeepsIInv DEF RInv
  <1> USE DEF NoStrayRequest, WaitingUnserved
  <1>1. TypeOK /\ NoStrayRequest /\ WaitingUnserved
    BY DEF RInv, IInv
  <1>2. CASE UNCHANGED vars
    BY <1>1, <1>2 DEF vars
  <1>3. ASSUME NEW t \in Thread, NEW r, NEW w, NEW tm, LoopHead(t, r, w, tm)
        PROVE  (NoStrayRequest /\ WaitingUnserved)'
    BY <1>1, <1>3 DEF TypeOK, LoopHead, Grant, LeaveDeleted, LeaveCanceled,
                      Sleep, Return, Inside
  <1>4. ASSUME NEW t \in Thread, Call(t)
        PROVE  (NoStrayRequest /\ WaitingUnserved)'
    <2>1. CASE \E r \in Request, tm \in BOOLEAN : Wait(t, r, tm)
      BY <1>3, <2>1 DEF Wait
    <2>2. CASE \E r \in Request : Poll(t, r) \/ PollFails(t, r)
      BY <1>1, <2>2 DEF Poll, PollFails, Inside
    <2>3. CASE \E p \in SUBSET Bit : Set(t, p) \/ Clear(t, p) \/ Cancel(t, p)
      BY <1>1, <2>3 DEF TypeOK, Set, Clear, Cancel, Broadcast, Inside
    <2>4. CASE Delete(t) \/ Destroy(t)
      BY <1>1, <2>4 DEF TypeOK, Delete, Destroy, Broadcast, Inside
    <2>5. QED
      BY <1>4, <2>1, <2>2, <2>3, <2>4 DEF Call
  <1>5. ASSUME NEW t \in Thread, Continue(t)
        PROVE  (NoStrayRequest /\ WaitingUnserved)'
    <2>1. CASE Rewait(t)
      BY <1>3, <2>1 DEF Rewait
    <2>2. CASE LeaveExpired(t) \/ Finalize(t)
      BY <1>1, <2>2 DEF TypeOK, LeaveExpired, Finalize, Return, Inside
    <2>3. QED
      BY <1>5, <2>1, <2>2 DEF Continue
  <1>6. ASSUME NEW t \in Thread, SpuriousWake(t) \/ Expire(t)
        PROVE  (NoStrayRequest /\ WaitingUnserved)'
    BY <1>1, <1>6 DEF TypeOK, SpuriousWake, Expire, Inside
  <1>7. QED
    BY <1>2, <1>4, <1>5, <1>6 DEF Next

(* A call that begins a wait takes its bits, parks, or is turned away. *)
LEMMA WaitImplements ==
  ASSUME RInv, NEW t \in Thread, NEW r \in Request, NEW tm \in BOOLEAN, Wait(t, r, tm)
  PROVE  Abstract!Take(t, r) \/ Abstract!Park(t, r) \/ Abstract!Refuse(t)
  <1>1. TypeOK /\ t \notin Waiting /\ req[t] = NoRequest /\ pc[t] = "idle" /\ r \in AnyRequest
    BY DEF RInv, IInv, NoStrayRequest, Wait, Waiting, Inside, AnyRequest
  <1>2. CASE Sleep(t, r, waiters + 1, tm)
    <2>1. Waiting' = Waiting \union {t}
      BY <1>1, <1>2 DEF TypeOK, Sleep, Waiting, Inside
    <2>2. QED
      BY <1>1, <1>2, <2>1, SameLook DEF Sleep, Abstract!Park
  <1>3. CASE ~Sleep(t, r, waiters + 1, tm)
    <2>1. PICK where \in {"idle", "finalizing"} : Return(t, where)
      BY <1>3 DEF Wait, LoopHead, Grant, LeaveDeleted, LeaveCanceled
    <2>2. Waiting' = Waiting /\ req' = req
      BY <1>1, <2>1 DEF TypeOK, Return, Waiting, Inside
    <2>3. CASE Grant(t, r, waiters + 1)
      BY <1>1, <2>2, <2>3, SameLook DEF Grant, Abstract!Take
    <2>4. CASE ~Grant(t, r, waiters + 1)
      BY <1>1, <1>3, <2>2, <2>4 DEF Wait, LoopHead, LeaveDeleted, LeaveCanceled, Abstract!Refuse
    <2>5. QED
      BY <2>3, <2>4
  <1>4. QED
    BY <1>2, <1>3

(* A woken thread gets its bits, leaves without them, or parks on. *)
LEMMA RewaitImplements ==
  ASSUME RInv, NEW t \in Thread, Rewait(t)
  PROVE  Abstract!Grant(t) \/ Abstract!Abandon(t) \/ UNCHANGED Abstract!vars
  <1>1. TypeOK /\ t \in Waiting /\ t \notin granted /\ req[t] \in AnyRequest
    BY DEF RInv, IInv, TypeOK, Rewait, Waiting, Inside, AnyRequest, WaitingUnserved
  <1>2. CASE Sleep(t, req[t], waiters, timed[t])
    <2>1. Waiting' = Waiting /\ req' = req
      BY <1>1, <1>2 DEF TypeOK, Sleep, Waiting, Inside
    <2>2. granted' = granted
      BY <1>1, <1>2 DEF Sleep
    <2>3. QED
      BY <1>2, <2>1, <2>2 DEF Sleep, Abstract!vars
  <1>3. CASE ~Sleep(t, req[t], waiters, timed[t])
    <2>1. PICK where \in {"idle", "finalizing"} : Return(t, where)
      BY <1>3 DEF Rewait, LoopHead, Grant, LeaveDeleted, LeaveCanceled
    <2>2. Waiting' = Waiting \ {t} /\ req' = [req EXCEPT ![t] = NoRequest]
      BY <1>1, <2>1 DEF TypeOK, Return, Waiting, Inside
    <2>3. Abstract!Unpark(t)
      BY <1>1, <2>2, SameLook DEF Abstract!Unpark
    <2>4. CASE Grant(t, req[t], waiters)
      BY <1>1, <2>3, <2>4, SameLook DEF Grant, Abstract!Grant
    <2>5. CASE ~Grant(t, req[t], waiters)
      BY <1>3, <2>3, <2>5 DEF Rewait, LoopHead, LeaveDeleted, LeaveCanceled, Abstract!Abandon
    <2>6. QED
      BY <2>4, <2>5
  <1>4. QED
    BY <1>2, <1>3

LEMMA StepImplements == RInv /\ [Next]_vars => [Abstract!Next]_Abstract!vars
  <1> SUFFICES ASSUME RInv, [Next]_vars PROVE [Abstract!Next]_Abstract!vars
    OBVIOUS
  <1>1. TypeOK
    BY DEF RInv, IInv
  <1>2. CASE UNCHANGED vars
    BY <1>2 DEF vars, Abstract!vars, Waiting
  <1>3. ASSUME NEW t \in Thread, Call(t)
        PROVE  [Abstract!Next]_Abstract!vars
    <2>1. CASE \E r \in Request, tm \in BOOLEAN : Wait(t, r, tm)
      BY <2>1, WaitImplements DEF Abstract!Next
    <2>2. ASSUME NEW r \in Request, Poll(t, r)
          PROVE  Abstract!Take(t, r)
      <3>1. Waiting' = Waiting /\ t \notin Waiting /\ r \in AnyRequest
        BY <2>2 DEF Poll, Waiting, Inside, AnyRequest
      <3>2. QED
        BY <2>2, <3>1, SameLook DEF Poll, Abstract!Take
    <2>3. ASSUME NEW r \in Request, PollFails(t, r)
          PROVE  Abstract!Refuse(t)
      BY <2>3 DEF PollFails, shared, Waiting, Inside, Abstract!Refuse
    <2>4. ASSUME NEW p \in SUBSET Bit, Set(t, p) \/ Clear(t, p) \/ Cancel(t, p)
          PROVE  Abstract!Next
      <3>1. Waiting' = Waiting /\ req' = req
        BY <1>1, <2>4, BroadcastKeeps DEF Set, Clear, Cancel, Waiting
      <3>2. bits' \in SUBSET Bit
        BY <1>1, <2>4 DEF TypeOK, Set, Clear, Cancel
      <3>3. Abstract!Assign(bits')
        BY <2>4, <3>1 DEF Set, Clear, Cancel, Abstract!Assign
      <3>4. QED
        BY <3>2, <3>3 DEF Abstract!Next
    <2>5. CASE Delete(t) \/ Destroy(t)
      <3>1. Waiting' = Waiting
        BY <1>1, <2>5 DEF TypeOK, Delete, Destroy, Broadcast, Waiting, Inside
      <3>2. QED
        BY <2>5, <3>1 DEF Delete, Destroy, shared, Abstract!vars
    <2>6. QED
      BY <1>3, <2>1, <2>2, <2>3, <2>4, <2>5 DEF Call, Abstract!Next
  <1>4. ASSUME NEW t \in Thread, Continue(t)
        PROVE  [Abstract!Next]_Abstract!vars
    <2>1. CASE Rewait(t)
      BY <2>1, RewaitImplements DEF Abstract!Next
    <2>2. CASE LeaveExpired(t)
      <3>1. t \in Waiting /\ Waiting' = Waiting \ {t}
        BY <1>1, <2>2 DEF TypeOK, LeaveExpired, Return, Waiting, Inside
      <3>2. Abstract!Abandon(t)
        BY <2>2, <3>1 DEF LeaveExpired, Return, Abstract!Abandon, Abstract!Unpark,
                          NoRequest, Abstract!NoRequest
      <3>3. QED
        BY <3>2 DEF Abstract!Next
    <2>3. CASE Finalize(t)
      <3>1. req[t] = NoRequest
        BY <2>3 DEF RInv, NoStrayRequest, Finalize, Inside
      <3>2. Waiting' = Waiting /\ req' = req
        BY <1>1, <2>3, <3>1 DEF TypeOK, Finalize, Return, Waiting, Inside
      <3>3. QED
        BY <2>3, <3>2 DEF Finalize, Abstract!vars
    <2>4. QED
      BY <1>4, <2>1, <2>2, <2>3 DEF Continue
  <1>5. ASSUME NEW t \in Thread, SpuriousWake(t) \/ Expire(t)
        PROVE  UNCHANGED Abstract!vars
    <2>1. Waiting' = Waiting
      BY <1>1, <1>5 DEF TypeOK, SpuriousWake, Expire, Waiting, Inside
    <2>2. QED
      BY <1>5, <2>1 DEF SpuriousWake, Expire, shared, Abstract!vars
  <1>6. QED
    BY <1>2, <1>3, <1>4, <1>5 DEF Next

(* Every behaviour of the native event flag is one of the abstract flag:   *)
(* a request is granted in one look at the bits, what it clears goes to no *)
(* second caller, and no caller parks in front of its bits.                *)
THEOREM Refinement == Spec => Abstract!Spec
  <1>1. Init => RInv
    BY InitIInv DEF RInv, NoStrayRequest, WaitingUnserved, Init
  <1>2. Init => Abstract!Init
    BY DEF Init, Abstract!Init, Waiting, Inside, NoRequest, Abstract!NoRequest
  <1>3. QED
    BY <1>1, <1>2, NextKeepsRInv, StepImplements, PTL DEF Spec, Abstract!Spec
=============================================================================
