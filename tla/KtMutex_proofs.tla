---------------------------- MODULE KtMutex_proofs ----------------------------
(***************************************************************************)
(* Proofs about KtMutex for every set of threads and every depth.  The     *)
(* properties are not inductive by themselves: what makes the unlocked     *)
(* owner test sound is the order in which locked, owner and the host mutex *)
(* change hands, and Handover says where each thread is in that order.     *)
(***************************************************************************)
EXTENDS KtMutex, TLAPS

(* A thread that is not in the middle of taking or giving up the mutex. *)
Settled == {"idle", "readLocked", "readOwner", "clear"}

(* The shadow names the holder whenever it says locked. *)
ShadowTrue == locked => owner = holder /\ holder \in Thread

(* What the fields are while t takes or gives up the host mutex. *)
Handover(t) ==
    /\ pc[t] \in {"setOwner", "setLocked", "clear", "release"} => holder = t
    /\ pc[t] \in {"setOwner", "setLocked", "release"} => ~locked
    /\ pc[t] = "setLocked" => owner = t
    /\ pc[t] \in {"native", "asleep"} => holder # t
    /\ pc[t] \in {"native", "asleep", "setOwner", "setLocked"} => depth[t] = 0

(* What they are while it has it, or has not. *)
Holding(t) ==
    /\ pc[t] \in Settled /\ holder = t => depth[t] > 0
    /\ pc[t] \in Settled /\ depth[t] > 0 =>
        holder = t /\ locked /\ owner = t /\ recursion = depth[t]
    /\ pc[t] \in {"readLocked", "readOwner"} /\ op[t] \in {"lock", "trylock"} =>
        depth[t] < MaxDepth

FalseOwner(t) == pc[t] = "readOwner" /\ owner = t /\ holder # t

(* A destroyed mutex stays as it was found. *)
Closed == destroyed => ~locked /\ \A t \in Thread : pc[t] = "idle"

IInv ==
    /\ TypeOK
    /\ ShadowTrue
    /\ \A t \in Thread : Handover(t) /\ Holding(t) /\ ~FalseOwner(t)
    /\ Closed

LEMMA InitIInv == Init => IInv
  <1> SUFFICES ASSUME Init PROVE IInv
    OBVIOUS
  <1>1. 0 \in 0..MaxDepth /\ 0 < MaxDepth
    BY MutexAssumption
  <1>2. TypeOK
    BY <1>1 DEF Init, TypeOK, Op, Step
  <1>3. \A t \in Thread : pc[t] = "idle" /\ depth[t] = 0 /\ holder # t
    BY MutexAssumption DEF Init
  <1>4. ASSUME NEW t \in Thread
        PROVE  Handover(t) /\ Holding(t) /\ ~FalseOwner(t)
    <2>1. ~(depth[t] > 0)
      BY <1>3
    <2>2. QED
      BY <1>3, <2>1 DEF Handover, Holding, FalseOwner, Settled
  <1>5. QED
    BY <1>2, <1>4 DEF Init, IInv, ShadowTrue, Closed

LEMMA NextKeepsIInv == IInv /\ [Next]_vars => IInv'
  <1> SUFFICES ASSUME IInv, [Next]_vars PROVE IInv'
    OBVIOUS
  <1> USE MutexAssumption
      DEF IInv, TypeOK, ShadowTrue, Handover, Holding, FalseOwner, Closed,
          Op, Step, Settled, Goto, fields
  <1>1. CASE UNCHANGED vars
    BY <1>1 DEF vars
  <1>2. ASSUME NEW t \in Thread, NEW o \in Op, Begin(t, o) PROVE IInv'
    BY <1>2 DEF Begin
  <1>3. ASSUME NEW t \in Thread, ReadLocked(t) PROVE IInv'
    BY <1>3 DEF ReadLocked, NotOwner
  <1>4. ASSUME NEW t \in Thread, ReadOtherOwner(t) PROVE IInv'
    BY <1>4 DEF ReadOtherOwner, NotOwner
  <1>5. ASSUME NEW t \in Thread, Relock(t) PROVE IInv'
    BY <1>5 DEF Relock
  <1>6. ASSUME NEW t \in Thread, Unrelock(t) PROVE IInv'
    BY <1>6 DEF Unrelock
  <1>7. ASSUME NEW t \in Thread, GiveUp(t) PROVE IInv'
    BY <1>7 DEF GiveUp
  <1>8. ASSUME NEW t \in Thread, IsOwned(t) PROVE IInv'
    BY <1>8 DEF IsOwned
  <1>9. ASSUME NEW t \in Thread, Acquire(t) PROVE IInv'
    BY <1>9 DEF Acquire
  <1>10. ASSUME NEW t \in Thread, TryFails(t) PROVE IInv'
    BY <1>10 DEF TryFails
  <1>11. ASSUME NEW t \in Thread, SetOwner(t) PROVE IInv'
    BY <1>11 DEF SetOwner
  <1>12. ASSUME NEW t \in Thread, SetLocked(t) PROVE IInv'
    BY <1>12 DEF SetLocked
  <1>13. ASSUME NEW t \in Thread, Clear(t) PROVE IInv'
    <2>1. holder = t /\ \A u \in Thread : u # t /\ pc[u] \in Settled => depth[u] = 0
      BY <1>13 DEF Clear
    <2>2. TypeOK'
      <3>1. recursion' \in 0..MaxDepth
        BY <1>13 DEF Clear
      <3>2. QED
        BY <1>13, <3>1 DEF Clear
    <2>3. ShadowTrue' /\ Closed'
      BY <1>13 DEF Clear
    <2>4. \A u \in Thread : Handover(u)' /\ ~FalseOwner(u)'
      BY <1>13 DEF Clear
    <2>5. \A u \in Thread : Holding(u)'
      BY <1>13, <2>1 DEF Clear
    <2>6. QED
      BY <2>2, <2>3, <2>4, <2>5
  <1>14. ASSUME NEW t \in Thread, Release(t) PROVE IInv'
    BY <1>14 DEF Release
  <1>15. ASSUME NEW t \in Thread, WakeUp(t) PROVE IInv'
    BY <1>15 DEF WakeUp
  <1>16. ASSUME NEW t \in Thread, Signal(t) PROVE IInv'
    BY <1>16 DEF Signal
  <1>17. ASSUME NEW t \in Thread, Broadcast(t) PROVE IInv'
    BY <1>17 DEF Broadcast
  <1>18. ASSUME NEW t \in Thread, Destroy(t) PROVE IInv'
    BY <1>18 DEF Destroy
  <1>19. QED
    BY <1>1, <1>2, <1>3, <1>4, <1>5, <1>6, <1>7, <1>8, <1>9, <1>10, <1>11,
       <1>12, <1>13, <1>14, <1>15, <1>16, <1>17, <1>18 DEF Next

THEOREM Inductive == Spec => []IInv
  BY InitIInv, NextKeepsIInv, PTL DEF Spec

(* The shadow fields keep their ranges: recursion never falls below zero.  *)
THEOREM TypeCorrect == Spec => []TypeOK
  BY Inductive, PTL DEF IInv

(* At most one thread has been told it has the mutex: it is the holder of  *)
(* the host mutex, and the holder has been told, or is in a call.          *)
THEOREM MutualExclusion == Spec => []GuestExclusion
  <1>1. IInv => GuestExclusion
    <2> SUFFICES ASSUME IInv, NEW t \in Thread
                 PROVE  /\ depth[t] > 0 => holder = t
                        /\ pc[t] = "idle" /\ holder = t => depth[t] > 0
      BY DEF GuestExclusion
    <2>1. ASSUME depth[t] > 0
          PROVE  holder = t
      <3>1. pc[t] \in Settled \union {"release"}
        BY <2>1 DEF IInv, TypeOK, Step, Handover, Settled
      <3>2. QED
        BY <2>1, <3>1 DEF IInv, Handover, Holding
    <2>2. ASSUME pc[t] = "idle", holder = t
          PROVE  depth[t] > 0
      BY <2>2 DEF IInv, Holding, Settled
    <2>3. QED
      BY <2>1, <2>2
  <1>2. QED
    BY <1>1, Inductive, PTL

(* The owner test, two unlocked reads, never lets a thread in wrongly.     *)
THEOREM OwnerTestSound == Spec => []NoFalseOwner
  <1>1. IInv => NoFalseOwner
    BY DEF IInv, FalseOwner, NoFalseOwner
  <1>2. QED
    BY <1>1, Inductive, PTL

(* The owner test never turns the holder away, at any depth.               *)
THEOREM HolderIsRecognised == Spec => []HolderRecognised
  <1>1. IInv => HolderRecognised
    BY DEF IInv, Holding, HolderRecognised, Settled
  <1>2. QED
    BY <1>1, Inductive, PTL

(* No thread waits in the host mutex for itself, or sleeps with it held.   *)
THEOREM NoThreadBlocksItself == Spec => []NoSelfDeadlock
  <1>1. IInv => NoSelfDeadlock
    BY DEF IInv, Handover, NoSelfDeadlock
  <1>2. QED
    BY <1>1, Inductive, PTL

(* The host mutex is not held when it is destroyed, nor afterwards.        *)
THEOREM DestroyedIsUnheld == Spec => []DestroyedUnheld
  <1>1. IInv => DestroyedUnheld
    BY DEF IInv, TypeOK, Closed, Holding, Settled, DestroyedUnheld
  <1>2. QED
    BY <1>1, Inductive, PTL

-----------------------------------------------------------------------------
(* The implementation of the abstract lock.  Three actions change depth:   *)
(* each is one of the abstract ones, and the others are stutters.          *)

(* Whoever gets the mutex gets it when no thread has it. *)
LEMMA GrantedWhenFree ==
  ASSUME IInv, NEW t \in Thread, pc[t] = "setLocked"
  PROVE  ~destroyed /\ Abstract!Free
  <1>1. holder = t /\ ~locked /\ depth[t] = 0
    BY DEF IInv, Handover
  <1>2. ASSUME NEW u \in Thread, u # t
        PROVE  depth[u] = 0
    <2>1. pc[u] \in {"native", "asleep", "setOwner", "setLocked"} => depth[u] = 0
      BY DEF IInv, Handover
    <2>2. pc[u] \notin {"clear", "release"}
      BY <1>1, <1>2 DEF IInv, Handover
    <2>3. pc[u] \in Settled => ~(depth[u] > 0)
      BY <1>1 DEF IInv, Holding
    <2>4. pc[u] \in Step /\ depth[u] \in 0..MaxDepth
      BY DEF IInv, TypeOK
    <2>5. QED
      BY <2>1, <2>2, <2>3, <2>4, MutexAssumption DEF Step, Settled
  <1>3. QED
    BY <1>1, <1>2 DEF IInv, Closed, Abstract!Free

(* Nobody has a mutex that may be destroyed. *)
LEMMA DestroyedWhenFree ==
  ASSUME IInv, \A u \in Thread : pc[u] = "idle", ~locked
  PROVE  Abstract!Free
  <1>1. ASSUME NEW u \in Thread
        PROVE  depth[u] = 0
    <2>1. ~(depth[u] > 0)
      BY DEF IInv, Holding, Settled
    <2>2. QED
      BY <2>1, MutexAssumption DEF IInv, TypeOK
  <1>2. QED
    BY <1>1 DEF Abstract!Free

(* How often a thread has the mutex when it lets go of the host mutex: a   *)
(* plain mutex is never had twice, a recursive one is left level by level, *)
(* and a cond_wait is not called at a greater depth.                       *)
Levels(t) ==
    /\ ~recursive => depth[t] <= 1
    /\ pc[t] \in {"readLocked", "readOwner"} /\ op[t] = "wait" => depth[t] <= 1
    /\ pc[t] \in {"clear", "release"} => depth[t] = 1

LInv == IInv /\ \A t \in Thread : Levels(t)

LEMMA NextKeepsLInv == LInv /\ [Next]_vars => LInv'
  <1> SUFFICES ASSUME LInv, [Next]_vars PROVE LInv'
    OBVIOUS
  <1>1. IInv /\ IInv'
    BY NextKeepsIInv DEF LInv
  <1>2. \A t \in Thread : depth[t] \in 0..MaxDepth /\ op[t] \in Op /\ pc[t] \in Step
    BY <1>1 DEF IInv, TypeOK
  <1> USE MutexAssumption DEF LInv, Levels, Goto, fields
  <1>3. CASE UNCHANGED vars
    BY <1>1, <1>3 DEF vars
  <1>4. ASSUME NEW t \in Thread, NEW o \in Op, Begin(t, o) PROVE LInv'
    BY <1>1, <1>2, <1>4 DEF Begin, IInv, TypeOK
  <1>5. ASSUME NEW t \in Thread, ReadLocked(t) \/ ReadOtherOwner(t) PROVE LInv'
    BY <1>1, <1>2, <1>5 DEF ReadLocked, ReadOtherOwner, NotOwner, IInv, TypeOK
  <1>6. ASSUME NEW t \in Thread, Relock(t) PROVE LInv'
    BY <1>1, <1>2, <1>6 DEF Relock, IInv, TypeOK
  <1>7. ASSUME NEW t \in Thread, Unrelock(t) PROVE LInv'
    BY <1>1, <1>2, <1>7 DEF Unrelock, IInv, TypeOK
  <1>8. ASSUME NEW t \in Thread, GiveUp(t) PROVE LInv'
    <2>1. depth[t] > 0 /\ recursion = depth[t]
      BY <1>1, <1>2, <1>8 DEF GiveUp, IInv, FalseOwner, Holding, Settled
    <2>2. depth[t] = 1
      BY <1>2, <1>8, <2>1 DEF GiveUp
    <2>3. QED
      BY <1>1, <1>2, <1>8, <2>2 DEF GiveUp, IInv, TypeOK
  <1>9. ASSUME NEW t \in Thread, IsOwned(t) \/ TryFails(t) PROVE LInv'
    BY <1>1, <1>2, <1>9 DEF IsOwned, TryFails, IInv, TypeOK
  <1>10. ASSUME NEW t \in Thread, Acquire(t) \/ SetOwner(t) PROVE LInv'
    BY <1>1, <1>2, <1>10 DEF Acquire, SetOwner, IInv, TypeOK
  <1>11. ASSUME NEW t \in Thread, SetLocked(t) PROVE LInv'
    BY <1>1, <1>2, <1>11 DEF SetLocked, IInv, TypeOK
  <1>12. ASSUME NEW t \in Thread, Clear(t) \/ Release(t) PROVE LInv'
    BY <1>1, <1>2, <1>12 DEF Clear, Release, IInv, TypeOK
  <1>13. ASSUME NEW t \in Thread, WakeUp(t) \/ Signal(t) \/ Broadcast(t) PROVE LInv'
    BY <1>1, <1>2, <1>13 DEF WakeUp, Signal, Broadcast, IInv, TypeOK
  <1>14. ASSUME NEW t \in Thread, Destroy(t) PROVE LInv'
    BY <1>1, <1>2, <1>14 DEF Destroy
  <1>15. QED
    BY <1>3, <1>4, <1>5, <1>6, <1>7, <1>8, <1>9, <1>10, <1>11, <1>12, <1>13, <1>14 DEF Next

LEMMA ImplementsStep ==
  ASSUME LInv, [Next]_vars
  PROVE  [Abstract!Next]_(Abstract!vars)
  <1> USE DEF LInv, fields
  <1>1. CASE UNCHANGED vars
    BY <1>1 DEF vars, Abstract!vars
  <1>2. ASSUME NEW t \in Thread, Relock(t) PROVE [Abstract!Next]_(Abstract!vars)
    <2>1. CASE recursive
      <3>1. depth[t] > 0
        BY <1>2, MutexAssumption DEF Relock, IInv, FalseOwner, Holding, Settled
      <3>2. Abstract!Again(t)
        BY <1>2, <2>1, <3>1 DEF Relock, Abstract!Again
      <3>3. QED
        BY <3>2 DEF Abstract!Next
    <2>2. CASE ~recursive
      BY <1>2, <2>2 DEF Relock, Abstract!vars
    <2>3. QED
      BY <2>1, <2>2
  <1>3. ASSUME NEW t \in Thread, Unrelock(t) PROVE [Abstract!Next]_(Abstract!vars)
    <2>1. depth[t] > 0
      BY <1>3, MutexAssumption DEF Unrelock, IInv, FalseOwner, Holding, Settled
    <2>2. Abstract!Leave(t)
      BY <1>3, <2>1 DEF Unrelock, Abstract!Leave
    <2>3. QED
      BY <2>2 DEF Abstract!Next
  <1>4. ASSUME NEW t \in Thread, SetLocked(t) PROVE [Abstract!Next]_(Abstract!vars)
    <2>1. Abstract!Grant(t)
      BY <1>4, GrantedWhenFree DEF SetLocked, Abstract!Grant
    <2>2. QED
      BY <2>1 DEF Abstract!Next
  <1>5. ASSUME NEW t \in Thread, Release(t) PROVE [Abstract!Next]_(Abstract!vars)
    <2>1. depth[t] = 1
      BY <1>5 DEF Release, Levels
    <2>2. Abstract!Leave(t)
      BY <1>5, <2>1 DEF Release, Abstract!Leave, IInv, TypeOK
    <2>3. QED
      BY <2>2 DEF Abstract!Next
  <1>6. ASSUME NEW t \in Thread, Destroy(t) PROVE [Abstract!Next]_(Abstract!vars)
    <2>1. Abstract!Destroy
      BY <1>6, DestroyedWhenFree DEF Destroy, Abstract!Destroy
    <2>2. QED
      BY <2>1 DEF Abstract!Next
  <1>7. ASSUME NEW t \in Thread,
               \/ \E o \in Op : Begin(t, o)
               \/ ReadLocked(t) \/ ReadOtherOwner(t) \/ GiveUp(t) \/ IsOwned(t)
               \/ Acquire(t) \/ TryFails(t) \/ SetOwner(t) \/ Clear(t)
               \/ WakeUp(t) \/ Signal(t) \/ Broadcast(t)
        PROVE  UNCHANGED Abstract!vars
    BY <1>7 DEF Begin, ReadLocked, ReadOtherOwner, GiveUp, IsOwned, Acquire, TryFails,
                SetOwner, Clear, WakeUp, Signal, Broadcast, Abstract!vars
  <1>8. QED
    BY <1>1, <1>2, <1>3, <1>4, <1>5, <1>6, <1>7 DEF Next

(* Every behaviour of the native mutex is one of the abstract lock: whole  *)
(* levels, one thread at a time, however the reads and writes of the       *)
(* shadow fields interleave.                                               *)
THEOREM Refinement == Spec => ImplementsLock
  <1>1. Init => LInv
    <2> SUFFICES ASSUME Init PROVE LInv
      OBVIOUS
    <2>1. \A t \in Thread : pc[t] = "idle" /\ depth[t] = 0
      BY DEF Init
    <2>2. ASSUME NEW t \in Thread
          PROVE  Levels(t)
      <3>1. depth[t] <= 1
        BY <2>1
      <3>2. QED
        BY <2>1, <3>1 DEF Levels
    <2>3. QED
      BY <2>2, InitIInv DEF LInv
  <1>2. Init => Abstract!Init
    BY DEF Init, Abstract!Init
  <1>3. QED
    BY <1>1, <1>2, NextKeepsLInv, ImplementsStep, PTL DEF Spec, ImplementsLock, Abstract!Spec
=============================================================================
