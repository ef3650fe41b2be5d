--------------------------- MODULE KtThread_proofs ---------------------------
(***************************************************************************)
(* Proofs about KtThread, for any number of callers.  The heart is a       *)
(* partition of the duty to destroy the record: the worker has it when it  *)
(* found detached set, a joiner once it set joined, a detacher when it     *)
(* found finished set, and no two of them at once.                         *)
(***************************************************************************)
EXTENDS KtThread, TLAPS

(* A caller inside the part of a call that reaps the host thread. *)
Reaping == {"native", "reading", "nativeDetach", "free", "done", "failed"}

(* One caller reaps, and it said so in a flag of the record. *)
OneReaper ==
    /\ \A c, d \in Caller : pc[c] \in Reaping /\ pc[d] \in Reaping => c = d
    /\ \A c \in Caller : pc[c] \in Reaping => detached \/ joined
    /\ \A c \in Caller : pc[c] = "native" => joined
    /\ \A c \in Caller : pc[c] \in {"reading", "nativeDetach"} => detached
    /\ ~(detached /\ joined)

(* A timed joiner has the record to itself. *)
TimedAlone ==
    \A c, d \in Caller :
        pc[c] \in {"checked", "asleep"} => ~joined /\ ~detached /\ (d # c => pc[d] = "idle")

(* How far the worker and the reaper are, by the flags. *)
Progress ==
    /\ finished <=> phase \in {"unlocked", "dead"}
    /\ mustFree => detached /\ finished
    /\ \A c \in Caller : pc[c] \in {"reading", "nativeDetach"} /\ seen[c] => finished /\ ~mustFree
    /\ \A c \in Caller : pc[c] = "free" => finished /\ ~mustFree /\ (joined => phase = "dead")

(* What is already reaped and destroyed. *)
Accounts ==
    /\ reaped = 0 \/ reaped = 1
    /\ reaped = 1 => \E c \in Caller : pc[c] \in {"free", "done"}
    /\ destroyed = 0 \/ destroyed = 1
    /\ destroyed = 1 =>
        \/ mustFree /\ phase = "dead"
        \/ finished /\ ~mustFree /\ \E c \in Caller : pc[c] = "done"
    /\ destroyed = 1 => detached \/ joined

IInv == TypeOK /\ OneReaper /\ TimedAlone /\ Progress /\ Accounts

LEMMA InitInv == Init => IInv
<1> SUFFICES ASSUME Init PROVE IInv
  OBVIOUS
<1>1. TypeOK
  <2>1. destroyed \in 0..1 /\ reaped \in 0..1
    BY DEF Init
  <2>2. seen \in [Caller -> BOOLEAN] /\ pc \in [Caller -> Place] /\ target \in [Caller -> Target]
    BY DEF Init, Place, Target
  <2> QED
    BY <2>1, <2>2 DEF Init, TypeOK, Phase
<1>2. \A c \in Caller : pc[c] = "idle"
  BY DEF Init
<1>3. OneReaper /\ TimedAlone
  BY <1>2 DEF Init, OneReaper, Reaping, TimedAlone
<1>4. Progress /\ Accounts
  BY <1>2 DEF Init, Progress, Accounts
<1> QED
  BY <1>1, <1>3, <1>4 DEF IInv

LEMMA Stutter == IInv /\ UNCHANGED vars => IInv'
  BY DEF IInv, TypeOK, OneReaper, Reaping, TimedAlone, Progress, Accounts, vars

LEMMA WorkerSteps == ASSUME IInv, Return \/ ActOnCancel \/ Worker PROVE IInv'
<1> USE ThreadAssumption
<1>1. CASE Return
  BY <1>1 DEF Return, flags, IInv, TypeOK, Phase, Place, OneReaper, Reaping, TimedAlone, Progress, Accounts
<1>2. CASE ActOnCancel
  BY <1>2 DEF ActOnCancel, flags, IInv, TypeOK, Phase, Place, OneReaper, Reaping, TimedAlone, Progress, Accounts
<1>3. CASE Finish
  <2>1. TypeOK'
    BY <1>3 DEF Finish, Broadcast, IInv, TypeOK, Phase, Place
  <2>2. \A c \in Caller : pc[c] = pc'[c] \/ (pc[c] = "asleep" /\ pc'[c] = "checked")
    BY <1>3 DEF Finish, Broadcast, IInv, TypeOK
  <2>3. OneReaper'
    BY <1>3, <2>2 DEF Finish, IInv, OneReaper, Reaping
  <2>4. TimedAlone'
    BY <1>3, <2>2 DEF Finish, IInv, TimedAlone
  <2>5. Progress'
    BY <1>3, <2>2 DEF Finish, IInv, Progress
  <2>6. Accounts'
    BY <1>3, <2>2 DEF Finish, IInv, Accounts, Progress
  <2> QED
    BY <2>1, <2>3, <2>4, <2>5, <2>6 DEF IInv
<1>4. CASE FinishFree
  <2>1. OneReaper' /\ TimedAlone' /\ Progress'
    BY <1>4 DEF FinishFree, flags, IInv, TypeOK, Phase, OneReaper, Reaping, TimedAlone, Progress
  <2>2. mustFree => destroyed = 0
    BY <1>4 DEF FinishFree, IInv, Accounts
  <2>4. TypeOK'
    BY <1>4, <2>2 DEF FinishFree, flags, IInv, TypeOK, Phase
  <2>3. Accounts'
    BY <1>4, <2>2 DEF FinishFree, flags, IInv, TypeOK, Accounts, Progress
  <2> QED
    BY <2>1, <2>3, <2>4 DEF IInv
<1> QED
  BY <1>1, <1>2, <1>3, <1>4 DEF Worker

LEMMA CallerSteps ==
    ASSUME IInv, NEW c \in Caller,
           \/ Join(c) \/ TimedJoin(c) \/ TimedJoinExpires(c) \/ SpuriousWake(c)
           \/ Detach(c) \/ Cancel(c) \/ Going(c)
    PROVE  IInv'
<1> USE ThreadAssumption
<1>1. CASE Join(c)
  BY <1>1 DEF Join, Begin, Valid, NoTimedJoin, Joinable, Goto, IInv, TypeOK, Place, OneReaper, Reaping, TimedAlone, Progress, Accounts
<1>2. CASE TimedJoin(c)
  BY <1>2 DEF TimedJoin, Begin, Valid, NobodyReaps, Joinable, Goto, flags, IInv, TypeOK, Place, OneReaper, Reaping, TimedAlone, Progress, Accounts
<1>3. CASE TimedJoinExpires(c)
  BY <1>3 DEF TimedJoinExpires, Goto, flags, IInv, TypeOK, Place, OneReaper, Reaping, TimedAlone, Progress, Accounts
<1>4. CASE SpuriousWake(c)
  BY <1>4 DEF SpuriousWake, Goto, flags, IInv, TypeOK, Place, OneReaper, Reaping, TimedAlone, Progress, Accounts
<1>5. CASE Detach(c)
  BY <1>5 DEF Detach, Begin, Valid, NoTimedJoin, Joinable, Goto, IInv, TypeOK, Place, OneReaper, Reaping, TimedAlone, Progress, Accounts
<1>6. CASE Cancel(c)
  BY <1>6 DEF Cancel, Begin, flags, IInv, TypeOK, OneReaper, Reaping, TimedAlone, Progress, Accounts
<1>7. CASE TimedJoinCheck(c)
  <2>1. pc[c] = "checked" /\ \A d \in Caller : d # c => pc[d] = "idle"
    BY <1>7 DEF TimedJoinCheck, IInv, TimedAlone
  <2>2. ~joined /\ ~detached /\ reaped = 0 /\ destroyed = 0
    BY <2>1 DEF IInv, TimedAlone, Accounts
  <2>3. CASE finished
    <3>1. pc' = [pc EXCEPT ![c] = "native"] /\ joined' /\ UNCHANGED <<phase, finished, detached, mustFree, seen, target, destroyed, reaped, cancel>>
      BY <1>7, <2>3 DEF TimedJoinCheck, Goto
    <3>2. TypeOK'
      BY <1>7, <3>1, <2>3 DEF TimedJoinCheck, IInv, TypeOK, Place
    <3>3. pc'[c] = "native" /\ \A d \in Caller : d # c => pc'[d] = "idle"
      BY <2>1, <3>1 DEF IInv, TypeOK
    <3>4. OneReaper' /\ TimedAlone'
      BY <2>2, <3>1, <3>3 DEF OneReaper, Reaping, TimedAlone
    <3>5. Progress' /\ Accounts'
      BY <2>2, <3>1, <3>3 DEF IInv, Progress, Accounts
    <3> QED
      BY <3>2, <3>4, <3>5 DEF IInv
  <2>4. CASE ~finished
    BY <1>7, <2>4 DEF TimedJoinCheck, Goto, IInv, TypeOK, Place, OneReaper, Reaping, TimedAlone, Progress, Accounts
  <2> QED
    BY <2>3, <2>4
<1>8. CASE NativeJoin(c)
  BY <1>8 DEF NativeJoin, Goto, flags, IInv, TypeOK, Place, OneReaper, Reaping, TimedAlone, Progress, Accounts
<1>9. CASE NativeDetach(c)
  BY <1>9 DEF NativeDetach, Goto, flags, IInv, TypeOK, Place, OneReaper, Reaping, TimedAlone, Progress, Accounts
<1>11. CASE LoadThread(c)
  BY <1>11 DEF LoadThread, Goto, flags, IInv, TypeOK, Place, Target, OneReaper, Reaping, TimedAlone, Progress, Accounts
<1>10. CASE Free(c)
  BY <1>10 DEF Free, Goto, flags, IInv, TypeOK, Place, OneReaper, Reaping, TimedAlone, Progress, Accounts
<1> QED
  BY <1>1, <1>2, <1>3, <1>4, <1>5, <1>6, <1>7, <1>8, <1>9, <1>10, <1>11 DEF Going

(* The invariant holds in every reachable state. *)
THEOREM Inductive == Spec => []IInv
<1>1. IInv /\ [Next]_vars => IInv'
  BY Stutter, WorkerSteps, CallerSteps DEF Next
<1> QED
  BY InitInv, <1>1, PTL DEF Spec

(* The types of the variables. *)
THEOREM TypeCorrect == Spec => []TypeOK
<1>1. IInv => TypeOK
  BY DEF IInv
<1> QED
  BY <1>1, Inductive, PTL

(* The record is destroyed at most once, and under nobody. *)
THEOREM RecordDestroyedOnce == Spec => []DestroyedOnce
<1>1. IInv => DestroyedOnce
  BY DEF IInv, TypeOK, Phase, OneReaper, Reaping, TimedAlone, Progress, Accounts, DestroyedOnce
<1> QED
  BY <1>1, Inductive, PTL

(* The host thread is joined or detached at most once. *)
THEOREM ThreadReapedOnce == Spec => []ReapedOnce
<1>1. IInv => ReapedOnce
  BY DEF IInv, OneReaper, Reaping, Accounts, ReapedOnce
<1> QED
  BY <1>1, Inductive, PTL
=============================================================================
