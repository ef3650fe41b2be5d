-------------------------- MODULE EventFlag_proofs --------------------------
(***************************************************************************)
(* MirrorAgrees for every set of threads, bits and requests, under the     *)
(* regime it needs: one thread m modifies the flag, and the requests of    *)
(* all the others clear nothing.                                           *)
(*                                                                         *)
(* The invariant says where m is between its native call and its store:    *)
(* what it is about to store is what the native flag holds.  The other     *)
(* threads change neither, and m waits natively only for bits that nobody  *)
(* but itself could set, so that its own clearing wait takes nothing.      *)
(*                                                                         *)
(* The second half needs no regime: the wrapper takes no step of the       *)
(* native flag but those KtEvent allows, so that the theorems about        *)
(* KtEvent hold of the native flag inside a slot.                          *)
(***************************************************************************)
EXTENDS EventFlag, TLAPS

OwnedBy(m) ==
    /\ Modifier = {m}
    /\ \A t \in Thread \ {m} : \A r \in Asks[t] : r.clear = "none"

AnyRequest == Request \union {Native!NoRequest}

Changing == {"loading", "storing", "closing"}
Asking == {"poll", "wait", "timed"}
Missed == {"asking", "counting", "counted", "entering", "waiting"}

Place == {"idle", "asleep", "awake", "expired", "finalizing"}
Kind == {"none", "set", "clear", "cancel", "poll", "wait", "timed", "delete"}

Frame == [kind : Kind, req : AnyRequest, arg : SUBSET Bit, bits : SUBSET Bit, count : Int]

FrameType ==
    /\ step \in [Thread -> Step]
    /\ frame \in [Thread -> Frame]
    /\ req \in [Thread -> AnyRequest]
    /\ pc \in [Thread -> Place]
    /\ mirror \subseteq Bit
    /\ inWait \in Int

(* The other threads neither change the copy nor ask to have bits cleared. *)
OthersPlain(m) == \A t \in Thread \ {m} :
    /\ step[t] \notin Changing
    /\ frame[t].req.clear = "none"
    /\ req[t].clear = "none"

(* Where the owner stands between the native flag and the copy. *)
OwnerState(m) == used =>
    /\ step[m] = "loading" => Stored([frame[m] EXCEPT !.bits = mirror]) = bits
    /\ step[m] = "storing" => Stored(frame[m]) = bits
    /\ step[m] \notin Changing => mirror = bits
    /\ step[m] = "looked" => frame[m].bits = mirror /\ frame[m].kind \in Asking
    /\ step[m] \in Missed => ~Native!Matches(bits, frame[m].req)
    /\ step[m] = "waiting" /\ pc[m] \in Native!Inside => req[m] = frame[m].req

MInv(m) == FrameType /\ OthersPlain(m) /\ OwnerState(m)

-----------------------------------------------------------------------------
(* What the native calls do to the parts the invariant speaks of.          *)

(* The step touches no other thread's wait, and stays in type. *)
Within(t) ==
    /\ pc' \in [Thread -> Place]
    /\ req' \in [Thread -> AnyRequest]
    /\ \A u \in Thread \ {t} : pc'[u] = pc[u] /\ req'[u] = req[u]

LEMMA RequestShape ==
  ASSUME NEW r \in AnyRequest
  PROVE  /\ r \in [pattern : SUBSET Bit, all : BOOLEAN, clear : {"none", "all", "pattern"}]
         /\ \A b : r.clear = "none" => Native!Cleared(b, r) = b
  <1>1. r \in [pattern : SUBSET Bit, all : BOOLEAN, clear : {"none", "all", "pattern"}]
    <2>1. CASE r \in Request
      <3>1. r \in [pattern : SUBSET Bit \ {{}}, all : BOOLEAN,
                   clear : {"none", "all", "pattern"}]
        BY <2>1, FlagAssumption
      <3>2. QED
        BY <3>1
    <2>2. CASE r = Native!NoRequest
      BY <2>2 DEF Native!NoRequest
    <2>3. QED
      BY <2>1, <2>2 DEF AnyRequest
  <1>2. QED
    BY <1>1 DEF Native!Cleared

(* A call that gets no further than a look changes no thread's wait. *)
LEMMA NativeLook ==
  ASSUME NEW t \in Thread, NEW r, Native!Poll(t, r) \/ Native!PollFails(t, r)
  PROVE  /\ UNCHANGED <<pc, req>>
         /\ bits' = IF Native!Matches(bits, r) THEN Native!Cleared(bits, r) ELSE bits
  BY DEF Native!Poll, Native!PollFails, Native!shared

LEMMA MoveIsWithin ==
  ASSUME FrameType, NEW t \in Thread, NEW where \in Place, NEW q \in AnyRequest,
         pc' = [pc EXCEPT ![t] = where], req' = [req EXCEPT ![t] = q]
  PROVE  Within(t) /\ pc'[t] = where /\ req'[t] = q
  <1>1. pc \in [Thread -> Place] /\ req \in [Thread -> AnyRequest]
    BY DEF FrameType
  <1>2. QED
    BY <1>1 DEF Within

LEMMA ReturnIsWithin ==
  ASSUME FrameType, NEW t \in Thread, NEW where \in {"idle", "finalizing"},
         Native!Return(t, where)
  PROVE  Within(t) /\ pc'[t] \notin Native!Inside /\ req'[t] = Native!NoRequest
  <1>1. Native!NoRequest \in AnyRequest /\ where \in Place
    BY DEF AnyRequest, Place
  <1>2. Within(t) /\ pc'[t] = where /\ req'[t] = Native!NoRequest
    BY <1>1, MoveIsWithin DEF Native!Return
  <1>3. QED
    BY <1>2 DEF Native!Inside

LEMMA WakeIsWithin ==
  ASSUME FrameType, NEW t \in Thread, NEW where \in Place,
         pc' = [pc EXCEPT ![t] = where], req' = req
  PROVE  Within(t) /\ req'[t] = req[t]
  <1>1. pc \in [Thread -> Place] /\ req \in [Thread -> AnyRequest]
    BY DEF FrameType
  <1>2. QED
    BY <1>1 DEF Within

(* The loop of kt_event_wait, entered with request r. *)
LEMMA NativeLoop ==
  ASSUME FrameType, NEW t \in Thread, NEW r \in AnyRequest, NEW w, NEW tm,
         Native!LoopHead(t, r, w, tm)
  PROVE  /\ Within(t)
         /\ req'[t] \in {r, Native!NoRequest}
         /\ pc'[t] \in Native!Inside => req'[t] = r
         /\ bits' = bits \/ (Native!Matches(bits, r) /\ bits' = Native!Cleared(bits, r))
  <1>1. CASE Native!Sleep(t, r, w, tm)
    <2>1. "asleep" \in Place
      BY DEF Place
    <2>2. Within(t) /\ req'[t] = r /\ bits' = bits
      BY <1>1, <2>1, MoveIsWithin DEF Native!Sleep
    <2>3. QED
      BY <2>2
  <1>2. CASE Native!Grant(t, r, w)
    BY <1>2, ReturnIsWithin DEF Native!Grant
  <1>3. CASE Native!LeaveCanceled(t, w)
    BY <1>3, ReturnIsWithin DEF Native!LeaveCanceled
  <1>4. CASE Native!LeaveDeleted(t, w)
    BY <1>4, ReturnIsWithin DEF Native!LeaveDeleted
  <1>5. QED
    BY <1>1, <1>2, <1>3, <1>4 DEF Native!LoopHead

(* The continuation of a native call. *)
LEMMA NativeOn ==
  ASSUME FrameType, NEW t \in Thread,
         Native!Continue(t) \/ Native!Expire(t) \/ Native!SpuriousWake(t)
  PROVE  /\ Within(t)
         /\ req'[t] \in {req[t], Native!NoRequest}
         /\ pc'[t] \in Native!Inside => req'[t] = req[t] /\ pc[t] \in Native!Inside
         /\ \/ bits' = bits
            \/ /\ pc[t] \in Native!Inside
               /\ Native!Matches(bits, req[t])
               /\ bits' = Native!Cleared(bits, req[t])
  <1>1. CASE Native!Rewait(t)
    <2>1. req[t] \in AnyRequest /\ pc[t] \in Native!Inside
      BY <1>1 DEF FrameType, Native!Rewait, Native!Inside
    <2>2. QED
      BY <1>1, <2>1, NativeLoop DEF Native!Rewait
  <1>2. CASE Native!LeaveExpired(t)
    BY <1>2, ReturnIsWithin DEF Native!LeaveExpired
  <1>3. CASE Native!Finalize(t)
    BY <1>3, ReturnIsWithin DEF Native!Finalize
  <1>4. CASE Native!Expire(t) \/ Native!SpuriousWake(t)
    <2>1. pc[t] \in Native!Inside /\ bits' = bits /\ req' = req
      BY <1>4 DEF Native!Expire, Native!SpuriousWake, Native!shared, Native!Inside
    <2>2. pc' = [pc EXCEPT ![t] = "expired"] \/ pc' = [pc EXCEPT ![t] = "awake"]
      BY <1>4 DEF Native!Expire, Native!SpuriousWake
    <2>3. Within(t) /\ req'[t] = req[t]
      BY <2>1, <2>2, WakeIsWithin DEF Place
    <2>4. QED
      BY <2>1, <2>3
  <1>5. QED
    BY <1>1, <1>2, <1>3, <1>4 DEF Native!Continue

-----------------------------------------------------------------------------
(* What the wrapper's moves do to step and frame.                          *)

(* The step moves only t in the wrapper, and stays in type. *)
Moves(t) ==
    /\ step' \in [Thread -> Step]
    /\ frame' \in [Thread -> Frame]
    /\ \A u \in Thread \ {t} : step'[u] = step[u] /\ frame'[u] = frame[u]

LEMMA NoFrameTyped == NoFrame \in Frame /\ NoFrame.req.clear = "none"
  <1>1. Native!NoRequest \in AnyRequest
    BY DEF AnyRequest
  <1>2. NoFrame \in Frame
    BY <1>1 DEF NoFrame, Frame, Kind
  <1>3. QED
    BY <1>2 DEF NoFrame, Native!NoRequest

LEMMA StepMoves ==
  ASSUME FrameType, NEW t \in Thread, NEW where \in Step, NEW f \in Frame,
         step' = [step EXCEPT ![t] = where], frame' = [frame EXCEPT ![t] = f]
  PROVE  Moves(t) /\ step'[t] = where /\ frame'[t] = f
  <1>1. step \in [Thread -> Step] /\ frame \in [Thread -> Frame]
    BY DEF FrameType
  <1>2. QED
    BY <1>1 DEF Moves

LEMMA GotoMoves ==
  ASSUME FrameType, NEW t \in Thread, NEW where \in Step, Goto(t, where), frame' = frame
  PROVE  Moves(t) /\ step'[t] = where /\ frame'[t] = frame[t]
  <1>1. step \in [Thread -> Step] /\ frame \in [Thread -> Frame]
    BY DEF FrameType
  <1>2. QED
    BY <1>1 DEF Moves, Goto

LEMMA AnswerMoves ==
  ASSUME FrameType, NEW t \in Thread, NEW result, Answer(t, result)
  PROVE  Moves(t) /\ step'[t] = "idle" /\ frame'[t].req.clear = "none"
  <1>1. "idle" \in Step
    BY DEF Step
  <1>2. QED
    BY <1>1, NoFrameTyped, StepMoves DEF Answer

LEMMA AskMoves ==
  ASSUME FrameType, NEW t \in Thread, NEW r \in Asks[t], NEW kind \in Asking, Ask(t, r, kind)
  PROVE  /\ Moves(t) /\ step'[t] = "looked" /\ used /\ step[t] = "idle"
         /\ frame'[t].req = r /\ frame'[t].bits = mirror /\ frame'[t].kind = kind
         /\ UNCHANGED <<native, table>>
  <1> DEFINE f == [NoFrame EXCEPT !.kind = kind, !.req = r, !.bits = mirror]
  <1>1. r \in AnyRequest /\ mirror \in SUBSET Bit /\ kind \in Kind
    BY FlagAssumption DEF AnyRequest, FrameType, Kind, Asking
  <1>2. NoFrame \in Frame
    BY NoFrameTyped
  <1>3. f \in Frame /\ f.req = r /\ f.bits = mirror /\ f.kind = kind
    BY <1>1, <1>2 DEF Frame
  <1>4. "looked" \in Step
    BY DEF Step
  <1>5. Moves(t) /\ step'[t] = "looked" /\ frame'[t] = f
    BY <1>3, <1>4, StepMoves DEF Ask, Begin
  <1>6. QED
    BY <1>3, <1>5 DEF Ask, Begin

LEMMA LoadCountMoves ==
  ASSUME FrameType, NEW t \in Thread, LoadCount(t)
  PROVE  /\ Moves(t) /\ frame'[t].req = frame[t].req
         /\ \/ step[t] = "counting" /\ step'[t] = "counted"
            \/ step[t] = "leaving" /\ step'[t] = "left"
  <1> DEFINE f == [frame[t] EXCEPT !.count = inWait]
  <1>1. frame[t] \in Frame /\ step \in [Thread -> Step] /\ frame \in [Thread -> Frame]
    BY DEF FrameType
  <1>2. f \in Frame /\ f.req = frame[t].req
    BY <1>1 DEF FrameType, Frame
  <1>3. frame' = [frame EXCEPT ![t] = f]
    BY <1>1 DEF LoadCount
  <1>4. step' = [step EXCEPT ![t] = IF step[t] = "counting" THEN "counted" ELSE "left"]
    BY DEF LoadCount, Goto, At
  <1>5. Moves(t) /\ frame'[t] = f
        /\ step'[t] = IF step[t] = "counting" THEN "counted" ELSE "left"
    BY <1>2, <1>3, <1>4, StepMoves DEF Step
  <1>6. QED
    BY <1>2, <1>5 DEF LoadCount

(* Set, clear, cancel and delete begin with what they are to store. *)
LEMMA ChangeMoves ==
  ASSUME FrameType, NEW t \in Thread, NEW where \in Step, NEW kind \in Kind, NEW p \in SUBSET Bit,
         Begin(t, where, [NoFrame EXCEPT !.kind = kind, !.arg = p])
  PROVE  /\ Moves(t) /\ step'[t] = where /\ used /\ step[t] = "idle"
         /\ frame'[t].kind = kind /\ frame'[t].arg = p
  <1> DEFINE f == [NoFrame EXCEPT !.kind = kind, !.arg = p]
  <1>1. NoFrame \in Frame
    BY NoFrameTyped
  <1>2. f \in Frame /\ f.kind = kind /\ f.arg = p
    BY <1>1 DEF Frame
  <1>3. Moves(t) /\ step'[t] = where /\ frame'[t] = f
    BY <1>2, StepMoves DEF Begin
  <1>4. QED
    BY <1>2, <1>3 DEF Begin

LEMMA StoredIs ==
  ASSUME NEW f \in Frame, NEW b \in SUBSET Bit
  PROVE  /\ Stored(f) \in SUBSET Bit
         /\ f.kind = "set" => Stored([f EXCEPT !.bits = b]) = b \union f.arg
         /\ f.kind = "clear" => Stored([f EXCEPT !.bits = b]) = b \intersect f.arg
         /\ f.kind = "cancel" => Stored(f) = f.arg
         /\ f.kind \in Asking =>
              /\ f.req.clear = "all" => Stored(f) = {}
              /\ f.req.clear = "pattern" =>
                    Stored([f EXCEPT !.bits = b]) = b \ f.req.pattern
  <1> DEFINE g == [f EXCEPT !.bits = b]
  <1>1. /\ g.kind = f.kind /\ g.arg = f.arg /\ g.req = f.req /\ g.bits = b
        /\ f.bits \in SUBSET Bit /\ f.arg \in SUBSET Bit
    BY DEF Frame
  <1>2. Stored(f) \in SUBSET Bit
    BY <1>1 DEF Stored
  <1>3. QED
    BY <1>1, <1>2 DEF Stored, Asking

-----------------------------------------------------------------------------
(* A step of another thread that changes no bit anywhere keeps MInv(m). *)
LEMMA OtherKeeps ==
  ASSUME NEW m \in Thread, NEW t \in Thread, t # m, MInv(m),
         Moves(t), Within(t), step'[t] \notin Changing,
         frame'[t].req.clear = "none", req'[t].clear = "none",
         mirror' = mirror, bits' = bits, used' = used, inWait' \in Int
  PROVE  MInv(m)'
  <1>1. FrameType'
    BY DEF MInv, FrameType, Moves, Within
  <1>2. OthersPlain(m)'
    BY DEF MInv, OthersPlain, Moves, Within
  <1>3. step'[m] = step[m] /\ frame'[m] = frame[m] /\ req'[m] = req[m] /\ pc'[m] = pc[m]
    BY DEF Moves, Within
  <1>4. OwnerState(m)'
    BY <1>3 DEF MInv, OwnerState, Stored, Native!Matches
  <1>5. QED
    BY <1>1, <1>2, <1>4 DEF MInv

(* A step of the owner keeps MInv(m) if it keeps the owner's part. *)
LEMMA OwnerKeeps ==
  ASSUME NEW m \in Thread, MInv(m), Moves(m),
         pc' \in [Thread -> Place], req' \in [Thread -> AnyRequest],
         \A u \in Thread \ {m} : req'[u] = req[u],
         mirror' \in SUBSET Bit, inWait' \in Int, OwnerState(m)'
  PROVE  MInv(m)'
  <1>1. FrameType'
    BY DEF MInv, FrameType, Moves
  <1>2. OthersPlain(m)'
    BY DEF MInv, OthersPlain, Moves
  <1>3. QED
    BY <1>1, <1>2 DEF MInv

-----------------------------------------------------------------------------
(* No step of a thread other than the owner touches the owner's agreement. *)
LEMMA OtherStep ==
  ASSUME NEW m \in Thread, NEW t \in Thread, t # m, OwnedBy(m), MInv(m),
         Call(t) \/ Continue(t) \/ NativeExpire(t) \/ NativeSpurious(t)
  PROVE  MInv(m)'
  <1>1. /\ FrameType
        /\ step[t] \notin Changing /\ frame[t].req.clear = "none" /\ req[t].clear = "none"
        /\ frame[t].req \in AnyRequest /\ inWait \in Int /\ frame[t].count \in Int
    BY DEF MInv, OthersPlain, FrameType, Frame
  <1>2. UNCHANGED <<pc, req>> => Within(t)
    BY <1>1 DEF FrameType, Within
  <1>3. ASSUME NEW r \in AnyRequest, r.clear = "none", Native!Poll(t, r) \/ Native!PollFails(t, r)
        PROVE  UNCHANGED <<pc, req>> /\ bits' = bits
    BY <1>3, NativeLook, RequestShape
  <1>4. \A where \in Step : Goto(t, where) /\ frame' = frame =>
            Moves(t) /\ step'[t] = where /\ frame'[t].req.clear = "none"
    BY <1>1, GotoMoves
  <1>5. \A result : Answer(t, result) =>
            Moves(t) /\ step'[t] = "idle" /\ frame'[t].req.clear = "none"
    BY <1>1, AnswerMoves
  <1>6. CASE Call(t)
    <2>1. PICK r \in Asks[t], kind \in Asking : Ask(t, r, kind)
      BY <1>6 DEF Call, OwnedBy, Asking
    <2>2. /\ Moves(t) /\ step'[t] = "looked" /\ frame'[t].req = r
          /\ UNCHANGED <<native, table>>
      BY <1>1, <2>1, AskMoves
    <2>3. r.clear = "none"
      BY DEF OwnedBy
    <2>4. QED
      BY <1>1, <1>2, <2>2, <2>3, OtherKeeps DEF native, table, Changing
  <1>7. CASE PollSucceeds(t)
    <2>1. UNCHANGED <<pc, req>> /\ bits' = bits
      BY <1>1, <1>3, <1>7 DEF PollSucceeds, NativePoll
    <2>2. Answer(t, "ok")
      BY <1>1, <1>7 DEF PollSucceeds
    <2>3. QED
      BY <1>1, <1>2, <1>5, <1>7, <2>1, <2>2, OtherKeeps
      DEF PollSucceeds, NativePoll, table, Changing
  <1>8. CASE PollMisses(t)
    <2>1. UNCHANGED <<pc, req>> /\ bits' = bits
      BY <1>1, <1>3, <1>8 DEF PollMisses, NativePoll
    <2>2. /\ Moves(t) /\ step'[t] \in {"idle", "asking"}
          /\ frame'[t].req.clear = "none"
      BY <1>4, <1>5, <1>8 DEF PollMisses, Step
    <2>3. QED
      BY <1>1, <1>2, <1>8, <2>1, <2>2, OtherKeeps
      DEF PollMisses, NativePoll, table, Changing
  <1>9. CASE RefuseSecond(t)
    BY <1>1, <1>2, <1>5, <1>9, OtherKeeps DEF RefuseSecond, native, table, Changing
  <1>10. CASE Admit(t) \/ NativeReturns(t)
    <2>1. UNCHANGED <<native, table>>
      BY <1>10 DEF Admit, NativeReturns
    <2>2. Moves(t) /\ step'[t] \in {"counting", "leaving"} /\ frame'[t].req.clear = "none"
      BY <1>4, <1>10 DEF Admit, NativeReturns, Step
    <2>3. QED
      BY <1>1, <1>2, <2>1, <2>2, OtherKeeps DEF native, table, Changing
  <1>11. CASE LoadCount(t)
    BY <1>1, <1>2, <1>11, LoadCountMoves, OtherKeeps DEF LoadCount, native, table, Changing
  <1>12. CASE CountIn(t)
    <2>1. Moves(t) /\ step'[t] = "entering" /\ frame'[t].req.clear = "none"
      BY <1>4, <1>12 DEF CountIn, Step
    <2>2. QED
      BY <1>1, <1>2, <1>12, <2>1, OtherKeeps DEF CountIn, native, Changing
  <1>13. CASE NativeWait(t)
    <2>1. Moves(t) /\ step'[t] = "waiting" /\ frame'[t].req.clear = "none"
      BY <1>4, <1>13 DEF NativeWait, Step
    <2>2. Native!LoopHead(t, frame[t].req, waiters + 1, frame[t].kind = "timed")
      BY <1>13 DEF NativeWait, Native!Wait
    <2>3. /\ Within(t) /\ bits' = bits
          /\ req'[t] \in {frame[t].req, Native!NoRequest}
      BY <1>1, <2>2, NativeLoop, RequestShape
    <2>4. req'[t].clear = "none"
      BY <1>1, <2>3 DEF Native!NoRequest
    <2>5. QED
      BY <1>1, <1>13, <2>1, <2>3, <2>4, OtherKeeps DEF NativeWait, table, Changing
  <1>14. CASE NativeContinue(t) \/ NativeExpire(t) \/ NativeSpurious(t)
    <2>1. /\ Native!Continue(t) \/ Native!Expire(t) \/ Native!SpuriousWake(t)
          /\ UNCHANGED <<table, step, frame, outcome>>
      BY <1>14 DEF NativeContinue, NativeExpire, NativeSpurious
    <2>2. req[t] \in AnyRequest
      BY <1>1 DEF FrameType
    <2>3. /\ Within(t) /\ bits' = bits
          /\ req'[t] \in {req[t], Native!NoRequest}
      BY <1>1, <2>1, <2>2, NativeOn, RequestShape
    <2>4. req'[t].clear = "none"
      BY <1>1, <2>3 DEF Native!NoRequest
    <2>5. Moves(t)
      BY <1>1, <2>1 DEF FrameType, Moves
    <2>6. QED
      BY <1>1, <2>1, <2>3, <2>4, <2>5, OtherKeeps DEF table
  <1>15. CASE CountOut(t)
    <2>1. Moves(t) /\ step'[t] = "idle" /\ frame'[t].req.clear = "none"
      BY <1>5, <1>15 DEF CountOut
    <2>2. QED
      BY <1>1, <1>2, <1>15, <2>1, OtherKeeps DEF CountOut, native, Changing
  <1>16. ~LoadMirror(t) /\ ~StoreMirror(t) /\ ~Close(t)
    BY <1>1 DEF LoadMirror, StoreMirror, Close, At, Changing
  <1>17. QED
    BY <1>6, <1>7, <1>8, <1>9, <1>10, <1>11, <1>12, <1>13, <1>14, <1>15, <1>16 DEF Continue

-----------------------------------------------------------------------------
(* The owner's changes, from the native call to the store. *)
LEMMA OwnerChanges ==
  ASSUME NEW m \in Thread, MInv(m),
         \/ Modify(m) \/ LoadMirror(m) \/ StoreMirror(m) \/ Close(m)
  PROVE  MInv(m)'
  <1>1. /\ FrameType /\ frame[m] \in Frame /\ mirror \in SUBSET Bit /\ inWait \in Int
        /\ pc \in [Thread -> Place] /\ req \in [Thread -> AnyRequest]
    BY DEF MInv, FrameType
  <1>2. Native!Broadcast \in [Thread -> Place]
    BY <1>1 DEF Native!Broadcast, Place
  <1>3. ASSUME NEW p \in SUBSET Bit, Set(m, p)
        PROVE  MInv(m)'
    <2>1. /\ Moves(m) /\ step'[m] = "loading" /\ used /\ step[m] = "idle"
          /\ frame'[m].kind = "set" /\ frame'[m].arg = p
      <3>1. "loading" \in Step /\ "set" \in Kind
        BY DEF Step, Kind
      <3>2. Begin(m, "loading", [NoFrame EXCEPT !.kind = "set", !.arg = p])
        BY <1>3 DEF Set
      <3>3. QED
        BY <1>1, <3>1, <3>2, ChangeMoves
    <2>2. mirror = bits
      BY <2>1 DEF MInv, OwnerState, Changing
    <2>3. /\ bits' = bits \union p /\ mirror' = mirror /\ inWait' = inWait
          /\ pc' = Native!Broadcast /\ req' = req
      BY <1>3 DEF Set, Native!Set, table
    <2>4. frame'[m] \in Frame
      BY <2>1 DEF Moves
    <2>5. Stored([frame'[m] EXCEPT !.bits = mirror']) = bits'
      BY <1>1, <2>1, <2>2, <2>3, <2>4, StoredIs
    <2>6. OwnerState(m)'
      BY <2>1, <2>5 DEF OwnerState, Stored, Changing, Missed
    <2>7. QED
      BY <1>1, <1>2, <2>1, <2>3, <2>6, OwnerKeeps
  <1>4. ASSUME NEW p \in SUBSET Bit, Clear(m, p)
        PROVE  MInv(m)'
    <2>1. /\ Moves(m) /\ step'[m] = "loading" /\ used /\ step[m] = "idle"
          /\ frame'[m].kind = "clear" /\ frame'[m].arg = p
      <3>1. "loading" \in Step /\ "clear" \in Kind
        BY DEF Step, Kind
      <3>2. Begin(m, "loading", [NoFrame EXCEPT !.kind = "clear", !.arg = p])
        BY <1>4 DEF Clear
      <3>3. QED
        BY <1>1, <3>1, <3>2, ChangeMoves
    <2>2. mirror = bits
      BY <2>1 DEF MInv, OwnerState, Changing
    <2>3. /\ bits' = bits \intersect p /\ mirror' = mirror /\ inWait' = inWait
          /\ pc' = pc /\ req' = req
      BY <1>4 DEF Clear, Native!Clear, table
    <2>4. frame'[m] \in Frame
      BY <2>1 DEF Moves
    <2>5. Stored([frame'[m] EXCEPT !.bits = mirror']) = bits'
      BY <1>1, <2>1, <2>2, <2>3, <2>4, StoredIs
    <2>6. OwnerState(m)'
      BY <2>1, <2>5 DEF OwnerState, Stored, Changing, Missed
    <2>7. QED
      BY <1>1, <2>1, <2>3, <2>6, OwnerKeeps
  <1>5. ASSUME NEW p \in SUBSET Bit, Cancel(m, p)
        PROVE  MInv(m)'
    <2>1. /\ Moves(m) /\ step'[m] = "storing"
          /\ frame'[m].kind = "cancel" /\ frame'[m].arg = p
      <3>1. "storing" \in Step /\ "cancel" \in Kind
        BY DEF Step, Kind
      <3>2. Begin(m, "storing", [NoFrame EXCEPT !.kind = "cancel", !.arg = p])
        BY <1>5 DEF Cancel
      <3>3. QED
        BY <1>1, <3>1, <3>2, ChangeMoves
    <2>2. /\ bits' = p /\ mirror' = mirror /\ inWait' = inWait
          /\ pc' = Native!Broadcast /\ req' = req
      BY <1>5 DEF Cancel, Native!Cancel, table
    <2>3. frame'[m] \in Frame
      BY <2>1 DEF Moves
    <2>4. Stored(frame'[m]) = bits'
      BY <1>1, <2>1, <2>2, <2>3, StoredIs
    <2>5. OwnerState(m)'
      BY <2>1, <2>4 DEF OwnerState, Stored, Changing, Missed
    <2>6. QED
      BY <1>1, <1>2, <2>1, <2>2, <2>5, OwnerKeeps
  <1>6. CASE Delete(m)
    <2> DEFINE f == [NoFrame EXCEPT !.kind = "delete"]
    <2>1. f \in Frame
      BY NoFrameTyped DEF Frame, Kind
    <2>2. Moves(m) /\ step'[m] = "closing"
      BY <1>1, <1>6, <2>1, StepMoves DEF Delete, Begin, Step
    <2>3. /\ mirror' = mirror /\ inWait' = inWait /\ req' = req
          /\ pc' = [Native!Broadcast EXCEPT ![m] =
                        IF waiters = 0 THEN "finalizing" ELSE "idle"]
      BY <1>6 DEF Delete, Native!Delete, table
    <2>4. pc' \in [Thread -> Place]
      BY <1>2, <2>3 DEF Place
    <2>5. OwnerState(m)'
      BY <2>2 DEF OwnerState, Changing, Missed
    <2>6. QED
      BY <1>1, <2>2, <2>3, <2>4, <2>5, OwnerKeeps
  <1>7. CASE LoadMirror(m)
    <2> DEFINE f == [frame[m] EXCEPT !.bits = mirror]
    <2>1. f \in Frame /\ frame' = [frame EXCEPT ![m] = f]
      BY <1>1, <1>7 DEF LoadMirror, Frame
    <2>2. Moves(m) /\ step'[m] = "storing" /\ frame'[m] = f
      BY <1>1, <1>7, <2>1, StepMoves DEF LoadMirror, Goto, Step
    <2>3. UNCHANGED <<used, mirror, inWait, bits, pc, req>> /\ step[m] = "loading"
      BY <1>7 DEF LoadMirror, native, table, At
    <2>4. used => Stored(f) = bits
      BY <2>3 DEF MInv, OwnerState
    <2>5. used' => Stored(frame'[m]) = bits'
      BY <2>2, <2>3, <2>4
    <2>6. OwnerState(m)'
      BY <2>2, <2>5 DEF OwnerState, Changing, Missed
    <2>7. QED
      BY <1>1, <2>2, <2>3, <2>6, OwnerKeeps
  <1>8. CASE StoreMirror(m)
    <2>1. Moves(m) /\ step'[m] = "idle"
      BY <1>1, <1>8, AnswerMoves DEF StoreMirror
    <2>2. UNCHANGED <<used, inWait, bits, pc, req>> /\ step[m] = "storing"
          /\ mirror' = Stored(frame[m])
      BY <1>8 DEF StoreMirror, native, At
    <2>3. mirror' \in SUBSET Bit /\ (used' => mirror' = bits')
      BY <1>1, <2>2, StoredIs DEF MInv, OwnerState
    <2>4. OwnerState(m)'
      BY <2>1, <2>3 DEF OwnerState, Changing, Missed
    <2>5. QED
      BY <1>1, <2>1, <2>2, <2>3, <2>4, OwnerKeeps
  <1>9. CASE Close(m)
    <2>1. Moves(m)
      BY <1>1, <1>9, AnswerMoves DEF Close
    <2>2. UNCHANGED <<pc, req>> /\ mirror' = {} /\ inWait' = 0 /\ used' = FALSE
      BY <1>9 DEF Close, native
    <2>3. OwnerState(m)'
      BY <2>2 DEF OwnerState
    <2>4. mirror' \in SUBSET Bit /\ inWait' \in Int
      BY <2>2
    <2>5. QED
      BY <1>1, <2>1, <2>2, <2>3, <2>4, OwnerKeeps
  <1>10. QED
    BY <1>3, <1>4, <1>5, <1>6, <1>7, <1>8, <1>9 DEF Modify

(* The owner's polls and waits. *)
LEMMA OwnerPolls ==
  ASSUME NEW m \in Thread, MInv(m), PollSucceeds(m) \/ PollMisses(m)
  PROVE  MInv(m)'
  <1> DEFINE r == frame[m].req
  <1>1. /\ FrameType /\ frame[m] \in Frame /\ mirror \in SUBSET Bit /\ inWait \in Int
        /\ r \in AnyRequest /\ step[m] = "looked"
        /\ pc \in [Thread -> Place] /\ req \in [Thread -> AnyRequest]
    BY DEF MInv, FrameType, Frame, PollSucceeds, PollMisses, NativePoll, At
  <1>2. Native!Poll(m, r) \/ Native!PollFails(m, r)
    BY DEF PollSucceeds, PollMisses, NativePoll
  <1>3. /\ UNCHANGED <<used, mirror, inWait, pc, req>>
        /\ bits' = IF Native!Matches(bits, r) THEN Native!Cleared(bits, r) ELSE bits
    BY <1>2, NativeLook DEF PollSucceeds, PollMisses, NativePoll, table
  <1>4. used => /\ frame[m].bits = bits /\ mirror = bits /\ frame[m].kind \in Asking
    BY <1>1 DEF MInv, OwnerState, Changing
  <1>5. r \in [pattern : SUBSET Bit, all : BOOLEAN, clear : {"none", "all", "pattern"}]
    BY <1>1, RequestShape
  <1>6. SUFFICES Moves(m) /\ OwnerState(m)'
    BY <1>1, <1>3, OwnerKeeps
  <1>7. CASE PollSucceeds(m)
    <2>1. used => bits' = Native!Cleared(bits, r)
      BY <1>3, <1>4, <1>7 DEF PollSucceeds
    <2>2. CASE r.clear = "none"
      <3>1. Answer(m, "ok")
        BY <1>7, <2>2 DEF PollSucceeds
      <3>2. Moves(m) /\ step'[m] = "idle"
        BY <1>1, <3>1, AnswerMoves
      <3>3. used' => mirror' = bits'
        BY <1>3, <1>4, <2>1, <2>2 DEF Native!Cleared
      <3>4. QED
        BY <3>2, <3>3 DEF OwnerState, Changing, Missed
    <2>3. CASE r.clear = "all"
      <3>1. Goto(m, "storing") /\ frame' = frame /\ "storing" \in Step
        BY <1>7, <2>3 DEF PollSucceeds, Step
      <3>2. Moves(m) /\ step'[m] = "storing" /\ frame'[m] = frame[m]
        BY <1>1, <3>1, GotoMoves
      <3>3. used' => Stored(frame'[m]) = bits'
        BY <1>1, <1>3, <1>4, <2>1, <2>3, <3>2, StoredIs DEF Native!Cleared
      <3>4. QED
        BY <3>2, <3>3 DEF OwnerState, Changing, Missed
    <2>4. CASE r.clear = "pattern"
      <3>1. Goto(m, "loading") /\ frame' = frame /\ "loading" \in Step
        BY <1>7, <2>4 DEF PollSucceeds, Step
      <3>2. Moves(m) /\ step'[m] = "loading" /\ frame'[m] = frame[m]
        BY <1>1, <3>1, GotoMoves
      <3>3. used' => Stored([frame'[m] EXCEPT !.bits = mirror']) = bits'
        BY <1>1, <1>3, <1>4, <2>1, <2>4, <3>2, StoredIs DEF Native!Cleared
      <3>4. QED
        BY <3>2, <3>3 DEF OwnerState, Changing, Missed
    <2>5. QED
      BY <1>5, <2>2, <2>3, <2>4
  <1>8. CASE PollMisses(m)
    <2>1. used => bits' = bits /\ ~Native!Matches(bits, r)
      BY <1>3, <1>4, <1>8 DEF PollMisses
    <2>2. used' => mirror' = bits' /\ ~Native!Matches(bits', r)
      BY <1>3, <1>4, <2>1
    <2>3. CASE Answer(m, "busy")
      <3>1. Moves(m) /\ step'[m] = "idle"
        BY <1>1, <2>3, AnswerMoves
      <3>2. QED
        BY <2>2, <3>1 DEF OwnerState, Changing, Missed
    <2>4. CASE Goto(m, "asking") /\ frame' = frame
      <3>1. "asking" \in Step
        BY DEF Step
      <3>2. Moves(m) /\ step'[m] = "asking" /\ frame'[m] = frame[m]
        BY <1>1, <2>4, <3>1, GotoMoves
      <3>3. QED
        BY <2>2, <3>2 DEF OwnerState, Changing, Missed
    <2>5. QED
      BY <1>8, <2>3, <2>4 DEF PollMisses
  <1>9. QED
    BY <1>7, <1>8

(* The other steps of the owner leave bits and copy as they are: a wait it *)
(* has got to is for bits that are not set, and it alone could set them.   *)
LEMMA OwnerWaits ==
  ASSUME NEW m \in Thread, MInv(m),
         \/ \E r \in Asks[m], kind \in Asking : Ask(m, r, kind)
         \/ RefuseSecond(m) \/ Admit(m) \/ LoadCount(m) \/ CountIn(m) \/ NativeWait(m)
         \/ NativeContinue(m) \/ NativeReturns(m) \/ CountOut(m)
         \/ NativeExpire(m) \/ NativeSpurious(m)
  PROVE  MInv(m)'
  <1>1. /\ FrameType /\ OwnerState(m)
        /\ frame[m] \in Frame /\ frame[m].req \in AnyRequest /\ frame[m].count \in Int
        /\ mirror \in SUBSET Bit /\ inWait \in Int
        /\ pc \in [Thread -> Place] /\ req \in [Thread -> AnyRequest]
    BY DEF MInv, FrameType, Frame
  <1>2. ASSUME Moves(m), UNCHANGED <<used, mirror, bits>>, inWait' \in Int,
               pc' \in [Thread -> Place], req' \in [Thread -> AnyRequest],
               \A u \in Thread \ {m} : req'[u] = req[u],
               step[m] \notin Changing, step'[m] \notin Changing \union {"looked"},
               step'[m] \in Missed =>
                    step[m] \in Missed /\ frame'[m].req = frame[m].req,
               step'[m] = "waiting" /\ pc'[m] \in Native!Inside => req'[m] = frame'[m].req
        PROVE  MInv(m)'
    <2>1. OwnerState(m)'
      BY <1>1, <1>2 DEF OwnerState, Changing, Native!Matches
    <2>2. QED
      BY <1>1, <1>2, <2>1, OwnerKeeps
  <1>3. CASE \E r \in Asks[m], kind \in Asking : Ask(m, r, kind)
    <2>1. PICK r \in Asks[m], kind \in Asking : Ask(m, r, kind)
      BY <1>3
    <2>2. /\ Moves(m) /\ step'[m] = "looked" /\ step[m] = "idle"
          /\ frame'[m].bits = mirror /\ frame'[m].kind = kind
          /\ UNCHANGED <<native, table>>
      BY <1>1, <2>1, AskMoves
    <2>3. OwnerState(m)'
      BY <1>1, <2>2 DEF OwnerState, native, table, Changing, Missed
    <2>4. QED
      BY <1>1, <2>2, <2>3, OwnerKeeps DEF native, table
  <1>4. CASE RefuseSecond(m)
    <2>1. Moves(m) /\ step'[m] = "idle" /\ step[m] = "asking"
      BY <1>1, <1>4, AnswerMoves DEF RefuseSecond, At
    <2>2. UNCHANGED <<used, mirror, bits, inWait, pc, req>>
      BY <1>4 DEF RefuseSecond, native, table
    <2>3. QED
      BY <1>1, <1>2, <2>1, <2>2 DEF Changing, Missed
  <1>5. CASE Admit(m)
    <2>1. Moves(m) /\ step'[m] = "counting" /\ step[m] = "asking" /\ frame'[m] = frame[m]
      BY <1>1, <1>5, GotoMoves DEF Admit, At, Step
    <2>2. UNCHANGED <<used, mirror, bits, inWait, pc, req>>
      BY <1>5 DEF Admit, native, table
    <2>3. QED
      BY <1>1, <1>2, <2>1, <2>2 DEF Changing, Missed
  <1>6. CASE LoadCount(m)
    <2>1. /\ Moves(m) /\ frame'[m].req = frame[m].req
          /\ \/ step[m] = "counting" /\ step'[m] = "counted"
             \/ step[m] = "leaving" /\ step'[m] = "left"
      BY <1>1, <1>6, LoadCountMoves
    <2>2. UNCHANGED <<used, mirror, bits, inWait, pc, req>>
      BY <1>6 DEF LoadCount, native, table
    <2>3. QED
      BY <1>1, <1>2, <2>1, <2>2 DEF Changing, Missed
  <1>7. CASE CountIn(m)
    <2>1. Moves(m) /\ step'[m] = "entering" /\ step[m] = "counted" /\ frame'[m] = frame[m]
      BY <1>1, <1>7, GotoMoves DEF CountIn, At, Step
    <2>2. UNCHANGED <<used, mirror, bits, pc, req>> /\ inWait' \in Int
      BY <1>1, <1>7 DEF CountIn, native
    <2>3. QED
      BY <1>1, <1>2, <2>1, <2>2 DEF Changing, Missed
  <1>8. CASE NativeWait(m)
    <2>1. Moves(m) /\ step'[m] = "waiting" /\ step[m] = "entering" /\ frame'[m] = frame[m]
      BY <1>1, <1>8, GotoMoves DEF NativeWait, At, Step
    <2>2. UNCHANGED <<used, mirror, inWait>>
          /\ Native!LoopHead(m, frame[m].req, waiters + 1, frame[m].kind = "timed")
      BY <1>8 DEF NativeWait, Native!Wait, table
    <2>3. /\ Within(m)
          /\ pc'[m] \in Native!Inside => req'[m] = frame[m].req
          /\ bits' = bits \/ Native!Matches(bits, frame[m].req)
      BY <1>1, <2>2, NativeLoop
    <2>4. used => bits' = bits
      BY <1>1, <2>1, <2>3 DEF OwnerState, Missed
    <2>5. OwnerState(m)'
      BY <1>1, <2>1, <2>2, <2>3, <2>4 DEF OwnerState, Changing, Missed
    <2>6. QED
      BY <1>1, <2>1, <2>2, <2>3, <2>5, OwnerKeeps DEF Within
  <1>9. CASE NativeContinue(m) \/ NativeExpire(m) \/ NativeSpurious(m)
    <2>1. /\ Native!Continue(m) \/ Native!Expire(m) \/ Native!SpuriousWake(m)
          /\ UNCHANGED <<used, mirror, inWait, step, frame>>
          /\ step[m] \in {"waiting", "closing"}
      BY <1>9 DEF NativeContinue, NativeExpire, NativeSpurious, table, At
    <2>2. /\ Within(m)
          /\ pc'[m] \in Native!Inside => req'[m] = req[m] /\ pc[m] \in Native!Inside
          /\ bits' = bits \/ (pc[m] \in Native!Inside /\ Native!Matches(bits, req[m]))
      BY <1>1, <2>1, NativeOn
    <2>3. Moves(m)
      BY <1>1, <2>1 DEF FrameType, Moves
    <2>4. CASE step[m] = "closing"
      <3>1. OwnerState(m)'
        BY <2>1, <2>4 DEF OwnerState, Changing, Missed
      <3>2. QED
        BY <1>1, <2>1, <2>2, <2>3, <3>1, OwnerKeeps DEF Within
    <2>5. CASE step[m] = "waiting"
      <3>1. used => bits' = bits
        BY <1>1, <2>2, <2>5 DEF OwnerState, Missed
      <3>2. OwnerState(m)'
        BY <1>1, <2>1, <2>2, <2>5, <3>1 DEF OwnerState, Changing, Missed
      <3>3. QED
        BY <1>1, <2>1, <2>2, <2>3, <3>2, OwnerKeeps DEF Within
    <2>6. QED
      BY <2>1, <2>4, <2>5
  <1>10. CASE NativeReturns(m)
    <2>1. Moves(m) /\ step'[m] = "leaving" /\ step[m] = "waiting"
      BY <1>1, <1>10, GotoMoves DEF NativeReturns, At, Step
    <2>2. UNCHANGED <<used, mirror, bits, inWait, pc, req>>
      BY <1>10 DEF NativeReturns, native, table
    <2>3. QED
      BY <1>1, <1>2, <2>1, <2>2 DEF Changing, Missed
  <1>11. CASE CountOut(m)
    <2>1. Moves(m) /\ step'[m] = "idle" /\ step[m] = "left"
      BY <1>1, <1>11, AnswerMoves DEF CountOut, At
    <2>2. UNCHANGED <<used, mirror, bits, pc, req>> /\ inWait' \in Int
      BY <1>1, <1>11 DEF CountOut, native
    <2>3. QED
      BY <1>1, <1>2, <2>1, <2>2 DEF Changing, Missed
  <1>12. QED
    BY <1>3, <1>4, <1>5, <1>6, <1>7, <1>8, <1>9, <1>10, <1>11

-----------------------------------------------------------------------------
LEMMA StepKeepsMirror ==
  ASSUME NEW m \in Thread, OwnedBy(m), MInv(m), [Next]_vars
  PROVE  MInv(m)'
  <1>1. CASE UNCHANGED vars
    BY <1>1 DEF MInv, FrameType, OthersPlain, OwnerState, Stored, Native!Matches,
       vars, native, table
  <1>2. ASSUME NEW t \in Thread,
               Call(t) \/ Continue(t) \/ NativeExpire(t) \/ NativeSpurious(t)
        PROVE  MInv(m)'
    <2>1. CASE t # m
      BY <1>2, <2>1, OtherStep
    <2>2. CASE t = m
      BY <1>2, <2>2, OwnerChanges, OwnerPolls, OwnerWaits DEF Call, Continue, Asking
    <2>3. QED
      BY <2>1, <2>2
  <1>3. QED
    BY <1>1, <1>2 DEF Next

LEMMA InitMirror ==
  ASSUME NEW m \in Thread, Init
  PROVE  MInv(m)
  <1>1. NoFrame \in Frame /\ NoFrame.req.clear = "none"
    BY NoFrameTyped
  <1>2. /\ step = [t \in Thread |-> "idle"] /\ frame = [t \in Thread |-> NoFrame]
        /\ inWait = 0 /\ mirror = InitBits /\ bits = InitBits
        /\ req = [t \in Thread |-> Native!NoRequest] /\ pc = [t \in Thread |-> "idle"]
    BY DEF Init, Native!Init
  <1>3. FrameType
    BY <1>1, <1>2, FlagAssumption DEF FrameType, Step, Place, AnyRequest
  <1>4. OthersPlain(m)
    BY <1>1, <1>2 DEF OthersPlain, Changing, Native!NoRequest
  <1>5. OwnerState(m)
    BY <1>2 DEF OwnerState, Changing, Missed
  <1>6. QED
    BY <1>3, <1>4, <1>5 DEF MInv

(* MirrorAgrees: while one thread modifies a flag and the requests of the  *)
(* others clear nothing, the copy in g_event_flags that polls are answered *)
(* from equals the native flag whenever that thread is outside a change.   *)
THEOREM MirrorIsRight ==
  ASSUME NEW m \in Thread, OwnedBy(m)
  PROVE  Spec => []MirrorAgrees
  <1>1. Init => MInv(m)
    BY InitMirror
  <1>2. MInv(m) /\ [Next]_vars => MInv(m)'
    BY StepKeepsMirror
  <1>3. MInv(m) => MirrorAgrees
    <2> SUFFICES ASSUME MInv(m), used,
                        \A u \in Modifier : step[u] \notin {"loading", "storing", "closing"}
                 PROVE  mirror = bits
      BY DEF MirrorAgrees
    <2>1. step[m] \notin Changing
      BY DEF OwnedBy, Changing
    <2>2. QED
      BY <2>1 DEF MInv, OwnerState
  <1>4. QED
    BY <1>1, <1>2, <1>3, PTL DEF Spec

-----------------------------------------------------------------------------
(* The wrapper uses the native flag as KtEvent says it may be used: what   *)
(* KtEvent_proofs shows of the native flag alone holds of it here, under   *)
(* any interleaving of the wrapper's unlocked loads and stores, whoever    *)
(* modifies the flag and whatever the requests clear.                      *)

NativeProofs == INSTANCE KtEvent_proofs

(* Where a thread holds a request it is to hand to the native flag. *)
Requesting == {"looked", "asking", "counting", "counted", "entering"}

Outcome == {"none", "ok", "busy", "perm", "failed"}

WInv ==
    /\ FrameType
    /\ used \in BOOLEAN
    /\ outcome \in [Thread -> Outcome]
    /\ \A t \in Thread : step[t] \in Requesting => frame[t].req \in Request
    /\ \A t \in Thread : pc[t] # "idle" => step[t] \in {"waiting", "closing"}

LEMMA WrapperKeeps ==
  ASSUME WInv, NEW t \in Thread, Moves(t),
         pc' \in [Thread -> Place], req' \in [Thread -> AnyRequest],
         \A u \in Thread \ {t} : pc'[u] # "idle" => pc[u] # "idle",
         pc'[t] # "idle" => step'[t] \in {"waiting", "closing"},
         step'[t] \in Requesting => frame'[t].req \in Request,
         mirror' \in SUBSET Bit, inWait' \in Int, used' \in BOOLEAN,
         outcome' \in [Thread -> Outcome]
  PROVE  WInv'
  <1>1. FrameType'
    BY DEF WInv, FrameType, Moves
  <1>2. \A u \in Thread : step'[u] \in Requesting => frame'[u].req \in Request
    BY DEF WInv, Moves
  <1>3. \A u \in Thread : pc'[u] # "idle" => step'[u] \in {"waiting", "closing"}
    BY DEF WInv, Moves
  <1>4. QED
    BY <1>1, <1>2, <1>3 DEF WInv

(* Beginning, going on and answering all leave outcome in type. *)
LEMMA OutcomeTyped ==
  ASSUME WInv, NEW t \in Thread,
         \/ outcome' = outcome
         \/ \E result \in Outcome : outcome' = [outcome EXCEPT ![t] = result]
  PROVE  outcome' \in [Thread -> Outcome]
  BY DEF WInv

(* Set, clear, cancel and delete are calls of the native flag. *)
LEMMA ModifyIsNative ==
  ASSUME WInv, NEW t \in Thread, Modify(t)
  PROVE  WInv' /\ Native!Call(t)
  <1>1. /\ FrameType /\ used \in BOOLEAN /\ mirror \in SUBSET Bit /\ inWait \in Int
        /\ pc \in [Thread -> Place] /\ req \in [Thread -> AnyRequest]
    BY DEF WInv, FrameType
  <1>2. Native!Broadcast \in [Thread -> Place]
        /\ \A u \in Thread : Native!Broadcast[u] # "idle" => pc[u] # "idle"
    BY <1>1 DEF Native!Broadcast, Place
  <1>3. \A where, f : Begin(t, where, f) => outcome' \in [Thread -> Outcome]
    BY OutcomeTyped DEF Begin, Outcome
  <1>4. ASSUME NEW where \in {"loading", "storing"}, NEW kind \in {"set", "clear", "cancel"},
               NEW p \in SUBSET Bit, Begin(t, where, [NoFrame EXCEPT !.kind = kind, !.arg = p]),
               UNCHANGED table, req' = req, pc[t] = "idle", pc' \in {pc, Native!Broadcast}
        PROVE  WInv'
    <2>1. where \in Step /\ kind \in Kind
      BY DEF Step, Kind
    <2>2. Moves(t) /\ step'[t] = where
      BY <1>1, <1>4, <2>1, ChangeMoves
    <2>3. pc' \in [Thread -> Place] /\ \A u \in Thread : pc'[u] # "idle" => pc[u] # "idle"
      BY <1>1, <1>2, <1>4
    <2>4. outcome' \in [Thread -> Outcome]
      BY <1>3, <1>4
    <2>5. QED
      BY <1>1, <1>4, <2>2, <2>3, <2>4, WrapperKeeps DEF table, Requesting
  <1>5. ASSUME NEW p \in SUBSET Bit, Set(t, p)
        PROVE  WInv' /\ Native!Call(t)
    <2>1. Native!Set(t, p) /\ UNCHANGED table
          /\ Begin(t, "loading", [NoFrame EXCEPT !.kind = "set", !.arg = p])
      BY <1>5 DEF Set
    <2>2. req' = req /\ pc[t] = "idle" /\ pc' = Native!Broadcast
      BY <2>1 DEF Native!Set
    <2>3. QED
      BY <1>4, <2>1, <2>2 DEF Native!Call
  <1>6. ASSUME NEW p \in SUBSET Bit, Clear(t, p)
        PROVE  WInv' /\ Native!Call(t)
    <2>1. Native!Clear(t, p) /\ UNCHANGED table
          /\ Begin(t, "loading", [NoFrame EXCEPT !.kind = "clear", !.arg = p])
      BY <1>6 DEF Clear
    <2>2. req' = req /\ pc[t] = "idle" /\ pc' = pc
      BY <2>1 DEF Native!Clear
    <2>3. QED
      BY <1>4, <2>1, <2>2 DEF Native!Call
  <1>7. ASSUME NEW p \in SUBSET Bit, Cancel(t, p)
        PROVE  WInv' /\ Native!Call(t)
    <2>1. Native!Cancel(t, p) /\ UNCHANGED table
          /\ Begin(t, "storing", [NoFrame EXCEPT !.kind = "cancel", !.arg = p])
      BY <1>7 DEF Cancel
    <2>2. req' = req /\ pc[t] = "idle" /\ pc' = Native!Broadcast
      BY <2>1 DEF Native!Cancel
    <2>3. QED
      BY <1>4, <2>1, <2>2 DEF Native!Call
  <1>8. CASE Delete(t)
    <2> DEFINE f == [NoFrame EXCEPT !.kind = "delete"]
    <2>1. f \in Frame
      BY NoFrameTyped DEF Frame, Kind
    <2>2. Native!Delete(t) /\ UNCHANGED table /\ Begin(t, "closing", f)
      BY <1>8 DEF Delete
    <2>3. Moves(t) /\ step'[t] = "closing"
      BY <1>1, <2>1, <2>2, StepMoves DEF Begin, Step
    <2>4. /\ req' = req
          /\ pc' = [Native!Broadcast EXCEPT ![t] = IF waiters = 0 THEN "finalizing" ELSE "idle"]
      BY <2>2 DEF Native!Delete
    <2>5. /\ pc' \in [Thread -> Place]
          /\ \A u \in Thread \ {t} : pc'[u] # "idle" => pc[u] # "idle"
      BY <1>2, <2>4 DEF Place
    <2>6. outcome' \in [Thread -> Outcome]
      BY <1>3, <2>2
    <2>7. QED
      BY <1>1, <2>2, <2>3, <2>4, <2>5, <2>6, WrapperKeeps DEF table, Requesting, Native!Call
  <1>9. QED
    BY <1>5, <1>6, <1>7, <1>8 DEF Modify

(* The steps that leave the native flag alone. *)
LEMMA WrapperOnly ==
  ASSUME WInv, NEW t \in Thread,
         \/ \E r \in Asks[t], kind \in Asking : Ask(t, r, kind)
         \/ LoadMirror(t) \/ StoreMirror(t) \/ RefuseSecond(t) \/ Admit(t)
         \/ LoadCount(t) \/ CountIn(t) \/ NativeReturns(t) \/ CountOut(t) \/ Close(t)
  PROVE  WInv' /\ UNCHANGED native
  <1>1. /\ FrameType /\ used \in BOOLEAN /\ mirror \in SUBSET Bit /\ inWait \in Int
        /\ frame[t] \in Frame /\ frame[t].count \in Int
        /\ pc \in [Thread -> Place] /\ req \in [Thread -> AnyRequest]
        /\ outcome \in [Thread -> Outcome]
    BY DEF WInv, FrameType, Frame
  <1>2. UNCHANGED native
    BY DEF Ask, LoadMirror, StoreMirror, RefuseSecond, Admit, LoadCount, CountIn,
       NativeReturns, CountOut, Close
  <1>3. ASSUME Moves(t), mirror' \in SUBSET Bit, inWait' \in Int, used' \in BOOLEAN,
               outcome' \in [Thread -> Outcome],
               step'[t] \in Requesting => frame'[t].req \in Request,
               pc[t] # "idle" => step'[t] \in {"waiting", "closing"}
        PROVE  WInv'
    <2>1. UNCHANGED <<pc, req>>
      BY <1>2 DEF native
    <2>2. QED
      BY <1>1, <1>3, <2>1, WrapperKeeps
  <1>4. step[t] \notin {"waiting", "closing"} => pc[t] = "idle"
    BY DEF WInv
  <1>5. \A result \in Outcome : Answer(t, result) => outcome' \in [Thread -> Outcome]
    BY OutcomeTyped DEF Answer
  <1>6. CASE \E r \in Asks[t], kind \in Asking : Ask(t, r, kind)
    <2>1. PICK r \in Asks[t], kind \in Asking : Ask(t, r, kind)
      BY <1>6
    <2>2. /\ Moves(t) /\ step'[t] = "looked" /\ step[t] = "idle" /\ frame'[t].req = r
          /\ UNCHANGED table
      BY <1>1, <2>1, AskMoves
    <2>3. r \in Request
      BY FlagAssumption
    <2>4. outcome' \in [Thread -> Outcome]
      BY <2>1, OutcomeTyped DEF Ask, Begin, Outcome
    <2>5. QED
      BY <1>1, <1>2, <1>3, <1>4, <2>2, <2>3, <2>4 DEF table
  <1>7. CASE LoadMirror(t)
    <2> DEFINE f == [frame[t] EXCEPT !.bits = mirror]
    <2>1. f \in Frame /\ frame' = [frame EXCEPT ![t] = f]
      BY <1>1, <1>7 DEF LoadMirror, Frame
    <2>2. Moves(t) /\ step'[t] = "storing" /\ step[t] = "loading"
      BY <1>1, <1>7, <2>1, StepMoves DEF LoadMirror, Goto, Step, At
    <2>3. UNCHANGED <<table, outcome>>
      BY <1>7 DEF LoadMirror, Goto
    <2>4. QED
      BY <1>1, <1>2, <1>3, <1>4, <2>2, <2>3 DEF table, Requesting
  <1>8. CASE StoreMirror(t)
    <2>1. Answer(t, "ok") /\ step[t] = "storing" /\ "ok" \in Outcome
          /\ mirror' = Stored(frame[t]) /\ UNCHANGED <<used, inWait>>
      BY <1>8 DEF StoreMirror, At, Outcome
    <2>2. Moves(t) /\ step'[t] = "idle"
      BY <1>1, <2>1, AnswerMoves
    <2>3. mirror' \in SUBSET Bit
      BY <1>1, <2>1, StoredIs
    <2>4. QED
      BY <1>1, <1>2, <1>3, <1>4, <1>5, <2>1, <2>2, <2>3 DEF Requesting
  <1>9. CASE RefuseSecond(t)
    <2>1. Answer(t, "perm") /\ step[t] = "asking" /\ "perm" \in Outcome /\ UNCHANGED table
      BY <1>9 DEF RefuseSecond, At, Outcome
    <2>2. Moves(t) /\ step'[t] = "idle"
      BY <1>1, <2>1, AnswerMoves
    <2>3. QED
      BY <1>1, <1>2, <1>3, <1>4, <1>5, <2>1, <2>2 DEF table, Requesting
  <1>10. CASE Admit(t) \/ CountIn(t)
    <2>1. /\ UNCHANGED <<used, mirror, frame, outcome>> /\ inWait' \in Int
          /\ step[t] \in {"asking", "counted"}
          /\ Goto(t, "counting") \/ Goto(t, "entering")
      BY <1>1, <1>10 DEF Admit, CountIn, Goto, At, table
    <2>2. "counting" \in Step /\ "entering" \in Step
      BY DEF Step
    <2>3. Moves(t) /\ step'[t] \in {"counting", "entering"} /\ frame'[t] = frame[t]
      BY <1>1, <2>1, <2>2, GotoMoves
    <2>4. frame[t].req \in Request
      BY <2>1 DEF WInv, Requesting
    <2>5. QED
      BY <1>1, <1>2, <1>3, <1>4, <2>1, <2>3, <2>4
  <1>11. CASE LoadCount(t)
    <2>1. /\ Moves(t) /\ frame'[t].req = frame[t].req
          /\ \/ step[t] = "counting" /\ step'[t] = "counted"
             \/ step[t] = "leaving" /\ step'[t] = "left"
      BY <1>1, <1>11, LoadCountMoves
    <2>2. UNCHANGED <<table, outcome>>
      BY <1>11 DEF LoadCount, Goto
    <2>3. step[t] = "counting" => frame[t].req \in Request
      BY DEF WInv, Requesting
    <2>4. QED
      BY <1>1, <1>2, <1>3, <1>4, <2>1, <2>2, <2>3 DEF table, Requesting
  <1>12. CASE NativeReturns(t)
    <2>1. UNCHANGED <<table, outcome, frame>> /\ pc[t] = "idle"
          /\ Goto(t, "leaving") /\ "leaving" \in Step
      BY <1>12 DEF NativeReturns, Goto, Step
    <2>2. Moves(t) /\ step'[t] = "leaving"
      BY <1>1, <2>1, GotoMoves
    <2>3. QED
      BY <1>1, <1>2, <1>3, <2>1, <2>2 DEF table, Requesting
  <1>13. CASE CountOut(t)
    <2>1. /\ \E result \in Outcome : Answer(t, result)
          /\ step[t] = "left" /\ UNCHANGED <<used, mirror>> /\ inWait' \in Int
      BY <1>1, <1>13 DEF CountOut, At, Outcome
    <2>2. Moves(t) /\ step'[t] = "idle"
      BY <1>1, <2>1, AnswerMoves
    <2>3. QED
      BY <1>1, <1>2, <1>3, <1>4, <1>5, <2>1, <2>2 DEF Requesting
  <1>14. CASE Close(t)
    <2>1. /\ Answer(t, "ok") /\ "ok" \in Outcome /\ pc[t] = "idle"
          /\ used' = FALSE /\ mirror' = {} /\ inWait' = 0
      BY <1>14 DEF Close, Outcome
    <2>2. Moves(t) /\ step'[t] = "idle"
      BY <1>1, <2>1, AnswerMoves
    <2>3. mirror' \in SUBSET Bit
      BY <2>1
    <2>4. inWait' \in Int
      BY <2>1
    <2>5. used' \in BOOLEAN
      BY <2>1
    <2>6. outcome' \in [Thread -> Outcome]
      BY <1>5, <2>1
    <2>7. QED
      BY <1>2, <1>3, <2>1, <2>2, <2>3, <2>4, <2>5, <2>6 DEF Requesting
  <1>15. QED
    BY <1>2, <1>6, <1>7, <1>8, <1>9, <1>10, <1>11, <1>12, <1>13, <1>14

(* The steps inside a poll or a wait are steps of the native flag. *)
LEMMA WaitIsNative ==
  ASSUME WInv, NEW t \in Thread,
         \/ PollSucceeds(t) \/ PollMisses(t) \/ NativeWait(t)
         \/ NativeContinue(t) \/ NativeExpire(t) \/ NativeSpurious(t)
  PROVE  /\ WInv'
         /\ Native!Call(t) \/ Native!Continue(t) \/ Native!Expire(t) \/ Native!SpuriousWake(t)
  <1>1. /\ FrameType /\ used \in BOOLEAN /\ mirror \in SUBSET Bit /\ inWait \in Int
        /\ frame[t] \in Frame /\ frame[t].req \in AnyRequest
        /\ pc \in [Thread -> Place] /\ req \in [Thread -> AnyRequest]
        /\ outcome \in [Thread -> Outcome]
    BY DEF WInv, FrameType, Frame
  <1>2. UNCHANGED table
    BY DEF PollSucceeds, PollMisses, NativePoll, NativeWait, NativeContinue,
       NativeExpire, NativeSpurious
  <1>3. ASSUME Moves(t), Within(t), outcome' \in [Thread -> Outcome],
               step'[t] \in Requesting => frame'[t].req \in Request,
               pc'[t] # "idle" => step'[t] \in {"waiting", "closing"}
        PROVE  WInv'
    BY <1>1, <1>2, <1>3, WrapperKeeps DEF Within, table
  <1>4. CASE PollSucceeds(t) \/ PollMisses(t)
    <2>1. /\ Native!Poll(t, frame[t].req) \/ Native!PollFails(t, frame[t].req)
          /\ step[t] = "looked"
      BY <1>4 DEF PollSucceeds, PollMisses, NativePoll, At
    <2>2. frame[t].req \in Request
      BY <2>1 DEF WInv, Requesting
    <2>3. Native!Call(t)
      BY <2>1, <2>2 DEF Native!Call
    <2>4. UNCHANGED <<pc, req>> /\ pc[t] = "idle"
      BY <2>1, NativeLook DEF Native!Poll, Native!PollFails
    <2>5. Within(t)
      BY <1>1, <2>4 DEF Within
    <2>6. \/ Answer(t, "ok") \/ Answer(t, "busy")
          \/ /\ Goto(t, "storing") \/ Goto(t, "loading") \/ Goto(t, "asking")
             /\ frame' = frame
      <3>1. frame[t].req.clear \in {"none", "all", "pattern"}
        BY <1>1, RequestShape
      <3>2. QED
        BY <1>4, <3>1 DEF PollSucceeds, PollMisses
    <2>7. CASE Answer(t, "ok") \/ Answer(t, "busy")
      <3>1. Moves(t) /\ step'[t] = "idle"
        BY <1>1, <2>7, AnswerMoves
      <3>2. outcome' \in [Thread -> Outcome]
        BY <2>7, OutcomeTyped DEF Answer, Outcome
      <3>3. QED
        BY <1>3, <2>3, <2>4, <2>5, <3>1, <3>2 DEF Requesting
    <2>8. CASE /\ Goto(t, "storing") \/ Goto(t, "loading") \/ Goto(t, "asking")
               /\ frame' = frame
      <3>1. "storing" \in Step /\ "loading" \in Step /\ "asking" \in Step
        BY DEF Step
      <3>2. Moves(t) /\ frame'[t] = frame[t]
        BY <1>1, <2>8, <3>1, GotoMoves
      <3>3. outcome' = outcome
        BY <2>8 DEF Goto
      <3>4. QED
        BY <1>1, <1>3, <2>2, <2>3, <2>4, <2>5, <3>2, <3>3
    <2>9. QED
      BY <2>6, <2>7, <2>8
  <1>5. CASE NativeWait(t)
    <2>1. /\ Native!Wait(t, frame[t].req, frame[t].kind = "timed")
          /\ step[t] = "entering" /\ Goto(t, "waiting") /\ frame' = frame
      BY <1>5 DEF NativeWait, At
    <2>2. frame[t].req \in Request
      BY <2>1 DEF WInv, Requesting
    <2>3. Native!Call(t)
      BY <2>1, <2>2 DEF Native!Call
    <2>4. Within(t)
      BY <1>1, <2>1, NativeLoop DEF Native!Wait
    <2>5. "waiting" \in Step
      BY DEF Step
    <2>6. Moves(t) /\ step'[t] = "waiting"
      BY <1>1, <2>1, <2>5, GotoMoves
    <2>7. outcome' = outcome
      BY <2>1 DEF Goto
    <2>8. QED
      BY <1>1, <1>3, <2>3, <2>4, <2>6, <2>7 DEF Requesting
  <1>6. CASE NativeContinue(t) \/ NativeExpire(t) \/ NativeSpurious(t)
    <2>1. /\ Native!Continue(t) \/ Native!Expire(t) \/ Native!SpuriousWake(t)
          /\ step[t] \in {"waiting", "closing"}
          /\ UNCHANGED <<step, frame, outcome>>
      BY <1>6 DEF NativeContinue, NativeExpire, NativeSpurious, At
    <2>2. Within(t)
      BY <1>1, <2>1, NativeOn
    <2>3. Moves(t)
      BY <1>1, <2>1 DEF FrameType, Moves
    <2>4. QED
      BY <1>1, <1>3, <2>1, <2>2, <2>3 DEF Requesting
  <1>7. QED
    BY <1>4, <1>5, <1>6

(* The two instances of KtEvent are one. *)
LEMMA SameNative == Native!Next => NativeProofs!Next
  BY DEF
     Native!Next, Native!Call, Native!Poll, Native!PollFails, Native!Wait,
     Native!Set, Native!Clear, Native!Cancel, Native!Delete, Native!Destroy,
     Native!Continue, Native!Rewait, Native!LeaveExpired, Native!Finalize,
     Native!SpuriousWake, Native!Expire, Native!LoopHead,
     Native!LeaveCanceled, Native!LeaveDeleted, Native!Grant, Native!Sleep,
     Native!Return, Native!Broadcast, Native!Matches, Native!Cleared,
     Native!Alive, Native!Finalizing, Native!NoRequest, Native!shared,
     NativeProofs!Next, NativeProofs!Call, NativeProofs!Poll,
     NativeProofs!PollFails, NativeProofs!Wait, NativeProofs!Set,
     NativeProofs!Clear, NativeProofs!Cancel, NativeProofs!Delete,
     NativeProofs!Destroy, NativeProofs!Continue, NativeProofs!Rewait,
     NativeProofs!LeaveExpired, NativeProofs!Finalize,
     NativeProofs!SpuriousWake, NativeProofs!Expire, NativeProofs!LoopHead,
     NativeProofs!LeaveCanceled, NativeProofs!LeaveDeleted,
     NativeProofs!Grant, NativeProofs!Sleep, NativeProofs!Return,
     NativeProofs!Broadcast, NativeProofs!Matches, NativeProofs!Cleared,
     NativeProofs!Alive, NativeProofs!Finalizing, NativeProofs!NoRequest,
     NativeProofs!shared

LEMMA StepIsNative ==
  ASSUME WInv, [Next]_vars
  PROVE  WInv' /\ [NativeProofs!Next]_(NativeProofs!vars)
  <1>1. CASE UNCHANGED vars
    <2>1. UNCHANGED NativeProofs!vars
      BY <1>1 DEF vars, native, NativeProofs!vars
    <2>2. UNCHANGED <<step, frame, req, pc, mirror, inWait, used, outcome>>
      BY <1>1 DEF vars, native, table
    <2>3. QED
      BY <2>1, <2>2 DEF WInv, FrameType
  <1>2. ASSUME NEW t \in Thread,
               Call(t) \/ Continue(t) \/ NativeExpire(t) \/ NativeSpurious(t)
        PROVE  WInv' /\ (Native!Next \/ UNCHANGED native)
    <2>1. CASE t \in Modifier /\ Modify(t)
      BY <2>1, ModifyIsNative DEF Native!Next
    <2>2. CASE \/ \E r \in Asks[t], kind \in Asking : Ask(t, r, kind)
               \/ LoadMirror(t) \/ StoreMirror(t) \/ RefuseSecond(t) \/ Admit(t)
               \/ LoadCount(t) \/ CountIn(t) \/ NativeReturns(t) \/ CountOut(t) \/ Close(t)
      BY <2>2, WrapperOnly
    <2>3. CASE \/ PollSucceeds(t) \/ PollMisses(t) \/ NativeWait(t)
               \/ NativeContinue(t) \/ NativeExpire(t) \/ NativeSpurious(t)
      BY <2>3, WaitIsNative DEF Native!Next
    <2>4. QED
      BY <1>2, <2>1, <2>2, <2>3 DEF Call, Continue, Asking
  <1>3. UNCHANGED native => UNCHANGED NativeProofs!vars
    BY DEF native, NativeProofs!vars
  <1>4. QED
    BY <1>1, <1>2, <1>3, SameNative DEF Next

LEMMA InitWrapper == Init => WInv
  <1> SUFFICES ASSUME Init PROVE WInv
    OBVIOUS
  <1>1. NoFrame \in Frame
    BY NoFrameTyped
  <1>2. /\ step = [t \in Thread |-> "idle"] /\ frame = [t \in Thread |-> NoFrame]
        /\ inWait = 0 /\ mirror = InitBits /\ used = TRUE
        /\ outcome = [t \in Thread |-> "none"]
        /\ req = [t \in Thread |-> Native!NoRequest] /\ pc = [t \in Thread |-> "idle"]
    BY DEF Init, Native!Init
  <1>3. FrameType
    BY <1>1, <1>2, FlagAssumption DEF FrameType, Step, Place, AnyRequest
  <1>4. QED
    BY <1>2, <1>3 DEF WInv, Requesting, Outcome

(* The guest's event flag uses the native one as KtEvent allows: whatever  *)
(* the unlocked slot of g_event_flags makes of it, every step of a         *)
(* sceKernel call is a step of the native flag or leaves it alone.         *)
THEOREM UsesNative == Spec => NativeProofs!Spec
  <1>1. Init => NativeProofs!Init
    BY DEF Init, Native!Init, NativeProofs!Init, Native!NoRequest, NativeProofs!NoRequest
  <1>2. QED
    BY <1>1, InitWrapper, StepIsNative, PTL DEF Spec, NativeProofs!Spec

(* What KtEvent assumes of its constants follows from what EventFlag       *)
(* assumes, so its theorems hold here.                                     *)
LEMMA NativeAssumption ==
    /\ NativeProofs!IsFiniteSet(Thread)
    /\ InitBits \subseteq Bit
    /\ Request \subseteq [pattern : SUBSET Bit \ {{}}, all : BOOLEAN,
                          clear : NativeProofs!ClearMode]
  BY FlagAssumption DEF IsFiniteSet, NativeProofs!IsFiniteSet, NativeProofs!ClearMode

(* TypeOK: a thread is inside the native flag only where the wrapper has   *)
(* it so, and the slot's fields stay in type, the waiter count an integer. *)
THEOREM TypeCorrect == Spec => []TypeOK
  <1>1. NativeProofs!TypeOK => Native!TypeOK
    BY DEF NativeProofs!TypeOK, Native!TypeOK, NativeProofs!Inside, Native!Inside,
       NativeProofs!NoRequest, Native!NoRequest
  <1>2. WInv /\ Native!TypeOK => TypeOK
    BY DEF WInv, FrameType, TypeOK, Outcome
  <1>3. QED
    BY <1>1, <1>2, InitWrapper, StepIsNative, UsesNative, NativeAssumption,
       NativeProofs!TypeCorrect, PTL DEF Spec

(* So the native properties hold under the wrapper: the native waiter      *)
(* count is exact although the slot's own count drifts, no waiter sleeps   *)
(* through its bits, and a delete destroys the natives once and never      *)
(* under a thread that still has to take the mutex.                        *)
THEOREM NativeStaysSound ==
  Spec => [](NativeProofs!WaitersExact /\ NativeProofs!NoLostWakeup
             /\ NativeProofs!FinalizedOnce)
  BY UsesNative, NativeAssumption, NativeProofs!WaitersAreExact,
     NativeProofs!NoWakeupIsLost, NativeProofs!NativesFinalizedOnce, PTL
=============================================================================
