------------------------------ MODULE EventFlag ------------------------------
(***************************************************************************)
(* The guest's event flags (sceKernel*EventFlag of                         *)
(* threads_event_exception_clean.elisa): one slot of g_event_flags, from   *)
(* its creation to its deletion, over the native flag KtEvent.             *)
(*                                                                         *)
(* The slot keeps a copy of the bits beside the native flag.  Set, clear   *)
(* and cancel change the native flag first and then the copy; a poll       *)
(* decides by the copy and asks the native flag after that; a wait polls   *)
(* and then waits natively.  The copy and the waiter count are plain       *)
(* globals under no lock, so each read and each write of them is a step.   *)
(*                                                                         *)
(* Guest contract: a flag is deleted when its only users are its waiters,  *)
(* and not used afterwards.                                                *)
(***************************************************************************)
EXTENDS Integers, FiniteSets

CONSTANTS
    Thread, Bit, InitBits, Request,   \* as in KtEvent
    Asks,       \* Asks[t]: the requests guest thread t polls and waits with
    Modifier,   \* threads that set, clear, cancel and delete the flag
    Single,     \* attr has the single-waiter mode (attr & 0x30 = 0x10)
    MaxDrift    \* bound: no wait begins once the waiter count strays so far

ASSUME FlagAssumption ==
    /\ IsFiniteSet(Thread)
    /\ InitBits \subseteq Bit
    /\ Request \subseteq [pattern : SUBSET Bit \ {{}}, all : BOOLEAN,
                            clear : {"none", "all", "pattern"}]
    /\ Asks \in [Thread -> SUBSET Request]
    /\ Modifier \subseteq Thread
    /\ Single \in BOOLEAN
    /\ MaxDrift \in Nat

VARIABLES
    bits, waiters, canceled, deleted, destroyed, pc, req, timed, granted,
    used,      \* g_event_flags[ef].used
    mirror,    \* g_event_flags[ef].bits
    inWait,    \* g_event_waiters[ef]
    step,      \* where each thread is in its sceKernel call
    frame,     \* the locals of that call
    outcome    \* what each thread's last call returned, "none" while inside

native == <<bits, waiters, canceled, deleted, destroyed, pc, req, timed, granted>>
table == <<used, mirror, inWait>>
vars == <<native, table, step, frame, outcome>>

Native == INSTANCE KtEvent

NoFrame == [kind |-> "none", req |-> Native!NoRequest, arg |-> {}, bits |-> {}, count |-> 0]

Init ==
    /\ Native!Init
    /\ used = TRUE
    /\ mirror = InitBits
    /\ inWait = 0
    /\ step = [t \in Thread |-> "idle"]
    /\ frame = [t \in Thread |-> NoFrame]
    /\ outcome = [t \in Thread |-> "none"]

-----------------------------------------------------------------------------
(* Beginning, continuing and ending a call. *)

Begin(t, where, f) ==
    /\ used
    /\ step[t] = "idle"
    /\ \A u \in Thread : step[u] # "closing"
    /\ step' = [step EXCEPT ![t] = where]
    /\ frame' = [frame EXCEPT ![t] = f]
    /\ outcome' = [outcome EXCEPT ![t] = "none"]

At(t, where) == step[t] = where

Goto(t, where) ==
    /\ step' = [step EXCEPT ![t] = where]
    /\ UNCHANGED outcome

Answer(t, result) ==
    /\ step' = [step EXCEPT ![t] = "idle"]
    /\ frame' = [frame EXCEPT ![t] = NoFrame]
    /\ outcome' = [outcome EXCEPT ![t] = result]

-----------------------------------------------------------------------------
(* Set, clear, cancel and the end of a clearing poll: the native flag has  *)
(* changed already, the copy follows by a load and a store.                *)

(* Mutant: only the copy is set. *)
MutSet(t, p) ==
    /\ Begin(t, "loading", [NoFrame EXCEPT !.kind = "set", !.arg = p])
    /\ UNCHANGED <<native, table>>

Set(t, p) ==
    /\ Begin(t, "loading", [NoFrame EXCEPT !.kind = "set", !.arg = p])
    /\ Native!Set(t, p)
    /\ UNCHANGED table

Clear(t, mask) ==
    /\ Begin(t, "loading", [NoFrame EXCEPT !.kind = "clear", !.arg = mask])
    /\ Native!Clear(t, mask)
    /\ UNCHANGED table

Cancel(t, p) ==
    /\ Begin(t, "storing", [NoFrame EXCEPT !.kind = "cancel", !.arg = p])
    /\ Native!Cancel(t, p)
    /\ UNCHANGED table

LoadMirror(t) ==
    /\ At(t, "loading")
    /\ Goto(t, "storing")
    /\ frame' = [frame EXCEPT ![t].bits = mirror]
    /\ UNCHANGED <<native, table>>

(* Mutant: the mask of a clear names the bits to drop. *)
MutStored(f) ==
    CASE f.kind = "set" -> f.bits \union f.arg
      [] f.kind = "clear" -> f.bits \ f.arg
      [] f.kind = "cancel" -> f.arg
      [] OTHER -> IF f.req.clear = "all" THEN {} ELSE f.bits \ f.req.pattern

Stored(f) ==
    CASE f.kind = "set" -> f.bits \union f.arg
      [] f.kind = "clear" -> f.bits \intersect f.arg
      [] f.kind = "cancel" -> f.arg
      [] OTHER -> IF f.req.clear = "all" THEN {} ELSE f.bits \ f.req.pattern

StoreMirror(t) ==
    /\ At(t, "storing")
    /\ mirror' = Stored(frame[t])
    /\ Answer(t, "ok")
    /\ UNCHANGED <<native, used, inWait>>

-----------------------------------------------------------------------------
(* Poll and wait.  The copy is read before the native poll and decides the *)
(* answer, whatever the native poll found and took.                        *)

Ask(t, r, kind) ==
    /\ kind # "poll" => inWait \in -MaxDrift .. MaxDrift
    /\ Begin(t, "looked", [NoFrame EXCEPT !.kind = kind, !.req = r, !.bits = mirror])
    /\ UNCHANGED <<native, table>>

NativePoll(t) ==
    /\ At(t, "looked")
    /\ Native!Poll(t, frame[t].req) \/ Native!PollFails(t, frame[t].req)
    /\ UNCHANGED table

(* The copy has the bits: the answer is OK, and what the request clears    *)
(* is cleared in the copy.                                                 *)
PollSucceeds(t) ==
    /\ NativePoll(t)
    /\ Native!Matches(frame[t].bits, frame[t].req)
    /\ CASE frame[t].req.clear = "none" -> Answer(t, "ok")
         [] frame[t].req.clear = "all" -> Goto(t, "storing") /\ UNCHANGED frame
         [] frame[t].req.clear = "pattern" -> Goto(t, "loading") /\ UNCHANGED frame

(* The copy has not got the bits: a poll is EBUSY, a wait goes on. *)
PollMisses(t) ==
    /\ NativePoll(t)
    /\ ~Native!Matches(frame[t].bits, frame[t].req)
    /\ IF frame[t].kind = "poll" THEN Answer(t, "busy")
                                 ELSE Goto(t, "asking") /\ UNCHANGED frame

RefuseSecond(t) ==
    /\ At(t, "asking")
    /\ Single /\ inWait > 0
    /\ Answer(t, "perm")
    /\ UNCHANGED <<native, table>>

(* `attr ... and g_event_waiters[ef] > 0` is false. *)
Admit(t) ==
    /\ At(t, "asking")
    /\ ~Single \/ inWait <= 0
    /\ Goto(t, "counting")
    /\ UNCHANGED <<native, table, frame>>

LoadCount(t) ==
    /\ step[t] \in {"counting", "leaving"}
    /\ Goto(t, IF At(t, "counting") THEN "counted" ELSE "left")
    /\ frame' = [frame EXCEPT ![t].count = inWait]
    /\ UNCHANGED <<native, table>>

CountIn(t) ==
    /\ At(t, "counted")
    /\ inWait' = frame[t].count + 1
    /\ Goto(t, "entering")
    /\ UNCHANGED <<native, used, mirror, frame>>

NativeWait(t) ==
    /\ At(t, "entering")
    /\ Native!Wait(t, frame[t].req, frame[t].kind = "timed")
    /\ Goto(t, "waiting")
    /\ UNCHANGED <<table, frame>>

(* Inside kt_event_wait or kt_event_delete. *)
NativeContinue(t) ==
    /\ step[t] \in {"waiting", "closing"}
    /\ Native!Continue(t)
    /\ UNCHANGED <<table, step, frame, outcome>>

NativeSpurious(t) ==
    /\ At(t, "waiting")
    /\ Native!SpuriousWake(t)
    /\ UNCHANGED <<table, step, frame, outcome>>

NativeExpire(t) ==
    /\ At(t, "waiting")
    /\ Native!Expire(t)
    /\ UNCHANGED <<table, step, frame, outcome>>

NativeReturns(t) ==
    /\ At(t, "waiting")
    /\ pc[t] = "idle"
    /\ Goto(t, "leaving")
    /\ UNCHANGED <<native, table, frame>>

(* A granted wait leaves the copy as it is. *)
CountOut(t) ==
    /\ At(t, "left")
    /\ inWait' = frame[t].count - 1
    /\ Answer(t, IF t \in granted THEN "ok" ELSE "failed")
    /\ UNCHANGED <<native, used, mirror>>

-----------------------------------------------------------------------------
(* Mutant: the slot is cleared and the native flag forgotten. *)
MutDelete(t) ==
    /\ Begin(t, "closing", [NoFrame EXCEPT !.kind = "delete"])
    /\ \A u \in Thread \ {t} : step[u] \in {"idle", "waiting"}
    /\ UNCHANGED <<native, table>>

Delete(t) ==
    /\ Begin(t, "closing", [NoFrame EXCEPT !.kind = "delete"])
    /\ \A u \in Thread \ {t} : step[u] \in {"idle", "waiting"}
    /\ Native!Delete(t)
    /\ UNCHANGED table

Close(t) ==
    /\ At(t, "closing")
    /\ pc[t] = "idle"
    /\ used' = FALSE
    /\ mirror' = {}
    /\ inWait' = 0
    /\ Answer(t, "ok")
    /\ UNCHANGED native

-----------------------------------------------------------------------------
Modify(t) ==
    \/ \E p \in SUBSET Bit \ {{}} : Set(t, p) \/ Cancel(t, p)
    \/ \E p \in SUBSET Bit : Clear(t, p)
    \/ Delete(t)

Call(t) ==
    \/ t \in Modifier /\ Modify(t)
    \/ \E r \in Asks[t], kind \in {"poll", "wait", "timed"} : Ask(t, r, kind)

Continue(t) ==
    \/ LoadMirror(t) \/ StoreMirror(t)
    \/ PollSucceeds(t) \/ PollMisses(t)
    \/ RefuseSecond(t) \/ Admit(t) \/ LoadCount(t) \/ CountIn(t)
    \/ NativeWait(t) \/ NativeContinue(t) \/ NativeReturns(t) \/ CountOut(t)
    \/ Close(t)

Next == \E t \in Thread : Call(t) \/ Continue(t) \/ NativeExpire(t) \/ NativeSpurious(t)

Spec == Init /\ [][Next]_vars

(* A thread inside a call runs on; a deadline passes in the end.  Guests   *)
(* call when they please.                                                  *)
FairSpec == Spec /\ \A t \in Thread : WF_vars(Continue(t)) /\ SF_vars(NativeExpire(t))

-----------------------------------------------------------------------------
Step == {"idle", "loading", "storing", "looked", "asking", "counting", "counted",
         "entering", "waiting", "leaving", "left", "closing"}

(* Type invariant.  A thread is inside the native flag only where the      *)
(* wrapper has it so.  The waiter count is any integer: its increments and *)
(* decrements race, and every lost one lasts.                              *)
TypeOK ==
    /\ Native!TypeOK
    /\ used \in BOOLEAN
    /\ mirror \subseteq Bit
    /\ inWait \in Int
    /\ step \in [Thread -> Step]
    /\ \A t \in Thread : pc[t] # "idle" => step[t] \in {"waiting", "closing"}
    /\ outcome \in [Thread -> {"none", "ok", "busy", "perm", "failed"}]

(* With one modifying thread, and no clearing requests but its own, the    *)
(* copy a poll is answered from is the native flag whenever that thread is *)
(* not in the middle of a change.                                          *)
MirrorAgrees ==
    (used /\ \A m \in Modifier : step[m] \notin {"loading", "storing", "closing"})
        => mirror = bits

Inside(t) == step[t] \in {"looked", "asking", "counting", "counted", "entering", "waiting"}

(* A caller ends its call if its bits are set and stay set.  With one      *)
(* modifying thread, and no clearing requests but its own, no set is       *)
(* missed on the way from a poll that failed into the native wait.         *)
(* Elsewhere it can be: a clearing waiter that looked at the copy before   *)
(* the set was stored there takes the bits with its native poll, answers   *)
(* by the copy that it found nothing, and waits natively for bits that it  *)
(* has itself cleared.                                                     *)
SetReachesWaiters ==
    \A t \in Thread : Inside(t) ~> ~Inside(t) \/ ~Native!Matches(mirror, frame[t].req)

(* A delete gets every waiter out of the slot. *)
DeleteEmpties == \A t \in Thread : ~used ~> step[t] = "idle"
=============================================================================
