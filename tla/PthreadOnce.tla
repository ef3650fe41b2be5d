------------------------------ MODULE PthreadOnce ------------------------------
(***************************************************************************)
(* posix_pthread_once of threads.elisa: a guest's one-time initialisation. *)
(* The control word goes NeverDone -> InProgress -> Done, but its test,    *)
(* its two writes and the guest's routine between them are separate steps, *)
(* under no lock, of threads that are real host threads.                   *)
(***************************************************************************)
EXTENDS Integers, TLAPS

CONSTANTS
    Thread,     \* guest threads that call pthread_once on one control word
    Calls       \* bound: calls one thread makes

ASSUME OnceAssumption == Calls \in Nat

VARIABLES
    state,      \* once_control.state
    at,         \* where each thread is in its call
    calls,      \* calls each thread has begun
    inits       \* init routines that have run to their end

onceVars == <<state, at, calls, inits>>

OnceInit ==
    /\ state = "NeverDone"
    /\ at = [t \in Thread |-> "idle"]
    /\ calls = [t \in Thread |-> 0]
    /\ inits = 0

Comes(t, where) == at' = [at EXCEPT ![t] = where]

Call(t) ==
    /\ at[t] \in {"idle", "returned"}
    /\ calls[t] < Calls
    /\ calls' = [calls EXCEPT ![t] = @ + 1]
    /\ Comes(t, "test")
    /\ UNCHANGED <<state, inits>>

(* Mutant: a caller that finds another one at it does not run the routine  *)
(* and does not wait for it either.                                        *)
MutAlreadyDone(t) ==
    /\ at[t] = "test"
    /\ state # "NeverDone"
    /\ Comes(t, "returned")
    /\ UNCHANGED <<state, calls, inits>>

AlreadyDone(t) ==
    /\ at[t] = "test"
    /\ state = "Done"
    /\ Comes(t, "returned")
    /\ UNCHANGED <<state, calls, inits>>

(* InProgress is no reason to wait: the caller goes on like the first.     *)
NotDone(t) ==
    /\ at[t] = "test"
    /\ state # "Done"
    /\ Comes(t, "begin")
    /\ UNCHANGED <<state, calls, inits>>

SetInProgress(t) ==
    /\ at[t] = "begin"
    /\ state' = "InProgress"
    /\ Comes(t, "running")
    /\ UNCHANGED <<calls, inits>>

(* The guest's routine reaches its end. *)
RunInit(t) ==
    /\ at[t] = "running"
    /\ inits' = inits + 1
    /\ Comes(t, "end")
    /\ UNCHANGED <<state, calls>>

SetDone(t) ==
    /\ at[t] = "end"
    /\ state' = "Done"
    /\ Comes(t, "returned")
    /\ UNCHANGED <<calls, inits>>

OnceNext == \E t \in Thread :
    \/ Call(t) \/ AlreadyDone(t) \/ NotDone(t)
    \/ SetInProgress(t) \/ RunInit(t) \/ SetDone(t)

OnceSpec == OnceInit /\ [][OnceNext]_onceVars

-----------------------------------------------------------------------------
(* No caller goes on before the initialisation it asked for has run to its *)
(* end in some thread, though callers neither lock nor wait.               *)
ReturnsInitialised == \A t \in Thread : at[t] = "returned" => inits > 0

(* What the comment at the function says: init_routine() runs exactly      *)
(* once, so no second run of it begins.                                    *)
RunsOnce ==
    \A t, u \in Thread : at[t] = "running" => inits = 0 /\ (at[u] = "running" => u = t)

-----------------------------------------------------------------------------
(* Done is written only by a thread whose own run of the routine is over.  *)
IInv ==
    /\ inits \in Nat
    /\ state = "Done" => inits > 0
    /\ \A t \in Thread : at[t] \in {"end", "returned"} => inits > 0

(* The invariant holds at first and no step takes it away. *)
THEOREM Inductive == OnceSpec => []IInv
<1>1. OnceInit => IInv
  BY DEF OnceInit, IInv
<1>2. IInv /\ [OnceNext]_onceVars => IInv'
  <2> SUFFICES ASSUME IInv, [OnceNext]_onceVars PROVE IInv'
    OBVIOUS
  <2>1. CASE UNCHANGED onceVars
    BY <2>1 DEF onceVars, IInv
  <2>2. ASSUME NEW t \in Thread, Call(t) PROVE IInv'
    BY <2>2 DEF Call, Comes, IInv
  <2>3. ASSUME NEW t \in Thread, AlreadyDone(t) PROVE IInv'
    BY <2>3 DEF AlreadyDone, Comes, IInv
  <2>4. ASSUME NEW t \in Thread, NotDone(t) PROVE IInv'
    BY <2>4 DEF NotDone, Comes, IInv
  <2>5. ASSUME NEW t \in Thread, SetInProgress(t) PROVE IInv'
    BY <2>5 DEF SetInProgress, Comes, IInv
  <2>6. ASSUME NEW t \in Thread, RunInit(t) PROVE IInv'
    BY <2>6 DEF RunInit, Comes, IInv
  <2>7. ASSUME NEW t \in Thread, SetDone(t) PROVE IInv'
    BY <2>7 DEF SetDone, Comes, IInv
  <2> QED
    BY <2>1, <2>2, <2>3, <2>4, <2>5, <2>6, <2>7 DEF OnceNext
<1> QED
  BY <1>1, <1>2, PTL DEF OnceSpec

(* ReturnsInitialised for any number of threads and calls. *)
THEOREM NoEarlyReturn == OnceSpec => []ReturnsInitialised
<1>1. IInv => ReturnsInitialised
  BY DEF IInv, ReturnsInitialised
<1> QED
  BY <1>1, Inductive, PTL
=============================================================================
