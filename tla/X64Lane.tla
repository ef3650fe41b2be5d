------------------------------- MODULE X64Lane -------------------------------
(***************************************************************************)
(* The real-execution lane, emulator_cusa07399_x64_exec.py, and the test   *)
(* processes it starts.  A test process ("target") compiles, rewrites the  *)
(* artifact file with what loading the game shows, runs the guarded guest  *)
(* entry and rewrites the file with the outcome; it can die or hang at any *)
(* point.  The lane judges the file, not the process.                      *)
(*                                                                         *)
(* The test writes /tmp/cusa07399_artifacts.txt, the lane and the gate     *)
(* read the file of that name in the repository.  They are one file here   *)
(* (a link), the arrangement in which the lane can see what it asked for.  *)
(***************************************************************************)
EXTENDS CusaArtifacts

CONSTANTS
    Run,        \* the runs of the lane, one after the other
    Outcome,    \* rows a finished guarded run may leave in the file
    LoadRows,   \* rows of the load and probe tests, before the guarded run
    Host        \* what a run may find: a mode, or why there is none

Mode == {"native", "rosetta"}
Attempt == {"first", "second", "smoke"}   \* smoke: the gate's own boot test
Phase == {"off", "building", "loaded", "passed", "failed"}
LanePc == {"off", "lint", "first", "second", "judge", "reread"}

ASSUME LaneAssumption ==
  /\ Run \subseteq Nat \ {0}
  /\ Host \cap Mode # {}

VARIABLES
    file,       \* the artifact file: its rows, and (history) in which run they were written
    target,     \* phase of each test process, by the run that started it
    lane        \* the lane process

laneVars == <<file, target, lane>>

(* The last status line of the lane: ok, or one of those nobody tells apart *)
(* (skipped, toolchain-unavailable, retrying, failed, or no line at all).  *)
NotOk == [status |-> "other"]
NoFile == [by |-> 0, rows |-> << >>]

Idle == [run |-> 0, pc |-> "off", mode |-> "none", strict |-> FALSE,
         rc |-> 0, row |-> NotOk, code |-> 0]

LaneInit ==
  /\ file = NoFile
  /\ target = [t \in Run \X Attempt |-> "off"]
  /\ lane = Idle

Live(t) == target[t] \in {"building", "loaded"}
Ended(t) == target[t] \in {"passed", "failed"}

(* The exit code of a process whose parent is gone reaches nobody.         *)
HasParent(t) == t[2] = "smoke" \/ t = <<lane.run, lane.pc>>
Exits(t, p) == target' = [target EXCEPT ![t] = IF HasParent(t) THEN p ELSE "off"]

Started(t) == target' = [target EXCEPT ![t] = "building"]
Reaped(t) == target' = [target EXCEPT ![t] = "off"]

------------------------------------------------------------------------------
(* The test processes                                                      *)
------------------------------------------------------------------------------

TargetLoads(t) ==
  /\ target[t] = "building"
  /\ target' = [target EXCEPT ![t] = "loaded"]
  /\ file' = [by |-> t[1], rows |-> LoadRows]
  /\ UNCHANGED lane

(* The guarded run returned; after a fatal library call nothing is written.*)
TargetFinishes(t) ==
  /\ target[t] = "loaded"
  /\ file' \in {file} \union {[by |-> t[1], rows |-> o] : o \in Outcome}
  /\ \E p \in {"passed", "failed"} : Exits(t, p)
  /\ UNCHANGED lane

(* A compile error, a failed check or a panic before the outcome is there. *)
TargetDies(t) ==
  /\ Live(t)
  /\ Exits(t, "failed")
  /\ UNCHANGED <<file, lane>>

TargetStep == \E t \in Run \X Attempt : TargetLoads(t) \/ TargetFinishes(t) \/ TargetDies(t)

------------------------------------------------------------------------------
(* The lane                                                                *)
------------------------------------------------------------------------------

Emits(row, code) == lane' = [lane EXCEPT !.pc = "off", !.row = row, !.code = code]

Fail(strict) == IF strict THEN 1 ELSE 0

(* main up to the lint.  Without a game, a compiler, a mode or a Go        *)
(* toolchain the lane says so and only --strict makes that a failure.      *)
StartLane(r, strict, host) ==
  /\ lane.pc = "off"
  /\ lane' = [Idle EXCEPT !.run = r, !.strict = strict, !.mode = host,
                !.pc = IF host \in Mode THEN "lint" ELSE "off",
                !.code = IF host \in Mode THEN 0 ELSE Fail(strict)]
  /\ UNCHANGED <<file, target>>

(* run_abi_lint and the first run_target: a failed (or timed out) lint is  *)
(* emitted, and ends a strict run only.                                    *)
Lint(passed) ==
  /\ lane.pc = "lint"
  /\ IF passed \/ ~lane.strict
       THEN /\ lane' = [lane EXCEPT !.pc = "first"]
            /\ Started(<<lane.run, "first">>)
       ELSE Emits(NotOk, 1) /\ UNCHANGED target
  /\ UNCHANGED file

Current == <<lane.run, lane.pc>>

(* The exit code decides which errors are worth an early end.              *)
Returned(rc) == lane' = [lane EXCEPT !.pc = IF rc = 0 THEN "reread" ELSE "judge", !.rc = rc]

TargetReturns ==
  /\ lane.pc \in {"first", "second"}
  /\ Ended(Current)
  /\ Returned(IF target[Current] = "passed" THEN 0 ELSE 1)
  /\ Reaped(Current)
  /\ UNCHANGED file

MutKilled == target   \* mutant: only `go run` itself is killed

(* run: the whole session of the target is killed, whatever it was doing;  *)
(* under Rosetta the first attempt is then repeated with a forked child.   *)
Killed == [target EXCEPT ![Current] = "off"]

TargetTimesOut ==
  /\ lane.pc \in {"first", "second"}
  /\ Live(Current)
  /\ IF lane.pc = "first" /\ lane.mode = "rosetta"
       THEN /\ lane' = [lane EXCEPT !.pc = "second"]
            /\ target' = [Killed EXCEPT ![<<lane.run, "second">>] = "building"]
       ELSE Returned(124) /\ target' = Killed
  /\ UNCHANGED file

Errors == ArtifactErrors(Merged(file.rows), lane.mode)

(* After a failed target the artifacts may still stand for it: a captured  *)
(* crash or a guarded timeout is a result.                                 *)
Judge ==
  /\ lane.pc = "judge"
  /\ IF Errors # {} THEN Emits(NotOk, 1)
                    ELSE lane' = [lane EXCEPT !.pc = "reread"]
  /\ UNCHANGED <<file, target>>

OkRow == [status |-> "ok", mode |-> lane.mode, read |-> file,
          first |-> FirstBoundaryOk(Merged(file.rows))]

(* The file is read once more, and what is emitted comes from this reading.*)
Reread ==
  /\ lane.pc = "reread"
  /\ IF Errors # {} THEN Emits(NotOk, 1) ELSE Emits(OkRow, 0)
  /\ UNCHANGED <<file, target>>

LaneStep ==
  \/ \E passed \in BOOLEAN : Lint(passed)
  \/ TargetReturns
  \/ TargetTimesOut
  \/ Judge
  \/ Reread

(* One strict run after the other.                                         *)
StrictRun == \E r \in Run, h \in Host :
  /\ r = lane.run + 1
  /\ StartLane(r, TRUE, h)

LaneSpec == LaneInit /\ [][StrictRun \/ LaneStep \/ TargetStep]_laneVars

------------------------------------------------------------------------------
(* --strict is documented to fail when the lane does not pass: an ok must  *)
(* rest on what a process of this run wrote (main).                        *)
StrictLaneIsEarned ==
  lane.strict /\ lane.row.status = "ok" => lane.row.read.by = lane.run

==============================================================================
