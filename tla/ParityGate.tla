----------------------------- MODULE ParityGate -----------------------------
(***************************************************************************)
(* The parity gate, emulator_cpp_parity_gate.py: it runs the selected steps*)
(* one after the other, reads the artifact file, judges by its rules, and  *)
(* keeps a report, a work queue and a log of milestones from run to run.   *)
(* Composed with the lane and the test processes of X64Lane, which outlive *)
(* it: a step that takes too long is killed alone, what it started is not. *)
(*                                                                         *)
(* The steps are those the verdict tells apart: "checks" stands for the    *)
(* scripts without a timeout, "suite" for the slow test targets; a timeout *)
(* of the latter is a failure like any other.  A gate that only lists its  *)
(* steps or finds no compiler writes nothing and has no step here.         *)
(***************************************************************************)
EXTENDS X64Lane, PortLedger

CONSTANTS
    Options,    \* command lines, with what the work tree holds
    Printed     \* artifact rows a boot test may print besides the file

ASSUME GateAssumption ==
  /\ Options # {}
  /\ \A o \in Options : \A k \in {"game", "quick", "failfast", "x64", "boundary", "services",
                                "frame", "aside", "milestones", "log"} : o[k] \in BOOLEAN

AllSteps == {"checks", "lane", "boot", "suite"}
GameSteps == {"boot"}
SlowSteps == {"suite"}

VARIABLES
    gate,       \* the gate process; after its end, what it ended with
    summary,    \* what it has concluded from its results and the artifacts
    last,       \* parity_gate_latest.md
    queue,      \* the fallback work queue
    milestones, \* runs with an entry in Milestones.md
    exit,       \* exit code of each run: NotYet, Crashed, 0 or 1
    base,       \* history: the latest report when the gate started
    cut         \* history: runs in which a child was killed with its parent

books == <<last, queue, milestones, exit, base>>
gateVars == <<gate, summary, books, cut>>
vars == <<laneVars, gateVars>>

NotYet == -1
Crashed == -2
NoReport == [kind |-> "none"]
Torn == [kind |-> "torn"]       \* an empty file, or one cut off before its score

GateIdle == [run |-> 0, pc |-> "off", opts |-> CHOOSE o \in Options : TRUE,
             results |-> << >>, prev |-> NoReport]
NoSummary == [m |-> << >>, rules |-> {}, fallbacks |-> << >>]

GateInit ==
  /\ LaneInit
  /\ gate = GateIdle
  /\ summary = NoSummary
  /\ last = NoReport
  /\ queue = NoReport
  /\ milestones = {}
  /\ exit = [r \in Run |-> NotYet]
  /\ base = NoReport
  /\ cut = {}

------------------------------------------------------------------------------
(* The verdict                                                             *)
------------------------------------------------------------------------------

Selected(o) == <<"checks", "lane">>
               \o (IF o.game THEN <<"boot">> ELSE << >>)
               \o (IF o.quick THEN << >> ELSE <<"suite">>)

Passed(results) == Cardinality({i \in DOMAIN results : results[i].ok})
Failed(results) == Len(results) - Passed(results)
StepPassed(results, s) == \E i \in DOMAIN results : results[i].step = s /\ results[i].ok

(* gather_artifact_rows: what boot tests printed, then the file.           *)
Gathered(results) == FlattenSeq([i \in DOMAIN results |-> results[i].rows]) \o file.rows

(* parse_x64_exec_status                                                   *)
LaneRow(results) ==
  LET lanes == {i \in DOMAIN results : results[i].step = "lane"}
  IN  IF lanes = {} THEN NotOk ELSE results[Min(lanes)].row

BadEntry(e) ==
  \/ e.status = "Temporary-Cpp-Bridge" /\ ~e.retires
  \/ e.status = "Native-Elisa" /\ ~e.tested

(* mutant: the lane is judged by its exit code, 0 when it was skipped      *)
MutRules(o, results, m) ==
  Holding([unclassified |-> "Missing" \in UnitStatuses(o.tree),
           unresolved |-> m["unresolved_imports"] > 0,
           x64 |-> o.x64 /\ ~StepPassed(results, "lane"),
           services |-> o.services /\ \E k \in ServiceKeys : m[k] = 0,
           frame |-> o.frame /\ \E k \in FrameKeys : m[k] = 0,
           ledger |-> \E e \in o.ledger : BadEntry(e),
           steps |-> Failed(results) > 0])

(* validate_rules: every symbol has a queue (build_fallback_queues), so    *)
(* the rule that looks for one without never speaks.                       *)
Rules(o, results, m) ==
  LET row == LaneRow(results)
      hostBoundary == m["boundary_status"] = 1 /\ m["first_boundary_reached"] = 1
  IN  Holding([unclassified |-> "Missing" \in UnitStatuses(o.tree),
               unresolved |-> m["unresolved_imports"] > 0,
               x64 |-> o.x64 /\ row.status # "ok",
               boundary |-> /\ o.boundary
                            /\ ~hostBoundary
                            /\ ~(row.status = "ok" /\ row.first),
               services |-> o.services /\ \E k \in ServiceKeys : m[k] = 0,
               frame |-> o.frame /\ \E k \in FrameKeys : m[k] = 0,
               ledger |-> \E e \in o.ledger : BadEntry(e),
               steps |-> Failed(results) > 0])

Report ==
  [kind |-> "report", run |-> gate.run, blocked |-> summary.rules # {},
   passed |-> Passed(gate.results), failed |-> Failed(gate.results)]

(* What the report says about the game.                                    *)
CusaStages ==
  Stages(summary.m, StepPassed(gate.results, "boot"), StepPassed(gate.results, "suite"))

(* did_gate_improve: no report, or one without a score, is always improved.*)
DidImprove(old, new) ==
  \/ old.kind # "report"
  \/ new.failed < old.failed
  \/ new.failed = old.failed /\ new.passed > old.passed

(* write_fallback_workqueue                                                *)
Queue == [kind |-> "queue", run |-> gate.run, rows |-> summary.fallbacks]

------------------------------------------------------------------------------
(* The run                                                                 *)
------------------------------------------------------------------------------

Smoke == <<gate.run, "smoke">>
At(pc) == gate.pc = pc
Step == Selected(gate.opts)[Len(gate.results) + 1]
Running(s) == At("running") /\ Step = s

(* One gate after the other.                                               *)
StartGate == \E r \in Run, o \in Options :
  /\ At("off")
  /\ r = gate.run + 1
  /\ gate' = [run |-> r, pc |-> "step", opts |-> o, results |-> << >>, prev |-> NoReport]
  /\ summary' = NoSummary
  /\ base' = last
  /\ UNCHANGED <<laneVars, last, queue, milestones, exit, cut>>

(* The loop of main: --fail-fast leaves it behind a failed step.           *)
StepsDone ==
  \/ Len(gate.results) = Len(Selected(gate.opts))
  \/ gate.opts.failfast /\ Failed(gate.results) > 0

StartStep ==
  /\ At("step")
  /\ ~StepsDone
  /\ gate' = [gate EXCEPT !.pc = "running"]
  /\ CASE Step = "lane" -> \E h \in Host : StartLane(gate.run, FALSE, h)
       [] Step = "boot" -> Started(Smoke) /\ UNCHANGED <<file, lane>>
       [] OTHER -> UNCHANGED laneVars
  /\ UNCHANGED <<summary, books, cut>>

Record(ok, row, rows) ==
  /\ gate' = [gate EXCEPT !.pc = "step",
                !.results = Append(@, [step |-> Step, ok |-> ok, row |-> row, rows |-> rows])]
  /\ UNCHANGED summary

PlainStepEnds ==
  /\ Running("checks") \/ Running("suite")
  /\ \E ok \in BOOLEAN : Record(ok, NotOk, << >>)
  /\ UNCHANGED <<laneVars, books, cut>>

LaneEnds ==
  /\ Running("lane")
  /\ lane.pc = "off"
  /\ Record(lane.code = 0, lane.row, << >>)
  /\ lane' = Idle
  /\ UNCHANGED <<file, target, books, cut>>

SmokeEnds ==
  /\ Running("boot")
  /\ Ended(Smoke)
  /\ \E rows \in Printed : Record(target[Smoke] = "passed", NotOk, rows)
  /\ Reaped(Smoke)
  /\ UNCHANGED <<file, lane, books, cut>>

(* subprocess.run kills its child, not what the child has started.         *)
LaneTimesOut ==
  /\ Running("lane")
  /\ lane.pc # "off"
  /\ Record(FALSE, NotOk, << >>)
  /\ lane' = Idle
  /\ cut' = cut \union {gate.run}
  /\ UNCHANGED <<file, target, books>>

MutSmokeTimesOut ==   \* mutant: the boot test has no timeout
  /\ Running("boot") /\ Live(Smoke) /\ FALSE
  /\ UNCHANGED vars

SmokeTimesOut ==
  /\ Running("boot")
  /\ Live(Smoke)
  /\ \E rows \in Printed : Record(FALSE, NotOk, rows)
  /\ cut' = cut \union {gate.run}
  /\ UNCHANGED <<laneVars, books>>

(* summarize_progress reads the artifact file twice.                       *)
ReadMetrics ==
  /\ At("step")
  /\ StepsDone
  /\ gate' = [gate EXCEPT !.pc = "fallbacks"]
  /\ summary' = [NoSummary EXCEPT !.m = Metrics(Gathered(gate.results))]
  /\ UNCHANGED <<laneVars, books, cut>>

ReadFallbacks ==
  /\ At("fallbacks")
  /\ gate' = [gate EXCEPT !.pc = "write"]
  /\ summary' = [summary EXCEPT !.rules = Rules(gate.opts, gate.results, summary.m),
                                !.fallbacks = FallbackCounts(Gathered(gate.results))]
  /\ UNCHANGED <<laneVars, books, cut>>

MutWriteReport ==     \* mutant: the previous report is read when the new one is written
  /\ At("write")
  /\ gate' = [gate EXCEPT !.prev = Report,
                          !.pc = IF gate.opts.aside THEN "copy" ELSE "queue"]
  /\ last' = IF gate.opts.aside THEN last ELSE Report
  /\ UNCHANGED <<laneVars, summary, queue, milestones, exit, base, cut>>

(* --write-report puts the report aside and copies it afterwards.          *)
WriteReport ==
  /\ At("write")
  /\ gate' = [gate EXCEPT !.prev = last, !.pc = IF gate.opts.aside THEN "copy" ELSE "queue"]
  /\ last' = IF gate.opts.aside THEN last ELSE Report
  /\ UNCHANGED <<laneVars, summary, queue, milestones, exit, base, cut>>

CopyReport ==
  /\ At("copy")
  /\ gate' = [gate EXCEPT !.pc = "queue"]
  /\ last' = Report
  /\ UNCHANGED <<laneVars, summary, queue, milestones, exit, base, cut>>

WriteQueue ==
  /\ At("queue")
  /\ gate' = [gate EXCEPT !.pc = "finish"]
  /\ queue' = Queue
  /\ UNCHANGED <<laneVars, summary, last, milestones, exit, base, cut>>

(* append_milestone_if_improved; log: there is a Milestones.md.            *)
WithMilestone ==
  IF gate.opts.milestones /\ gate.opts.log /\ DidImprove(gate.prev, Report)
    THEN milestones \union {gate.run} ELSE milestones

(* The file, written as a whole, may be cut short anywhere.                *)
CutMilestones ==
  IF At("finish") /\ WithMilestone # milestones
    THEN {{r \in WithMilestone : r <= n} : n \in 0..gate.run} ELSE {}

MutFinish ==          \* mutant: the exit code is the number of failures
  /\ At("finish")
  /\ gate' = [gate EXCEPT !.pc = "off"]
  /\ milestones' = WithMilestone
  /\ exit' = [exit EXCEPT ![gate.run] = Failed(gate.results) + (IF summary.rules = {} THEN 0 ELSE 1)]
  /\ UNCHANGED <<laneVars, summary, last, queue, base, cut>>

(* The milestone and the exit code.                                        *)
Finish ==
  /\ At("finish")
  /\ gate' = [gate EXCEPT !.pc = "off"]
  /\ milestones' = WithMilestone
  /\ exit' = [exit EXCEPT ![gate.run] =
                IF Failed(gate.results) = 0 /\ summary.m["unresolved_imports"] = 0 /\ summary.rules = {}
                  THEN 0 ELSE 1]
  /\ UNCHANGED <<laneVars, summary, last, queue, base, cut>>

(* The gate is interrupted, and with it its process group: the lane, the   *)
(* boot test, but not the target the lane has put into a session of its    *)
(* own.  A file being written is left empty, cut short, or just complete.  *)
Interrupted ==
  /\ ~At("off")
  /\ gate' = [GateIdle EXCEPT !.run = gate.run]
  /\ summary' = NoSummary
  /\ exit' = [exit EXCEPT ![gate.run] = Crashed]
  /\ cut' = cut \union {gate.run}
  /\ lane' = Idle
  /\ IF Running("boot") THEN Reaped(Smoke) ELSE UNCHANGED target
  /\ last' \in {last} \union
       (IF At("copy") \/ (At("write") /\ ~gate.opts.aside) THEN {Torn, Report} ELSE {})
  /\ milestones' \in {milestones} \union CutMilestones
  /\ UNCHANGED <<file, queue, base>>

GateStep ==
  \/ StartStep \/ PlainStepEnds
  \/ LaneEnds \/ LaneTimesOut
  \/ SmokeEnds \/ SmokeTimesOut
  \/ ReadMetrics \/ ReadFallbacks
  \/ WriteReport \/ CopyReport \/ WriteQueue
  \/ Finish

Next ==
  \/ StartGate
  \/ GateStep
  \/ Interrupted
  \/ (LaneStep \/ TargetStep) /\ UNCHANGED gateVars

(* The gate goes on: a step returns, or its timeout does.  The steps that  *)
(* have none are scripts that read files.  Tests may hang for good.        *)
Spec == GateInit /\ [][Next]_vars /\ WF_vars(GateStep)

------------------------------------------------------------------------------
(* Properties                                                              *)
------------------------------------------------------------------------------

Over(r) == At("off") /\ gate.run = r

(* The gate's own records: results are for a prefix of the selected steps  *)
(* (the loop of main), a run that is over has an exit code.                *)
GateTypeOK ==
  /\ exit \in [Run -> {NotYet, Crashed, 0, 1}]
  /\ milestones \subseteq Run
  /\ cut \subseteq Run
  /\ lane.pc \in LanePc
  /\ target \in [Run \X Attempt -> Phase]
  /\ gate.run # 0 =>
       /\ exit[gate.run] # Crashed =>
            [i \in DOMAIN gate.results |-> gate.results[i].step]
              = SubSeq(Selected(gate.opts), 1, Len(gate.results))
       /\ At("off") <=> exit[gate.run] # NotYet

(* Exit 0 (main) is what everybody relies on.  It means that every selected*)
(* step ran and passed, that a lane asked for emitted ok on artifacts that *)
(* were in order, that the boundary asked for was seen by somebody, that   *)
(* the report says the game loaded and linked, and that report and queue   *)
(* on disk are those of this run.                                          *)
GreenIsEarned == \A r \in Run : Over(r) /\ exit[r] = 0 =>
  LET o == gate.opts
      done == {gate.results[i].step : i \in {j \in DOMAIN gate.results : gate.results[j].ok}}
      ok == {i \in DOMAIN gate.results : gate.results[i].row.status = "ok"}
      valid == {i \in ok : 
                     LET row == gate.results[i].row
                     IN  ArtifactErrors(Merged(row.read.rows), row.mode) = {}}
      boundary == {i \in ok : Get(Merged(gate.results[i].row.read.rows), "boundary_status") = 1}
  IN  /\ AllSteps = done \union (IF o.game THEN {} ELSE {"boot"})
                                 \union (IF o.quick THEN {"suite"} ELSE {})
      /\ o.x64 => valid # {}
      /\ o.boundary => boundary # {} \/ summary.m["boundary_status"] = 1
      /\ o.game => CusaStages.load /\ CusaStages.link
      /\ o.frame => summary.m["video_first_frame_candidate"] = 1
      /\ last.kind = "report" /\ last.run = r /\ last.failed = 0 /\ ~last.blocked
      /\ queue.run = r

(* A run that ended has a milestone if and only if it asked for one, there *)
(* is a log, and it has fewer failed steps than the report that was there  *)
(* when it started, or as many and more passed ones                        *)
(* (append_milestone_if_improved).  The report has been overwritten by     *)
(* then, and a run before may have left it half-written.                   *)
MilestoneIffImproved == \A r \in Run : Over(r) /\ exit[r] \in {0, 1} =>
  (r \in milestones <=>
     /\ gate.opts.milestones /\ gate.opts.log
     /\ base.kind = "report" =>
          \/ last.failed < base.failed
          \/ last.failed = base.failed /\ base.passed < last.passed)

(* A test process runs without the gate or the lane waiting for it only    *)
(* after one of them was killed in its run, and the second attempt under   *)
(* Rosetta never runs beside the first (run kills the whole session).      *)
Waited(t) ==
  \/ lane.run = t[1] /\ lane.pc = t[2]
  \/ gate.run = t[1] /\ Running("boot") /\ t[2] = "smoke"
OrphansOnlyFromKills ==
  /\ \A t \in Run \X Attempt : Live(t) => Waited(t) \/ t[1] \in cut
  /\ \A r \in Run : ~(Live(<<r, "first">>) /\ Live(<<r, "second">>))

(* Every gate comes to its end, though lane targets and boot tests may hang*)
(* (the timeouts of all_steps).                                            *)
GateEnds == []<>At("off")

==============================================================================
