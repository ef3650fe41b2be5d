-------------------------- MODULE ParityGate_proofs --------------------------
EXTENDS ParityGate, FiniteSetTheorems, SequenceTheorems, TLAPS

(***************************************************************************)
(* The verdict of the parity gate and the processes around it, for any     *)
(* number of runs, any artifacts and any command lines.                    *)
(***************************************************************************)

(* What the variables hold.  A row of the lane that says ok carries the    *)
(* artifacts it was given for, and they were in order.                     *)
Rows == {<< >>, LoadRows} \union Outcome
File == [by : Run \union {0}, rows : Rows]
LaneRows ==
  {NotOk} \union {r \in [status : {"ok"}, mode : Host \union {"none"}, read : File, first : BOOLEAN] :
                   /\ ArtifactErrors(Merged(r.read.rows), r.mode) = {}
                   /\ r.first => Get(Merged(r.read.rows), "boundary_status") = 1}
Lane == [run : Run \union {0}, pc : LanePc, mode : Host \union {"none"}, strict : BOOLEAN,
         rc : {0, 1, 124}, row : LaneRows, code : {0, 1}]
Entry == [step : AllSteps, ok : BOOLEAN, row : LaneRows, rows : Printed \union {<< >>}]
Reports == {NoReport, Torn}
           \union [kind : {"report"}, run : Run, blocked : BOOLEAN, passed : Nat, failed : Nat]
GatePc == {"off", "step", "running", "fallbacks", "write", "copy", "queue", "finish"}
Gate == [run : Run \union {0}, pc : GatePc, opts : Options, results : Seq(Entry), prev : Reports]

TypeInv ==
  /\ file \in File
  /\ target \in [Run \X Attempt -> Phase]
  /\ lane \in Lane
  /\ gate \in Gate
  /\ last \in Reports
  /\ base \in Reports
  /\ milestones \subseteq Run
  /\ exit \in [Run -> {NotYet, Crashed, 0, 1}]
  /\ cut \subseteq Run
  /\ ~At("off") => gate.run \in Run

(* The results are those of the first selected steps, and the loop is left *)
(* only when it is done.                                                   *)
Order ==
  /\ Len(gate.results) <= Len(Selected(gate.opts))
  /\ \A i \in 1 .. Len(gate.results) : gate.results[i].step = Selected(gate.opts)[i]
  /\ At("running") => Len(gate.results) < Len(Selected(gate.opts))
  /\ gate.pc \in {"fallbacks", "write", "copy", "queue", "finish"} => StepsDone

(* The lane runs inside its step of the gate.                              *)
LaneInside == lane.pc # "off" => At("running") /\ Step = "lane" /\ lane.run = gate.run

(* A test process is waited for or its run was cut.  Those of the lane     *)
(* belong to runs in which it was started, which happens once in a run, so *)
(* that a new lane finds none of its own.                                  *)
LaneBegun == Len(gate.results) >= 2 \/ (Len(gate.results) = 1 /\ At("running"))
Accounted == \A r \in Run, a \in Attempt : Live(<<r, a>>) => Waited(<<r, a>>) \/ r \in cut
OncePerRun == \A r \in Run : Live(<<r, "first">>) \/ Live(<<r, "second">>) =>
  /\ r <= gate.run
  /\ r = gate.run /\ ~At("off") => LaneBegun
Apart ==
  /\ \A r \in Run : ~(Live(<<r, "first">>) /\ Live(<<r, "second">>))
  /\ lane.pc = "lint" => ~Live(<<lane.run, "first">>) /\ ~Live(<<lane.run, "second">>)
  /\ lane.pc = "first" => ~Live(<<lane.run, "second">>)

GateEnded == At("off") /\ gate.run \in Run /\ exit[gate.run] \in {0, 1}

(* What is on disk at each point of a run.                                 *)
Books ==
  /\ gate.pc \in {"step", "running", "fallbacks", "write", "copy"} => last = base
  /\ gate.pc \in {"copy", "queue", "finish"} => gate.prev = base
  /\ gate.pc \in {"queue", "finish"} => last = Report
  /\ At("finish") => queue.run = gate.run
  /\ \A r \in milestones : r <= gate.run /\ (r = gate.run => At("off"))
  /\ \A r \in Run : exit[r] # NotYet => r <= gate.run /\ (r = gate.run => At("off"))
  /\ At("off") /\ gate.run # 0 => exit[gate.run] # NotYet
  /\ GateEnded => /\ last = Report
                  /\ queue.run = gate.run
                  /\ gate.run \in milestones <=>
                       gate.opts.milestones /\ gate.opts.log /\ DidImprove(base, last)

(* What the exit code rests on.                                            *)
Verdict ==
  /\ gate.pc \in {"write", "copy", "queue", "finish"} \/ GateEnded =>
       summary.rules = Rules(gate.opts, gate.results, summary.m)
  /\ gate.pc \in {"fallbacks", "write", "copy", "queue", "finish"} \/ GateEnded =>
       /\ StepsDone
       /\ summary.m["video_first_frame_candidate"] \in {0, 1}
  /\ GateEnded /\ exit[gate.run] = 0 =>
       Failed(gate.results) = 0 /\ summary.m["unresolved_imports"] = 0 /\ summary.rules = {}

------------------------------------------------------------------------------
(* Helpers                                                                 *)
------------------------------------------------------------------------------

(* What is selected: the checks and the lane always, in this order.        *)
LEMMA SelectedSteps ==
  ASSUME NEW o \in Options
  PROVE  /\ Selected(o) \in Seq(AllSteps)
         /\ Len(Selected(o)) \in 2 .. 4
         /\ Selected(o)[1] = "checks"
         /\ Selected(o)[2] = "lane"
         /\ \A i \in 3 .. Len(Selected(o)) : Selected(o)[i] \in {"boot", "suite"}
         /\ o.game => \E i \in 1 .. Len(Selected(o)) : Selected(o)[i] = "boot"
         /\ ~o.quick => \E i \in 1 .. Len(Selected(o)) : Selected(o)[i] = "suite"
  <1> DEFINE head == <<"checks", "lane">>
             game == IF o.game THEN <<"boot">> ELSE << >>
             slow == IF o.quick THEN << >> ELSE <<"suite">>
  <1>1. head \in Seq(AllSteps) /\ game \in Seq(AllSteps) /\ slow \in Seq(AllSteps)
    <2>1. /\ head \in Seq(AllSteps) /\ << >> \in Seq(AllSteps)
          /\ <<"boot">> \in Seq(AllSteps) /\ <<"suite">> \in Seq(AllSteps)
      BY DEF AllSteps
    <2> QED BY <2>1, Zenon
  <1>2. head \o game \in Seq(AllSteps)
    BY <1>1, ConcatProperties
  <1>3. /\ Len(head) = 2 /\ head[1] = "checks" /\ head[2] = "lane"
        /\ Len(game) = IF o.game THEN 1 ELSE 0
        /\ o.game => game[1] = "boot"
        /\ Len(slow) = IF o.quick THEN 0 ELSE 1
        /\ ~o.quick => slow[1] = "suite"
    OBVIOUS
  <1>4. Selected(o) = (head \o game) \o slow
    BY Zenon DEF Selected
  <1> HIDE DEF head, game, slow
  <1>5. /\ Len(head \o game) = Len(head) + Len(game)
        /\ \A i \in 1 .. Len(head) + Len(game) :
             (head \o game)[i] = IF i <= Len(head) THEN head[i] ELSE game[i - Len(head)]
    BY <1>1, ConcatProperties
  <1>6. /\ Selected(o) \in Seq(AllSteps)
        /\ Len(Selected(o)) = Len(head \o game) + Len(slow)
        /\ \A i \in 1 .. Len(head \o game) + Len(slow) :
             Selected(o)[i] = IF i <= Len(head \o game) THEN (head \o game)[i]
                                                       ELSE slow[i - Len(head \o game)]
    BY <1>1, <1>2, <1>4, ConcatProperties
  <1>7. Selected(o)[1] = "checks" /\ Selected(o)[2] = "lane"
    BY <1>3, <1>5, <1>6
  <1>8. CASE o.game
    <2>1. /\ Len(head \o game) = 3 /\ (head \o game)[3] = "boot"
          /\ Selected(o)[3] = "boot" /\ Len(Selected(o)) = 3 + Len(slow)
      BY <1>3, <1>5, <1>6, <1>8
    <2>2. ~o.quick => Selected(o)[4] = "suite"
      BY <1>3, <1>6, <2>1
    <2> QED BY <1>3, <1>6, <1>7, <1>8, <2>1, <2>2
  <1>9. CASE ~o.game
    <2>1. Len(head \o game) = 2 /\ Len(Selected(o)) = 2 + Len(slow)
      BY <1>3, <1>5, <1>6, <1>9
    <2>2. ~o.quick => Selected(o)[3] = "suite"
      BY <1>3, <1>6, <2>1
    <2> QED BY <1>3, <1>6, <1>7, <1>9, <2>1, <2>2
  <1> QED BY <1>8, <1>9

(* Passed and failed steps are counted right: no failure means that all    *)
(* steps passed.                                                           *)
LEMMA Counting ==
  ASSUME NEW results \in Seq(Entry)
  PROVE  /\ Passed(results) \in Nat
         /\ Failed(results) \in Nat
         /\ Failed(results) = 0 => \A i \in 1 .. Len(results) : results[i].ok
  <1> DEFINE good == {i \in DOMAIN results : results[i].ok}
  <1>1. DOMAIN results = 1 .. Len(results) /\ Len(results) \in Nat
    OBVIOUS
  <1>2. IsFiniteSet(DOMAIN results) /\ Cardinality(DOMAIN results) = Len(results)
    BY <1>1, FS_Interval
  <1>3. /\ IsFiniteSet(good)
        /\ Cardinality(good) <= Cardinality(DOMAIN results)
        /\ Cardinality(good) = Cardinality(DOMAIN results) => good = DOMAIN results
    BY <1>2, FS_Subset
  <1>4. Cardinality(good) \in Nat
    BY <1>3, FS_CardinalityType
  <1>5. Passed(results) = Cardinality(good) /\ Failed(results) = Len(results) - Cardinality(good)
    BY Zenon DEF Passed, Failed
  <1> HIDE DEF good
  <1>6. Failed(results) = 0 => good = DOMAIN results
    BY <1>1, <1>2, <1>3, <1>4, <1>5
  <1> QED BY <1>1, <1>2, <1>3, <1>4, <1>5, <1>6 DEF good

(* The step that comes next is one of the selected.                        *)
LEMMA StepSelected ==
  ASSUME TypeInv, Order, At("running")
  PROVE  Step \in AllSteps
  <1>1. gate.opts \in Options /\ Len(gate.results) \in Nat
    BY DEF TypeInv, Gate
  <1>2. Len(gate.results) + 1 \in 1 .. Len(Selected(gate.opts))
    BY <1>1, SelectedSteps DEF Order
  <1>3. Selected(gate.opts) \in Seq(AllSteps)
    BY <1>1, SelectedSteps
  <1> QED BY <1>2, <1>3, ElementOfSeq DEF Step

(* One step of the lane or of a test process keeps the types.              *)
LEMMA LaneTypes ==
  ASSUME TypeInv, LaneStep \/ TargetStep
  PROVE  file' \in File /\ target' \in [Run \X Attempt -> Phase] /\ lane' \in Lane
  <1> USE DEF TypeInv, Exits, Started, Reaped
  <1>1. /\ NotOk \in LaneRows
        /\ \A row \in LaneRows, code \in {0, 1} : Emits(row, code) => lane' \in Lane
        /\ \A pc \in LanePc : [lane EXCEPT !.pc = pc] \in Lane
        /\ \A rc \in {0, 1, 124} : Returned(rc) => lane' \in Lane
    <2>1. NotOk \in LaneRows
      BY DEF LaneRows
    <2>2. ASSUME NEW row \in LaneRows, NEW code \in {0, 1}, Emits(row, code)
          PROVE  lane' \in Lane
      <3>1. "off" \in LanePc
        BY DEF LanePc
      <3> QED BY <2>2, <3>1 DEF Lane, Emits
    <2>3. \A pc \in LanePc : [lane EXCEPT !.pc = pc] \in Lane
      BY DEF Lane
    <2>4. ASSUME NEW rc \in {0, 1, 124}, Returned(rc)
          PROVE  lane' \in Lane
      <3>1. \A pc \in LanePc : [lane EXCEPT !.pc = pc, !.rc = rc] \in Lane
        BY DEF Lane
      <3>2. (IF rc = 0 THEN "reread" ELSE "judge") \in LanePc
        BY DEF LanePc
      <3> QED BY <2>4, <3>1, <3>2 DEF Returned
    <2> QED BY <2>1, <2>2, <2>3, <2>4
  <1>2. ASSUME NEW t \in Run \X Attempt, TargetLoads(t)
        PROVE  file' \in File /\ target' \in [Run \X Attempt -> Phase] /\ lane' \in Lane
    <2>1. t[1] \in Run
      OBVIOUS
    <2> QED BY <1>2, <2>1 DEF TargetLoads, File, Rows, Phase
  <1>3. ASSUME NEW t \in Run \X Attempt, TargetFinishes(t)
        PROVE  file' \in File /\ target' \in [Run \X Attempt -> Phase] /\ lane' \in Lane
    <2>1. t[1] \in Run
      OBVIOUS
    <2> QED BY <1>3, <2>1 DEF TargetFinishes, File, Rows, Phase
  <1>4. ASSUME NEW t \in Run \X Attempt, TargetDies(t)
        PROVE  file' \in File /\ target' \in [Run \X Attempt -> Phase] /\ lane' \in Lane
    BY <1>4 DEF TargetDies, Phase
  <1>5. ASSUME NEW passed \in BOOLEAN, Lint(passed)
        PROVE  file' \in File /\ target' \in [Run \X Attempt -> Phase] /\ lane' \in Lane
    <2>1. target' \in [Run \X Attempt -> Phase]
      BY <1>5 DEF Lint, Phase
    <2> QED BY <1>1, <1>5, <2>1 DEF Lint, LanePc
  <1>6. CASE TargetReturns
    <2>1. target' \in [Run \X Attempt -> Phase]
      BY <1>6 DEF TargetReturns, Phase
    <2> QED BY <1>1, <1>6, <2>1 DEF TargetReturns
  <1>7. CASE TargetTimesOut
    <2>1. target' \in [Run \X Attempt -> Phase]
      BY <1>7 DEF TargetTimesOut, Killed, Phase
    <2> QED BY <1>1, <1>7, <2>1 DEF TargetTimesOut, LanePc
  <1>8. CASE Judge
    BY <1>1, <1>8 DEF Judge, LanePc
  <1>9. CASE Reread
    <2>1. lane.mode \in Host \union {"none"}
      BY DEF Lane
    <2>2. FirstBoundaryOk(Merged(file.rows)) \in BOOLEAN
      BY DEF FirstBoundaryOk
    <2>3. Errors = {} => OkRow \in LaneRows
      BY <2>1, <2>2 DEF Errors, OkRow, LaneRows, FirstBoundaryOk
    <2> QED BY <1>1, <1>9, <2>3 DEF Reread
  <1> QED BY <1>2, <1>3, <1>4, <1>5, <1>6, <1>7, <1>8, <1>9 DEF LaneStep, TargetStep

(* Recording the result of a step.                                         *)
LEMMA Recorded ==
  ASSUME TypeInv, Order, At("running"),
         NEW ok \in BOOLEAN, NEW row \in LaneRows, NEW rows \in Printed \union {<< >>},
         Record(ok, row, rows)
  PROVE  /\ gate' \in Gate
         /\ gate'.run = gate.run /\ gate'.pc = "step" /\ gate'.opts = gate.opts
         /\ gate'.prev = gate.prev
         /\ Len(gate'.results) = Len(gate.results) + 1
         /\ \A i \in 1 .. Len(gate.results) : gate'.results[i] = gate.results[i]
         /\ gate'.results[Len(gate.results) + 1].step = Step
  <1> DEFINE e == [step |-> Step, ok |-> ok, row |-> row, rows |-> rows]
  <1>1. e \in Entry
    BY StepSelected DEF Entry
  <1>2. gate \in Gate /\ gate.results \in Seq(Entry)
    BY DEF TypeInv, Gate
  <1>3. gate' = [gate EXCEPT !.pc = "step", !.results = Append(gate.results, e)]
    BY <1>2 DEF Record, Gate
  <1> HIDE DEF e
  <1>4. /\ Append(gate.results, e) \in Seq(Entry)
        /\ Len(Append(gate.results, e)) = Len(gate.results) + 1
        /\ \A i \in 1 .. Len(gate.results) : Append(gate.results, e)[i] = gate.results[i]
        /\ Append(gate.results, e)[Len(gate.results) + 1] = e
    BY <1>1, <1>2, AppendProperties
  <1>5. gate' \in Gate
    BY <1>2, <1>3, <1>4 DEF Gate, GatePc
  <1>6. /\ gate'.run = gate.run /\ gate'.pc = "step" /\ gate'.opts = gate.opts
        /\ gate'.prev = gate.prev /\ gate'.results = Append(gate.results, e)
    BY <1>2, <1>3 DEF Gate
  <1>7. e.step = Step
    BY DEF e
  <1> QED BY <1>4, <1>5, <1>6, <1>7

(* What the report says of a run has the type of a report.                 *)
LEMMA ReportTyped == TypeInv /\ gate.run \in Run => Report \in Reports
  <1>1. TypeInv => gate.results \in Seq(Entry)
    BY DEF TypeInv, Gate
  <1> QED BY <1>1, Counting DEF Report, Reports

------------------------------------------------------------------------------
(* Types, the order of the results, the lane inside its step               *)
------------------------------------------------------------------------------

(* An interrupt leaves no milestones but old ones and that of the run.     *)
LEMMA CutShorter ==
  \A m \in {milestones} \union CutMilestones : m \subseteq milestones \union {gate.run}
  BY DEF CutMilestones, WithMilestone

(* Every step keeps the types.                                             *)
LEMMA TypeStep == TypeInv /\ Order /\ LaneInside /\ [Next]_vars => TypeInv'
  <1> SUFFICES ASSUME TypeInv, Order, LaneInside, [Next]_vars  PROVE TypeInv'
    OBVIOUS
  <1> USE DEF TypeInv, At
  <1>1. /\ gate \in Gate /\ gate.run \in Run \union {0} /\ gate.opts \in Options
        /\ gate.results \in Seq(Entry)
        /\ \A pc \in GatePc : /\ [gate EXCEPT !.pc = pc] \in Gate
                               /\ [gate EXCEPT !.pc = pc].run = gate.run
    BY DEF Gate
  <1>2. Idle \in Lane /\ NotOk \in LaneRows /\ << >> \in Seq(Entry)
    <2>1. NotOk \in LaneRows
      BY DEF LaneRows
    <2> QED BY <2>1 DEF Idle, Lane, LanePc
  <1>3. NoReport \in Reports /\ Torn \in Reports
    BY DEF Reports
  <1>4. CASE StartGate
    <2>1. PICK r \in Run, o \in Options :
            gate' = [run |-> r, pc |-> "step", opts |-> o, results |-> << >>, prev |-> NoReport]
      BY <1>4 DEF StartGate
    <2>2. gate' \in Gate /\ gate'.run \in Run
      BY <1>2, <1>3, <2>1 DEF Gate, GatePc
    <2> QED BY <1>4, <2>2 DEF StartGate, laneVars
  <1>5. CASE StartStep
    <2>1. gate' \in Gate /\ (~At("off"))' /\ gate'.run \in Run
      BY <1>1, <1>5 DEF StartStep, GatePc
    <2>2. file' \in File /\ target' \in [Run \X Attempt -> Phase] /\ lane' \in Lane
      <3>1. CASE Step = "lane"
        <4>1. PICK h \in Host : StartLane(gate.run, FALSE, h)
          BY <1>5, <3>1 DEF StartStep
        <4>2. \A pc \in {"lint", "off"}, code \in {0, 1} :
                [Idle EXCEPT !.run = gate.run, !.strict = FALSE, !.mode = h,
                             !.pc = pc, !.code = code] \in Lane
          BY <1>1, <1>2 DEF Lane, LanePc
        <4>3. lane' \in Lane
          BY <4>1, <4>2 DEF StartLane, Fail
        <4> QED BY <4>1, <4>3 DEF StartLane
      <3>2. CASE Step = "boot"
        BY <1>5, <3>2 DEF StartStep, Started, Phase
      <3>3. CASE Step \notin {"lane", "boot"}
        BY <1>5, <3>3 DEF StartStep, laneVars
      <3> QED BY <3>1, <3>2, <3>3
    <2> QED BY <1>5, <2>1, <2>2 DEF StartStep, books
  <1>6. CASE PlainStepEnds
    <2>1. PICK ok \in BOOLEAN : Record(ok, NotOk, << >>)
      BY <1>6 DEF PlainStepEnds
    <2>2. gate' \in Gate /\ gate'.run = gate.run /\ At("running")
      BY <1>2, <1>6, <2>1, Recorded DEF PlainStepEnds, Running
    <2> QED BY <1>6, <2>2 DEF PlainStepEnds, laneVars, books
  <1>7. CASE LaneEnds
    <2>1. lane.row \in LaneRows
      BY DEF Lane
    <2>2. gate' \in Gate /\ gate'.run = gate.run /\ At("running")
      BY <1>7, <2>1, Recorded DEF LaneEnds, Running
    <2> QED BY <1>2, <1>7, <2>2 DEF LaneEnds, books
  <1>8. CASE SmokeEnds
    <2>1. PICK rows \in Printed : Record(target[Smoke] = "passed", NotOk, rows)
      BY <1>8 DEF SmokeEnds
    <2>2. gate' \in Gate /\ gate'.run = gate.run /\ At("running")
      BY <1>2, <1>8, <2>1, Recorded DEF SmokeEnds, Running
    <2>3. target' \in [Run \X Attempt -> Phase]
      BY <1>8 DEF SmokeEnds, Reaped, Phase
    <2> QED BY <1>8, <2>2, <2>3 DEF SmokeEnds, books
  <1>9. CASE LaneTimesOut
    <2>1. gate' \in Gate /\ gate'.run = gate.run /\ At("running")
      BY <1>2, <1>9, Recorded DEF LaneTimesOut, Running
    <2> QED BY <1>2, <1>9, <2>1 DEF LaneTimesOut, books
  <1>10. CASE SmokeTimesOut
    <2>1. PICK rows \in Printed : Record(FALSE, NotOk, rows)
      BY <1>10 DEF SmokeTimesOut
    <2>2. gate' \in Gate /\ gate'.run = gate.run /\ At("running")
      BY <1>2, <1>10, <2>1, Recorded DEF SmokeTimesOut, Running
    <2> QED BY <1>10, <2>2 DEF SmokeTimesOut, laneVars, books
  <1>11. CASE ReadMetrics \/ ReadFallbacks
    BY <1>1, <1>11 DEF ReadMetrics, ReadFallbacks, laneVars, books, GatePc
  <1>12. CASE WriteReport
    <2>1. gate' \in Gate /\ gate'.run = gate.run
      <3>1. \A pc \in GatePc : /\ [gate EXCEPT !.prev = last, !.pc = pc] \in Gate
                               /\ [gate EXCEPT !.prev = last, !.pc = pc].run = gate.run
        BY DEF Gate
      <3> QED BY <1>12, <3>1 DEF WriteReport, GatePc
    <2>2. gate.run \in Run
      BY <1>12 DEF WriteReport
    <2> QED BY <1>12, <2>1, <2>2, ReportTyped DEF WriteReport, laneVars
  <1>13. CASE CopyReport
    <2>1. gate' \in Gate /\ gate'.run = gate.run /\ gate.run \in Run
      BY <1>1, <1>13 DEF CopyReport, GatePc
    <2> QED BY <1>13, <2>1, ReportTyped DEF CopyReport, laneVars
  <1>14. CASE WriteQueue
    BY <1>1, <1>14 DEF WriteQueue, laneVars, GatePc
  <1>15. CASE Finish
    <2>1. gate' \in Gate /\ (At("off"))' /\ gate.run \in Run
      BY <1>1, <1>15 DEF Finish, GatePc, Gate
    <2> QED BY <1>15, <2>1 DEF Finish, WithMilestone, laneVars
  <1>16. CASE Interrupted
    <2>1. gate' \in Gate /\ (At("off"))' /\ gate.run \in Run
      <3>1. (CHOOSE o \in Options : TRUE) \in Options
        BY GateAssumption
      <3>2. GateIdle \in Gate
        BY <1>2, <1>3, <3>1 DEF GateIdle, Gate, GatePc
      <3>3. gate' = [GateIdle EXCEPT !.run = gate.run] /\ gate.run \in Run
        BY <1>16 DEF Interrupted
      <3>4. [GateIdle EXCEPT !.run = gate.run] \in Gate
        BY <1>1, <3>2 DEF Gate
      <3>5. gate'.pc = "off"
        BY <3>3 DEF GateIdle
      <3> QED BY <3>3, <3>4, <3>5
    <2>2. last' \in Reports
      BY <1>3, <1>16, <2>1, ReportTyped DEF Interrupted
    <2>3. target' \in [Run \X Attempt -> Phase]
      BY <1>16 DEF Interrupted, Reaped, Phase
    <2>4. milestones' \subseteq Run
      BY <1>16, <2>1, CutShorter DEF Interrupted, TypeInv
    <2> QED BY <1>2, <1>16, <2>1, <2>2, <2>3, <2>4 DEF Interrupted
  <1>17. CASE (LaneStep \/ TargetStep) /\ UNCHANGED gateVars
    BY <1>17, LaneTypes DEF gateVars, books
  <1>18. CASE UNCHANGED vars
    BY <1>18 DEF vars, laneVars, gateVars, books
  <1> QED BY <1>4, <1>5, <1>6, <1>7, <1>8, <1>9, <1>10, <1>11, <1>12, <1>13, <1>14, <1>15,
             <1>16, <1>17, <1>18 DEF Next, GateStep

(* Most steps of the gate move its program counter and nothing else of it. *)
Moves(pc) == gate' = [gate EXCEPT !.pc = pc]

(* What is left alone then.                                                *)
LEMMA Moved ==
  ASSUME TypeInv, NEW pc, Moves(pc)
  PROVE  /\ gate'.pc = pc
         /\ gate'.run = gate.run /\ gate'.opts = gate.opts /\ gate'.results = gate.results
         /\ gate'.prev = gate.prev
  BY DEF TypeInv, Gate, Moves

(* Every step keeps the order of the results, and the lane in its step.    *)
LEMMA OrderStep ==
  TypeInv /\ Order /\ LaneInside /\ [Next]_vars => Order' /\ LaneInside'
  <1> SUFFICES ASSUME TypeInv, Order, LaneInside, [Next]_vars  PROVE Order' /\ LaneInside'
    OBVIOUS
  <1> USE DEF At
  <1>1. /\ gate.opts \in Options /\ gate.results \in Seq(Entry) /\ Len(gate.results) \in Nat
        /\ Len(Selected(gate.opts)) \in 2 .. 4
    BY SelectedSteps DEF TypeInv, Gate
  <1>2. ASSUME At("running"), NEW ok \in BOOLEAN, NEW row \in LaneRows,
               NEW rows \in Printed \union {<< >>}, Record(ok, row, rows)
        PROVE  Order' /\ gate'.pc = "step"
    <2>1. /\ gate'.pc = "step" /\ gate'.opts = gate.opts
          /\ Len(gate'.results) = Len(gate.results) + 1
          /\ \A i \in 1 .. Len(gate.results) : gate'.results[i] = gate.results[i]
          /\ gate'.results[Len(gate.results) + 1].step = Step
      BY <1>2, Recorded
    <2>2. Step = Selected(gate.opts)[Len(gate.results) + 1]
      BY DEF Step
    <2>3. Len(gate'.results) <= Len(Selected(gate'.opts))
      BY <1>1, <1>2, <2>1 DEF Order
    <2>4. ASSUME NEW i \in 1 .. Len(gate'.results)
          PROVE  gate'.results[i].step = Selected(gate'.opts)[i]
      <3>1. i \in 1 .. Len(gate.results) \/ i = Len(gate.results) + 1
        BY <1>1, <2>1
      <3>2. CASE i \in 1 .. Len(gate.results)
        BY <2>1, <3>2 DEF Order
      <3>3. CASE i = Len(gate.results) + 1
        BY <2>1, <2>2, <3>3
      <3> QED BY <3>1, <3>2, <3>3
    <2> QED BY <2>1, <2>3, <2>4 DEF Order
  <1>3. NotOk \in LaneRows /\ lane.row \in LaneRows /\ Idle.pc = "off"
    BY DEF LaneRows, TypeInv, Lane, Idle
  <1>4. CASE StartGate
    <2>1. PICK r \in Run, o \in Options :
            gate' = [run |-> r, pc |-> "step", opts |-> o, results |-> << >>, prev |-> NoReport]
      BY <1>4 DEF StartGate
    <2>2. Len(Selected(o)) \in 2 .. 4 /\ gate'.results = << >> /\ gate'.pc = "step" /\ gate'.opts = o
      BY <2>1, SelectedSteps
    <2>3. lane'.pc = "off"
      BY <1>4 DEF StartGate, LaneInside, laneVars
    <2> QED BY <2>2, <2>3 DEF Order, LaneInside
  <1>5. CASE StartStep
    <2>1. Moves("running") /\ ~StepsDone /\ lane.pc = "off"
      BY <1>5 DEF StartStep, Moves, LaneInside
    <2>2. Order'
      BY <1>1, <2>1, Moved DEF Order, StepsDone
    <2>3. Step' = Step
      BY <2>1, Moved DEF Step
    <2>4. CASE Step = "lane"
      <3>1. lane'.run = gate.run
        BY <1>5, <2>4 DEF StartStep, StartLane, Idle
      <3> QED BY <2>1, <2>2, <2>3, <2>4, <3>1, Moved DEF LaneInside
    <2>5. CASE Step # "lane"
      BY <1>5, <2>1, <2>2, <2>5 DEF StartStep, laneVars, LaneInside
    <2> QED BY <2>4, <2>5
  <1>6. CASE PlainStepEnds
    <2>1. At("running") /\ Step # "lane" /\ lane' = lane
      BY <1>6 DEF PlainStepEnds, Running, laneVars
    <2>2. Order'
      BY <1>2, <1>3, <1>6, <2>1 DEF PlainStepEnds
    <2> QED BY <2>1, <2>2 DEF LaneInside
  <1>7. CASE LaneEnds \/ LaneTimesOut
    <2>1. At("running") /\ lane'.pc = "off"
      BY <1>3, <1>7 DEF LaneEnds, LaneTimesOut, Running
    <2>2. Order'
      BY <1>2, <1>3, <1>7, <2>1 DEF LaneEnds, LaneTimesOut
    <2> QED BY <2>1, <2>2 DEF LaneInside
  <1>8. CASE SmokeEnds \/ SmokeTimesOut
    <2>1. At("running") /\ Step # "lane" /\ lane' = lane
      BY <1>8 DEF SmokeEnds, SmokeTimesOut, Running, laneVars
    <2>2. Order'
      BY <1>2, <1>3, <1>8, <2>1 DEF SmokeEnds, SmokeTimesOut
    <2> QED BY <2>1, <2>2 DEF LaneInside
  <1>9. CASE ReadMetrics
    <2>1. Moves("fallbacks") /\ StepsDone /\ lane' = lane /\ lane.pc = "off"
      BY <1>9 DEF ReadMetrics, Moves, laneVars, LaneInside
    <2> QED BY <2>1, Moved DEF Order, StepsDone, LaneInside
  <1>10. ASSUME NEW pc \in {"write", "copy", "queue", "finish", "off"},
                gate'.pc = pc, gate'.opts = gate.opts, gate'.results = gate.results,
                gate.pc \in {"fallbacks", "write", "copy", "queue", "finish"}, lane' = lane
         PROVE  Order' /\ LaneInside'
    BY <1>10 DEF Order, StepsDone, LaneInside
  <1>11. CASE ReadFallbacks
    <2>1. Moves("write") /\ lane' = lane /\ At("fallbacks")
      BY <1>11 DEF ReadFallbacks, Moves, laneVars
    <2> QED BY <1>10, <2>1, Moved
  <1>12. CASE WriteReport
    <2>1. PICK pc \in {"copy", "queue"} : gate' = [gate EXCEPT !.prev = last, !.pc = pc]
      BY <1>12 DEF WriteReport
    <2>2. gate'.pc = pc /\ gate'.opts = gate.opts /\ gate'.results = gate.results
      BY <2>1 DEF TypeInv, Gate
    <2> QED BY <1>10, <1>12, <2>2 DEF WriteReport, laneVars
  <1>13. CASE CopyReport \/ WriteQueue \/ Finish
    <2>1. PICK pc \in {"queue", "finish", "off"} : Moves(pc)
      BY <1>13 DEF CopyReport, WriteQueue, Finish, Moves
    <2> QED BY <1>10, <1>13, <2>1, Moved DEF CopyReport, WriteQueue, Finish, laneVars
  <1>14. CASE Interrupted
    <2>1. gate'.pc = "off" /\ gate'.results = << >> /\ gate'.opts \in Options /\ lane'.pc = "off"
      <3>1. gate' \in Gate
        BY TypeStep DEF TypeInv
      <3> QED BY <1>3, <1>14, <3>1 DEF Interrupted, GateIdle, Gate
    <2>2. Len(Selected(gate'.opts)) \in 2 .. 4
      BY <2>1, SelectedSteps
    <2> QED BY <2>1, <2>2 DEF Order, LaneInside
  <1>15. CASE LaneStep /\ UNCHANGED gateVars
    <2>1. lane'.run = lane.run /\ lane.pc # "off"
      <3> USE DEF TypeInv, Lane, Emits, Returned
      <3>1. ASSUME NEW passed \in BOOLEAN, Lint(passed)  PROVE lane'.run = lane.run /\ lane.pc # "off"
        BY <3>1 DEF Lint
      <3>2. CASE TargetReturns
        BY <3>2 DEF TargetReturns
      <3>3. CASE TargetTimesOut
        <4>1. \/ lane' = [lane EXCEPT !.pc = "second"]
              \/ \E pc \in LanePc : lane' = [lane EXCEPT !.pc = pc, !.rc = 124]
          BY <3>3 DEF TargetTimesOut, LanePc
        <4>2. lane.pc # "off"
          BY <3>3 DEF TargetTimesOut
        <4> QED BY <4>1, <4>2
      <3>4. CASE Judge
        BY <3>4 DEF Judge
      <3>5. CASE Reread
        BY <3>5 DEF Reread
      <3> QED BY <1>15, <3>1, <3>2, <3>3, <3>4, <3>5 DEF LaneStep
    <2> QED BY <1>15, <2>1 DEF gateVars, Order, StepsDone, LaneInside, Step
  <1>16. CASE TargetStep /\ UNCHANGED gateVars
    <2>1. lane' = lane
      BY <1>16 DEF TargetStep, TargetLoads, TargetFinishes, TargetDies
    <2> QED BY <1>16, <2>1 DEF gateVars, Order, StepsDone, LaneInside, Step
  <1>17. CASE UNCHANGED vars
    BY <1>17 DEF vars, laneVars, gateVars, Order, StepsDone, LaneInside, Step
  <1> QED BY <1>4, <1>5, <1>6, <1>7, <1>8, <1>9, <1>11, <1>12, <1>13, <1>14, <1>15, <1>16, <1>17
          DEF Next, GateStep

------------------------------------------------------------------------------
(* Test processes                                                          *)
------------------------------------------------------------------------------

(* Waiting for a test process, in this state and in the next.              *)
LEMMA WaitedAt ==
  ASSUME NEW r, NEW a
  PROVE  /\ Waited(<<r, a>>) <=>
              (lane.run = r /\ lane.pc = a) \/ (gate.run = r /\ Running("boot") /\ a = "smoke")
         /\ Waited(<<r, a>>)' <=>
              (lane'.run = r /\ lane'.pc = a) \/ (gate'.run = r /\ Running("boot")' /\ a = "smoke")
  BY DEF Waited

(* A step that begins no test process, and stops waiting for one only when *)
(* it has ended or its run is cut.                                         *)
LEMMA AccountedLess ==
  ASSUME Accounted, cut \subseteq cut',
         \A r \in Run, a \in Attempt :
           Live(<<r, a>>)' => Live(<<r, a>>) /\ (Waited(<<r, a>>) => Waited(<<r, a>>)' \/ r \in cut')
  PROVE  Accounted'
  BY DEF Accounted

(* Every step keeps account of the test processes.                         *)
LEMMA AccountedStep ==
  TypeInv /\ Order /\ LaneInside /\ Accounted /\ [Next]_vars => Accounted'
  <1> SUFFICES ASSUME TypeInv, Order, LaneInside, Accounted, [Next]_vars  PROVE Accounted'
    OBVIOUS
  <1> USE DEF At
  <1>1. gate.results \in Seq(Entry) /\ NotOk \in LaneRows /\ lane.row \in LaneRows
    BY DEF TypeInv, Gate, LaneRows, Lane
  <1>2. Idle.pc = "off" /\ "off" \notin Attempt
    BY DEF Idle, Attempt
  <1>3. target \in [Run \X Attempt -> Phase] /\ target' \in [Run \X Attempt -> Phase]
    BY TypeStep DEF TypeInv
  <1>4. CASE StartGate
    <2>1. target' = target /\ lane' = lane /\ cut' = cut /\ gate.pc = "off"
      BY <1>4 DEF StartGate, laneVars
    <2> QED BY <2>1, AccountedLess, WaitedAt DEF Running, Live
  <1>5. CASE StartStep
    <2>1. Moves("running") /\ lane.pc = "off" /\ cut' = cut /\ gate.pc = "step"
      BY <1>5 DEF StartStep, Moves, LaneInside
    <2>2. gate'.pc = "running" /\ gate'.run = gate.run /\ Step' = Step
      BY <2>1, Moved DEF Step
    <2>3. \A r \in Run, a \in Attempt : ~Waited(<<r, a>>)
      BY <1>2, <2>1, WaitedAt DEF Running
    <2>4. CASE Step = "boot"
      <3>1. target' = [target EXCEPT ![<<gate.run, "smoke">>] = "building"]
        BY <1>5, <2>4 DEF StartStep, Started, Smoke
      <3>2. ASSUME NEW r \in Run, NEW a \in Attempt, Live(<<r, a>>)'
            PROVE  Waited(<<r, a>>)' \/ r \in cut'
        <4>1. CASE r = gate.run /\ a = "smoke"
          BY <2>2, <2>4, <4>1, WaitedAt DEF Running
        <4>2. CASE ~(r = gate.run /\ a = "smoke")
          <5>1. target'[<<r, a>>] = target[<<r, a>>]
            BY <1>3, <3>1, <4>2
          <5> QED BY <2>1, <2>3, <3>2, <5>1 DEF Accounted, Live
        <4> QED BY <4>1, <4>2
      <3> QED BY <3>2 DEF Accounted
    <2>5. CASE Step # "boot"
      <3>1. target' = target
        BY <1>5, <2>5 DEF StartStep, StartLane, laneVars
      <3> QED BY <2>1, <2>3, <3>1, AccountedLess DEF Live
    <2> QED BY <2>4, <2>5
  <1>6. CASE PlainStepEnds
    <2>1. target' = target /\ lane' = lane /\ cut' = cut /\ ~Running("boot")
      BY <1>6 DEF PlainStepEnds, laneVars, books, Running
    <2> QED BY <2>1, AccountedLess, WaitedAt DEF Live
  <1>7. CASE LaneEnds
    <2>1. target' = target /\ lane.pc = "off" /\ cut' = cut /\ ~Running("boot")
      BY <1>7 DEF LaneEnds, books, Running
    <2> QED BY <1>2, <2>1, AccountedLess, WaitedAt DEF Live
  <1>8. CASE LaneTimesOut
    <2>1. /\ target' = target /\ cut' = cut \union {gate.run} /\ ~Running("boot")
          /\ lane.pc # "off" => lane.run = gate.run
      BY <1>8 DEF LaneTimesOut, LaneInside, Running
    <2> QED BY <1>2, <2>1, AccountedLess, WaitedAt DEF Live
  <1>9. CASE SmokeEnds
    <2>1. /\ target' = [target EXCEPT ![<<gate.run, "smoke">>] = "off"]
          /\ lane' = lane /\ cut' = cut
      BY <1>9 DEF SmokeEnds, Reaped, Smoke
    <2>2. ASSUME NEW r \in Run, NEW a \in Attempt, Live(<<r, a>>)'
          PROVE  target'[<<r, a>>] = target[<<r, a>>] /\ ~(r = gate.run /\ a = "smoke")
      BY <1>3, <2>1, <2>2 DEF Live
    <2> QED BY <2>1, <2>2, AccountedLess, WaitedAt DEF Live
  <1>10. CASE SmokeTimesOut
    <2>1. target' = target /\ lane' = lane /\ cut' = cut \union {gate.run}
      BY <1>10 DEF SmokeTimesOut, laneVars
    <2> QED BY <2>1, AccountedLess, WaitedAt DEF Live
  <1>11. CASE ReadMetrics \/ ReadFallbacks \/ WriteReport \/ CopyReport \/ WriteQueue \/ Finish
    <2>1. target' = target /\ lane' = lane /\ cut' = cut /\ gate.pc # "running"
      BY <1>11 DEF ReadMetrics, ReadFallbacks, WriteReport, CopyReport, WriteQueue, Finish, laneVars, books
    <2> QED BY <2>1, AccountedLess, WaitedAt DEF Live, Running
  <1>12. CASE Interrupted
    <2>1. /\ cut' = cut \union {gate.run}
          /\ target' \in {target, [target EXCEPT ![<<gate.run, "smoke">>] = "off"]}
          /\ lane.pc # "off" => lane.run = gate.run
      BY <1>12 DEF Interrupted, Reaped, Smoke, LaneInside
    <2>2. ASSUME NEW r \in Run, NEW a \in Attempt, Live(<<r, a>>)'
          PROVE  Live(<<r, a>>)
      BY <1>3, <2>1, <2>2 DEF Live
    <2> QED BY <1>2, <2>1, <2>2, AccountedLess, WaitedAt
  <1>13. CASE TargetStep /\ UNCHANGED gateVars
    <2>1. lane' = lane /\ gate' = gate /\ cut' = cut
      BY <1>13 DEF TargetStep, TargetLoads, TargetFinishes, TargetDies, gateVars
    <2>2. PICK t \in Run \X Attempt, p \in {"off", "loaded", "passed", "failed"} :
            target' = [target EXCEPT ![t] = p] /\ (p = "loaded" => Live(t))
      BY <1>13 DEF TargetStep, TargetLoads, TargetFinishes, TargetDies, Exits, Live
    <2>3. ASSUME NEW r \in Run, NEW a \in Attempt, Live(<<r, a>>)'
          PROVE  Live(<<r, a>>)
      BY <1>3, <2>2, <2>3 DEF Live
    <2> QED BY <2>1, <2>3, AccountedLess, WaitedAt DEF Running, Step
  <1>14. CASE UNCHANGED vars
    BY <1>14, AccountedLess, WaitedAt DEF vars, laneVars, gateVars, Live, Running, Step
  <1>15. CASE LaneStep /\ UNCHANGED gateVars
    <2>1. gate' = gate /\ cut' = cut /\ lane.run = gate.run /\ ~Running("boot") /\ lane \in Lane
      BY <1>15 DEF LaneStep, Lint, TargetReturns, TargetTimesOut, Judge, Reread, gateVars,
                  LaneInside, TypeInv, Running
    <2>2. SUFFICES ASSUME NEW r \in Run, NEW a \in Attempt, Live(<<r, a>>)'
                   PROVE  \/ Waited(<<r, a>>)'
                          \/ Live(<<r, a>>) /\ ~(lane.run = r /\ lane.pc = a)
      BY <2>1, WaitedAt DEF Accounted
    <2>3. ASSUME NEW passed \in BOOLEAN, Lint(passed)  PROVE Live(<<r, a>>) \/ Waited(<<r, a>>)'
      <3>1. \/ target' = target
            \/ /\ target' = [target EXCEPT ![<<lane.run, "first">>] = "building"]
               /\ lane' = [lane EXCEPT !.pc = "first"]
        BY <2>3 DEF Lint, Started
      <3>2. CASE target' = target
        BY <2>2, <3>2 DEF Live
      <3>3. CASE /\ target' = [target EXCEPT ![<<lane.run, "first">>] = "building"]
                 /\ lane' = [lane EXCEPT !.pc = "first"]
        <4>1. lane'.run = lane.run /\ lane'.pc = "first"
          BY <2>1, <3>3 DEF Lane
        <4> QED BY <1>3, <2>2, <3>3, <4>1, WaitedAt DEF Live
      <3> QED BY <3>1, <3>2, <3>3
    <2>4. CASE \E passed \in BOOLEAN : Lint(passed)
      BY <1>2, <2>3, <2>4 DEF Lint, Attempt
    <2>5. CASE TargetReturns
      <3>1. target' = [target EXCEPT ![<<lane.run, lane.pc>>] = "off"]
        BY <2>5 DEF TargetReturns, Reaped, Current
      <3> QED BY <1>3, <2>2, <3>1 DEF Live
    <2>6. CASE TargetTimesOut
      <3>1. \/ target' = [target EXCEPT ![<<lane.run, lane.pc>>] = "off"]
            \/ /\ target' = [[target EXCEPT ![<<lane.run, lane.pc>>] = "off"]
                               EXCEPT ![<<lane.run, "second">>] = "building"]
               /\ lane' = [lane EXCEPT !.pc = "second"]
        BY <2>6 DEF TargetTimesOut, Killed, Current
      <3>2. CASE target' = [target EXCEPT ![<<lane.run, lane.pc>>] = "off"]
        BY <1>3, <2>2, <3>2 DEF Live
      <3>3. CASE /\ target' = [[target EXCEPT ![<<lane.run, lane.pc>>] = "off"]
                                EXCEPT ![<<lane.run, "second">>] = "building"]
                 /\ lane' = [lane EXCEPT !.pc = "second"]
        <4>1. lane'.run = lane.run /\ lane'.pc = "second"
          BY <2>1, <3>3 DEF Lane
        <4>2. CASE r = lane.run /\ a = "second"
          BY <4>1, <4>2, WaitedAt
        <4>3. CASE ~(r = lane.run /\ a = "second")
          BY <1>3, <2>2, <3>3, <4>3 DEF Live
        <4> QED BY <4>2, <4>3
      <3> QED BY <3>1, <3>2, <3>3
    <2>7. CASE Judge \/ Reread
      BY <2>2, <2>7 DEF Judge, Reread, Attempt, Live
    <2> QED BY <1>15, <2>4, <2>5, <2>6, <2>7 DEF LaneStep
  <1> QED BY <1>4, <1>5, <1>6, <1>7, <1>8, <1>9, <1>10, <1>11, <1>12, <1>13, <1>14, <1>15
          DEF Next, GateStep

(* Only the lane begins a test process of the lane: the first behind the   *)
(* lint, the second over the dead body of the first.                       *)
LEMMA LaneBegins ==
  ASSUME TypeInv, Order, LaneInside, [Next]_vars, NEW r \in Run, NEW a \in {"first", "second"},
         Live(<<r, a>>)', ~Live(<<r, a>>)
  PROVE  /\ UNCHANGED gateVars
         /\ r = lane.run /\ lane'.run = lane.run
         /\ \/ a = "first" /\ lane.pc = "lint" /\ lane'.pc = "first"
            \/ a = "second" /\ lane.pc = "first" /\ lane'.pc = "second" /\ ~Live(<<r, "first">>)'
  <1>1. target \in [Run \X Attempt -> Phase] /\ a \in Attempt /\ lane \in Lane
    BY DEF TypeInv, Attempt
  <1>2. \A p : \A q \in Run \union {0} : target' # [target EXCEPT ![<<q, "smoke">>] = p]
    BY <1>1 DEF Live
  <1>3. gate.run \in Run \union {0} /\ lane.run \in Run \union {0}
    BY DEF TypeInv, Gate, Lane
  <1>4. ~StartGate /\ ~PlainStepEnds /\ ~LaneEnds /\ ~LaneTimesOut /\ ~SmokeTimesOut /\ ~ReadMetrics
        /\ ~ReadFallbacks /\ ~WriteReport /\ ~CopyReport /\ ~WriteQueue /\ ~Finish
        /\ ~UNCHANGED vars
    <2>1. target' # target
      BY <1>1 DEF Live
    <2> QED BY <2>1 DEF StartGate, PlainStepEnds, LaneEnds, LaneTimesOut, SmokeTimesOut, ReadMetrics,
                        ReadFallbacks, WriteReport, CopyReport, WriteQueue, Finish, vars, laneVars
  <1>5. ~SmokeEnds /\ ~Interrupted
    <2>1. target' # target
      BY <1>1 DEF Live
    <2> QED BY <1>2, <1>3, <2>1 DEF SmokeEnds, Interrupted, Reaped, Smoke
  <1>6. ~StartStep
    <2>1. target' # target
      BY <1>1 DEF Live
    <2>2. ~Started(Smoke)
      BY <1>2, <1>3 DEF Started, Smoke
    <2> QED BY <2>1, <2>2 DEF StartStep, StartLane, laneVars
  <1>7. ~TargetStep
    <2>1. ASSUME NEW t \in Run \X Attempt, TargetLoads(t)  PROVE FALSE
      BY <1>1, <2>1 DEF TargetLoads, Live
    <2>2. ASSUME NEW t \in Run \X Attempt, TargetFinishes(t) \/ TargetDies(t)  PROVE FALSE
      BY <1>1, <2>2 DEF TargetFinishes, TargetDies, Exits, Live
    <2> QED BY <2>1, <2>2 DEF TargetStep
  <1>8. LaneStep /\ UNCHANGED gateVars
    BY <1>4, <1>5, <1>6, <1>7 DEF Next, GateStep
  <1>9. ASSUME NEW passed \in BOOLEAN, Lint(passed)
         PROVE  r = lane.run /\ lane'.run = lane.run /\ a = "first" /\ lane.pc = "lint" /\ lane'.pc = "first"
    <2>1. target' # target
      BY <1>1 DEF Live
    <2>2. /\ target' = [target EXCEPT ![<<lane.run, "first">>] = "building"]
          /\ lane' = [lane EXCEPT !.pc = "first"] /\ lane.pc = "lint"
      BY <1>9, <2>1 DEF Lint, Started
    <2>3. r = lane.run /\ a = "first"
      BY <1>1, <2>2 DEF Live
    <2> QED BY <1>1, <2>2, <2>3 DEF Lane
  <1>10. CASE TargetTimesOut
    <2>1. target' # [target EXCEPT ![<<lane.run, lane.pc>>] = "off"]
      BY <1>1 DEF Live
    <2>2. /\ target' = [[target EXCEPT ![<<lane.run, lane.pc>>] = "off"]
                        EXCEPT ![<<lane.run, "second">>] = "building"]
          /\ lane' = [lane EXCEPT !.pc = "second"] /\ lane.pc = "first"
      BY <1>10, <2>1 DEF TargetTimesOut, Killed, Current
    <2>3. r = lane.run /\ a = "second"
      BY <1>1, <2>2 DEF Live
    <2>4. target'[<<r, "first">>] = "off"
      <3>1. <<r, "first">> \in Run \X Attempt /\ <<r, "first">> # <<r, "second">>
        BY DEF Attempt
      <3>2. target' = [[target EXCEPT ![<<r, "first">>] = "off"] EXCEPT ![<<r, "second">>] = "building"]
        BY <2>2, <2>3
      <3> QED BY <1>1, <3>1, <3>2
    <2>5. ~Live(<<r, "first">>)'
      BY <2>4 DEF Live
    <2> QED BY <1>1, <1>8, <2>2, <2>3, <2>5 DEF Lane
  <1>11. ~TargetReturns
    BY <1>1 DEF TargetReturns, Reaped, Live
  <1>12. ~Judge /\ ~Reread
    BY DEF Judge, Reread, Live
  <1> QED BY <1>8, <1>9, <1>10, <1>11, <1>12 DEF LaneStep

(* The step of the lane is the second one.                                 *)
LEMMA LaneIsSecond ==
  ASSUME TypeInv, Len(gate.results) < Len(Selected(gate.opts)), Step = "lane"
  PROVE  Len(gate.results) = 1
  <1> DEFINE n == Len(gate.results)
             steps == Selected(gate.opts)
  <1>1. n \in Nat /\ n < Len(steps) /\ steps[n + 1] = "lane"
    BY DEF TypeInv, Gate, Step
  <1>2. /\ Len(steps) \in 2 .. 4 /\ steps[1] = "checks"
        /\ \A i \in 3 .. Len(steps) : steps[i] \in {"boot", "suite"}
    BY SelectedSteps DEF TypeInv, Gate
  <1> HIDE DEF n, steps
  <1>3. n # 0
    <2>1. n = 0 => n + 1 = 1
      OBVIOUS
    <2> QED BY <1>1, <1>2, <2>1, Zenon
  <1>4. ~(n >= 2)
    <2>1. n >= 2 => n + 1 \in 3 .. Len(steps)
      BY <1>1, <1>2
    <2>2. \A i \in 3 .. Len(steps) : steps[i] # "lane"
      BY <1>2
    <2> QED BY <1>1, <2>1, <2>2, Zenon
  <1>5. n = 1
    BY <1>1, <1>3, <1>4
  <1> QED BY <1>5 DEF n

(* The attempts of a run stay behind its lane.                             *)
LEMMA OnceStep ==
  TypeInv /\ Order /\ LaneInside /\ OncePerRun /\ [Next]_vars => OncePerRun'
  <1> SUFFICES ASSUME TypeInv, Order, LaneInside, OncePerRun, [Next]_vars,
                      NEW r \in Run, NEW a \in {"first", "second"}, Live(<<r, a>>)'
               PROVE  r <= gate'.run /\ (r = gate'.run /\ gate'.pc # "off" => LaneBegun')
    BY DEF OncePerRun, At
  <1> USE DEF At
  <1>1. /\ gate.results \in Seq(Entry) /\ Len(gate.results) \in Nat /\ gate.opts \in Options
        /\ gate.run \in Run \union {0} /\ NotOk \in LaneRows /\ lane.row \in LaneRows
    BY DEF TypeInv, Gate, LaneRows, Lane
  <1>2. CASE ~Live(<<r, a>>)
    <2>1. UNCHANGED gateVars /\ r = lane.run /\ lane.pc # "off"
      BY <1>2, LaneBegins
    <2>2. At("running") /\ Step = "lane" /\ r = gate.run
      BY <2>1 DEF LaneInside
    <2>3. Len(gate.results) = 1
      BY <2>2, LaneIsSecond DEF Order
    <2>4. r <= gate.run
      BY <2>2, LaneAssumption
    <2> QED BY <2>1, <2>2, <2>3, <2>4 DEF gateVars, LaneBegun
  <1>3. CASE Live(<<r, a>>)
    <2>1. r <= gate.run /\ (r = gate.run /\ gate.pc # "off" => LaneBegun)
      BY <1>3 DEF OncePerRun
    <2>2. r \in Nat /\ gate.run \in Nat
      <3>1. r \in Nat
        BY LaneAssumption
      <3>2. CASE gate.run = 0
        BY <3>1, <3>2
      <3>3. CASE gate.run \in Run
        BY <3>1, <3>3, LaneAssumption
      <3> QED BY <1>1, <3>2, <3>3
    <2>3. CASE StartGate
      <3>1. gate'.run = gate.run + 1
        BY <2>3 DEF StartGate
      <3> QED BY <2>1, <2>2, <3>1
    <2>4. ASSUME gate'.run = gate.run, gate'.pc = "off"  PROVE r <= gate'.run
      BY <2>1, <2>4
    <2>5. ASSUME NEW pc, Moves(pc), gate.pc \notin {"off", "running"}
          PROVE  r <= gate'.run /\ (r = gate'.run => LaneBegun')
      BY <2>1, <2>5, Moved DEF LaneBegun
    <2>6. ASSUME At("running"), NEW ok \in BOOLEAN, NEW row \in LaneRows,
                 NEW rows \in Printed \union {<< >>}, Record(ok, row, rows)
          PROVE  r <= gate'.run /\ (r = gate'.run => LaneBegun')
      <3>1. /\ gate'.run = gate.run /\ gate'.pc = "step"
            /\ Len(gate'.results) = Len(gate.results) + 1
        BY <2>6, Recorded
      <3>2. r = gate.run => Len(gate.results) >= 1
        <4>1. Len(gate.results) \in Nat /\ gate.pc = "running"
          BY <1>1, <2>6
        <4>2. r = gate.run => Len(gate.results) >= 2 \/ Len(gate.results) = 1
          BY <2>1, <4>1 DEF LaneBegun
        <4>3. \A n \in Nat : n >= 2 \/ n = 1 => n >= 1
          OBVIOUS
        <4> QED BY <4>1, <4>2, <4>3, Zenon
      <3>3. r = gate'.run => Len(gate'.results) >= 2
        BY <1>1, <3>1, <3>2
      <3> QED BY <2>1, <3>1, <3>3 DEF LaneBegun
    <2>7. CASE StartStep
      BY <2>5, <2>7 DEF StartStep, Moves
    <2>8. CASE PlainStepEnds \/ LaneEnds \/ LaneTimesOut
      BY <1>1, <2>6, <2>8 DEF PlainStepEnds, LaneEnds, LaneTimesOut, Running
    <2>9. CASE SmokeEnds \/ SmokeTimesOut
      BY <1>1, <2>6, <2>9 DEF SmokeEnds, SmokeTimesOut, Running
    <2>10. CASE ReadMetrics \/ ReadFallbacks \/ CopyReport \/ WriteQueue \/ Finish
      BY <2>5, <2>10 DEF ReadMetrics, ReadFallbacks, CopyReport, WriteQueue, Finish, Moves
    <2>11. CASE WriteReport
      <3>1. gate.pc = "write" /\ gate'.run = gate.run /\ gate'.results = gate.results
        BY <2>11 DEF WriteReport, TypeInv, Gate
      <3> QED BY <2>1, <3>1 DEF LaneBegun
    <2>12. CASE Interrupted
      <3>1. gate'.run = gate.run /\ gate'.pc = "off"
        BY <2>12 DEF Interrupted, GateIdle
      <3> QED BY <2>4, <3>1
    <2>13. CASE UNCHANGED gate
      BY <2>1, <2>13 DEF LaneBegun
    <2> QED BY <2>3, <2>7, <2>8, <2>9, <2>10, <2>11, <2>12, <2>13 DEF Next, GateStep, gateVars, vars
  <1> QED BY <1>2, <1>3

(* The lane comes to its lint when its step of the gate begins, with the   *)
(* checks alone behind it, and to the first attempt from the lint.         *)
LEMMA LaneMoves ==
  ASSUME TypeInv, Order, LaneInside, [Next]_vars, lane' # lane
  PROVE  /\ lane'.pc = "lint" => lane'.run = gate.run /\ At("step") /\ Len(gate.results) = 1
         /\ lane'.pc = "first" => lane'.run = lane.run /\ lane.pc = "lint"
  <1> USE DEF At
  <1>1. lane \in Lane /\ gate.opts \in Options /\ Len(gate.results) \in Nat
    BY DEF TypeInv, Gate
  <1>2. CASE StartStep
    <2>1. Step = "lane" /\ At("step") /\ ~StepsDone
      BY <1>2 DEF StartStep, laneVars
    <2>2. PICK h \in Host : StartLane(gate.run, FALSE, h)
      BY <1>2, <2>1 DEF StartStep
    <2>3. lane'.run = gate.run /\ lane'.pc \in {"lint", "off"}
      BY <2>2 DEF StartLane, Idle
    <2>4. Len(gate.results) < Len(Selected(gate.opts))
      <3>1. \A m, n \in Nat : n <= m /\ n # m => n < m
        OBVIOUS
      <3>2. Len(Selected(gate.opts)) \in Nat
        BY <1>1, SelectedSteps
      <3>3. /\ Len(gate.results) <= Len(Selected(gate.opts))
            /\ Len(gate.results) # Len(Selected(gate.opts))
        BY <2>1 DEF Order, StepsDone
      <3> QED BY <1>1, <3>1, <3>2, <3>3
    <2> QED BY <2>1, <2>3, <2>4, LaneIsSecond
  <1>3. CASE LaneEnds \/ LaneTimesOut \/ Interrupted
    <2>1. lane' = Idle
      BY <1>3 DEF LaneEnds, LaneTimesOut, Interrupted
    <2> QED BY <2>1 DEF Idle
  <1>4. CASE LaneStep
    <2> USE DEF Emits, Returned, Lane
    <2>1. ASSUME NEW passed \in BOOLEAN, Lint(passed)
          PROVE  lane'.pc # "lint" /\ lane'.run = lane.run /\ lane.pc = "lint"
      <3>1. \/ lane' = [lane EXCEPT !.pc = "first"]
            \/ lane' = [lane EXCEPT !.pc = "off", !.row = NotOk, !.code = 1]
        BY <2>1 DEF Lint
      <3>2. lane.pc = "lint"
        BY <2>1 DEF Lint
      <3> QED BY <1>1, <3>1, <3>2
    <2>2. CASE TargetReturns
      BY <1>1, <2>2 DEF TargetReturns
    <2>3. CASE TargetTimesOut
      <3>1. \/ lane' = [lane EXCEPT !.pc = "second"]
            \/ \E pc \in {"judge", "reread"} : lane' = [lane EXCEPT !.pc = pc, !.rc = 124]
        BY <2>3 DEF TargetTimesOut
      <3> QED BY <1>1, <3>1
    <2>4. CASE Judge \/ Reread
      BY <1>1, <2>4 DEF Judge, Reread
    <2> QED BY <1>4, <2>1, <2>2, <2>3, <2>4 DEF LaneStep
  <1>5. CASE ~StartStep /\ ~LaneEnds /\ ~LaneTimesOut /\ ~Interrupted /\ ~LaneStep
    <2>1. lane' = lane
      BY <1>5 DEF Next, GateStep, StartGate, PlainStepEnds, SmokeEnds, SmokeTimesOut, ReadMetrics,
                  ReadFallbacks, WriteReport, CopyReport, WriteQueue, Finish, TargetStep,
                  TargetLoads, TargetFinishes, TargetDies, vars, laneVars
    <2> QED BY <2>1
  <1> QED BY <1>2, <1>3, <1>4, <1>5

(* The two attempts of a lane stay apart.                                  *)
LEMMA ApartStep ==
  TypeInv /\ Order /\ LaneInside /\ OncePerRun /\ Apart /\ [Next]_vars => Apart'
  <1> SUFFICES ASSUME TypeInv, Order, LaneInside, OncePerRun, Apart, [Next]_vars  PROVE Apart'
    OBVIOUS
  <1> USE DEF At
  <1>1. ASSUME NEW r \in Run  PROVE ~(Live(<<r, "first">>)' /\ Live(<<r, "second">>)')
    <2>1. SUFFICES ASSUME Live(<<r, "first">>)', Live(<<r, "second">>)'  PROVE FALSE
      OBVIOUS
    <2>2. CASE ~Live(<<r, "second">>)
      BY <2>1, <2>2, LaneBegins
    <2>3. CASE Live(<<r, "second">>)
      <3>1. ~Live(<<r, "first">>)
        BY <2>3 DEF Apart
      <3>2. r = lane.run /\ lane.pc = "lint"
        BY <2>1, <3>1, LaneBegins
      <3> QED BY <2>3, <3>2 DEF Apart
    <2> QED BY <2>2, <2>3
  <1>2. lane'.pc # "off" => lane'.run \in Run
    BY TypeStep, OrderStep DEF TypeInv, LaneInside
  <1>3. ASSUME NEW r, r = lane'.run, lane'.pc = "lint", NEW a \in {"first", "second"}
        PROVE  ~Live(<<r, a>>)'
    <2>1. SUFFICES ASSUME Live(<<r, a>>)'  PROVE FALSE
      OBVIOUS
    <2>2. r \in Run
      BY <1>2, <1>3
    <2>3. Live(<<r, a>>)
      BY <1>3, <2>1, <2>2, LaneBegins
    <2>4. CASE lane' = lane
      BY <1>3, <2>3, <2>4 DEF Apart
    <2>5. CASE lane' # lane
      <3>1. r = gate.run /\ At("step") /\ Len(gate.results) = 1
        BY <1>3, <2>5, LaneMoves
      <3>2. LaneBegun
        BY <2>2, <2>3, <3>1 DEF OncePerRun
      <3> QED BY <3>1, <3>2 DEF LaneBegun
    <2> QED BY <2>4, <2>5
  <1>4. ASSUME NEW r, r = lane'.run, lane'.pc = "first"
        PROVE  ~Live(<<r, "second">>)'
    <2>1. SUFFICES ASSUME Live(<<r, "second">>)'  PROVE FALSE
      OBVIOUS
    <2>2. r \in Run
      BY <1>2, <1>4
    <2>3. Live(<<r, "second">>)
      BY <1>4, <2>1, <2>2, LaneBegins
    <2>4. lane.pc \in {"lint", "first"} /\ lane.run = r
      BY <1>4, LaneMoves
    <2> QED BY <2>3, <2>4 DEF Apart
  <1>5. lane'.pc = "lint" => ~Live(<<lane.run, "first">>)' /\ ~Live(<<lane.run, "second">>)'
    BY <1>3 DEF Live
  <1>6. lane'.pc = "first" => ~Live(<<lane.run, "second">>)'
    BY <1>4 DEF Live
  <1> QED BY <1>1, <1>5, <1>6 DEF Apart

------------------------------------------------------------------------------
(* The books and the verdict                                               *)
------------------------------------------------------------------------------

(* What is on disk and on the books, step by step.  Up to the report the   *)
(* gate writes nothing.                                                    *)
LEMMA BooksQuiet ==
  ASSUME TypeInv, Books, UNCHANGED books, gate'.run = gate.run,
         gate.pc \in {"step", "running", "fallbacks"},
         gate'.pc \in {"step", "running", "fallbacks", "write"}
  PROVE  Books'
  BY DEF Books, books, At, GateEnded

(* From then on report, queue, milestone and exit code follow in order.    *)
LEMMA BooksStep ==
  TypeInv /\ Order /\ LaneInside /\ Books /\ [Next]_vars => Books'
  <1> SUFFICES ASSUME TypeInv, Order, LaneInside, Books, [Next]_vars  PROVE Books'
    OBVIOUS
  <1> USE DEF At
  <1>1. /\ gate \in Gate /\ exit \in [Run -> {NotYet, Crashed, 0, 1}] /\ milestones \subseteq Run
        /\ NotOk \in LaneRows /\ lane.row \in LaneRows
    BY DEF TypeInv, LaneRows, Lane
  <1>2. Run \subseteq Nat \ {0} /\ gate.run \in Nat
    BY <1>1, LaneAssumption DEF Gate
  <1>3. gate.pc # "off" => gate.run \in Run
    BY DEF TypeInv
  <1>4. gate'.run = gate.run /\ gate'.results = gate.results /\ summary' = summary => Report' = Report
    BY DEF Report
  <1>5. CASE StartGate
    <2>1. /\ gate'.run = gate.run + 1 /\ gate'.pc = "step" /\ base' = last
          /\ UNCHANGED <<last, queue, milestones, exit>>
      BY <1>5 DEF StartGate
    <2>2. ASSUME NEW r \in Run, r <= gate.run  PROVE r <= gate'.run /\ r # gate'.run
      BY <1>2, <2>1, <2>2
    <2>3. \A r \in milestones : r \in Run /\ r <= gate.run
      BY <1>1 DEF Books
    <2>4. \A r \in Run : exit[r] # NotYet => r <= gate.run
      BY DEF Books
    <2> QED BY <2>1, <2>2, <2>3, <2>4 DEF Books, GateEnded
  <1>6. CASE StartStep
    <2>1. Moves("running") /\ gate.pc = "step" /\ UNCHANGED books
      BY <1>6 DEF StartStep, Moves
    <2> QED BY <2>1, Moved, BooksQuiet
  <1>7. CASE PlainStepEnds \/ LaneEnds \/ LaneTimesOut
    <2>1. At("running") /\ UNCHANGED books
      BY <1>7 DEF PlainStepEnds, LaneEnds, LaneTimesOut, Running
    <2>2. gate'.run = gate.run /\ gate'.pc = "step"
      BY <1>1, <1>7, <2>1, Recorded DEF PlainStepEnds, LaneEnds, LaneTimesOut
    <2> QED BY <2>1, <2>2, BooksQuiet
  <1>8. CASE SmokeEnds \/ SmokeTimesOut
    <2>1. At("running") /\ UNCHANGED books
      BY <1>8 DEF SmokeEnds, SmokeTimesOut, Running
    <2>2. gate'.run = gate.run /\ gate'.pc = "step"
      BY <1>1, <1>8, <2>1, Recorded DEF SmokeEnds, SmokeTimesOut
    <2> QED BY <2>1, <2>2, BooksQuiet
  <1>9. CASE ReadMetrics \/ ReadFallbacks
    <2>1. PICK pc \in {"fallbacks", "write"} : Moves(pc)
      BY <1>9 DEF ReadMetrics, ReadFallbacks, Moves
    <2>2. gate.pc \in {"step", "fallbacks"} /\ UNCHANGED books
      BY <1>9 DEF ReadMetrics, ReadFallbacks
    <2> QED BY <2>1, <2>2, Moved, BooksQuiet
  <1>10. CASE WriteReport
    <2>1. PICK pc \in {"copy", "queue"} : gate' = [gate EXCEPT !.prev = last, !.pc = pc]
      BY <1>10 DEF WriteReport
    <2>2. /\ gate'.run = gate.run /\ gate'.results = gate.results /\ gate'.prev = last
          /\ gate'.pc = pc /\ gate.pc = "write"
      BY <1>1, <1>10, <2>1 DEF Gate, WriteReport
    <2>3. gate'.pc = "queue" => last' = Report
      BY <1>1, <1>10 DEF WriteReport, Gate
    <2>4. gate'.pc = "copy" => last' = last
      BY <1>1, <1>10 DEF WriteReport, Gate
    <2>5. UNCHANGED <<summary, queue, milestones, exit, base>>
      BY <1>10 DEF WriteReport
    <2> QED BY <1>4, <2>2, <2>3, <2>4, <2>5 DEF Books, GateEnded
  <1>11. CASE CopyReport
    <2>1. Moves("queue") /\ last' = Report /\ gate.pc = "copy"
          /\ UNCHANGED <<summary, queue, milestones, exit, base>>
      BY <1>11 DEF CopyReport, Moves
    <2> QED BY <1>4, <2>1, Moved DEF Books, GateEnded
  <1>12. CASE WriteQueue
    <2>1. Moves("finish") /\ queue' = Queue /\ gate.pc = "queue"
          /\ UNCHANGED <<summary, last, milestones, exit, base>>
      BY <1>12 DEF WriteQueue, Moves
    <2>2. queue'.run = gate.run
      BY <2>1 DEF Queue
    <2> QED BY <1>4, <2>1, <2>2, Moved DEF Books, GateEnded
  <1>13. CASE Finish
    <2>1. /\ Moves("off") /\ gate.pc = "finish" /\ milestones' = WithMilestone
          /\ UNCHANGED <<summary, last, queue, base>>
      BY <1>13 DEF Finish, Moves
    <2>2. PICK code \in {0, 1} : exit' = [exit EXCEPT ![gate.run] = code]
      BY <1>13 DEF Finish
    <2>3. /\ gate'.pc = "off" /\ gate'.run = gate.run /\ gate'.opts = gate.opts /\ Report' = Report
          /\ gate.run \in Run
      BY <1>3, <1>4, <2>1, Moved
    <2>4. /\ exit'[gate.run] # NotYet
          /\ \A r \in Run : exit'[r] # NotYet => r <= gate.run
      <3>1. exit'[gate.run] = code /\ code # NotYet
        BY <1>1, <2>2, <2>3 DEF NotYet
      <3>2. ASSUME NEW r \in Run, exit'[r] # NotYet  PROVE r <= gate.run
        <4>1. CASE r = gate.run
          BY <1>2, <4>1
        <4>2. CASE r # gate.run
          BY <1>1, <2>2, <3>2, <4>2 DEF Books
        <4> QED BY <4>1, <4>2
      <3> QED BY <3>1, <3>2
    <2>5. \A r \in milestones' : r <= gate.run
      BY <1>2, <2>1, <2>3 DEF Books, WithMilestone
    <2>6. gate.run \notin milestones
      BY <2>1 DEF Books
    <2>7. gate.run \in milestones' <=> gate.opts.milestones /\ gate.opts.log /\ DidImprove(base, last)
      BY <2>1, <2>6 DEF WithMilestone, Books
    <2>8. last = Report /\ queue.run = gate.run
      BY <2>1 DEF Books
    <2>9. (gate.run \in milestones <=> gate.opts.milestones /\ gate.opts.log /\ DidImprove(base, last))'
      BY <2>1, <2>3, <2>7
    <2> QED BY <2>1, <2>3, <2>4, <2>5, <2>8, <2>9 DEF Books, GateEnded
  <1>14. CASE Interrupted
    <2>1. /\ gate' = [GateIdle EXCEPT !.run = gate.run] /\ gate.pc # "off"
          /\ exit' = [exit EXCEPT ![gate.run] = Crashed]
          /\ base' = base
          /\ milestones' \subseteq milestones \union {gate.run}
      BY <1>14, CutShorter DEF Interrupted
    <2>2. gate'.pc = "off" /\ gate'.run = gate.run /\ gate.run \in Run
      BY <1>3, <2>1 DEF GateIdle
    <2>3. /\ exit'[gate.run] = Crashed
          /\ \A r \in Run : exit'[r] # NotYet => r <= gate.run
      BY <1>1, <1>2, <2>1, <2>2 DEF Books
    <2>4. \A r \in milestones' : r <= gate.run
      BY <1>1, <1>2, <2>1, <2>2 DEF Books
    <2> QED BY <2>1, <2>2, <2>3, <2>4 DEF Books, GateEnded, Crashed, NotYet
  <1>15. CASE UNCHANGED gateVars
    BY <1>15 DEF gateVars, books, Books, GateEnded, Report
  <1> QED BY <1>5, <1>6, <1>7, <1>8, <1>9, <1>10, <1>11, <1>12, <1>13, <1>14, <1>15
          DEF Next, GateStep, vars

(* A shape of the summary: what a flag of the frame ladder holds.          *)
LEMMA FrameFlag ==
  ASSUME NEW rows
  PROVE  Metrics(rows)["video_first_frame_candidate"] \in {0, 1}
  <1>1. "video_first_frame_candidate" \in FrameKeys
    BY DEF FrameKeys
  <1>2. "video_first_frame_candidate" \notin PeakKeys \union LastKeys \union GivenKeys
    BY DEF PeakKeys, ServiceKeys, LastKeys, GivenKeys
  <1>3. \A k : Seen(rows, k) \in {0, 1}
    BY DEF Seen
  <1>4. Metrics(rows)["video_first_frame_candidate"] = Seen(rows, "video_first_frame_candidate")
    BY <1>1, <1>2 DEF Metrics
  <1> QED BY <1>3, <1>4

(* The verdict is that of the rules on what the run has found, and stays so*)
(* to the exit code.                                                       *)
LEMMA VerdictStep ==
  TypeInv /\ Order /\ LaneInside /\ Verdict /\ [Next]_vars => Verdict'
  <1> SUFFICES ASSUME TypeInv, Order, LaneInside, Verdict, [Next]_vars  PROVE Verdict'
    OBVIOUS
  <1> USE DEF At
  <1>1. /\ gate \in Gate /\ exit \in [Run -> {NotYet, Crashed, 0, 1}]
        /\ NotOk \in LaneRows /\ lane.row \in LaneRows
    BY DEF TypeInv, LaneRows, Lane
  <1>2. ASSUME gate'.pc \in {"step", "running"}  PROVE Verdict'
    BY <1>2 DEF Verdict, GateEnded
  <1>3. CASE StartGate \/ StartStep
    <2>1. gate'.pc \in {"step", "running"}
      <3>1. StartGate => gate'.pc = "step"
        BY DEF StartGate
      <3>2. StartStep => Moves("running")
        BY DEF StartStep, Moves
      <3> QED BY <1>3, <3>1, <3>2, Moved
    <2> QED BY <1>2, <2>1
  <1>4. CASE PlainStepEnds \/ LaneEnds \/ LaneTimesOut
    BY <1>1, <1>2, <1>4, Recorded DEF PlainStepEnds, LaneEnds, LaneTimesOut, Running
  <1>5. CASE SmokeEnds \/ SmokeTimesOut
    BY <1>1, <1>2, <1>5, Recorded DEF SmokeEnds, SmokeTimesOut, Running
  <1>6. CASE ReadMetrics
    <2>1. /\ Moves("fallbacks") /\ StepsDone
          /\ summary' = [NoSummary EXCEPT !.m = Metrics(Gathered(gate.results))]
      BY <1>6 DEF ReadMetrics, Moves
    <2>2. summary'.m["video_first_frame_candidate"] \in {0, 1}
      BY <2>1, FrameFlag DEF NoSummary
    <2>3. StepsDone'
      BY <2>1, Moved DEF StepsDone
    <2> QED BY <2>1, <2>2, <2>3, Moved DEF Verdict, GateEnded
  <1>7. CASE ReadFallbacks
    <2>1. Moves("write") /\ gate.pc = "fallbacks"
      BY <1>7 DEF ReadFallbacks, Moves
    <2>2. /\ summary'.m = summary.m
          /\ summary'.rules = Rules(gate.opts, gate.results, summary.m)
      BY <1>7 DEF ReadFallbacks
    <2>3. StepsDone'
      BY <2>1, Moved DEF StepsDone, Verdict
    <2> QED BY <2>1, <2>2, <2>3, Moved DEF Verdict, GateEnded
  <1>8. ASSUME gate.pc \in {"write", "copy", "queue", "finish"},
               gate'.pc \in {"copy", "queue", "finish"},
               gate'.opts = gate.opts, gate'.results = gate.results, summary' = summary
        PROVE  Verdict'
    BY <1>8 DEF Verdict, GateEnded, StepsDone
  <1>9. CASE WriteReport
    <2>1. PICK pc \in {"copy", "queue"} : gate' = [gate EXCEPT !.prev = last, !.pc = pc]
      BY <1>9 DEF WriteReport
    <2>2. gate'.opts = gate.opts /\ gate'.results = gate.results /\ gate'.pc = pc
      BY <1>1, <2>1 DEF Gate
    <2> QED BY <1>8, <1>9, <2>2 DEF WriteReport
  <1>10. CASE CopyReport \/ WriteQueue
    <2>1. PICK pc \in {"queue", "finish"} : Moves(pc)
      BY <1>10 DEF CopyReport, WriteQueue, Moves
    <2> QED BY <1>8, <1>10, <2>1, Moved DEF CopyReport, WriteQueue
  <1>11. CASE Finish
    <2>1. Moves("off") /\ gate.pc = "finish" /\ summary' = summary
      BY <1>11 DEF Finish, Moves
    <2>2. gate'.pc = "off" /\ gate'.run = gate.run /\ gate'.opts = gate.opts
          /\ gate'.results = gate.results /\ gate.run \in Run
      BY <2>1, Moved DEF TypeInv
    <2>3. exit'[gate.run] = 0 =>
            Failed(gate.results) = 0 /\ summary.m["unresolved_imports"] = 0 /\ summary.rules = {}
      BY <1>1, <1>11, <2>2 DEF Finish
    <2>4. /\ summary.rules = Rules(gate.opts, gate.results, summary.m) /\ StepsDone
          /\ summary.m["video_first_frame_candidate"] \in {0, 1}
      BY <2>1 DEF Verdict
    <2>5. StepsDone'
      BY <2>2, <2>4 DEF StepsDone
    <2> QED BY <2>1, <2>2, <2>3, <2>4, <2>5 DEF Verdict
  <1>12. CASE Interrupted
    <2>1. gate'.pc = "off" /\ gate'.run = gate.run /\ gate.run \in Run
      BY <1>12 DEF Interrupted, GateIdle, TypeInv
    <2>2. exit'[gate.run] = Crashed
      BY <1>1, <1>12, <2>1 DEF Interrupted
    <2> QED BY <2>1, <2>2 DEF Verdict, GateEnded, Crashed
  <1>13. CASE UNCHANGED gateVars
    BY <1>13 DEF gateVars, books, Verdict, GateEnded, StepsDone
  <1> QED BY <1>3, <1>4, <1>5, <1>6, <1>7, <1>9, <1>10, <1>11, <1>12, <1>13
          DEF Next, GateStep, vars

------------------------------------------------------------------------------
(* The inductive invariant                                                 *)
------------------------------------------------------------------------------

IInv ==
  /\ TypeInv
  /\ Order
  /\ LaneInside
  /\ Accounted
  /\ OncePerRun
  /\ Apart
  /\ Books
  /\ Verdict

(* It holds at first, every step keeps it, and so it always holds.         *)
LEMMA InitIInv == GateInit => IInv
  <1> SUFFICES ASSUME GateInit  PROVE IInv
    OBVIOUS
  <1> USE DEF GateInit, LaneInit, At
  <1>1. Idle \in Lane /\ Idle.pc = "off"
    BY DEF Idle, Lane, LaneRows, LanePc
  <1>2. /\ GateIdle \in Gate /\ GateIdle.pc = "off" /\ GateIdle.run = 0
        /\ GateIdle.results = << >> /\ GateIdle.opts \in Options
    <2>1. (CHOOSE o \in Options : TRUE) \in Options
      BY GateAssumption
    <2>2. NoReport \in Reports /\ << >> \in Seq(Entry)
      BY DEF Reports
    <2> QED BY <2>1, <2>2 DEF GateIdle, Gate, GatePc
  <1>3. TypeInv
    <2>1. file \in File /\ target \in [Run \X Attempt -> Phase]
      BY DEF NoFile, File, Rows, Phase
    <2>2. last \in Reports /\ base \in Reports /\ milestones \subseteq Run /\ cut \subseteq Run
      BY DEF Reports
    <2>3. exit \in [Run -> {NotYet, Crashed, 0, 1}]
      OBVIOUS
    <2> QED BY <1>1, <1>2, <2>1, <2>2, <2>3 DEF TypeInv
  <1>4. Order /\ LaneInside
    <2>1. Len(Selected(gate.opts)) \in 2 .. 4
      BY <1>2, SelectedSteps
    <2> QED BY <1>1, <1>2, <2>1 DEF Order, LaneInside
  <1>5. \A r \in Run, a \in Attempt : ~Live(<<r, a>>)
    BY DEF Live
  <1>6. Accounted /\ OncePerRun /\ Apart
    BY <1>1, <1>5 DEF Accounted, OncePerRun, Apart, Attempt
  <1>7. Books
    <2>1. 0 \notin Run
      BY LaneAssumption
    <2>2. gate.pc = "off" /\ gate.run = 0 /\ milestones = {} /\ \A r \in Run : exit[r] = NotYet
      BY <1>2
    <2> QED BY <2>1, <2>2 DEF Books, GateEnded
  <1>8. Verdict
    <2>1. 0 \notin Run
      BY LaneAssumption
    <2> QED BY <1>2, <2>1 DEF Verdict, GateEnded
  <1> QED BY <1>3, <1>4, <1>6, <1>7, <1>8 DEF IInv

LEMMA IInvStep == IInv /\ [Next]_vars => IInv'
  BY TypeStep, OrderStep, AccountedStep, OnceStep, ApartStep, BooksStep,
     VerdictStep DEF IInv

LEMMA IInvAlways == Spec => []IInv
  BY InitIInv, IInvStep, PTL DEF Spec

------------------------------------------------------------------------------
(* Theorems                                                                *)
------------------------------------------------------------------------------

(* Every result stands for the step the loop of main had come to, and a run*)
(* has an exit code if and only if its gate is gone.                       *)
THEOREM GateTyped == Spec => []GateTypeOK
  <1>1. IInv => GateTypeOK
    <2> SUFFICES ASSUME IInv  PROVE GateTypeOK
      OBVIOUS
    <2> USE DEF IInv, At
    <2>1. /\ gate \in Gate /\ gate.results \in Seq(Entry) /\ gate.opts \in Options
          /\ gate.run \in Run \union {0} /\ lane.pc \in LanePc
      BY DEF TypeInv, Gate, Lane
    <2>2. gate.run # 0 => (gate.pc = "off" <=> exit[gate.run] # NotYet)
      BY <2>1 DEF Books
    <2>3. [i \in DOMAIN gate.results |-> gate.results[i].step]
            = SubSeq(Selected(gate.opts), 1, Len(gate.results))
      <3> DEFINE n == Len(gate.results)
                 steps == Selected(gate.opts)
      <3>1. n \in Nat /\ DOMAIN gate.results = 1 .. n
        BY <2>1
      <3>2. steps \in Seq(AllSteps) /\ Len(steps) \in Nat
        BY <2>1, SelectedSteps
      <3>3. n <= Len(steps) /\ \A i \in 1 .. n : gate.results[i].step = steps[i]
        BY DEF Order
      <3>4. SubSeq(steps, 1, n) = [i \in 1 .. n |-> steps[i]]
        <4> HIDE DEF n, steps
        <4>1. CASE n = 0
          BY <3>1, <3>2, <4>1
        <4>2. CASE n # 0
          BY <3>1, <3>2, <3>3, <4>2
        <4> QED BY <4>1, <4>2
      <3> QED BY <3>1, <3>3, <3>4
    <2> QED BY <2>1, <2>2, <2>3 DEF GateTypeOK, TypeInv
  <1> QED BY <1>1, IInvAlways, PTL

(* A test process nobody waits for is left over from a run in which the    *)
(* gate killed the lane or the smoke test, or was itself interrupted, and  *)
(* the second attempt of the lane starts over the dead first one.          *)
THEOREM OrphansExplained == Spec => []OrphansOnlyFromKills
  <1>1. IInv => OrphansOnlyFromKills
    BY DEF IInv, OrphansOnlyFromKills, Accounted, Apart
  <1> QED BY <1>1, IInvAlways, PTL

(* A milestone is recorded for the runs that improved on the report found  *)
(* at their start, and for no other, whatever crashed before.              *)
THEOREM MilestonesEarned == Spec => []MilestoneIffImproved
  <1>1. IInv => MilestoneIffImproved
    <2> SUFFICES ASSUME IInv, NEW r \in Run, Over(r), exit[r] \in {0, 1}
                 PROVE  r \in milestones <=>
                          /\ gate.opts.milestones /\ gate.opts.log
                          /\ base.kind = "report" =>
                               \/ last.failed < base.failed
                               \/ last.failed = base.failed /\ base.passed < last.passed
      BY DEF MilestoneIffImproved
    <2>1. r = gate.run /\ GateEnded
      BY DEF Over, GateEnded
    <2>2. /\ last = Report
          /\ r \in milestones <=> gate.opts.milestones /\ gate.opts.log /\ DidImprove(base, last)
      BY <2>1 DEF IInv, Books
    <2>3. base.kind = "report" => base.passed \in Nat
      BY DEF IInv, TypeInv, Reports, NoReport, Torn
    <2>4. last.passed \in Nat
      BY <2>2, Counting DEF IInv, TypeInv, Gate, Report
    <2>5. base.kind = "report" => (last.passed > base.passed <=> base.passed < last.passed)
      BY <2>3, <2>4
    <2> QED BY <2>2, <2>5 DEF DidImprove
  <1> QED BY <1>1, IInvAlways, PTL

(* Exit code 0 stands for what it promises: every selected step passed, the*)
(* rules the options ask for hold of the artifacts, and report and queue on*)
(* disk are this run's, whatever the steps left in the artifact file.      *)
THEOREM GreenEarned == Spec => []GreenIsEarned
  <1>1. ASSUME IInv, NEW r \in Run, Over(r), exit[r] = 0
        PROVE  LET o == gate.opts
                   done == {gate.results[i].step : i \in {j \in DOMAIN gate.results : gate.results[j].ok}}
                   ok == {i \in DOMAIN gate.results : gate.results[i].row.status = "ok"}
                   valid == {i \in ok :
                               LET row == gate.results[i].row
                               IN  ArtifactErrors(Merged(row.read.rows), row.mode) = {}}
                   boundary == {i \in ok :
                                  Get(Merged(gate.results[i].row.read.rows), "boundary_status") = 1}
               IN  /\ AllSteps = done \union (IF o.game THEN {} ELSE {"boot"})
                                      \union (IF o.quick THEN {"suite"} ELSE {})
                   /\ o.x64 => valid # {}
                   /\ o.boundary => boundary # {} \/ summary.m["boundary_status"] = 1
                   /\ o.game => CusaStages.load /\ CusaStages.link
                   /\ o.frame => summary.m["video_first_frame_candidate"] = 1
                   /\ last.kind = "report" /\ last.run = r /\ last.failed = 0 /\ ~last.blocked
                   /\ queue.run = r
    <2> DEFINE o == gate.opts
               results == gate.results
               m == summary.m
    <2> USE <1>1 DEF IInv
    <2>1. r = gate.run /\ GateEnded
      BY DEF Over, GateEnded
    <2>2. /\ StepsDone /\ m["video_first_frame_candidate"] \in {0, 1}
          /\ Failed(results) = 0 /\ m["unresolved_imports"] = 0
          /\ summary.rules = {} /\ Rules(o, results, m) = {}
      BY <2>1 DEF Verdict
    <2>3. results \in Seq(Entry) /\ o \in Options
      BY DEF TypeInv, Gate
    <2>4. /\ Len(results) = Len(Selected(o)) /\ Len(results) \in 2 .. 4
          /\ DOMAIN results = 1 .. Len(results)
          /\ \A i \in 1 .. Len(results) : results[i].ok /\ results[i].step = Selected(o)[i]
      <3>1. Len(results) = Len(Selected(o))
        BY <2>2 DEF StepsDone
      <3> QED BY <2>2, <2>3, <3>1, SelectedSteps, Counting DEF Order
    <2>5. /\ o.x64 => LaneRow(results).status = "ok"
          /\ o.boundary => \/ m["boundary_status"] = 1
                           \/ LaneRow(results).status = "ok" /\ LaneRow(results).first
          /\ o.frame => m["video_first_frame_candidate"] # 0
      BY <2>2 DEF Rules, Holding, FrameKeys
    <2>6. /\ results[2] \in Entry /\ results[2].step = "lane" /\ 2 \in DOMAIN results
          /\ LaneRow(results) = results[2].row
      <3>1. /\ results[2] \in Entry /\ 2 \in DOMAIN results
            /\ {i \in DOMAIN results : results[i].step = "lane"} = {2}
        BY <2>3, <2>4, SelectedSteps
      <3>2. Min({2}) = 2
        BY DEF Min
      <3> QED BY <3>1, <3>2 DEF LaneRow
    <2>7. results[2].row.status = "ok" =>
            /\ ArtifactErrors(Merged(results[2].row.read.rows), results[2].row.mode) = {}
            /\ results[2].row.first => Get(Merged(results[2].row.read.rows), "boundary_status") = 1
      BY <2>6 DEF Entry, LaneRows, NotOk
    <2>8. AllSteps = {results[i].step : i \in {j \in DOMAIN results : results[j].ok}}
                       \union (IF o.game THEN {} ELSE {"boot"})
                       \union (IF o.quick THEN {"suite"} ELSE {})
      <3> DEFINE done == {results[i].step : i \in {j \in DOMAIN results : results[j].ok}}
      <3>1. /\ Len(Selected(o)) \in 2 .. 4 /\ Selected(o) \in Seq(AllSteps)
            /\ Selected(o)[1] = "checks" /\ Selected(o)[2] = "lane"
            /\ o.game => \E i \in 1 .. Len(Selected(o)) : Selected(o)[i] = "boot"
            /\ ~o.quick => \E i \in 1 .. Len(Selected(o)) : Selected(o)[i] = "suite"
        BY <2>3, SelectedSteps
      <3>2. ASSUME NEW i \in 1 .. Len(Selected(o))
            PROVE  Selected(o)[i] \in done /\ Selected(o)[i] \in AllSteps
        <4>1. i \in {j \in DOMAIN results : results[j].ok} /\ results[i].step = Selected(o)[i]
          BY <2>4
        <4>2. results[i].step \in done
          BY <4>1
        <4> QED BY <3>1, <4>1, <4>2, ElementOfSeq
      <3>3. ASSUME NEW s \in done  PROVE s \in AllSteps
        <4>1. PICK i \in DOMAIN results : s = results[i].step
          OBVIOUS
        <4>2. i \in 1 .. Len(Selected(o)) /\ s = Selected(o)[i]
          BY <2>4, <4>1
        <4> QED BY <3>2, <4>2
      <3>4. 1 \in 1 .. Len(Selected(o)) /\ 2 \in 1 .. Len(Selected(o))
        BY <3>1
      <3>5. "checks" \in done /\ "lane" \in done
        BY <3>1, <3>2, <3>4
      <3>6. o.game => "boot" \in done
        BY <3>1, <3>2
      <3>7. ~o.quick => "suite" \in done
        BY <3>1, <3>2
      <3> HIDE DEF done
      <3>8. ASSUME NEW s \in AllSteps
            PROVE  s \in done \union (IF o.game THEN {} ELSE {"boot"})
                             \union (IF o.quick THEN {"suite"} ELSE {})
        <4>1. s \in {"checks", "lane"} => s \in done
          BY <3>5
        <4>2. s = "boot" => s \in done \/ s \in (IF o.game THEN {} ELSE {"boot"})
          BY <3>6
        <4>3. s = "suite" => s \in done \/ s \in (IF o.quick THEN {"suite"} ELSE {})
          BY <3>7
        <4> QED BY <4>1, <4>2, <4>3 DEF AllSteps
      <3>9. /\ (IF o.game THEN {} ELSE {"boot"}) \subseteq AllSteps
            /\ (IF o.quick THEN {"suite"} ELSE {}) \subseteq AllSteps
        BY DEF AllSteps
      <3> DEFINE rest == (IF o.game THEN {} ELSE {"boot"}) \union (IF o.quick THEN {"suite"} ELSE {})
      <3>10. rest \subseteq AllSteps
        BY <3>9
      <3>11. AllSteps \subseteq done \union rest
        BY <3>8
      <3> HIDE DEF rest
      <3>12. AllSteps = done \union rest
        BY <3>3, <3>10, <3>11, Zenon
      <3>13. AllSteps = (done \union (IF o.game THEN {} ELSE {"boot"}))
                          \union (IF o.quick THEN {"suite"} ELSE {})
        <4> HIDE DEF done
        <4> QED BY <3>12, Zenon DEF rest
      <3> QED BY <3>13, Zenon DEF done
    <2>9. o.game => CusaStages.load /\ CusaStages.link
      <3>1. ASSUME o.game  PROVE StepPassed(results, "boot")
        <4>1. PICK i \in 1 .. Len(Selected(o)) : Selected(o)[i] = "boot"
          BY <2>3, <3>1, SelectedSteps
        <4>2. i \in DOMAIN results /\ results[i].step = "boot" /\ results[i].ok
          BY <2>4, <4>1
        <4> QED BY <4>2 DEF StepPassed
      <3>2. /\ CusaStages.load = StepPassed(results, "boot")
            /\ CusaStages.link = (StepPassed(results, "boot") /\ m["unresolved_imports"] = 0)
        BY Zenon DEF CusaStages, Stages
      <3>3. m["unresolved_imports"] = 0
        BY <2>2
      <3> QED BY <3>1, <3>2, <3>3, Zenon
    <2>10. last.kind = "report" /\ last.run = r /\ last.failed = 0 /\ ~last.blocked /\ queue.run = r
      <3>1. last = Report /\ queue.run = r
        BY <2>1 DEF Books
      <3>2. /\ Report.kind = "report" /\ Report.run = gate.run /\ Report.failed = Failed(gate.results)
            /\ Report.blocked = (summary.rules # {})
        BY Zenon DEF Report
      <3>3. Failed(gate.results) = 0 /\ summary.rules = {}
        BY <2>2
      <3>4. Report.run = r /\ Report.failed = 0
        BY <2>1, <3>2, <3>3, Zenon
      <3>5. ~Report.blocked
        BY <3>2, <3>3, Zenon
      <3> QED BY <3>1, <3>2, <3>4, <3>5, Zenon
    <2> QED BY <2>2, <2>5, <2>6, <2>7, <2>8, <2>9, <2>10
  <1>2. IInv => GreenIsEarned
    BY <1>1 DEF GreenIsEarned
  <1> QED BY <1>2, IInvAlways, PTL

==============================================================================
