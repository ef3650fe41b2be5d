------------------------------ MODULE PortSuite ------------------------------
(***************************************************************************)
(* The validation suite of the port, check_elisa_port.py: it runs checkers *)
(* one after the other and goes on behind a failed one.  Generators write  *)
(* parity matrices for the gates behind them to read; the lowering writes  *)
(* its output over the checked-in file, which the suite puts back.  A run  *)
(* may be killed anywhere; developers change the port between the runs.    *)
(***************************************************************************)
EXTENDS PortLedger, ParityMatrices

CONSTANTS
    SuiteRun,   \* the runs, one after the other
    Switches,   \* command lines
    Trees,      \* states of the port
    Matrices,   \* the behaviour matrices
    Lowered,    \* checked-in *.lowered.elisa files whose source exists
    Required,   \* REQUIRED_VERIFICATION_TARGETS
    Discovered  \* DISCOVERABLE_VERIFICATION_TARGETS

MatrixNames == {"system", "imgui", "passes", "ir", "spirv"}

ASSUME SuiteAssumption ==
  /\ SuiteRun \subseteq Nat \ {0}
  /\ Switches # {}
  /\ \A o \in Switches : \A k \in {"bridges", "ledger", "targets", "lowering", "drift"} :
       o[k] \in BOOLEAN
  /\ Matrices \subseteq MatrixNames
  /\ IsFiniteSet(Lowered) /\ IsFiniteSet(Required) /\ IsFiniteSet(Discovered)
  /\ \A t \in Trees : t.emits = [f \in Lowered |-> t.emits[f]] /\ t.compiler \in BOOLEAN

VARIABLES
    tree,       \* the port
    matrix,     \* the JSON file of each matrix, and the run that wrote it
    lowered,    \* the lowered files
    suite,      \* the running suite; after its end, what it ended with
    code,       \* exit code of the last run
    start,      \* history: the lowered files when the suite started
    passed      \* history: the steps of the run that passed

suiteVars == <<tree, matrix, lowered, suite, code, start, passed>>

NotEnded == -1
Killed == -2
NoFile == [kind |-> "none"]

SuiteIdle == [run |-> 0, pc |-> "off", ok |-> TRUE, opts |-> CHOOSE o \in Switches : TRUE,
              todo |-> << >>, before |-> "none", stepOk |-> TRUE]

SuiteInit ==
  /\ tree \in Trees
  /\ matrix = [m \in Matrices |-> NoFile]
  /\ lowered = tree.emits
  /\ suite = SuiteIdle
  /\ code = NotEnded
  /\ start = lowered
  /\ passed = {}

------------------------------------------------------------------------------
(* The steps a command line selects                                        *)
------------------------------------------------------------------------------

(* A step is its name and what it is about.                                *)
Single(name) == << <<name, "-">> >>
Each(name, set) == LET order == SetToSeq(set)
                   IN  [i \in 1..Cardinality(set) |-> <<name, order[i]>>]

(* Every matrix is generated just before its gate.                         *)
GenerateAndGate ==
  LET order == SetToSeq(Matrices)
  IN  [i \in 1..(2 * Cardinality(Matrices)) |->
         <<IF i % 2 = 1 THEN "generate" ELSE "gate", order[(i + 1) \div 2]>>]

Ledgers == Single("ledger") \o Single("abi") \o GenerateAndGate

(* run_verification_targets: targets the project does not have are not run,*)
(* the summary counts the required ones among them as a failure.           *)
Targets == Each("target", (Required \union Discovered) \intersect tree.targets) \o Single("summary")

Lowering == Single("compiler") \o (IF tree.compiler THEN Each("lower", Lowered) ELSE << >>)

Selected(o) == (IF o.bridges THEN Single("bridges") ELSE << >>)
               \o (IF o.ledger THEN Ledgers ELSE << >>)
               \o (IF o.targets THEN Targets ELSE << >>)
               \o (IF o.lowering THEN Lowering ELSE << >>)

------------------------------------------------------------------------------
(* One run                                                                 *)
------------------------------------------------------------------------------

Off == suite.pc = "off"
Due(name) == suite.pc = "step" /\ suite.todo # << >> /\ suite.todo[1][1] = name
Subject == suite.todo[1][2]

StartSuite == \E r \in SuiteRun, o \in Switches :
  /\ Off
  /\ r = suite.run + 1
  /\ suite' = [SuiteIdle EXCEPT !.run = r, !.pc = "step", !.opts = o, !.todo = Selected(o)]
  /\ code' = NotEnded
  /\ start' = lowered
  /\ passed' = {}
  /\ UNCHANGED <<tree, matrix, lowered>>

MutAlso(ok) == ok    \* mutant: ok = run_step(...), without "and ok"

(* ok = run_step(...) and ok: the step is always run.                      *)
Also(ok) == ok /\ suite.ok

Done(ok) ==
  /\ suite' = [suite EXCEPT !.pc = "step", !.ok = Also(ok), !.todo = Tail(@)]
  /\ passed' = IF ok THEN passed \union {suite.todo[1]} ELSE passed
  /\ UNCHANGED <<tree, code, start>>

(* Bridge syntax, ABI guard and the tests of a target read what no other   *)
(* step has written.                                                       *)
Checker ==
  /\ Due("bridges") \/ Due("abi") \/ Due("target")
  /\ \E ok \in BOOLEAN : Done(ok)
  /\ UNCHANGED <<matrix, lowered>>

CheckLedger ==
  /\ Due("ledger")
  /\ Done(LedgerInOrder(tree.ledger))
  /\ UNCHANGED <<matrix, lowered>>

(* A generator may fail before it writes; the file of an earlier run stays.*)
Generate ==
  /\ Due("generate")
  /\ \/ /\ matrix' = [matrix EXCEPT ![Subject] =
                        [kind |-> "matrix", by |-> suite.run,
                         table |-> Matrix(Subject, tree.functions[Subject], tree.buckets)]]
        /\ Done(TRUE)
     \/ /\ UNCHANGED matrix
        /\ Done(FALSE)
  /\ UNCHANGED lowered

Gate ==
  /\ Due("gate")
  /\ LET file == matrix[Subject]
     IN  Done(file.kind = "matrix" /\ GateOk(Subject, file.table, tree.functions[Subject]))
  /\ UNCHANGED <<matrix, lowered>>

TargetSummary ==
  /\ Due("summary")
  /\ Done(Required \subseteq tree.targets)
  /\ UNCHANGED <<matrix, lowered>>

FindCompiler ==
  /\ Due("compiler")
  /\ Done(tree.compiler)
  /\ UNCHANGED <<matrix, lowered>>

(* run_elisa_lowering: the file is read, go run writes over it (or fails,  *)
(* before or after), ...                                                   *)
Lower ==
  /\ Due("lower")
  /\ \E emitted, ok \in BOOLEAN :
       /\ ok => emitted
       /\ lowered' = IF emitted THEN [lowered EXCEPT ![Subject] = tree.emits[Subject]] ELSE lowered
       /\ suite' = [suite EXCEPT !.pc = "compare", !.before = lowered[Subject], !.stepOk = ok]
  /\ UNCHANGED <<tree, matrix, code, start, passed>>

(* ... and what was read is written back, drift or no drift.               *)
PutBack ==
  /\ suite.pc = "compare"
  /\ lowered' = [lowered EXCEPT ![Subject] = suite.before]
  /\ Done(suite.stepOk /\ (suite.opts.drift => lowered[Subject] = suite.before))
  /\ UNCHANGED matrix

EndSuite ==
  /\ suite.pc = "step"
  /\ suite.todo = << >>
  /\ suite' = [suite EXCEPT !.pc = "off"]
  /\ code' = IF suite.ok THEN 0 ELSE 1
  /\ UNCHANGED <<tree, matrix, lowered, start, passed>>

(* A matrix or a lowered file that is being written is cut short.          *)
Interrupt ==
  /\ ~Off
  /\ suite' = [SuiteIdle EXCEPT !.run = suite.run]
  /\ code' = Killed
  /\ matrix' \in {matrix} \union
       (IF Due("generate") THEN {[matrix EXCEPT ![Subject] = [kind |-> "torn"]]} ELSE {})
  /\ lowered' \in {lowered} \union
       (IF Due("lower") \/ suite.pc = "compare"
          THEN {[lowered EXCEPT ![Subject] = "torn"]} ELSE {})
  /\ UNCHANGED <<tree, start, passed>>

(* The developers change the port, and may check in its lowered files.     *)
PortChanges == \E t \in Trees, checkIn \in BOOLEAN :
  /\ Off
  /\ suite.run # 0
  /\ code # NotEnded
  /\ tree' = t
  /\ lowered' = IF checkIn THEN t.emits ELSE lowered
  /\ code' = NotEnded
  /\ UNCHANGED <<matrix, suite, start, passed>>

SuiteNext ==
  \/ StartSuite
  \/ Checker \/ CheckLedger \/ Generate \/ Gate \/ TargetSummary \/ FindCompiler
  \/ Lower \/ PutBack
  \/ EndSuite
  \/ Interrupt
  \/ PortChanges

SuiteSpec == SuiteInit /\ [][SuiteNext]_suiteVars

------------------------------------------------------------------------------
(* Properties                                                              *)
------------------------------------------------------------------------------

(* A function is ported as its matrix means it.  The emitter is covered by *)
(* its file, ported or not; an IR function must do something; of the others*)
(* those that do more than answer are tested, or, in the user interface,   *)
(* behave as something tested does.  What only answers: a system function  *)
(* that logs itself as a stub and returns OK, whatever it tests before; a  *)
(* pass that returns and has neither a block nor an assignment; a function *)
(* of the user interface that returns OK.                                  *)
Ported(m, f) ==
  /\ m # "spirv" => f.elisa # NotPorted
  /\ m = "spirv" => f.elisa # NotPorted \/ f.file \in {"backend/spirv", "recompiler"}
  /\ m = "ir" =>
       /\ "emits" \in f.elisa \/ "discards" \notin f.elisa \/ "return empty" \notin f.elisa
       /\ "opcode" \notin f.elisa
  /\ /\ m = "system"
     /\ \/ "host" \in f.cpp
        \/ {"error", "state"} \intersect f.cpp # {} /\ ~({"stubbed log", "return ok"} \subseteq f.cpp)
     => f.tested
  /\ /\ m = "passes"
     /\ \/ "walker" \in f.cpp
        \/ {"host", "mutates", "assert", "loop"} \intersect f.cpp # {} /\ "plain return" \notin f.cpp
     => f.tested
  /\ m = "imgui" /\ "host" \in f.cpp /\ "return ok" \notin f.cpp =>
       f.tested \/ "HOST_BACKED" \in tree.buckets

(* Generated by this run, and of functions that are ported.                *)
MatricesCurrent == \A m \in Matrices :
  /\ matrix[m].by = suite.run
  /\ \A f \in tree.functions[m] : Ported(m, f)

LedgerComplete == \A t \in tree.ledger : \A s \in t.required :
  \E i \in DOMAIN t.entries : t.entries[i].symbol = s

NoDrift == \A f \in Lowered :
  /\ <<"lower", f>> \in passed
  /\ suite.opts.drift => start[f] = tree.emits[f]

(* A suite that ends leaves the lowered files as it found them (the write  *)
(* back in run_elisa_lowering).  And if it ends with 0 (main), everything  *)
(* selected was looked at in this run and as the port is now: no matrix of *)
(* an earlier run, no required target that is missing, no failed step      *)
(* forgotten behind a later one, no drift that was asked about.            *)
SuiteGreenIsCurrent ==
  /\ code \in {0, 1} => lowered = start
  /\ code = 0 =>
       /\ suite.opts.bridges => <<"bridges", "-">> \in passed
       /\ suite.opts.ledger => MatricesCurrent /\ LedgerComplete
       /\ suite.opts.targets => \A t \in Required : <<"target", t>> \in passed
       /\ suite.opts.lowering => NoDrift

==============================================================================
