----------------------------- MODULE MCPortTools -----------------------------
(* The anchors, the comparisons of boots and the validation suite, which   *)
(* never run together: one of them is chosen in the beginning, the others  *)
(* rest.                                                                   *)
EXTENDS PortAnchors, BootTrace, PortSuite

VARIABLE tool

Init ==
  /\ tool \in {"anchors", "trace", "suite"}
  /\ AnchorInit /\ BootInit /\ SuiteInit
  /\ tool # "trace" => boot = CHOOSE b \in Boots : TRUE
  /\ tool # "suite" => tree = CHOOSE t \in Trees : TRUE

Next ==
  /\ UNCHANGED tool
  /\ \/ tool = "anchors" /\ AnchorNext /\ UNCHANGED <<bootVars, suiteVars>>
     \/ tool = "trace" /\ BootNext /\ UNCHANGED <<anchorVars, suiteVars>>
     \/ tool = "suite" /\ SuiteNext /\ UNCHANGED <<anchorVars, bootVars>>

Spec == Init /\ [][Next]_<<tool, anchorVars, bootVars, suiteVars>>

------------------------------------------------------------------------------
(* PortAnchors: two HLE functions that one of two files defines, and a     *)
(* third symbol.                                                           *)

Place(s, body) == [symbol |-> s, defines |-> TRUE, brace |-> "closed",
                   body |-> body, rest |-> Nothing, tail |-> Nothing]
MCUpstream == [p |-> <<Place("sceA", "x"), Place("sceB", "x")>>, q |-> << >>]

(* Definitions, declarations, the call in `if (f(x)) {`, a definition with *)
(* a return type above, and two with a brace in a string.                  *)
Declared(s) == [Place(s, "x") EXCEPT !.defines = FALSE, !.brace = "none"]
Tested(s) == [Place(s, "y") EXCEPT !.defines = FALSE]
Headed(s, head) == [Place(s, "x") EXCEPT !.rest = head]
Opened(s) == [Place(s, "x") EXCEPT !.brace = "open"]
Spilled(s) == [Place(s, "x") EXCEPT !.tail = "y"]

Odd == {Tested("sceA"), Headed("sceA", "x"), Opened("sceA"), Spilled("sceA")}
MCCpp == {Place(s, c) : s \in Symbol, c \in Content} \union {Declared("sceA")} \union Odd

------------------------------------------------------------------------------
(* BootTrace: a boot with module starts and one without.  Of the variants  *)
(* of an event some are another base, directory, page or stale register,   *)
(* and no divergence.                                                      *)

Name(dir, stem, ext) == [dir |-> dir, stem |-> stem, ext |-> ext]
Eboot == [kind |-> "module", name |-> Name("", "eboot", ".bin"), base |-> 1, size |-> 4]
Libc == [kind |-> "module", name |-> Name("/app0/", "libc", ".prx"), base |-> 2, size |-> 2]
Import == [kind |-> "resolve", nid |-> 1, resolved |-> 1, stub |-> FALSE]
Unresolved == [kind |-> "resolve", nid |-> 2, resolved |-> 0, stub |-> FALSE]
Entry == [kind |-> "entry", addr |-> 32]
Start == [kind |-> "modstart", module |-> Name("/app0/", "libc", ".prx"), phase |-> "fallback",
          entry |-> 16]
Helper == [kind |-> "hle", module |-> "libkernel", symbol |-> "unknown", return |-> 4, rdi |-> 0]
Lock == [kind |-> "hle", module |-> "libkernel", symbol |-> "lock", return |-> 4,
         rdi |-> PointerThreshold + 8, rsi |-> 0]
Open == [kind |-> "hle", module |-> "libkernel", symbol |-> "open", return |-> 5,
         rdi |-> 3, rsi |-> 5]

MCBoots == {<<Eboot, Libc, Import, Unresolved, Helper, Start, Entry, Lock, Helper, Open>>,
            <<Eboot, Import, Helper, Entry, Lock, Open>>}

MCVariants ==
  [e \in {Eboot, Libc, Import, Unresolved, Entry, Start, Lock, Open} |->
     CASE e = Eboot -> {[e EXCEPT !.base = 3]}
       [] e = Libc -> {[e EXCEPT !.size = 3], [e EXCEPT !.name.dir = ""]}
       [] e = Import -> {[e EXCEPT !.resolved = 0], [e EXCEPT !.stub = TRUE]}
       [] e = Unresolved -> {[e EXCEPT !.resolved = 1, !.stub = TRUE]}
       [] e = Entry -> {[e EXCEPT !.addr = 48]}
       [] e = Start -> {[e EXCEPT !.phase = "begin"],
                        [e EXCEPT !.module = Name("", "libc", "")],
                        [e EXCEPT !.module.ext = ".sprx"]}
       [] e = Lock -> {[e EXCEPT !.rdi = @ + PageSize, !.rsi = 7], [e EXCEPT !.rdi = @ + 8]}
       [] e = Open -> {[e EXCEPT !.rsi = 6], [e EXCEPT !.symbol = "close"],
                       [e EXCEPT !.return = 6]}]

------------------------------------------------------------------------------
(* PortSuite: a port in order; one that lacks a system function and lowers *)
(* to something else; one with an untested pass, an emitter that does      *)
(* nothing, a ledger entry, a required target and the compiler missing.    *)

Function(c, e, t) == [cpp |-> c, elisa |-> e, needs |-> {}, tested |-> t, file |-> "backend/spirv"]
Ledger(entries) == {[required |-> {"f"}, entries |-> entries]}
Ported5 ==
  [system |-> {Function({"error", "more"}, {"error", "store"}, TRUE),
               Function({"stubbed log", "return ok"}, {"more"}, FALSE)},
   imgui |-> {[Function({"host", "more"}, {"host", "end"}, FALSE) EXCEPT !.needs = {"end"}],
              Function({"state"}, {"null check"}, TRUE)},
   passes |-> {Function({"walker"}, {"walker"}, TRUE), Function({"assert"}, {"mutates"}, TRUE)},
   ir |-> {Function({"more"}, {"emits"}, FALSE), Function({"more"}, {"discards"}, FALSE)},
   spirv |-> {Function({"more"}, NotPorted, FALSE)}]
Finished ==
  [functions |-> [m \in Matrices |-> Ported5[m]],
   buckets |-> {"HOST_BACKED"},
   ledger |-> Ledger(<<[symbol |-> "f", status |-> "Native-Elisa", has |-> {"tests"}]>>),
   targets |-> Required \union Discovered,
   compiler |-> TRUE,
   emits |-> [f \in Lowered |-> "old"]]

MCTrees ==
  {Finished,
   [Finished EXCEPT !.functions["system"] = {Function({"state"}, NotPorted, FALSE)},
                    !.functions["ir"] = {Function({"more"}, {"emits", "opcode"}, FALSE)},
                    !.emits["pad"] = "new"],
   [Finished EXCEPT !.functions["passes"] = {Function({"assert"}, {"mutates"}, FALSE)},
                    !.functions["ir"] = {Function({"more"}, {"return empty", "discards"}, FALSE)},
                    !.functions["imgui"] = {Function({"host"}, {"null check"}, TRUE)},
                    !.targets = Discovered, !.ledger = Ledger(<< >>), !.compiler = FALSE]}

All == [bridges |-> TRUE, ledger |-> TRUE, targets |-> TRUE, lowering |-> TRUE, drift |-> TRUE]
MCSwitches == {All, [All EXCEPT !.bridges = FALSE, !.targets = FALSE, !.drift = FALSE],
               [All EXCEPT !.ledger = FALSE, !.lowering = FALSE]}
==============================================================================
