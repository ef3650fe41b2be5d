--------------------------- MODULE ParityMatrices ---------------------------
(***************************************************************************)
(* The parity matrices: five scripts, named ..._parity_matrix.py, that give*)
(* every C++ function of a part of the reference a status, and their gates,*)
(* named ..._parity_matrix_check.py.  A function is a record:              *)
(*   cpp     marks its script looks for in the C++ body ("more": any other *)
(*           statement), or of its name ("walker"),                        *)
(*   elisa   marks of the Elisa function of that name, or NotPorted,       *)
(*   needs   marks the Elisa body is required to have,                     *)
(*   tested  whether a test file names it,                                 *)
(*   file    the C++ file it is from.                                      *)
(***************************************************************************)
EXTENDS Naturals, FiniteSets

NotPorted == {"not ported"}

Exercised == {"HOST_BACKED", "STATEFUL", "ERROR_GUARDED"}

------------------------------------------------------------------------------
(* system_parity_matrix.py; the first mark that is found decides.          *)
------------------------------------------------------------------------------

SystemCpp(marks) ==
  IF marks = {"return ok"} THEN "STUBBED_ORBIS_OK"
  ELSE IF "host" \in marks THEN "HOST_BACKED"
  ELSE IF {"stubbed log", "return ok"} \subseteq marks THEN "STUBBED_ORBIS_OK"
  ELSE IF "state" \in marks THEN "STATEFUL"
  ELSE IF "error" \in marks THEN "ERROR_GUARDED" ELSE "OTHER"

SystemElisa(marks) ==
  IF "host" \in marks THEN "HOST_BACKED"
  ELSE IF "store" \in marks THEN "STATEFUL"
  ELSE IF "error" \in marks THEN "ERROR_GUARDED"
  ELSE IF "state" \in marks THEN "STATEFUL"
  ELSE IF marks = {"return ok"} THEN "STUBBED_ORBIS_OK" ELSE "OTHER"

(* status_for *)
SystemStatus(f) ==
  LET c == SystemCpp(f.cpp)
      e == SystemElisa(f.elisa)
      guarded == {"ERROR_GUARDED", "STATEFUL"}
      alike == \/ c = e
               \/ c = "STUBBED_ORBIS_OK" /\ e = "OTHER"
               \/ c \in guarded /\ e \in guarded
               \/ e = "HOST_BACKED" /\ c \in guarded
  IN  CASE ~alike -> "MISMATCH_BEHAVIOR"
        [] alike /\ c # "STUBBED_ORBIS_OK" /\ ~f.tested -> "UNTESTED_BEHAVIOR"
        [] OTHER -> "MATCHED"

------------------------------------------------------------------------------
(* imgui_big_picture_parity_matrix.py                                      *)
------------------------------------------------------------------------------

ImguiCpp(marks) ==
  IF "return ok" \in marks THEN "STUBBED_ORBIS_OK"
  ELSE IF "host" \in marks THEN "HOST_BACKED"
  ELSE IF "return bool" \in marks THEN "OTHER"
  ELSE IF "null check" \in marks THEN "ERROR_GUARDED"
  ELSE IF "state" \in marks THEN "STATEFUL" ELSE "OTHER"

ImguiElisa(marks) ==
  IF "host" \in marks THEN "HOST_BACKED"
  ELSE IF "return ok" \in marks THEN "STUBBED_ORBIS_OK"
  ELSE IF "store" \in marks THEN "STATEFUL"
  ELSE IF "null check" \in marks THEN "ERROR_GUARDED" ELSE "OTHER"

(* status_for.  buckets: behaviours of which any test file shows a sign;   *)
(* one is enough for every function that behaves so.                       *)
ImguiStatus(f, buckets) ==
  LET c == ImguiCpp(f.cpp)
      e == ImguiElisa(f.elisa)
      alike == \/ c = e
               \/ c \in Exercised \union {"OTHER"} /\ e \in {"STATEFUL", "HOST_BACKED"}
               \/ c = "STATEFUL" /\ e = "ERROR_GUARDED"
               \/ c = "STUBBED_ORBIS_OK" /\ e = "OTHER"
  IN  CASE ~alike \/ ~(f.needs \subseteq f.elisa) -> "MISMATCH_BEHAVIOR"
        [] alike /\ f.needs \subseteq f.elisa /\ c \in Exercised \ buckets /\ ~f.tested ->
             "UNTESTED_BEHAVIOR"
        [] OTHER -> "MATCHED"

------------------------------------------------------------------------------
(* shader_recompiler_ir_passes_parity_matrix.py                            *)
------------------------------------------------------------------------------

PassCpp(marks) ==
  IF "walker" \in marks THEN "HOST_BACKED"
  ELSE IF "plain return" \in marks THEN "OTHER"
  ELSE IF "host" \in marks THEN "HOST_BACKED"
  ELSE IF "mutates" \in marks THEN "STATEFUL"
  ELSE IF "assert" \in marks THEN "ERROR_GUARDED"
  ELSE IF "loop" \in marks THEN "STATEFUL" ELSE "OTHER"

PassElisa(marks) ==
  IF "walker" \in marks THEN "HOST_BACKED"
  ELSE IF "mutates" \in marks THEN "STATEFUL"
  ELSE IF "early return" \in marks THEN "ERROR_GUARDED" ELSE "OTHER"

(* status_for *)
PassStatus(f) ==
  LET c == PassCpp(f.cpp)
      e == PassElisa(f.elisa)
      alike == \/ c = e
               \/ c \in {"STATEFUL", "OTHER"} /\ e = "ERROR_GUARDED"
               \/ c = "ERROR_GUARDED" /\ e = "STATEFUL"
  IN  CASE ~alike -> "MISMATCH_BEHAVIOR"
        [] alike /\ c \in Exercised /\ ~f.tested -> "UNTESTED_BEHAVIOR"
        [] OTHER -> "MATCHED"

------------------------------------------------------------------------------
(* shader_recompiler_backend_spirv_parity_matrix.py: a function that is not*)
(* ported is covered by the host's emitter, file by file.                  *)
------------------------------------------------------------------------------

HostCovered == {"backend/spirv", "recompiler"}

(* coverage_for *)
SpirvStatus(f) ==
  IF f.elisa # NotPorted \/ f.file \in HostCovered THEN "MATCHED" ELSE "MISSING_COVERAGE"

------------------------------------------------------------------------------
(* generate and the gates                                                  *)
------------------------------------------------------------------------------

(* The IR core matrix ("ir") asks only whether a function is there.        *)
MatrixStatus(m, f, buckets) ==
  CASE m = "spirv" -> SpirvStatus(f)
    [] m # "spirv" /\ f.elisa = NotPorted -> "MISSING_IN_ELISA"
    [] m = "ir" /\ f.elisa # NotPorted -> "MATCHED"
    [] m = "system" /\ f.elisa # NotPorted -> SystemStatus(f)
    [] m = "imgui" /\ f.elisa # NotPorted -> ImguiStatus(f, buckets)
    [] m = "passes" /\ f.elisa # NotPorted -> PassStatus(f)

(* generate: one entry for each function of the part.                      *)
Matrix(m, functions, buckets) == [f \in functions |-> MatrixStatus(m, f, buckets)]

AllMatched(table) == \A f \in DOMAIN table : table[f] = "MATCHED"

(* emitter_behavior_audit: an emitter that drops its arguments and returns *)
(* the empty value.                                                        *)
Placeholder(f) == {"return empty", "discards"} \subseteq f.elisa /\ "emits" \notin f.elisa

(* ... and one in which C++ was left behind by the generation (OPCODE::).  *)
Remnant(f) == "opcode" \in f.elisa

(* The gate reads the table; that of the IR core reads the port as well.   *)
GateOk(m, table, functions) ==
  /\ AllMatched(table)
  /\ m = "ir" => \A f \in functions : ~Placeholder(f) /\ ~Remnant(f)

==============================================================================
