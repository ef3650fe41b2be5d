---------------------------- MODULE CusaArtifacts ----------------------------
(***************************************************************************)
(* What emulator_cusa07399_x64_exec.py (the lane) and                      *)
(* emulator_cpp_parity_gate.py (the gate) conclude from the facts a boot   *)
(* of CUSA07399 leaves behind.  A row of the artifact file is a function   *)
(* from the keys it has to integers; a key a row lacks reads as 0 (to_int).*)
(* Words are numbers here: boundary_reason 1 is "native-hle", hle tells    *)
(* whether a last or run-time HLE symbol was recorded, handoff_word        *)
(* whether either word of the entry is non-zero, services and shader_path  *)
(* stand for the alternatives the code joins.  Registers, stack words and  *)
(* names that are only reported are left out.                              *)
(***************************************************************************)
EXTENDS Integers, Sequences, FiniteSets, FiniteSetsExt, SequencesExt

CapturedFault == -10    \* boundary_status of a captured crash
BoundaryTimeout == -3   \* boundary_status of a guarded run that timed out

Get(row, k) == IF k \in DOMAIN row THEN row[k] ELSE 0

Holding(names) == {n \in DOMAIN names : names[n]}

------------------------------------------------------------------------------
(* The lane: one dictionary, the last line that has a key wins.            *)
------------------------------------------------------------------------------

Merged(rows) ==
  [k \in UNION {DOMAIN rows[i] : i \in DOMAIN rows} |->
     rows[Max({i \in DOMAIN rows : k \in DOMAIN rows[i]})][k]]

(* validate_artifacts: everything that speaks against the run.             *)
ArtifactErrors(a, mode) ==
  LET status == Get(a, "boundary_status")
      stage == Get(a, "execution_stage")
      fault == status = CapturedFault
      accepted == \/ status \in 1..4
                  \/ fault /\ stage >= 6 /\ Get(a, "last_signal") # 0
                  \/ status = BoundaryTimeout /\ stage >= 4
  IN  Holding([unresolved_imports |-> Get(a, "unresolved_imports") # 0,
               aerolib_fallbacks |-> Get(a, "aerolib_fallback") # 0,
               unsupported_native_exec |-> Get(a, "supported_native_execution") # 1,
               probe_only |-> Get(a, "probe_only") # 0,
               missing_entry |-> Get(a, "entry") = 0 \/ Get(a, "main_entry") = 0,
               zero_entry_bytes |-> Get(a, "handoff_word") = 0,
               entry_outside_exec_segment |-> Get(a, "handoff_entry_in_exec") # 1,
               bad_boundary_status |-> ~accepted,
               missing_crash_pc |-> /\ fault
                                    /\ Get(a, "last_pc") = 0
                                    /\ Get(a, "signal_pc_valid") = 0,
               missing_true_signal_pc |-> /\ fault
                                          /\ Get(a, "signal_pc") = 0
                                          /\ Get(a, "signal_pc_valid") = 0
                                          /\ mode # "rosetta",
               missing_fallback_pc |-> /\ fault
                                       /\ Get(a, "pc_was_fallback") # 0
                                       /\ Get(a, "fallback_pc") = 0,
               missing_crash_sp |-> fault /\ Get(a, "last_sp") = 0,
               stage_before_guarded_entry |-> stage < 4])

(* first_boundary_reached: the guest called its first native HLE function. *)
FirstBoundaryOk(a) ==
  /\ Get(a, "first_boundary_reached") = 1
  /\ Get(a, "boundary_status") = 1
  /\ Get(a, "execution_stage") >= 5
  /\ Get(a, "boundary_reason") = 1
  /\ Get(a, "hle") = 1

------------------------------------------------------------------------------
(* The gate: a summary of all rows, each key by its own rule.              *)
------------------------------------------------------------------------------

FrameKeys == {"video_opened", "video_buffers_registered", "video_flip_submitted",
              "video_flip_completed", "video_first_frame_candidate",
              "shader_translate_attempted", "shader_path"}
ServiceKeys == {"user_service_initialized", "pad_initialized", "pad_open_attempted",
                "pad_read_attempted", "audio_output_attempted", "audio_input_attempted"}
LastKeys == {"boundary_status"}
GivenKeys == {"boundary_reason"}
PeakKeys == ServiceKeys \union
            {"module_count", "unresolved_imports", "aerolib_fallback", "execution_stage",
             "probe_only", "entry_reached", "first_boundary_reached"}

(* The largest value a row gives, the default 0 counting too.              *)
Peak(rows, k) == Max({0} \union {Get(rows[i], k) : i \in DOMAIN rows})

(* set_last_int: the last value, but a zero replaces nothing.              *)
LastNonZero(rows, k) ==
  LET given == {i \in DOMAIN rows : Get(rows[i], k) # 0}
  IN  IF given = {} THEN 0 ELSE rows[Max(given)][k]

LastGiven(rows, k) ==
  LET given == {i \in DOMAIN rows : k \in DOMAIN rows[i]}
  IN  IF given = {} THEN 0 ELSE rows[Max(given)][k]

Seen(rows, k) == IF \E i \in DOMAIN rows : Get(rows[i], k) > 0 THEN 1 ELSE 0

(* parse_cusa_metrics *)
Metrics(rows) ==
  [k \in PeakKeys \union LastKeys \union GivenKeys \union FrameKeys |->
     CASE k \in PeakKeys -> Peak(rows, k)
       [] k \in LastKeys -> LastNonZero(rows, k)
       [] k \in GivenKeys -> LastGiven(rows, k)
       [] k \in FrameKeys -> Seen(rows, k)]

(* fallback_symbols: imports left to the stub library, counted by symbol.  *)
FallbackRows(rows) ==
  {i \in DOMAIN rows : Get(rows[i], "resolution") = 3 /\ Get(rows[i], "fallback_import") = 1}

FallbackCounts(rows) ==
  [n \in {Get(rows[i], "nid") : i \in FallbackRows(rows)} |->
     Cardinality({i \in FallbackRows(rows) : Get(rows[i], "nid") = n})]

(* boundary_probe_observed *)
BoundaryProbed(m) ==
  \/ m["boundary_status"] # 0
  \/ m["first_boundary_reached"] # 0
  \/ m["boundary_reason"] # 0
  \/ m["probe_only"] = 1 /\ m["entry_reached"] = 1

(* cusa_stage_summary: how far the boot came, and the ladder to a frame.   *)
Stages(m, loaded, handedOff) ==
  [load |-> loaded,
   link |-> loaded /\ m["unresolved_imports"] = 0,
   handoff |-> handedOff,
   boundary |-> BoundaryProbed(m),
   frame |-> /\ m["boundary_status"] # 0
             /\ m["execution_stage"] >= 4
             /\ \A k \in FrameKeys : m[k] = 1,
   ladder |-> {k \in FrameKeys \ {"shader_translate_attempted", "shader_path"} : m[k] = 1}
              \union (IF m["video_buffers_registered"] = 1 THEN {"video_opened"} ELSE {})]

==============================================================================
