------------------------------ MODULE MCX64Lane ------------------------------
EXTENDS X64Lane, TLC

Loaded == [module_count |-> 7, entry |-> 1, main_entry |-> 1, handoff_word |-> 1,
           handoff_entry_in_exec |-> 1, supported_native_execution |-> 1]
MCLoadRows == <<Loaded, [execution_stage |-> 3]>>

(* The guest got to its first HLE call, opened its services, drew a frame. *)
Booted == <<Loaded @@ [boundary_status |-> 1, execution_stage |-> 5, boundary_reason |-> 1,
                       first_boundary_reached |-> 1, hle |-> 1],
            [k \in FrameKeys |-> 1], [k \in ServiceKeys \ {"audio_input_attempted"} |-> 1]>>
(* An import was left to the stub library, another to nobody.              *)
Stuck == <<Loaded @@ [unresolved_imports |-> 1, aerolib_fallback |-> 1, execution_stage |-> 2],
           [nid |-> 3, resolution |-> 3, fallback_import |-> 1]>>
MCOutcome == {Booted, Stuck}
MCHost == {"rosetta", "rosetta-unavailable"}
==============================================================================
