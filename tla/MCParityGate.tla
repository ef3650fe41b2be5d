---------------------------- MODULE MCParityGate ----------------------------
EXTENDS ParityGate, MCX64Lane

MCPrinted == {<<[audio_input_attempted |-> 1]>>}

(* A ported unit, one next to a bridge, one by hand, and somebody else's.  *)
MCTree == [cpp |-> {<<"core", "linker">>, <<"core", "tls">>, <<"imgui", "layer">>, <<"externals", "zlib">>},
           elisa |-> {<<"core", "linker">>},
           bridges |-> {<<"core", "abi_bridge">>},
           overrides |-> [u \in {<<"imgui", "layer">>} |-> "Temporary-Cpp-Bridge"]]

Plain == [game |-> TRUE, quick |-> FALSE, failfast |-> FALSE, x64 |-> FALSE, boundary |-> FALSE,
          services |-> FALSE, frame |-> FALSE, aside |-> FALSE, milestones |-> TRUE,
          log |-> TRUE, tree |-> MCTree, ledger |-> {[status |-> "Native-Elisa", tested |-> TRUE]}]
MCOptions ==
  {[Plain EXCEPT !.x64 = TRUE, !.boundary = TRUE, !.failfast = TRUE, !.services = TRUE],
   [Plain EXCEPT !.game = FALSE, !.quick = TRUE, !.aside = TRUE, !.frame = TRUE]}
==============================================================================
