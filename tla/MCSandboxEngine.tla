--------------------------- MODULE MCSandboxEngine ---------------------------
(***************************************************************************)
(* An instance of SandboxEngine: local storage behind a gateway, whose     *)
(* worker may survive its termination.                                     *)
(***************************************************************************)
EXTENDS SandboxEngine

Survivor == {[storage |-> "local", desktop |-> FALSE, gpu |-> FALSE, net |-> TRUE,
              broker |-> FALSE,
              calls |-> {"create", "start", "stop"}, faults |-> 3,
              fail |-> {"crash", "term"}]}
==============================================================================
