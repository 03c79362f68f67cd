---------------------------- MODULE MCLiveSettings ----------------------------
(***************************************************************************)
(* LiveSettings on a small instance: a server whose tools need approval,   *)
(* and unknown ones are let through, as the default mode does; one tool    *)
(* has a rule of its own, and the server is in the YAML file, too.         *)
(***************************************************************************)
EXTENDS LiveSettings, TLC

MCToolsOf == [v \in Versions |-> IF v = "v1" THEN {"read", "write"} ELSE {"read", "exec"}]
MCYamlServers == [s \in Servers |-> [command |-> "v1", enabled |-> "unsaid"]]
MCToolRules == ("read" :> "allow")
MCMcpRules == [s \in Servers |-> [default |-> "require_approval", unknown_tool_mode |-> "audit"]]
MCGlobalRule == [default |-> "allow", unknown_tool_mode |-> "audit"]

Symmetry == Permutations(Puts) \cup Permutations(Patches) \cup Permutations(Turns)
=============================================================================
