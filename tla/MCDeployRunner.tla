--------------------------- MODULE MCDeployRunner ---------------------------
(* Instances of DeployRunner for TLC: one or two calls, one deploy of each   *)
(* kind (unknown, local only, open to MCP), one valid and one invalid pin.   *)
EXTENDS DeployRunner, TLC

Symmetry == Permutations(Calls)
=============================================================================
