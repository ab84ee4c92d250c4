------------------------------- MODULE MCPiRpc --------------------------------
(***************************************************************************)
(* Model-checking instances of PiRpc.                                      *)
(***************************************************************************)
EXTENDS PiRpc, TLC

\* Commands differ by nothing but their ids.
Symmetry == Permutations(Commands)
===============================================================================
