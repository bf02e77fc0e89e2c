-------------------------- MODULE MCFunctionPulse --------------------------
(* Small instance of FunctionPulse for TLC: two requests may share a key,  *)
(* and the registry is full before the last key is seen.                   *)
EXTENDS FunctionPulse, TLC

Symmetry == Permutations(Requests)
=============================================================================
