---------------------------- MODULE MCTokenVerifier ----------------------------
(* The instance of TokenVerifier for TLC: calls and keys are               *)
(* interchangeable.                                                        *)
EXTENDS TokenVerifier, TLC

VerifierSymmetry == Permutations(Calls) \cup Permutations(Keys)
===============================================================================
