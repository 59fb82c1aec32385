------------------------------- MODULE MCSignUp -------------------------------
(* SignUp for TLC. *)
EXTENDS SignUp, TLC

SignUpSymmetry == Permutations(Requests) \cup Permutations(Challenges) \cup Permutations(Emails)
=============================================================================
