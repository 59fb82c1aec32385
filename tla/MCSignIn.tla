------------------------------- MODULE MCSignIn -------------------------------
EXTENDS SignIn, TLC
CONSTANTS e1, c1, c2, c3, u1, u2, k1, k2
MCHandle == k1 :> u1 @@ k2 :> u2
CallSymmetry == Permutations(Calls \ Earlier)
===============================================================================
