----------------------------- MODULE MCMerchantMenu -----------------------------
EXTENDS MerchantMenu, TLC
CONSTANTS e1, c1, c2, c3, b1, b2, u1, u2
MCMembers == b1 :> {u1} @@ b2 :> {u2}
MCPrices == {-1, 2}
MCSymmetry == Permutations(Calls \ Earlier)
===============================================================================
