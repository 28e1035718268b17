--------------------------- MODULE MCSideEffects ---------------------------
EXTENDS SideEffects, TLC

CONSTANTS echo, navigate, k1, k2

TwoCalls == {echo, navigate}
OneCall == {echo}
Browsing == {navigate}
Nothing == {}
TwoPayments == {k1, k2}
OneEach == k1 :> 1 @@ k2 :> 1
Symmetry == Permutations(TwoPayments)
=============================================================================
