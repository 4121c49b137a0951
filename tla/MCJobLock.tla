------------------------------ MODULE MCJobLock ------------------------------
EXTENDS JobLock, TLC

CONSTANTS i1, i2, i3

\* The clock of i2 runs one tick ahead, that of i3 two.
MCSkew == i1 :> 0 @@ i2 :> 1 @@ i3 :> 2

MCSymmetry == Permutations(Kind)
=============================================================================
