---------------------------- MODULE MC_CountLock ----------------------------
\* Instances of CountLock: three processes for safety, which are alike.
EXTENDS CountLock, TLC

CONSTANTS p1, p2, p3

TwoProcs == {p1, p2}
ThreeProcs == {p1, p2, p3}
Alike == Permutations(ThreeProcs)
=============================================================================
