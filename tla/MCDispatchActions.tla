--------------------------- MODULE MCDispatchActions --------------------------
\* A small instance of DispatchActions for TLC.
EXTENDS DispatchActions

CONSTANTS b1, s1, w1, w2

WorkerSymmetry == Permutations(Workers)
=============================================================================
