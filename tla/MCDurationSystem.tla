--------------------------- MODULE MCDurationSystem ---------------------------
EXTENDS DurationSystemInv, TLC

WorkerSymmetry == Permutations(Workers)
=============================================================================
