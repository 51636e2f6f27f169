-------------------------- MODULE MCSemaphoreSystem --------------------------
EXTENDS SemaphoreSystemInv, TLC

WorkerSymmetry == Permutations(Workers)
=============================================================================
