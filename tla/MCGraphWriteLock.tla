-------------------------- MODULE MCGraphWriteLock --------------------------
\* Instances of GraphWriteLock for TLC: the processes are model values and
\* may be permuted.
EXTENDS GraphWriteLock, TLC

ProcPermutations == Permutations(Proc)
=============================================================================
