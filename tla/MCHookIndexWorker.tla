------------------------- MODULE MCHookIndexWorker -------------------------
\* Instances of HookIndexWorker for TLC: workers are model values and may be
\* permuted among those of their kind.
EXTENDS HookIndexWorker, TLC

WorkerPermutations == Permutations(IndexWorkers) \cup Permutations(EmbedWorkers)
=============================================================================
