---------------------------- MODULE MCHeapProfiler ----------------------------
\* Two threads and two addresses: what one frees the other reuses.
EXTENDS HeapProfiler, TLC

Perms == Permutations(Threads) \cup Permutations(Ptrs)
=============================================================================
