---------------------------- MODULE MCHeapSnapshot ----------------------------
\* Two addresses: one that a block leaves and one of the reader's takes over,
\* and one that stays.
EXTENDS HeapSnapshot, TLC

Perms == Permutations(Ptrs) \cup Permutations(Stacks)
=============================================================================
