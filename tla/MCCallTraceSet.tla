---------------------------- MODULE MCCallTraceSet ----------------------------
\* Three string objects and two contents: two objects can say the same, and
\* the third is there to reuse.
EXTENDS CallTraceSet, TLC

Perms == Permutations(Strings)
=============================================================================
