---------------------------- MODULE MCMallocPatch ----------------------------
\* Two threads, one of which may start and stop twice between the other's calls.
EXTENDS MallocPatch
=============================================================================
