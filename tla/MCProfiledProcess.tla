--------------------------- MODULE MCProfiledProcess ---------------------------
\* Two threads, one of which a fork leaves behind, and two addresses.
EXTENDS ProfiledProcess
=============================================================================
