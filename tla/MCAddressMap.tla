----------------------------- MODULE MCAddressMap -----------------------------
(***************************************************************************)
(* Blocks of two addresses and clusters of two blocks.  The keys make one  *)
(* block shared, one that is not the first of its cluster, and, under      *)
(* MCHashInt, two clusters in one chain, with a cluster-sized gap between  *)
(* them.                                                                   *)
(***************************************************************************)
EXTENDS AddressMap

MCHashInt(id) == (id * 3) % 2

\* Values as the sizes of ranges of addresses.
Size(v) == v
=============================================================================
