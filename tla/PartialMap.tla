------------------------------ MODULE PartialMap ------------------------------
(***************************************************************************)
(* What addressmap.h promises of an AddressMap: a partial function.        *)
(***************************************************************************)
CONSTANTS Keys, Values, NoValue

VARIABLES
  map,    \* the value each key has, or NoValue
  ret     \* what the last call returned, NoValue when it returns nothing

mvars == <<map, ret>>

MInit ==
  /\ map = [k \in Keys |-> NoValue]
  /\ ret = NoValue

MInsert(k, v) ==
  /\ map' = [map EXCEPT ![k] = v]
  /\ ret' = NoValue

MFindAndRemove(k) ==
  /\ map' = [map EXCEPT ![k] = NoValue]
  /\ ret' = map[k]

MReset ==
  /\ map' = [k \in Keys |-> NoValue]
  /\ ret' = NoValue

MNext ==
  \/ \E k \in Keys : MFindAndRemove(k) \/ \E v \in Values : MInsert(k, v)
  \/ MReset

MSpec == MInit /\ [][MNext]_mvars
=============================================================================
