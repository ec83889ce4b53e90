----------------------------- MODULE TracedMemory -----------------------------
(***************************************************************************)
(* What the heap profiler promises about the memory it traces, as seen     *)
(* through get_traced_memory(): a block enters the traced set only while   *)
(* it is not in it, leaves it at most once, the current figure moves by    *)
(* exactly the block's size each time, and the peak is the highest current *)
(* figure since the last clear.                                            *)
(***************************************************************************)
EXTENDS Integers

CONSTANTS Ptrs, Sizes, Untraced

VARIABLES
  blocks,    \* the size each address is traced with, or Untraced
  current,   \* get_traced_memory()[0]
  peak       \* get_traced_memory()[1]

tvars == <<blocks, current, peak>>

TInit ==
  /\ blocks = [p \in Ptrs |-> Untraced]
  /\ current = 0 /\ peak = 0

Trace(p, s) ==
  /\ blocks[p] = Untraced
  /\ blocks' = [blocks EXCEPT ![p] = s]
  /\ current' = current + s
  /\ peak' = IF current + s > peak THEN current + s ELSE peak

Untrace(p) ==
  /\ blocks[p] # Untraced
  /\ blocks' = [blocks EXCEPT ![p] = Untraced]
  /\ current' = current - blocks[p]
  /\ UNCHANGED peak

Clear ==
  /\ blocks' = [p \in Ptrs |-> Untraced]
  /\ current' = 0 /\ peak' = 0

TNext ==
  \/ \E p \in Ptrs : Untrace(p) \/ \E s \in Sizes : Trace(p, s)
  \/ Clear

TSpec == TInit /\ [][TNext]_tvars
=============================================================================
