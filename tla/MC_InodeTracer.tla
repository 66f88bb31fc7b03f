-------------------------- MODULE MC_InodeTracer --------------------------
(***************************************************************************)
(* Model-checking instance of the walk: a chain of two inodes under the   *)
(* root, two cache entries (so the chain does not fit and ancestors are   *)
(* evicted), a one-slot trace buffer (so it is full after one event).     *)
(***************************************************************************)
EXTENDS InodeTracer

\* 3 -> 2 -> 1, the root 1 being its own parent.
MCParent == [o \in 1..3 |-> IF o = 1 THEN 1 ELSE o - 1]

=============================================================================
