----------------------------- MODULE MC_MarkAdd -----------------------------
(***************************************************************************)
(* Three CPUs on two inodes, so that two calls race on one inode while a  *)
(* third finds the mark or marks the other inode, and as many mark        *)
(* objects as CPUs and inodes together, the most that can be allocated    *)
(* at once.  CPUs and inodes are interchangeable.                         *)
(***************************************************************************)
EXTENDS MarkAdd, TLC

MCSymmetry == Permutations(Cpus) \cup Permutations(Inodes)

=============================================================================
