--------------------------- MODULE MC_InodeCache ---------------------------
(***************************************************************************)
(* Model-checking instance of the identity cache: a 3-entry arena, four   *)
(* identities (more than fit, so evictions happen) and two ctimes (so a    *)
(* cached identity can turn stale).  The refinement mapping to LruCache   *)
(* is InodeCacheLru's.                                                     *)
(***************************************************************************)
EXTENDS InodeCacheLru

=============================================================================
