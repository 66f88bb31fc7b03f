---------------------------- MODULE InodeCacheLru ----------------------------
(***************************************************************************)
(* The arena of InodeCache seen as the LRU cache of spec section 4.1      *)
(* (LruCache): the refinement mapping lists the mapped entries in        *)
(* lru_list order.  They are a prefix of the list, because free entries   *)
(* stay behind mapped ones (FreeSuffix).                                  *)
(***************************************************************************)
EXTENDS InodeCache

\* The entry at place i of lru_list: the inverse of the permutation pos.
At(i) == CHOOSE x \in Entries : pos[x] = i

\* The number of mapped entries: the mapped ones are lru_list's first LruLen.
LruLen == CHOOSE k \in 0..N : hashed = {e \in Entries : pos[e] <= k}

\* The abstract cache: the (identity, ctime) of the mapped entries, head first.
LruOrder == [i \in 1..LruLen |-> <<key[At(i)], ctm[At(i)]>>]

Abstract == INSTANCE LruCache WITH Capacity <- N, order <- LruOrder

(***************************************************************************)
(* The arena with its lists implements the LRU cache of section 4.1:      *)
(* every lookup, removal and eviction of _lookup and _map is a step of    *)
(* the abstract cache on the mapped entries in lru_list order.            *)
(***************************************************************************)
LruRefinement == Abstract!Spec

=============================================================================
