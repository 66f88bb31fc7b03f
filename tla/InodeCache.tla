----------------------------- MODULE InodeCache -----------------------------
(***************************************************************************)
(* The per-CPU inode identity cache of trace_inode.c: a fixed arena of     *)
(* CACHE_SIZE entries threaded on one LRU list, the hashed (mapped) ones   *)
(* also on a hash chain.  Free and mapped entries share the LRU list and   *)
(* the victim of every insertion is the LRU tail (_get_entry).            *)
(*                                                                         *)
(* The LRU list is represented by the position of each entry in it:       *)
(* pos[e] = 1 is the head (most recently used, list_add), pos[e] = N the   *)
(* tail (list_last_entry, list_add_tail).  An identity (device_id,         *)
(* inode_id) is one value of Ids; a ctime (tv_sec, tv_nsec) one value of   *)
(* Ctimes.  The arena is vzalloc'ed, so an entry that was never mapped     *)
(* holds identity 0 and ctime 0.                                           *)
(***************************************************************************)
EXTENDS Naturals

CONSTANTS
    N,          \* CACHE_SIZE, the number of entries of the arena
    Ids,        \* identities (device_id, inode_id) of inodes
    Ctimes      \* values of an inode's i_ctime

ASSUME NAssumption == N \in Nat \ {0}
ASSUME IdsAssumption == Ids \subseteq Nat \ {0}
ASSUME CtimesAssumption == Ctimes \subseteq Nat \ {0}

VARIABLES
    pos,        \* pos[e]: place of entry e on lru_list, 1 = head
    hashed,     \* the entries linked on a hash chain (mapped)
    key,        \* key[e]: entry->inode_id and entry->device_id
    ctm         \* ctm[e]: entry->ctime

cacheVars == <<pos, hashed, key, ctm>>

Entries == 1..N

CacheTypeOK ==
    /\ pos \in [Entries -> Entries]
    /\ \A e, f \in Entries : pos[e] = pos[f] => e = f
    /\ \A i \in Entries : \E e \in Entries : pos[e] = i
    /\ hashed \subseteq Entries
    /\ key \in [Entries -> Ids \cup {0}]
    /\ ctm \in [Entries -> Ctimes \cup {0}]

\* Mutant: the initialisation loop numbers positions from 0.
CacheInitFromZero ==
    /\ pos = [e \in Entries |-> N - e]
    /\ hashed = {}
    /\ key = [e \in Entries |-> 0]
    /\ ctm = [e \in Entries |-> 0]

(***************************************************************************)
(* iotrace_create_inode_tracer: every entry is list_add'ed to the head in *)
(* index order, so the last entry ends at the head; no entry is hashed.    *)
(***************************************************************************)
CacheInit ==
    /\ pos = [e \in Entries |-> N + 1 - e]
    /\ hashed = {}
    /\ key = [e \in Entries |-> 0]
    /\ ctm = [e \in Entries |-> 0]

(***************************************************************************)
(* list_del followed by list_add: e moves to the head, the entries that    *)
(* were before it move one place back.                                     *)
(***************************************************************************)
ToHead(e) ==
    [x \in Entries |-> IF x = e THEN 1
                       ELSE IF pos[x] < pos[e] THEN pos[x] + 1 ELSE pos[x]]

(***************************************************************************)
(* list_del followed by list_add_tail: e moves to the tail, the entries    *)
(* that were behind it move one place forward.                             *)
(***************************************************************************)
ToTail(e) ==
    [x \in Entries |-> IF x = e THEN N
                       ELSE IF pos[x] > pos[e] THEN pos[x] - 1 ELSE pos[x]]

\* list_last_entry(&lru_list): the victim of the next insertion.
LruTail == CHOOSE e \in Entries : pos[e] = N

\* The entries hash_for_each_possible_safe visits that carry identity id.
Matches(id) == {e \in hashed : key[e] = id}

\* Mutant: _remove_entry puts the stale entry at the head (list_add).
LookupStaleToHead(id, c) ==
    \E e \in Matches(id) :
        /\ ctm[e] # c
        /\ pos' = ToHead(e)
        /\ hashed' = hashed \ {e}
        /\ UNCHANGED <<key, ctm>>

\* Mutant: the inode is mapped without the scan of its bucket.
LookupMissNoScan(id) == TRUE

(***************************************************************************)
(* _lookup, the hit: a candidate with the same identity and the same      *)
(* ctime is made hot (_set_hot) and returned.                              *)
(***************************************************************************)
LookupHit(id, c) ==
    \E e \in Matches(id) :
        /\ ctm[e] = c
        /\ pos' = ToHead(e)
        /\ UNCHANGED <<hashed, key, ctm>>

(***************************************************************************)
(* _lookup, one stale candidate: same identity, other ctime, so the inode *)
(* number was reused; _remove_entry unhashes it and puts it at the tail,  *)
(* and the scan goes on.                                                   *)
(***************************************************************************)
LookupStale(id, c) ==
    \E e \in Matches(id) :
        /\ ctm[e] # c
        /\ pos' = ToTail(e)
        /\ hashed' = hashed \ {e}
        /\ UNCHANGED <<key, ctm>>

\* _lookup returns NULL: the scan found no candidate with identity id left.
LookupMiss(id) == Matches(id) = {}

\* Mutant: _get_entry takes list_first_entry, the most recently used entry.
MapTakeHead(id, c) ==
    LET v == CHOOSE e \in Entries : pos[e] = 1
    IN /\ pos' = ToHead(v)
       /\ hashed' = hashed \cup {v}
       /\ key' = [key EXCEPT ![v] = id]
       /\ ctm' = [ctm EXCEPT ![v] = c]

(***************************************************************************)
(* _map: _get_entry takes the LRU tail whatever it holds, unlinks it from *)
(* the list and from its hash chain, then the entry is filled, list_add'ed *)
(* to the head and hash_add'ed.                                            *)
(***************************************************************************)
Map(id, c) ==
    /\ pos' = ToHead(LruTail)
    /\ hashed' = hashed \cup {LruTail}
    /\ key' = [key EXCEPT ![LruTail] = id]
    /\ ctm' = [ctm EXCEPT ![LruTail] = c]

(***************************************************************************)
(* The cache as iotrace_trace_inode uses it: a lookup runs its scan, and  *)
(* an insertion only follows a lookup of the same inode that missed.       *)
(***************************************************************************)
CacheNext ==
    \E id \in Ids, c \in Ctimes :
        \/ LookupHit(id, c)
        \/ LookupStale(id, c)
        \/ LookupMiss(id) /\ Map(id, c)

CacheSpec == CacheInit /\ [][CacheNext]_cacheVars

-----------------------------------------------------------------------------
(***************************************************************************)
(* No two mapped entries carry the same identity.  _lookup stops at the   *)
(* first candidate whose ctime matches, so a second mapping of the same    *)
(* inode behind it would never be found nor removed and a reuse of the    *)
(* number could hit the wrong one; it relies on every stale candidate of  *)
(* a missed lookup being unhashed before _map inserts the new one.        *)
(***************************************************************************)
UniqueKey ==
    \A e, f \in hashed : key[e] = key[f] => e = f

(***************************************************************************)
(* Every mapped entry is nearer the head of lru_list than every free one. *)
(* _get_entry evicts the tail blindly, so this is what makes an insertion *)
(* take a free entry while there is one, and evict a live mapping only    *)
(* when all CACHE_SIZE entries are mapped; it depends on _remove_entry    *)
(* using list_add_tail and on hits and insertions going to the head.      *)
(***************************************************************************)
FreeSuffix ==
    \A e \in hashed, f \in Entries \ hashed : pos[e] < pos[f]

=============================================================================
