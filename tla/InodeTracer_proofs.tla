------------------------- MODULE InodeTracer_proofs -------------------------
(***************************************************************************)
(* Proofs about the walk of iotrace_trace_inode beside the rest of the    *)
(* kernel, for every cache size, identity set, parent function, clock     *)
(* bound and buffer size: the walk's state keeps its types, the cache its *)
(* invariant, and every cached inode's parent directory stays marked.     *)
(***************************************************************************)
EXTENDS InodeTracer, InodeCacheLru_proofs

(***************************************************************************)
(* Between the missed lookup and _map no mapping of this_inode is hashed: *)
(* only the walk touches its CPU's cache, so the scan's result still      *)
(* holds when _map inserts.                                               *)
(***************************************************************************)
MissPending == pc \in {"emit", "map"} => Matches(cur) = {}

\* Between the missed lookup and _map, the parent directory is marked.
MarkPending == HasMonitor /\ pc \in {"emit", "map"} => Parent[cur] \in marks

\* A hashed entry carries the identity of an inode, never the arena's 0.
HashedKeys == \A e \in hashed : key[e] \in Ids

TInv == /\ TypeOK /\ CacheInv /\ HashedKeys /\ MissPending /\ MarkPending
        /\ WatchCoverage

-----------------------------------------------------------------------------
(***************************************************************************)
(* An inode number that can be freed (a leaf other than the root) is no   *)
(* inode's parent, so freeing it destroys no mark the walk relies on.     *)
(***************************************************************************)
LEMMA LeafIsNoParent ==
    ASSUME NEW o \in Objs, o # Root, Children(o) = {}, NEW x \in Ids
    PROVE  Parent[x] # o
BY RootAssumption, ParentAssumption DEF Children, Objs

(***************************************************************************)
(* Every step of the walk and of the environment is a step of the cache  *)
(* specification or leaves the cache alone: a hit and a stale removal are *)
(* _lookup's, and _map follows a lookup that missed (MissPending).        *)
(***************************************************************************)
LEMMA WalkCacheStep == TInv /\ [Next]_vars => [CacheNext]_cacheVars
<1> SUFFICES ASSUME TInv, [Next]_vars PROVE [CacheNext]_cacheVars
  OBVIOUS
<1>0. cur \in Ids /\ ctime[cur] \in Ctimes
  BY DEF TInv, TypeOK, Objs
<1>1. CASE WalkHit
  BY <1>0, <1>1 DEF WalkHit, CacheNext
<1>2. CASE WalkStale
  BY <1>0, <1>2 DEF WalkStale, CacheNext
<1>3. CASE WalkMap
  BY <1>0, <1>3 DEF WalkMap, CacheNext, TInv, MissPending, LookupMiss
<1>4. CASE \E o \in Objs : Start(o) \/ Touch(o) \/ Reuse(o)
  BY <1>4 DEF Start, Touch, Reuse, cacheVars
<1>5. CASE WalkMiss \/ WalkEmit \/ Drain
  BY <1>5 DEF WalkMiss, WalkEmit, Drain, cacheVars
<1>6. CASE UNCHANGED vars
  BY <1>6 DEF vars, cacheVars
<1>. QED
  BY <1>1, <1>2, <1>3, <1>4, <1>5, <1>6 DEF Next, WalkStep

\* The conjuncts of TInv beside the cache's, for a step that keeps CacheInv.
Rest == TypeOK /\ HashedKeys /\ MissPending /\ MarkPending /\ WatchCoverage

\* d_find_alias succeeds: a walk begins, touching neither cache nor marks.
LEMMA StartTInv ==
    ASSUME TInv, NEW o \in Objs, Start(o)
    PROVE  Rest'
<1>1. UNCHANGED <<pos, hashed, key, ctm, ctime, clock, room, names, marks>>
      /\ pc' = "lookup" /\ cur' = o /\ failed' = {}
  BY DEF Start, cacheVars, envVars
<1>. QED
  BY <1>1 DEF TInv, Rest, TypeOK, CacheTypeOK, HashedKeys, MissPending,
              MarkPending, WatchCoverage

\* A hit moves the entry to the head and ends the walk.
LEMMA HitTInv ==
    ASSUME TInv, CacheInv', WalkHit
    PROVE  Rest'
<1>1. UNCHANGED <<hashed, key, ctm, cur, failed, ctime, clock, room, names,
                  marks>> /\ pc' = "idle"
  BY DEF WalkHit, LookupHit, envVars
<1>. QED
  BY <1>1 DEF TInv, Rest, TypeOK, CacheInv, HashedKeys, MissPending,
              MarkPending, WatchCoverage

\* A stale candidate is unhashed; the scan goes on.
LEMMA StaleTInv ==
    ASSUME TInv, CacheInv', WalkStale
    PROVE  Rest'
<1>1. /\ hashed' \subseteq hashed
      /\ UNCHANGED <<key, ctm, pc, cur, failed, ctime, clock, room, names, marks>>
      /\ pc = "lookup"
  BY DEF WalkStale, LookupStale, walkVars, envVars
<1>. QED
  BY <1>1 DEF TInv, Rest, TypeOK, CacheInv, HashedKeys, MissPending,
              MarkPending, WatchCoverage

\* The miss marks the parent directory; the scan found no mapping of cur.
LEMMA MissTInv ==
    ASSUME TInv, WalkMiss
    PROVE  Rest'
<1>1. /\ UNCHANGED <<pos, hashed, key, ctm, cur, failed, ctime, clock, room,
                     names>>
      /\ pc' = "emit" /\ Matches(cur) = {}
      /\ marks' = IF HasMonitor THEN marks \cup {Parent[cur]} ELSE marks
  BY DEF WalkMiss, LookupMiss, AddMark, cacheVars, envVars
<1>2. Parent[cur] \in Objs
  BY ParentAssumption DEF TInv, TypeOK, Objs
<1>3. Matches(cur)' = Matches(cur)
  BY <1>1 DEF Matches
<1>. QED
  BY <1>1, <1>2, <1>3 DEF TInv, Rest, TypeOK, CacheTypeOK, HashedKeys,
                          MissPending, MarkPending, WatchCoverage

\* _trace_filename commits the naming event or fails and moves up.
LEMMA EmitTInv ==
    ASSUME TInv, WalkEmit
    PROVE  Rest'
<1>0. /\ UNCHANGED <<pos, hashed, key, ctm, ctime, clock, marks>>
      /\ pc = "emit"
      /\ TypeOK /\ HashedKeys /\ MissPending /\ MarkPending /\ WatchCoverage
  BY DEF WalkEmit, TInv, cacheVars, envVars
<1>1. CASE room > 0 /\ room' = room - 1 /\ names' = names \cup {NameEvent(cur)}
           /\ pc' = "map" /\ UNCHANGED <<cur, failed>>
  <2>1. NameEvent(cur) \in NameRecord
    BY <1>0, ParentAssumption DEF TypeOK, NameEvent, NameRecord, Objs
  <2>2. room' \in 0..SinkSize
    BY <1>0, <1>1, SinkAssumption DEF TypeOK
  <2>3. Matches(cur)' = Matches(cur)
    BY <1>0, <1>1 DEF Matches
  <2>. QED
    BY <1>0, <1>1, <2>1, <2>2, <2>3
       DEF Rest, TypeOK, CacheTypeOK, HashedKeys, MissPending, MarkPending,
           WatchCoverage
<1>2. CASE room = 0 /\ failed' = failed \cup {cur} /\ cur' = Parent[cur]
           /\ pc' = "lookup" /\ UNCHANGED <<room, names>>
  <2>1. Parent[cur] \in Objs
    BY <1>0, ParentAssumption DEF TypeOK, Objs
  <2>. QED
    BY <1>0, <1>2, <2>1
       DEF Rest, TypeOK, CacheTypeOK, HashedKeys, MissPending, MarkPending,
           WatchCoverage
<1>. QED
  BY <1>1, <1>2 DEF WalkEmit

(***************************************************************************)
(* _map caches this_inode in the LRU tail: the scan missed, so no second  *)
(* mapping of it appears, and its parent was marked by the miss.          *)
(***************************************************************************)
LEMMA MapTInv ==
    ASSUME TInv, CacheInv', WalkMap
    PROVE  Rest'
<1>0. /\ TypeOK /\ HashedKeys /\ MarkPending /\ WatchCoverage /\ CacheInv
      /\ pc = "map" /\ pc' = "lookup" /\ cur' = Parent[cur]
      /\ UNCHANGED <<failed, ctime, clock, room, names, marks>>
      /\ hashed' = hashed \cup {LruTail}
      /\ key' = [key EXCEPT ![LruTail] = cur]
  BY DEF TInv, WalkMap, Map, envVars
<1>1. LruTail \in Entries
  BY <1>0, TypeIsPerm, TailAtEnd DEF CacheInv
<1>2. cur \in Ids /\ Parent[cur] \in Ids
  BY <1>0, ParentAssumption DEF TypeOK, Objs
<1>3. HashedKeys'
  BY <1>0, <1>1, <1>2 DEF HashedKeys, CacheInv, CacheTypeOK
<1>4. WatchCoverage'
  <2>1. HasMonitor => Parent[cur] \in marks
    BY <1>0 DEF MarkPending
  <2>. QED
    BY <2>1, <1>0, <1>1 DEF WatchCoverage, CacheInv, CacheTypeOK
<1>5. TypeOK'
  BY <1>0, <1>2 DEF TypeOK, CacheInv, Objs
<1>. QED
  BY <1>0, <1>3, <1>4, <1>5 DEF Rest, MissPending, MarkPending

\* Another CPU's metadata change moves one inode's ctime forward.
LEMMA TouchTInv ==
    ASSUME TInv, NEW o \in Objs, Touch(o)
    PROVE  Rest'
<1>0. /\ TypeOK /\ HashedKeys /\ MissPending /\ MarkPending /\ WatchCoverage
      /\ clock < MaxClock /\ clock' = clock + 1
      /\ ctime' = [ctime EXCEPT ![o] = clock + 1]
      /\ UNCHANGED <<pos, hashed, key, ctm, pc, cur, failed, room, names, marks>>
  BY DEF TInv, Touch, cacheVars, walkVars
<1>1. clock + 1 \in Ctimes
  BY <1>0, ClockAssumption DEF TypeOK
<1>2. Matches(cur)' = Matches(cur)
  BY <1>0 DEF Matches
<1>. QED
  BY <1>0, <1>1, <1>2
     DEF Rest, TypeOK, CacheTypeOK, HashedKeys, MissPending, MarkPending,
         WatchCoverage

(***************************************************************************)
(* A leaf's number is freed and reused: its mark goes, but it is nobody's *)
(* parent, so no cached inode and no walk in progress loses coverage.     *)
(***************************************************************************)
LEMMA ReuseTInv ==
    ASSUME TInv, NEW o \in Objs, Reuse(o)
    PROVE  Rest'
<1>0. /\ TypeOK /\ HashedKeys /\ MissPending /\ MarkPending /\ WatchCoverage
      /\ o # Root /\ Children(o) = {} /\ (pc = "idle" \/ cur # o)
      /\ clock < MaxClock /\ clock' = clock + 1
      /\ ctime' = [ctime EXCEPT ![o] = clock + 1]
      /\ marks' = marks \ {o}
      /\ UNCHANGED <<pos, hashed, key, ctm, pc, cur, failed, room, names>>
  BY DEF TInv, Reuse, cacheVars, walkVars
<1>1. clock + 1 \in Ctimes
  BY <1>0, ClockAssumption DEF TypeOK
<1>2. \A x \in Ids : Parent[x] # o
  BY <1>0, LeafIsNoParent
<1>3. WatchCoverage'
  BY <1>0, <1>2 DEF WatchCoverage, HashedKeys
<1>4. MarkPending'
  BY <1>0, <1>2 DEF MarkPending, TypeOK, Objs
<1>5. Matches(cur)' = Matches(cur)
  BY <1>0 DEF Matches
<1>. QED
  BY <1>0, <1>1, <1>3, <1>4, <1>5
     DEF Rest, TypeOK, CacheTypeOK, HashedKeys, MissPending

\* The trace consumer frees a slot.
LEMMA DrainTInv ==
    ASSUME TInv, Drain
    PROVE  Rest'
<1>0. /\ TypeOK /\ HashedKeys /\ MissPending /\ MarkPending /\ WatchCoverage
      /\ room < SinkSize /\ room' = room + 1
      /\ UNCHANGED <<pos, hashed, key, ctm, pc, cur, failed, ctime, clock,
                     names, marks>>
  BY DEF TInv, Drain, cacheVars, walkVars, envVars
<1>1. room' \in 0..SinkSize
  BY <1>0, SinkAssumption DEF TypeOK
<1>2. Matches(cur)' = Matches(cur)
  BY <1>0 DEF Matches
<1>. QED
  BY <1>0, <1>1, <1>2
     DEF Rest, TypeOK, CacheTypeOK, HashedKeys, MissPending, MarkPending,
         WatchCoverage

LEMMA InitTInv == Init => TInv
<1> SUFFICES ASSUME Init PROVE TInv
  OBVIOUS
<1>1. CacheInv
  BY CacheInitInv DEF Init
<1>2. TypeOK
  BY <1>1, RootAssumption, ClockAssumption, SinkAssumption
     DEF Init, TypeOK, CacheInv, Objs
<1>. QED
  BY <1>1, <1>2 DEF Init, CacheInit, TInv, HashedKeys, MissPending,
                    MarkPending, WatchCoverage

LEMMA NextTInv == TInv /\ [Next]_vars => TInv'
<1> SUFFICES ASSUME TInv, [Next]_vars PROVE TInv'
  OBVIOUS
<1>1. CacheInv'
  BY WalkCacheStep, CacheNextInv DEF TInv
<1>2. Rest'
  <2>1. CASE UNCHANGED vars
    <3>1. UNCHANGED <<pos, hashed, key, ctm, pc, cur, ctime, clock, room,
                      names, marks, failed>>
      BY <2>1 DEF vars
    <3>2. Matches(cur)' = Matches(cur)
      BY <3>1 DEF Matches
    <3>. QED
      BY <3>1, <3>2 DEF TInv, Rest, TypeOK, CacheTypeOK, HashedKeys,
                        MissPending, MarkPending, WatchCoverage
  <2>. QED
    BY <1>1, <2>1, StartTInv, HitTInv, StaleTInv, MissTInv, EmitTInv, MapTInv,
       TouchTInv, ReuseTInv, DrainTInv DEF Next, WalkStep
<1>. QED
  BY <1>1, <1>2 DEF TInv, Rest

\* The walk keeps the strengthened invariant in every behaviour.
THEOREM WalkInvariant == Spec => []TInv
BY InitTInv, NextTInv, PTL DEF Spec

(***************************************************************************)
(* The walk's state keeps its types (the TypeOK of the walk run), for any *)
(* cache size, parents, clock bound and buffer size: this_inode stays an  *)
(* inode, the buffer's free slots stay within the buffer, the LRU         *)
(* positions a permutation, and every naming event names inodes and ctimes. *)
(***************************************************************************)
THEOREM WalkTypeCorrect == Spec => []TypeOK
BY WalkInvariant, PTL DEF TInv

(***************************************************************************)
(* No identity is cached twice while the walk runs beside ctime changes,  *)
(* inode reuse and the consumer: _map inserts only after a lookup of the  *)
(* same inode whose scan unhashed every stale candidate.                  *)
(***************************************************************************)
THEOREM WalkUniqueKey == Spec => []UniqueKey
BY WalkInvariant, PTL DEF TInv, CacheInv

(***************************************************************************)
(* WatchCoverage for every instance: with the FS monitor up, the parent   *)
(* directory of every cached inode carries the group's mark, because the  *)
(* miss marks it before _map caches the child and only leaves are freed.  *)
(***************************************************************************)
THEOREM WatchCoverageThm == Spec => []WatchCoverage
BY WalkInvariant, PTL DEF TInv

(***************************************************************************)
(* The walk uses its CPU's cache only as the cache specification allows:  *)
(* every behaviour of the walk beside the kernel is, on the cache's       *)
(* variables, a behaviour of CacheSpec, so CacheInvariant holds of it.    *)
(***************************************************************************)
THEOREM WalkRefinesCache == Spec => CacheSpec
<1>1. Init => CacheInit
  BY DEF Init
<1>2. []TInv /\ [][Next]_vars => [][CacheNext]_cacheVars
  BY WalkCacheStep, PTL
<1>. QED
  BY <1>1, <1>2, WalkInvariant, PTL DEF Spec, CacheSpec

(***************************************************************************)
(* The identity cache as iotrace_trace_inode's walk drives it keeps the   *)
(* promise of spec section 4.1: its mapped entries, head first, behave as *)
(* LruCache, for every arena size and every inode tree.                   *)
(***************************************************************************)
THEOREM WalkRefinesLru == Spec => LruRefinement
BY WalkRefinesCache, CacheRefinesLru

-----------------------------------------------------------------------------
\* The step CurrentKept constrains: a current mapping is dropped only when full.
KeptStep ==
    \A e \in hashed :
        e \notin hashed' \/ key'[e] # key[e] \/ ctm'[e] # ctm[e] =>
            ctm[e] # ctime[key[e]] \/ hashed = Entries

(***************************************************************************)
(* The LRU tail is mapped only when the whole arena is: free entries stay *)
(* behind mapped ones (FreeSuffix), and the tail is the last of all.      *)
(***************************************************************************)
LEMMA TailMappedFull ==
    ASSUME CacheInv, LruTail \in hashed
    PROVE  hashed = Entries
<1>1. LruTail \in Entries /\ pos[LruTail] = N
  BY TypeIsPerm, TailAtEnd DEF CacheInv
<1>2. \A f \in Entries \ hashed : pos[LruTail] < pos[f] /\ pos[f] \in Entries
  BY <1>1 DEF CacheInv, FreeSuffix, CacheTypeOK
<1>3. Entries \ hashed = {}
  BY <1>1, <1>2, NAssumption DEF Entries
<1>. QED
  BY <1>3 DEF CacheInv, CacheTypeOK

LEMMA KeptNext == TInv /\ [Next]_vars => [KeptStep]_vars
<1> SUFFICES ASSUME TInv, [Next]_vars PROVE [KeptStep]_vars
  OBVIOUS
<1>1. CASE UNCHANGED <<hashed, key, ctm>>
  BY <1>1 DEF KeptStep
<1>2. CASE WalkStale
  <2>1. PICK e0 \in Matches(cur) :
            /\ ctm[e0] # ctime[cur]
            /\ hashed' = hashed \ {e0}
            /\ UNCHANGED <<key, ctm>>
    BY <1>2 DEF WalkStale, LookupStale
  <2>2. key[e0] = cur
    BY DEF Matches
  <2>. QED
    BY <2>1, <2>2 DEF KeptStep
<1>3. CASE WalkMap
  <2>1. /\ hashed' = hashed \cup {LruTail}
        /\ key' = [key EXCEPT ![LruTail] = cur]
        /\ ctm' = [ctm EXCEPT ![LruTail] = ctime[cur]]
    BY <1>3 DEF WalkMap, Map
  <2>2. \A e \in hashed : e # LruTail => key'[e] = key[e] /\ ctm'[e] = ctm[e]
    BY <2>1 DEF TInv, CacheInv, CacheTypeOK
  <2>3. LruTail \in hashed => hashed = Entries
    BY TailMappedFull DEF TInv
  <2>. QED
    BY <2>1, <2>2, <2>3 DEF KeptStep
<1>4. CASE \E o \in Objs : Start(o) \/ Touch(o) \/ Reuse(o)
  BY <1>4, <1>1 DEF Start, Touch, Reuse, cacheVars
<1>5. CASE WalkHit \/ WalkMiss \/ WalkEmit \/ Drain
  BY <1>5, <1>1 DEF WalkHit, LookupHit, WalkMiss, WalkEmit, Drain, cacheVars
<1>6. CASE UNCHANGED vars
  BY <1>6 DEF vars
<1>. QED
  BY <1>2, <1>3, <1>4, <1>5, <1>6 DEF Next, WalkStep

(***************************************************************************)
(* CurrentKept for every instance: the walk drops a cached mapping whose  *)
(* ctime is still the inode's only when the arena is full, so the cache   *)
(* never throws away a valid identity while a free entry exists; a stale  *)
(* removal drops only a mapping whose ctime the inode no longer has.      *)
(***************************************************************************)
THEOREM CurrentKeptThm == Spec => CurrentKept
<1>1. []TInv /\ [][Next]_vars => [][KeptStep]_vars
  BY KeptNext, PTL
<1>. QED
  BY <1>1, WalkInvariant, PTL DEF Spec, CurrentKept, KeptStep

=============================================================================
