----------------------------- MODULE InodeTracer -----------------------------
(***************************************************************************)
(* iotrace_trace_inode on one CPU: the walk from a traced inode up its    *)
(* dentry chain that consults the per-CPU identity cache (InodeCache),    *)
(* writes an fs_file_name event into the trace for every inode it misses, *)
(* marks the parent directory with the shared fsnotify group and caches   *)
(* the inode once its event is committed.  Around it run the rest of the  *)
(* kernel: other CPUs change inodes' ctime (chmod, rename, link, and the  *)
(* reuse of a freed inode number), and the trace consumer drains the      *)
(* trace buffer.                                                          *)
(*                                                                         *)
(* The walk is split where the code reads shared state: the ctime of the  *)
(* inode is read by each _lookup comparison, again by the naming event    *)
(* and again by _map, and another CPU may change it in between.           *)
(***************************************************************************)
EXTENDS InodeCache

CONSTANTS
    Root,       \* the root inode of the mount; dget_parent(root) = root
    Parent,     \* Parent[o]: inode of o's parent dentry
    MaxClock,   \* bound on the ctime clock, so on metadata changes
    SinkSize,   \* event slots of this CPU's trace buffer
    HasMonitor  \* inode_tracer->fsm set and fsnotify_ops.inited

ASSUME RootAssumption == Root \in Ids
ASSUME ParentAssumption == Parent \in [Ids -> Ids] /\ Parent[Root] = Root
ASSUME ClockAssumption == MaxClock \in Nat \ {0} /\ Ctimes = 1..MaxClock
ASSUME SinkAssumption == SinkSize \in Nat
ASSUME MonitorAssumption == HasMonitor \in BOOLEAN

VARIABLES
    pc,         \* where the walk is: "idle", "lookup", "emit", "map"
    cur,        \* this_inode of the walk
    ctime,      \* ctime[o]: i_ctime of inode o now
    clock,      \* the newest ctime handed out
    room,       \* free event slots in the trace buffer
    names,      \* fs_file_name events committed: <<id, ctime, parent, pctime>>
    marks,      \* inodes carrying a mark of the fsnotify group
    failed      \* inodes whose naming event failed in the current walk

walkVars == <<pc, cur, failed>>
envVars == <<ctime, clock>>
vars == <<pos, hashed, key, ctm, pc, cur, ctime, clock, room, names, marks,
          failed>>

Objs == Ids
Children(o) == {x \in Objs \ {Root} : Parent[x] = o}

NameRecord == Objs \X Ctimes \X Objs \X Ctimes

TypeOK ==
    /\ CacheTypeOK
    /\ pc \in {"idle", "lookup", "emit", "map"}
    /\ cur \in Objs
    /\ ctime \in [Objs -> Ctimes]
    /\ clock \in Ctimes
    /\ room \in 0..SinkSize
    /\ names \subseteq NameRecord
    /\ marks \subseteq Objs
    /\ failed \subseteq Objs

Init ==
    /\ CacheInit
    /\ pc = "idle"
    /\ cur = Root
    /\ ctime = [o \in Objs |-> 1]
    /\ clock = 1
    /\ room = SinkSize
    /\ names = {}
    /\ marks = {}
    /\ failed = {}

-----------------------------------------------------------------------------
(* The walk, iotrace_trace_inode.                                          *)

(***************************************************************************)
(* _fs_add_mark(group, inode): fsnotify_find_mark finds the group's mark  *)
(* on the inode and nothing is done, or a mark is allocated and added;    *)
(* either way the inode ends up marked once (a failed add_mark means the  *)
(* inode is already going away).                                          *)
(***************************************************************************)
AddMark(o) == marks \cup {o}

(***************************************************************************)
(* The fs_file_name event _trace_filename writes: partition and inode id  *)
(* (one identity here), the ctime, the parent's id and ctime; the name is *)
(* the dentry's and is left out.                                          *)
(***************************************************************************)
NameEvent(o) == <<o, ctime[o], Parent[o], ctime[Parent[o]]>>

\* d_find_alias(this_inode) succeeds and the walk begins at o.
Start(o) ==
    /\ pc = "idle"
    /\ pc' = "lookup"
    /\ cur' = o
    /\ failed' = {}
    /\ UNCHANGED <<cacheVars, envVars, room, names, marks>>

\* _lookup hits: the inode and its ancestors are already named; break.
WalkHit ==
    /\ pc = "lookup"
    /\ LookupHit(cur, ctime[cur])
    /\ pc' = "idle"
    /\ UNCHANGED <<cur, failed, envVars, room, names, marks>>

\* _lookup meets a stale candidate of this inode and removes it.
WalkStale ==
    /\ pc = "lookup"
    /\ LookupStale(cur, ctime[cur])
    /\ UNCHANGED <<walkVars, envVars, room, names, marks>>

\* Mutant: a ctime mismatch ends the scan as a miss, the entry left hashed.
WalkMissKeepStale ==
    /\ pc = "lookup"
    /\ ~\E e \in Matches(cur) : ctm[e] = ctime[cur]
    /\ marks' = IF HasMonitor THEN AddMark(Parent[cur]) ELSE marks
    /\ pc' = "emit"
    /\ UNCHANGED <<cur, failed, cacheVars, envVars, room, names>>

\* Mutant: the walk does not mark the parent directory.
WalkMissNoMark ==
    /\ pc = "lookup"
    /\ LookupMiss(cur)
    /\ pc' = "emit"
    /\ UNCHANGED <<cur, failed, cacheVars, envVars, room, names, marks>>

(***************************************************************************)
(* _lookup misses: dget_parent, and the parent (always a directory) gets  *)
(* a mark through _fs_add_mark when the FS monitor is up.  _fs_add_mark   *)
(* finds an existing mark or adds one, so marking is idempotent.          *)
(***************************************************************************)
WalkMiss ==
    /\ pc = "lookup"
    /\ LookupMiss(cur)
    /\ marks' = IF HasMonitor THEN AddMark(Parent[cur]) ELSE marks
    /\ pc' = "emit"
    /\ UNCHANGED <<cur, failed, cacheVars, envVars, room, names>>

\* Mutant: a buffer slot is consumed even when the reservation fails.
WalkEmitAlwaysConsume ==
    /\ pc = "emit"
    /\ room' = room - 1
    /\ \/ /\ room > 0
          /\ names' = names \cup {NameEvent(cur)}
          /\ pc' = "map"
          /\ UNCHANGED <<cur, failed>>
       \/ /\ room = 0
          /\ failed' = failed \cup {cur}
          /\ cur' = Parent[cur]
          /\ pc' = "lookup"
          /\ UNCHANGED names
    /\ UNCHANGED <<cacheVars, envVars, marks>>

(***************************************************************************)
(* _trace_filename with this inode's and its parent's ctime read now.     *)
(* When the buffer has a slot the event is committed and the walk goes on *)
(* to _map; when octf_trace_get_wr_buffer fails, nothing is cached and    *)
(* the walk switches to the parent all the same.                          *)
(***************************************************************************)
WalkEmit ==
    /\ pc = "emit"
    /\ \/ /\ room > 0
          /\ room' = room - 1
          /\ names' = names \cup {NameEvent(cur)}
          /\ pc' = "map"
          /\ UNCHANGED <<cur, failed>>
       \/ /\ room = 0
          /\ failed' = failed \cup {cur}
          /\ cur' = Parent[cur]
          /\ pc' = "lookup"
          /\ UNCHANGED <<room, names>>
    /\ UNCHANGED <<cacheVars, envVars, marks>>

\* Mutant: _map fills and promotes the entry but never hash_add's it.
WalkMapNoHash ==
    /\ pc = "map"
    /\ pos' = ToHead(LruTail)
    /\ hashed' = hashed \ {LruTail}
    /\ key' = [key EXCEPT ![LruTail] = cur]
    /\ ctm' = [ctm EXCEPT ![LruTail] = ctime[cur]]
    /\ cur' = Parent[cur]
    /\ pc' = "lookup"
    /\ UNCHANGED <<failed, envVars, room, names, marks>>

(***************************************************************************)
(* _map(inode_tracer, this_inode), which reads i_ctime once more, then    *)
(* this_inode := parent_inode.  The loop condition holds at the root too, *)
(* since the root's parent dentry is the root itself.                     *)
(***************************************************************************)
WalkMap ==
    /\ pc = "map"
    /\ Map(cur, ctime[cur])
    /\ cur' = Parent[cur]
    /\ pc' = "lookup"
    /\ UNCHANGED <<failed, envVars, room, names, marks>>

-----------------------------------------------------------------------------
(* The rest of the kernel.                                                 *)

\* A metadata change of inode o on another CPU sets i_ctime to the clock.
Touch(o) ==
    /\ clock < MaxClock
    /\ clock' = clock + 1
    /\ ctime' = [ctime EXCEPT ![o] = clock + 1]
    /\ UNCHANGED <<cacheVars, walkVars, room, names, marks>>

(***************************************************************************)
(* Leaf o is unlinked and freed, destroying its marks, and its inode      *)
(* number is handed to a new inode with a new ctime.  An inode the walk   *)
(* holds a dentry reference to is not freed.                              *)
(***************************************************************************)
Reuse(o) ==
    /\ o # Root
    /\ Children(o) = {}
    /\ pc = "idle" \/ cur # o
    /\ clock < MaxClock
    /\ clock' = clock + 1
    /\ ctime' = [ctime EXCEPT ![o] = clock + 1]
    /\ marks' = marks \ {o}
    /\ UNCHANGED <<cacheVars, walkVars, room, names>>

\* The trace consumer frees one slot of the buffer.
Drain ==
    /\ room < SinkSize
    /\ room' = room + 1
    /\ UNCHANGED <<cacheVars, walkVars, envVars, names, marks>>

WalkStep == WalkHit \/ WalkStale \/ WalkMiss \/ WalkEmit \/ WalkMap

Next ==
    \/ \E o \in Objs : Start(o)
    \/ WalkStep
    \/ \E o \in Objs : Touch(o) \/ Reuse(o)
    \/ Drain

(***************************************************************************)
(* The walk is synchronous code on its CPU and runs on; the consumer keeps *)
(* reading the buffer.  Inode changes and new I/O need not happen.        *)
(***************************************************************************)
Spec == Init /\ [][Next]_vars /\ WF_vars(WalkStep) /\ WF_vars(Drain)

-----------------------------------------------------------------------------
(***************************************************************************)
(* With the FS monitor up, the parent directory of every cached inode     *)
(* carries a mark, so the creations, deletions and moves beneath it reach *)
(* _fs_handle_event.  It holds because the walk marks the parent before   *)
(* it names and caches the child, and freeing an inode number only        *)
(* destroys the mark of a leaf.                                           *)
(***************************************************************************)
WatchCoverage ==
    HasMonitor => \A e \in hashed : Parent[key[e]] \in marks

(***************************************************************************)
(* A cached mapping that is still current (its ctime is the inode's) is   *)
(* dropped from the cache only when every entry of the arena is mapped:   *)
(* _get_entry evicts the LRU tail blindly, so this rests on _remove_entry *)
(* putting stale entries at the tail and hits and _map at the head.       *)
(***************************************************************************)
CurrentKept ==
    [][\A e \in hashed :
         e \notin hashed' \/ key'[e] # key[e] \/ ctm'[e] # ctm[e] =>
             ctm[e] # ctime[key[e]] \/ hashed = Entries]_vars

(***************************************************************************)
(* Every walk ends: iotrace_trace_inode returns to its caller, whatever   *)
(* other CPUs do to ctimes and however full the buffer is, provided the   *)
(* consumer keeps draining it.  The loop has no exit at the root other    *)
(* than a cache hit, so this rests on the root being cached and found.    *)
(***************************************************************************)
WalkTerminates == pc # "idle" ~> pc = "idle"

(***************************************************************************)
(* Every cached (inode, ctime) was named in the trace with that ctime:    *)
(* a later lookup that hits emits nothing, so the trace consumer can only *)
(* resolve the inode through the event written when it was cached.  The  *)
(* code reads i_ctime for the event and again in _map.                    *)
(***************************************************************************)
CachedWasNamed ==
    \A e \in hashed : \E r \in names : r[1] = key[e] /\ r[2] = ctm[e]

(***************************************************************************)
(* A naming event that could not be written is dropped, not retried, in   *)
(* the same walk (spec section 7: the hot path never blocks on a full     *)
(* trace buffer).  At the root, whose parent is itself, the code loops.   *)
(***************************************************************************)
NoRetry == [][WalkEmit => cur \notin failed]_vars

(***************************************************************************)
(* When no walk is in progress, the parent (id, ctime) named by the event *)
(* of every cached inode is itself named in the trace, so the consumer    *)
(* can rebuild the path of every inode whose I/O the cache lets through   *)
(* without a new event.                                                   *)
(***************************************************************************)
AncestorNamed ==
    pc = "idle" =>
        \A e \in hashed, r \in names :
            r[1] = key[e] /\ r[2] = ctm[e] =>
                \E q \in names : q[1] = r[3] /\ q[2] = r[4]

=============================================================================
