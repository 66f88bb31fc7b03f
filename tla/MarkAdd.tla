------------------------------ MODULE MarkAdd -------------------------------
(***************************************************************************)
(* _fs_add_mark of trace_inode.c run by several CPUs at once, with the    *)
(* reference counts fsnotify keeps on marks.  The walk of every CPU marks  *)
(* the directories it names, and the group's handler marks created and    *)
(* opened files from whatever context fsnotify calls it in, so two CPUs    *)
(* can be inside _fs_add_mark for the same inode at the same time.        *)
(*                                                                         *)
(* Each call is a process with a program counter: find_mark, then either  *)
(* put_mark of the mark found, or kmem_cache_zalloc and fsnotify_init_mark *)
(* (one reference), fsnotify_add_mark and put_mark.  fsnotify_add_mark    *)
(* holds group->mark_mutex: it attaches the mark, which takes a reference *)
(* for the inode's list, or fails with -EEXIST when the group already has *)
(* a mark on the inode, leaving the count as it was.  A mark whose count  *)
(* drops to zero goes back to the group's mark_cache (iotrace_fs_free_mark). *)
(* The last _fs_monitor_put destroys the group: its marks are detached    *)
(* and put, and _fs_free_group_priv destroys the mark_cache.              *)
(***************************************************************************)
EXTENDS Naturals, FiniteSets

CONSTANTS
    Cpus,       \* contexts that can run _fs_add_mark
    Inodes,     \* inodes that get marked
    MaxMarks    \* objects the mark_cache can hand out at once

ASSUME MarkAssumption ==
    /\ IsFiniteSet(Cpus) /\ IsFiniteSet(Inodes)
    /\ MaxMarks \in Nat
    /\ MaxMarks >= Cardinality(Cpus) + Cardinality(Inodes)

Marks == 1..MaxMarks
NoMark == 0

VARIABLES
    attached,   \* attached[o]: the group's mark on inode o, or NoMark
    ref,        \* ref[m]: mark->refcnt
    live,       \* marks allocated from the mark_cache and not freed
    pc,         \* pc[c]: where CPU c is in _fs_add_mark
    tgt,        \* tgt[c]: the inode CPU c is marking
    lm,         \* lm[c]: the local variable mark of CPU c
    leftover    \* marks still allocated when their mark_cache was destroyed

vars == <<attached, ref, live, pc, tgt, lm, leftover>>

\* The steps of _fs_add_mark that hold a reference to lm[c].
Holding == {"put_found", "add", "put_err", "put"}

TypeOK ==
    /\ attached \in [Inodes -> Marks \cup {NoMark}]
    /\ ref \in [Marks -> Nat]
    /\ live \subseteq Marks
    /\ pc \in [Cpus -> {"idle", "find", "alloc"} \cup Holding]
    /\ tgt \in [Cpus -> Inodes]
    /\ lm \in [Cpus -> Marks \cup {NoMark}]
    /\ leftover \subseteq Marks

Init ==
    /\ attached = [o \in Inodes |-> NoMark]
    /\ ref = [m \in Marks |-> 0]
    /\ live = {}
    /\ pc = [c \in Cpus |-> "idle"]
    /\ tgt \in [Cpus -> Inodes]
    /\ lm = [c \in Cpus |-> NoMark]
    /\ leftover = {}

-----------------------------------------------------------------------------
\* Mutant: a mark reaching zero references is not freed.
PutMarkNoFree(m) ==
    /\ ref' = [ref EXCEPT ![m] = @ - 1]
    /\ UNCHANGED live

(***************************************************************************)
(* fsnotify_put_mark: drop one reference; the last one frees the mark     *)
(* into group_priv->mark_cache through iotrace_fs_free_mark.              *)
(***************************************************************************)
PutMark(m) ==
    /\ ref' = [ref EXCEPT ![m] = @ - 1]
    /\ live' = IF ref[m] = 1 THEN live \ {m} ELSE live

\* _fs_add_mark(group, o) is called on CPU c, by the walk or the handler.
Start(c, o) ==
    /\ pc[c] = "idle"
    /\ pc' = [pc EXCEPT ![c] = "find"]
    /\ tgt' = [tgt EXCEPT ![c] = o]
    /\ UNCHANGED <<attached, ref, live, lm, leftover>>

(***************************************************************************)
(* fsnotify_find_mark: the group's mark on the inode, with a reference    *)
(* taken, or NULL.                                                         *)
(***************************************************************************)
FindMark(c) ==
    /\ pc[c] = "find"
    /\ LET m == attached[tgt[c]]
       IN IF m # NoMark
          THEN /\ ref' = [ref EXCEPT ![m] = @ + 1]
               /\ lm' = [lm EXCEPT ![c] = m]
               /\ pc' = [pc EXCEPT ![c] = "put_found"]
          ELSE /\ pc' = [pc EXCEPT ![c] = "alloc"]
               /\ UNCHANGED <<ref, lm>>
    /\ UNCHANGED <<attached, live, tgt, leftover>>

\* kmem_cache_zalloc and fsnotify_init_mark: a new mark with one reference.
AllocMark(c) ==
    /\ pc[c] = "alloc"
    /\ \E m \in Marks \ live :
          /\ live' = live \cup {m}
          /\ ref' = [ref EXCEPT ![m] = 1]
          /\ lm' = [lm EXCEPT ![c] = m]
    /\ pc' = [pc EXCEPT ![c] = "add"]
    /\ UNCHANGED <<attached, tgt, leftover>>

\* Mutant: the mark is attached whether or not the inode has one.
AddMarkNoExist(c) ==
    /\ pc[c] = "add"
    /\ attached' = [attached EXCEPT ![tgt[c]] = lm[c]]
    /\ ref' = [ref EXCEPT ![lm[c]] = @ + 1]
    /\ pc' = [pc EXCEPT ![c] = "put"]
    /\ UNCHANGED <<live, tgt, lm, leftover>>

(***************************************************************************)
(* IOTRACE_FSNOTIFY_ADD_MARK: attach the mark, with a reference for the   *)
(* inode's list, or fail when another CPU attached one first.             *)
(***************************************************************************)
AddMark(c) ==
    /\ pc[c] = "add"
    /\ IF attached[tgt[c]] = NoMark
       THEN /\ attached' = [attached EXCEPT ![tgt[c]] = lm[c]]
            /\ ref' = [ref EXCEPT ![lm[c]] = @ + 1]
            /\ pc' = [pc EXCEPT ![c] = "put"]
       ELSE /\ pc' = [pc EXCEPT ![c] = "put_err"]
            /\ UNCHANGED <<attached, ref>>
    /\ UNCHANGED <<live, tgt, lm, leftover>>

\* Mutant: the error path returns without fsnotify_put_mark.
ReleaseNoPutOnError(c) ==
    /\ pc[c] \in {"put_found", "put_err", "put"}
    /\ IF pc[c] = "put_err" THEN UNCHANGED <<ref, live>> ELSE PutMark(lm[c])
    /\ pc' = [pc EXCEPT ![c] = "idle"]
    /\ lm' = [lm EXCEPT ![c] = NoMark]
    /\ UNCHANGED <<attached, tgt, leftover>>

\* Mutant: the mark found is put twice.
ReleaseDoublePut(c) ==
    /\ pc[c] \in {"put_found", "put_err", "put"}
    /\ LET m == lm[c]
           n == IF pc[c] = "put_found" THEN 2 ELSE 1
       IN /\ ref' = [ref EXCEPT ![m] = @ - n]
          /\ live' = IF ref[m] <= n THEN live \ {m} ELSE live
    /\ pc' = [pc EXCEPT ![c] = "idle"]
    /\ lm' = [lm EXCEPT ![c] = NoMark]
    /\ UNCHANGED <<attached, tgt, leftover>>

(***************************************************************************)
(* The three fsnotify_put_mark calls before _fs_add_mark returns: of the  *)
(* mark found, of the mark that could not be added, of the mark added.    *)
(***************************************************************************)
Release(c) ==
    /\ pc[c] \in {"put_found", "put_err", "put"}
    /\ PutMark(lm[c])
    /\ pc' = [pc EXCEPT ![c] = "idle"]
    /\ lm' = [lm EXCEPT ![c] = NoMark]
    /\ UNCHANGED <<attached, tgt, leftover>>

(***************************************************************************)
(* The inode is evicted: fsnotify_destroy_marks detaches the group's mark *)
(* and puts the inode list's reference.  A CPU marking the inode holds a  *)
(* reference to it (the walk's dentry, the handler's event), so none is.  *)
(***************************************************************************)
Evict(o) ==
    /\ attached[o] # NoMark
    /\ \A c \in Cpus : pc[c] # "idle" => tgt[c] # o
    /\ attached' = [attached EXCEPT ![o] = NoMark]
    /\ PutMark(attached[o])
    /\ UNCHANGED <<pc, tgt, lm, leftover>>

(***************************************************************************)
(* The last _fs_monitor_put: fsnotify_destroy_group detaches and puts     *)
(* every mark of the group and waits for the detached ones to be freed,   *)
(* then _fs_free_group_priv runs kmem_cache_destroy on the mark_cache.    *)
(* No tracer uses the monitor any more, so no CPU is in _fs_add_mark.     *)
(* A mark that is not attached, or keeps a reference after the detach,   *)
(* is left in the destroyed cache.  The next                              *)
(* _fsm_init starts a new group with a new mark_cache.                    *)
(***************************************************************************)
DestroyGroup ==
    /\ \A c \in Cpus : pc[c] = "idle"
    /\ LET isAttached(m) == \E o \in Inodes : attached[o] = m
       IN leftover' = leftover \cup
                         {m \in live : ~isAttached(m) \/ ref[m] > 1}
    /\ attached' = [o \in Inodes |-> NoMark]
    /\ ref' = [m \in Marks |-> 0]
    /\ live' = {}
    /\ UNCHANGED <<pc, tgt, lm>>

Next ==
    \/ \E c \in Cpus :
          \/ \E o \in Inodes : Start(c, o)
          \/ FindMark(c) \/ AllocMark(c) \/ AddMark(c) \/ Release(c)
    \/ \E o \in Inodes : Evict(o)
    \/ DestroyGroup

Spec == Init /\ [][Next]_vars

-----------------------------------------------------------------------------
\* The CPUs whose _fs_add_mark holds a reference to mark m.
Holders(m) == {c \in Cpus : pc[c] \in Holding /\ lm[c] = m}

(***************************************************************************)
(* Every allocated mark's count is its inode list reference, if attached, *)
(* plus the references the CPUs inside _fs_add_mark hold on it, and is not *)
(* zero; no freed mark is attached or held.  So the CPU that loses the race to     *)
(* add a mark to an inode frees its own, and a found mark is not kept.    *)
(***************************************************************************)
MarkRefs ==
    /\ \A m \in live :
          /\ ref[m] = Cardinality({o \in Inodes : attached[o] = m})
                        + Cardinality(Holders(m))
          /\ ref[m] > 0
    /\ \A m \in Marks \ live :
          /\ \A o \in Inodes : attached[o] # m
          /\ Holders(m) = {}

(***************************************************************************)
(* When the group is destroyed, kmem_cache_destroy finds its mark_cache   *)
(* empty: no mark outlives its group, over any race of the CPUs' calls of *)
(* _fs_add_mark with one another and with inode eviction.                 *)
(***************************************************************************)
NoMarkLeak == leftover = {}

=============================================================================
