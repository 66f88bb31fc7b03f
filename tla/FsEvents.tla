------------------------------ MODULE FsEvents ------------------------------
(***************************************************************************)
(* The FS monitor's event path of trace_inode.c: the fsnotify group's      *)
(* handler _fs_handle_event, the per-CPU trace writes of                  *)
(* _trace_file_event and the marks _fs_add_mark puts on inodes, driven by *)
(* the file operations of the kernel, which fsnotify delivers to the      *)
(* group synchronously on the CPU doing the operation when the inode or   *)
(* its directory carries one of the group's marks.                        *)
(*                                                                         *)
(* The directories are fixed; the files are created, opened, renamed and *)
(* deleted, and a file's inode number comes back for a new inode after a  *)
(* deletion (inc[f] counts its incarnations).  The monitor is up for the  *)
(* whole run.  Of the records the handler writes, only the delete records *)
(* are kept: the others only take buffer slots.                           *)
(***************************************************************************)
EXTENDS Naturals, Sequences

CONSTANTS
    Dirs,       \* directories, never deleted
    Files,      \* inode numbers of regular files
    Cpus,       \* the CPUs, each with its own trace buffer
    SinkSize,   \* slots of one CPU's trace buffer
    MaxInc      \* bound on the incarnations of one inode number

ASSUME FsAssumption ==
    /\ Dirs # {} /\ Dirs \cap Files = {}
    /\ SinkSize \in Nat \ {0}
    /\ MaxInc \in Nat \ {0}

VARIABLES
    present,    \* present[f]: file f exists
    parent,     \* parent[f]: its directory
    inc,        \* inc[f]: incarnation of inode number f
    marks,      \* the inodes carrying a mark of the group
    room,       \* room[c]: free slots of CPU c's buffer
    leaked,     \* CPUs left with preemption disabled by _trace_file_event
    reported,   \* the delete records committed, as <<f, incarnation>>
    dropped,    \* the delete records lost to a full buffer
    named,      \* files whose incarnation a walk has named and cached
    seen,       \* files whose create or open the group was told of
    gone        \* deleted incarnations: <<f, incarnation, named?, seen?>>

vars == <<present, parent, inc, marks, room, leaked, reported, dropped,
          named, seen, gone>>

Objs == Dirs \cup Files

TypeOK ==
    /\ present \in [Files -> BOOLEAN]
    /\ parent \in [Files -> Dirs]
    /\ inc \in [Files -> 0..MaxInc]
    /\ marks \subseteq Objs
    /\ room \in [Cpus -> 0..SinkSize]
    /\ leaked \subseteq Cpus
    /\ reported \subseteq Files \X (1..MaxInc)
    /\ dropped \subseteq Files \X (1..MaxInc)
    /\ named \subseteq Files /\ seen \subseteq Files
    /\ gone \subseteq Files \X (1..MaxInc) \X BOOLEAN \X BOOLEAN

Init ==
    /\ present = [f \in Files |-> FALSE]
    /\ parent \in [Files -> Dirs]
    /\ inc = [f \in Files |-> 0]
    /\ marks = {}
    /\ room = [c \in Cpus |-> SinkSize]
    /\ leaked = {}
    /\ reported = {} /\ dropped = {}
    /\ named = {} /\ seen = {} /\ gone = {}

-----------------------------------------------------------------------------
(* The handler.  An event is the set of mask bits it carries.              *)

\* _fs_add_mark: find_mark finds the group's mark, or a new one is added.
AddMark(o) == marks \cup {o}

\* Mutant: the FS_OPEN branch is missing.
MarksAfterNoOpen(mask, o) ==
    IF "create" \in mask THEN AddMark(o) ELSE marks

(***************************************************************************)
(* The marks after _fs_handle_event: FS_CREATE and FS_OPEN both mark the  *)
(* child inode.                                                           *)
(***************************************************************************)
MarksAfter(mask, o) ==
    IF "create" \in mask \/ "open" \in mask THEN AddMark(o) ELSE marks

(***************************************************************************)
(* The _trace_file_event calls of _fs_handle_event, in the order of its   *)
(* tests; FS_OPEN traces nothing.                                          *)
(***************************************************************************)
TraceKinds(mask) ==
    SelectSeq(<<"moved_from", "moved_to", "create", "delete_self">>,
              LAMBDA k : k \in mask)

\* Mutant: a failed reservation is not noticed and the slot count underflows.
TraceFileEventsUnchecked(c, mask, o) ==
    /\ room' = [room EXCEPT ![c] = @ - Len(TraceKinds(mask))]
    /\ reported' = reported \cup
          {<<o, inc[o]>> : x \in {"delete_self"} \cap mask}
    /\ UNCHANGED <<leaked, dropped>>

(***************************************************************************)
(* Each _trace_file_event does get_cpu() and reserves a slot of this      *)
(* CPU's buffer.  A reserved slot is filled and committed, then put_cpu(). *)
(* When octf_trace_get_wr_buffer fails the function returns at once and   *)
(* put_cpu() is never called.  A delete record carries the inode number   *)
(* and ctime, which name the incarnation.                                 *)
(***************************************************************************)
TraceFileEvents(c, mask, o) ==
    LET ks   == TraceKinds(mask)
        done == SubSeq(ks, 1, IF Len(ks) > room[c] THEN room[c] ELSE Len(ks))
        del  == {<<o, inc[o]>> : x \in {"delete_self"} \cap mask}
        kept == \E i \in 1..Len(done) : done[i] = "delete_self"
    IN /\ room' = [room EXCEPT ![c] = @ - Len(done)]
       /\ leaked' = IF Len(ks) > room[c] THEN leaked \cup {c} ELSE leaked
       /\ reported' = IF kept THEN reported \cup del ELSE reported
       /\ dropped' = IF kept THEN dropped ELSE dropped \cup del

\* _fs_handle_event(group, inode, mask, child_inode, FSNOTIFY_EVENT_INODE).
HandleEvent(c, mask, o) ==
    /\ marks' = MarksAfter(mask, o)
    /\ TraceFileEvents(c, mask, o)

-----------------------------------------------------------------------------
(* The kernel: file operations and the fsnotify calls they make.           *)

handlerVars == <<marks, room, leaked, reported, dropped>>

\* fsnotify delivers an event on o to the group when o or dir is marked.
Watched(o, dir) == o \in marks \/ dir \in marks

(***************************************************************************)
(* A file is created in d on CPU c: fsnotify_create(d, dentry) sends      *)
(* FS_CREATE to d's marks.                                                 *)
(***************************************************************************)
Create(f, d, c) ==
    /\ ~present[f]
    /\ inc[f] < MaxInc
    /\ present' = [present EXCEPT ![f] = TRUE]
    /\ parent' = [parent EXCEPT ![f] = d]
    /\ inc' = [inc EXCEPT ![f] = @ + 1]
    /\ IF d \in marks
       THEN /\ HandleEvent(c, {"create"}, f)
            /\ seen' = seen \cup {f}
       ELSE UNCHANGED <<handlerVars, seen>>
    /\ UNCHANGED <<named, gone>>

\* f is opened on CPU c: fsnotify_open reaches f's and its parent's marks.
Open(f, c) ==
    /\ present[f]
    /\ Watched(f, parent[f])
    /\ HandleEvent(c, {"open"}, f)
    /\ seen' = seen \cup {f}
    /\ UNCHANGED <<present, parent, inc, named, gone>>

(***************************************************************************)
(* f is renamed into d on CPU c: fsnotify_move sends FS_MOVED_FROM to the *)
(* old directory's marks and FS_MOVED_TO to the new one's, one after the  *)
(* other on this CPU; the handler is called once per marked directory.    *)
(***************************************************************************)
Rename(f, d, c) ==
    /\ present[f]
    /\ parent' = [parent EXCEPT ![f] = d]
    /\ LET m == {x \in {"moved_from", "moved_to"} :
                    IF x = "moved_from" THEN parent[f] \in marks ELSE d \in marks}
       IN IF m # {} THEN HandleEvent(c, m, f) ELSE UNCHANGED handlerVars
    /\ UNCHANGED <<present, inc, named, seen, gone>>

(***************************************************************************)
(* f is unlinked on CPU c and its inode evicted: fsnotify_inoderemove     *)
(* (the last incarnation the bound allows stays, so that runs go on)    *)
(* sends FS_DELETE_SELF to f's own marks, then its marks are destroyed.   *)
(* The FS_DELETE its directory gets is traced by no branch of the handler. *)
(***************************************************************************)
Delete(f, c) ==
    /\ present[f]
    /\ inc[f] < MaxInc
    /\ present' = [present EXCEPT ![f] = FALSE]
    /\ IF f \in marks
       THEN /\ TraceFileEvents(c, {"delete_self"}, f)
       ELSE UNCHANGED <<room, leaked, reported, dropped>>
    /\ marks' = marks \ {f}
    /\ gone' = gone \cup {<<f, inc[f], f \in named, f \in seen>>}
    /\ named' = named \ {f}
    /\ seen' = seen \ {f}
    /\ UNCHANGED <<parent, inc>>

(***************************************************************************)
(* I/O on f: iotrace_trace_inode names and caches f and, on the miss,     *)
(* marks its directory (WalkMiss of InodeTracer).                          *)
(***************************************************************************)
Io(f) ==
    /\ present[f]
    /\ named' = named \cup {f}
    /\ marks' = AddMark(parent[f])
    /\ UNCHANGED <<present, parent, inc, room, leaked, reported, dropped,
                   seen, gone>>

\* The trace consumer frees a slot of CPU c's buffer.
Drain(c) ==
    /\ room[c] < SinkSize
    /\ room' = [room EXCEPT ![c] = @ + 1]
    /\ UNCHANGED <<present, parent, inc, marks, leaked, reported, dropped,
                   named, seen, gone>>

Next ==
    \/ \E f \in Files, c \in Cpus :
          \/ \E d \in Dirs : Create(f, d, c) \/ Rename(f, d, c)
          \/ Open(f, c) \/ Delete(f, c)
    \/ \E f \in Files : Io(f)
    \/ \E c \in Cpus : Drain(c)

Spec == Init /\ [][Next]_vars

-----------------------------------------------------------------------------
(***************************************************************************)
(* Every deleted file whose creation or opening the group was told of     *)
(* has its deletion in the trace, or lost to a full buffer: the handler   *)
(* marks such a file on FS_CREATE or FS_OPEN, the mark lives as long as   *)
(* the inode, and FS_DELETE_SELF to that mark writes the delete record.   *)
(* It spans the create/open handler, later renames and the delete.        *)
(***************************************************************************)
SeenDeleteReported ==
    \A g \in gone : g[4] => <<g[1], g[2]>> \in reported \cup dropped

(***************************************************************************)
(* Section 8 of the specification: deleting an object that has a cached  *)
(* entry emits a Delete record.  The walk marks only the directories of   *)
(* the inodes it caches, and _fs_handle_event writes a delete record only *)
(* for FS_DELETE_SELF, which reaches the marks of the file itself.        *)
(***************************************************************************)
DeleteReported ==
    \A g \in gone : g[3] => <<g[1], g[2]>> \in reported \cup dropped

(***************************************************************************)
(* _trace_file_event leaves preemption as it found it: every get_cpu() is *)
(* matched by put_cpu(), also when the trace buffer is full.              *)
(***************************************************************************)
PreemptBalanced == leaked = {}

=============================================================================
