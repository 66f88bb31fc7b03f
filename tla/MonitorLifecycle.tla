-------------------------- MODULE MonitorLifecycle --------------------------
(***************************************************************************)
(* The per-CPU inode tracers of trace_inode.c and the FS monitor they     *)
(* share: iotrace_create_inode_tracer with _fsm_init, which resolves the  *)
(* fsnotify symbols once, takes a reference to the monitor of a sibling   *)
(* tracer (_fsm_try_get) or allocates a new one, and                      *)
(* iotrace_destroy_inode_tracer, which drops the reference                *)
(* (_fs_monitor_put) and frees the tracer.                                *)
(*                                                                         *)
(* The tracers are created and destroyed by one thread of the trace       *)
(* context, one call after the other, so each call is one step.  A       *)
(* monitor is named by its address, a value of 1..MaxMonitors, and a     *)
(* freed address can be handed out again.                                 *)
(***************************************************************************)
EXTENDS Naturals, FiniteSets

CONSTANTS
    Cpus,           \* the CPUs, one tracer slot each
    MaxMonitors     \* addresses kzalloc may return for a fs_monitor

ASSUME MonitorAssumption == MaxMonitors \in Nat \ {0}
ASSUME CpusAssumption == IsFiniteSet(Cpus)

Monitors == 1..MaxMonitors
NULL == 0

(***************************************************************************)
(* Two facts of the running kernel, fixed for a run and chosen by Init:    *)
(* whether _fsm_is_compatible_kernel() holds (UTS_RELEASE matches) and     *)
(* whether kallsyms_lookup_name finds the eight fsnotify symbols.          *)
(***************************************************************************)
VARIABLES Compatible, SymbolsFound

kernel == <<Compatible, SymbolsFound>>

VARIABLES
    tracers,    \* the CPUs whose inode_traces slot holds a tracer
    fsm,        \* fsm[c]: inode_tracer->fsm of CPU c's tracer, or NULL
    alive,      \* the monitors allocated and not yet freed
    refcnt,     \* refcnt[m]: fsm->refcnt
    grp,        \* grp[m]: the references held on fsm->group
    resolved,   \* fsnotify_ops.get_group != NULL
    inited,     \* fsnotify_ops.inited
    absent      \* some _fsm_init gave up after a lookup or allocation failure

vars == <<kernel, tracers, fsm, alive, refcnt, grp, resolved, inited, absent>>

TypeOK ==
    /\ Compatible \in BOOLEAN /\ SymbolsFound \in BOOLEAN
    /\ tracers \subseteq Cpus
    /\ fsm \in [Cpus -> Monitors \cup {NULL}]
    /\ alive \subseteq Monitors
    /\ refcnt \in [Monitors -> Nat]
    /\ grp \in [Monitors -> Nat]
    /\ resolved \in BOOLEAN /\ inited \in BOOLEAN /\ absent \in BOOLEAN

Init ==
    /\ Compatible \in BOOLEAN /\ SymbolsFound \in BOOLEAN
    /\ tracers = {}
    /\ fsm = [c \in Cpus |-> NULL]
    /\ alive = {}
    /\ refcnt = [m \in Monitors |-> 0]
    /\ grp = [m \in Monitors |-> 0]
    /\ resolved = FALSE /\ inited = FALSE /\ absent = FALSE

-----------------------------------------------------------------------------
\* The monitors a sibling tracer holds, as _fsm_try_get scans for them.
Held == {fsm[c] : c \in tracers} \ {NULL}

\* _fs_monitor_get: refcount_inc and fsnotify_get_group.
MonitorGet(m) ==
    /\ refcnt' = [refcnt EXCEPT ![m] = @ + 1]
    /\ grp' = [grp EXCEPT ![m] = @ + 1]

\* Mutant: the put decrements the group but not the monitor.
MonitorPutNoDec(m) ==
    IF m = NULL THEN UNCHANGED <<alive, refcnt, grp>>
    ELSE /\ grp' = [grp EXCEPT ![m] = @ - 1]
         /\ UNCHANGED <<alive, refcnt>>

\* Mutant: fsnotify_put_group is not in an else branch and also runs last.
MonitorPutGroupTwice(m) ==
    IF m = NULL THEN UNCHANGED <<alive, refcnt, grp>>
    ELSE /\ refcnt' = [refcnt EXCEPT ![m] = @ - 1]
         /\ grp' = [grp EXCEPT ![m] = @ - (IF refcnt[m] = 1 THEN 2 ELSE 1)]
         /\ alive' = IF refcnt[m] = 1 THEN alive \ {m} ELSE alive

(***************************************************************************)
(* _fs_monitor_put: nothing for NULL; refcount_dec_and_test, then either  *)
(* fsnotify_destroy_group and kfree of the last reference, or            *)
(* fsnotify_put_group.                                                     *)
(***************************************************************************)
MonitorPut(m) ==
    IF m = NULL THEN UNCHANGED <<alive, refcnt, grp>>
    ELSE /\ refcnt' = [refcnt EXCEPT ![m] = @ - 1]
         /\ grp' = [grp EXCEPT ![m] = @ - 1]
         /\ alive' = IF refcnt[m] = 1 THEN alive \ {m} ELSE alive

(***************************************************************************)
(* The fsnotify symbols are found resolved, or are looked up now and all  *)
(* eight are found.                                                        *)
(***************************************************************************)
Resolved ==
    \/ resolved /\ UNCHANGED resolved
    \/ ~resolved /\ SymbolsFound /\ resolved' = TRUE

\* Allocation of a new monitor m with refcnt 1 and one group reference.
Allocate(c, m) ==
    /\ alive' = alive \cup {m}
    /\ refcnt' = [refcnt EXCEPT ![m] = 1]
    /\ grp' = [grp EXCEPT ![m] = 1]
    /\ fsm' = [fsm EXCEPT ![c] = m]
    /\ inited' = TRUE
    /\ UNCHANGED absent

\* Mutant: _fsm_init allocates without looking for a sibling's monitor.
FsmInitNoTryGet(c) ==
    \/ /\ ~Compatible
       /\ fsm' = [fsm EXCEPT ![c] = NULL]
       /\ UNCHANGED <<alive, refcnt, grp, resolved, inited, absent>>
    \/ /\ Compatible
       /\ ~resolved /\ ~SymbolsFound
       /\ fsm' = [fsm EXCEPT ![c] = NULL]
       /\ inited' = FALSE
       /\ absent' = TRUE
       /\ UNCHANGED <<alive, refcnt, grp, resolved>>
    \/ /\ Compatible
       /\ Resolved
       /\ \E m \in Monitors \ alive : Allocate(c, m)

(***************************************************************************)
(* _fsm_init(inode_tracer) for CPU c.  An incompatible kernel leaves the  *)
(* tracer without a monitor.  A failed symbol lookup zeroes fsnotify_ops  *)
(* (inited included), so the next _fsm_init looks them up again.          *)
(* Otherwise a sibling's monitor is shared (_fsm_try_get), or a           *)
(* fs_monitor is kzalloc'ed with refcnt 1 and a group from                *)
(* fsnotify_alloc_group (one group reference); when the group cannot be   *)
(* allocated the monitor is freed and the tracer has none.                *)
(***************************************************************************)
FsmInit(c) ==
    \/ /\ ~Compatible
       /\ fsm' = [fsm EXCEPT ![c] = NULL]
       /\ UNCHANGED <<alive, refcnt, grp, resolved, inited, absent>>
    \/ /\ Compatible
       /\ ~resolved /\ ~SymbolsFound
       /\ fsm' = [fsm EXCEPT ![c] = NULL]
       /\ inited' = FALSE
       /\ absent' = TRUE
       /\ UNCHANGED <<alive, refcnt, grp, resolved>>
    \/ /\ Compatible
       /\ Resolved
       /\ \/ \E m \in Held :
                /\ MonitorGet(m)
                /\ fsm' = [fsm EXCEPT ![c] = m]
                /\ UNCHANGED <<alive, inited, absent>>
          \/ /\ Held = {}
             /\ \E m \in Monitors \ alive : Allocate(c, m)
          \/ /\ Held = {}
             /\ fsm' = [fsm EXCEPT ![c] = NULL]
             /\ absent' = TRUE
             /\ UNCHANGED <<alive, refcnt, grp, inited>>

(***************************************************************************)
(* iotrace_create_inode_tracer(&inode_traces[c], c): the arena is         *)
(* vzalloc'ed and initialised (InodeCache), _fsm_init runs, and only then *)
(* is the tracer stored in the slot.                                       *)
(***************************************************************************)
CreateTracer(c) ==
    /\ c \notin tracers
    /\ FsmInit(c)
    /\ tracers' = tracers \cup {c}
    /\ UNCHANGED kernel

(***************************************************************************)
(* iotrace_destroy_inode_tracer(&inode_traces[c]): _fs_monitor_put of the *)
(* tracer's monitor, vfree, and the slot set to NULL.                     *)
(***************************************************************************)
DestroyTracer(c) ==
    /\ c \in tracers
    /\ MonitorPut(fsm[c])
    /\ tracers' = tracers \ {c}
    /\ fsm' = [fsm EXCEPT ![c] = NULL]
    /\ UNCHANGED <<kernel, resolved, inited, absent>>

Next == \E c \in Cpus : CreateTracer(c) \/ DestroyTracer(c)

Spec == Init /\ [][Next]_vars

-----------------------------------------------------------------------------
(***************************************************************************)
(* Every live monitor's refcnt, and the references held on its group,    *)
(* equal the number of tracers that point to it; a freed monitor is      *)
(* pointed to by no tracer.  So the last iotrace_destroy_inode_tracer     *)
(* destroys the group, and none is freed while a tracer (its walk or its *)
(* _fs_add_mark) can still use it, over any order of creations and       *)
(* destructions of the CPUs' tracers.                                     *)
(***************************************************************************)
MonitorRefcount ==
    \A m \in Monitors :
        LET holders == {c \in tracers : fsm[c] = m}
        IN /\ m \in alive => /\ refcnt[m] = Cardinality(holders)
                             /\ grp[m] = refcnt[m]
                             /\ refcnt[m] > 0
           /\ m \notin alive => holders = {}

(***************************************************************************)
(* At most one monitor exists and every tracer that has one has that one *)
(* (section 2 of the specification): _fsm_init allocates only when no   *)
(* tracer in the slots holds a monitor.                                  *)
(***************************************************************************)
SingleMonitor ==
    /\ Cardinality(alive) <= 1
    /\ \A c \in tracers : fsm[c] # NULL => fsm[c] \in alive

(***************************************************************************)
(* Section 4.2 of the specification: once monitor setup fails (missing   *)
(* symbols or allocation failure) the monitor is permanently absent: no  *)
(* tracer created later has one.                                          *)
(***************************************************************************)
AbsentIsPermanent ==
    absent => \A c \in tracers : fsm[c] = NULL

=============================================================================
