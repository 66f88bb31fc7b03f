----------------------- MODULE MonitorLifecycle_proofs -----------------------
(***************************************************************************)
(* Proofs that the tracer/monitor lifecycle keeps the monitor's reference *)
(* counts equal to its holders and never has two monitors, for any finite *)
(* set of CPUs and any number of monitor addresses.                       *)
(***************************************************************************)
EXTENDS MonitorLifecycle, FiniteSetTheorems, TLAPS

\* The tracers whose fsm points to monitor m.
Holders(m) == {c \in tracers : fsm[c] = m}

\* A tracer's monitor is a live one.
HeldAlive == \A c \in tracers : fsm[c] # NULL => fsm[c] \in alive

\* The counts of every live monitor.
RefInv ==
    \A m \in alive : /\ refcnt[m] = Cardinality(Holders(m))
                     /\ grp[m] = refcnt[m]
                     /\ refcnt[m] > 0

\* No two live monitors.
AliveUnique == \A m1, m2 \in alive : m1 = m2

Inv == TypeOK /\ HeldAlive /\ RefInv /\ AliveUnique

\* A set of CPUs is finite.
LEMMA CpuSetFinite ==
    ASSUME NEW S \in SUBSET Cpus
    PROVE  IsFiniteSet(S)
BY CpusAssumption, FS_Subset

\* The holders of a monitor are a finite set of CPUs.
LEMMA HoldersFinite ==
    ASSUME TypeOK, NEW m
    PROVE  IsFiniteSet(Holders(m))
<1>1. Holders(m) \in SUBSET Cpus
  BY DEF TypeOK, Holders
<1>. QED
  BY <1>1, CpuSetFinite

\* A live monitor is held by some tracer, so _fsm_try_get finds it.
LEMMA AliveIsHeld ==
    ASSUME Inv, NEW m \in alive
    PROVE  m \in Held
<1>1. IsFiniteSet(Holders(m))
  BY HoldersFinite DEF Inv
<1>2. Cardinality(Holders(m)) > 0
  BY DEF Inv, RefInv
<1>3. PICK c \in Holders(m) : TRUE
  BY <1>1, <1>2, FS_EmptySet
<1>4. c \in tracers /\ fsm[c] = m /\ m # NULL
  BY <1>3, MonitorAssumption DEF Holders, Inv, TypeOK, Monitors, NULL
<1>. QED
  BY <1>4 DEF Held

LEMMA InitInv == Init => Inv
<1> SUFFICES ASSUME Init PROVE Inv
  OBVIOUS
<1>1. TypeOK
  BY Zenon DEF Init, TypeOK, Monitors, NULL
<1>2. HeldAlive /\ RefInv /\ AliveUnique
  BY DEF Init, HeldAlive, RefInv, AliveUnique
<1>. QED
  BY <1>1, <1>2 DEF Inv

(***************************************************************************)
(* Destroying CPU c's tracer takes c out of the holders of every monitor. *)
(***************************************************************************)
LEMMA DestroyHolders ==
    ASSUME TypeOK, NEW c \in Cpus, DestroyTracer(c), NEW m
    PROVE  Holders(m)' = Holders(m) \ {c}
<1>1. tracers' = tracers \ {c} /\ fsm' = [fsm EXCEPT ![c] = NULL]
  BY DEF DestroyTracer
<1>2. \A x \in tracers \ {c} : fsm'[x] = fsm[x]
  BY <1>1 DEF TypeOK
<1>. QED
  BY <1>1, <1>2 DEF Holders

(***************************************************************************)
(* iotrace_destroy_inode_tracer keeps the invariant: the put takes one    *)
(* reference for the one holder that goes away, and frees the monitor     *)
(* exactly when that holder was the last.                                 *)
(***************************************************************************)
LEMMA DestroyInv ==
    ASSUME Inv, NEW c \in Cpus, DestroyTracer(c)
    PROVE  Inv'
<1>0. /\ TypeOK /\ HeldAlive /\ RefInv /\ AliveUnique
      /\ c \in tracers
      /\ tracers' = tracers \ {c}
      /\ fsm' = [fsm EXCEPT ![c] = NULL]
      /\ MonitorPut(fsm[c])
      /\ UNCHANGED <<Compatible, SymbolsFound, resolved, inited, absent>>
  BY DEF Inv, DestroyTracer, kernel
<1>1. \A m : Holders(m)' = Holders(m) \ {c}
  BY <1>0, DestroyHolders
<1>2. \A x \in tracers' : fsm'[x] = fsm[x]
  BY <1>0 DEF TypeOK
\* What the put does to the monitor of c, if any, and to no other.
<1>3. CASE fsm[c] = NULL
  <2>1. UNCHANGED <<alive, refcnt, grp>>
    BY <1>3, <1>0 DEF MonitorPut
  <2>2. TypeOK'
    BY <2>1, <1>0 DEF TypeOK
  <2>3. \A m \in Monitors : Holders(m)' = Holders(m)
    BY <1>1, <1>3, <1>0, MonitorAssumption DEF Holders, Monitors, NULL
  <2>4. HeldAlive'
    BY <2>1, <1>2, <1>0 DEF HeldAlive
  <2>5. RefInv' /\ AliveUnique'
    BY <2>1, <2>3, <1>0 DEF RefInv, AliveUnique, TypeOK
  <2>. QED
    BY <2>2, <2>4, <2>5 DEF Inv
<1>4. CASE fsm[c] # NULL
  <2>0. PICK m0 : m0 = fsm[c]
    OBVIOUS
  <2>1. m0 \in alive /\ m0 \in Monitors /\ c \in Holders(m0)
    BY <2>0, <1>4, <1>0 DEF HeldAlive, Holders, TypeOK
  <2>2. /\ refcnt[m0] = Cardinality(Holders(m0))
        /\ grp[m0] = refcnt[m0]
        /\ refcnt[m0] > 0
    BY <2>1, <1>0 DEF RefInv
  <2>3. IsFiniteSet(Holders(m0)) /\ Cardinality(Holders(m0)) \in Nat
    BY <1>0, HoldersFinite, FS_CardinalityType
  <2>4. Cardinality(Holders(m0)') = Cardinality(Holders(m0)) - 1
    BY <2>1, <2>3, <1>1, FS_RemoveElement
  <2>5. /\ refcnt' = [refcnt EXCEPT ![m0] = @ - 1]
        /\ grp' = [grp EXCEPT ![m0] = @ - 1]
        /\ alive' = IF refcnt[m0] = 1 THEN alive \ {m0} ELSE alive
    BY <2>0, <1>4, <1>0 DEF MonitorPut
  <2>6. TypeOK'
    <3>1. refcnt' \in [Monitors -> Nat] /\ grp' \in [Monitors -> Nat]
      BY <2>1, <2>2, <2>5, <1>0 DEF TypeOK
    <3>2. alive' \subseteq Monitors /\ tracers' \subseteq Cpus
      BY <2>5, <1>0 DEF TypeOK
    <3>3. fsm' \in [Cpus -> Monitors \cup {NULL}]
      BY <1>0 DEF TypeOK
    <3>. QED
      BY <3>1, <3>2, <3>3, <1>0 DEF TypeOK
  \* a holder other than c keeps m0 alive
  <2>7. ASSUME NEW x \in tracers', fsm[x] = m0
        PROVE  m0 \in alive'
    <3>1. x \in Holders(m0) /\ x # c
      BY <2>7, <1>0 DEF Holders
    <3>2. Cardinality(Holders(m0)) > 1
      <4>1. IsFiniteSet({c}) /\ Cardinality({c}) = 1
        BY FS_Singleton
      <4>2. {c} \subseteq Holders(m0) /\ {c} # Holders(m0)
        BY <2>1, <3>1
      <4>. QED
        BY <2>3, <4>1, <4>2, FS_Subset
    <3>. QED
      BY <3>2, <2>1, <2>2, <2>5
  <2>8. HeldAlive'
    <3> SUFFICES ASSUME NEW x \in tracers', fsm'[x] # NULL
                 PROVE  fsm'[x] \in alive'
      BY DEF HeldAlive
    <3>1. fsm'[x] = fsm[x] /\ fsm[x] \in alive
      BY <1>2, <1>0 DEF HeldAlive
    <3>. QED
      BY <3>1, <2>7, <2>5
  <2>9. AliveUnique'
    BY <2>5, <1>0 DEF AliveUnique
  <2>10. RefInv'
    <3> SUFFICES ASSUME NEW m \in alive'
                 PROVE  /\ refcnt'[m] = Cardinality(Holders(m)')
                        /\ grp'[m] = refcnt'[m]
                        /\ refcnt'[m] > 0
      BY DEF RefInv
    <3>1. m \in alive /\ m \in Monitors
      BY <2>5, <1>0 DEF TypeOK
    <3>2. CASE m = m0
      <4>1. refcnt[m0] # 1
        BY <3>2, <2>5
      <4>2. refcnt'[m0] = refcnt[m0] - 1 /\ grp'[m0] = grp[m0] - 1
        BY <2>1, <2>5, <1>0 DEF TypeOK
      <4>. QED
        BY <3>2, <4>1, <4>2, <2>2, <2>3, <2>4
    <3>3. CASE m # m0
      <4>1. Holders(m)' = Holders(m)
        BY <3>3, <2>0, <1>1 DEF Holders
      <4>2. refcnt'[m] = refcnt[m] /\ grp'[m] = grp[m]
        BY <3>3, <3>1, <2>5, <1>0 DEF TypeOK
      <4>. QED
        BY <3>1, <4>1, <4>2, <1>0 DEF RefInv
    <3>. QED
      BY <3>2, <3>3
  <2>. QED
    BY <2>6, <2>8, <2>9, <2>10 DEF Inv
<1>. QED
  BY <1>3, <1>4

(***************************************************************************)
(* Storing CPU c's new tracer with monitor v adds c to the holders of v   *)
(* and to no other's.                                                     *)
(***************************************************************************)
LEMMA CreateHolders ==
    ASSUME TypeOK, NEW c \in Cpus, c \notin tracers, NEW v,
           tracers' = tracers \cup {c}, fsm' = [fsm EXCEPT ![c] = v],
           NEW m
    PROVE  Holders(m)' = IF m = v THEN Holders(m) \cup {c} ELSE Holders(m)
<1>1. \A x \in tracers : fsm'[x] = fsm[x]
  BY DEF TypeOK
<1>2. fsm'[c] = v
  BY DEF TypeOK
<1>. QED
  BY <1>1, <1>2 DEF Holders

\* The frame shared by the three outcomes of _fsm_init.
CreateFrame(c) ==
    /\ c \in Cpus /\ c \notin tracers
    /\ tracers' = tracers \cup {c}
    /\ UNCHANGED <<Compatible, SymbolsFound>>
    /\ resolved' \in BOOLEAN /\ inited' \in BOOLEAN /\ absent' \in BOOLEAN

(***************************************************************************)
(* _fsm_init leaves the new tracer without a monitor (incompatible        *)
(* kernel, failed lookup, failed allocation): no count changes.           *)
(***************************************************************************)
LEMMA CreateNullInv ==
    ASSUME Inv, NEW c, CreateFrame(c),
           fsm' = [fsm EXCEPT ![c] = NULL],
           UNCHANGED <<alive, refcnt, grp>>
    PROVE  Inv'
<1>0. TypeOK /\ HeldAlive /\ RefInv /\ AliveUnique /\ c \in Cpus /\ c \notin tracers
  BY DEF Inv, CreateFrame
<1>1. \A m \in Monitors : Holders(m)' = Holders(m)
  <2> SUFFICES ASSUME NEW m \in Monitors PROVE Holders(m)' = Holders(m)
    OBVIOUS
  <2>1. m # NULL
    BY MonitorAssumption DEF Monitors, NULL
  <2>2. Holders(m)' = IF m = NULL THEN Holders(m) \cup {c} ELSE Holders(m)
    BY <1>0, CreateHolders DEF CreateFrame
  <2>. QED
    BY <2>1, <2>2
<1>2. TypeOK'
  BY <1>0 DEF TypeOK, CreateFrame
<1>3. HeldAlive'
  BY <1>0 DEF HeldAlive, CreateFrame, TypeOK
<1>4. RefInv' /\ AliveUnique'
  BY <1>0, <1>1 DEF RefInv, AliveUnique, TypeOK
<1>. QED
  BY <1>2, <1>3, <1>4 DEF Inv

(***************************************************************************)
(* _fsm_try_get shares the monitor m of a sibling: one more holder, one   *)
(* more reference on the monitor and on its group.                        *)
(***************************************************************************)
LEMMA CreateShareInv ==
    ASSUME Inv, NEW c, CreateFrame(c), NEW m0 \in Held,
           MonitorGet(m0), fsm' = [fsm EXCEPT ![c] = m0],
           UNCHANGED alive
    PROVE  Inv'
<1>0. TypeOK /\ HeldAlive /\ RefInv /\ AliveUnique /\ c \in Cpus /\ c \notin tracers
  BY DEF Inv, CreateFrame
<1>1. m0 \in alive /\ m0 \in Monitors
  BY <1>0 DEF Held, HeldAlive, TypeOK
<1>2. \A m : Holders(m)' = IF m = m0 THEN Holders(m) \cup {c} ELSE Holders(m)
  BY <1>0, CreateHolders DEF CreateFrame
<1>3. IsFiniteSet(Holders(m0)) /\ c \notin Holders(m0)
  BY <1>0, HoldersFinite DEF Holders
<1>4. Cardinality(Holders(m0)') = Cardinality(Holders(m0)) + 1
  BY <1>2, <1>3, FS_AddElement
<1>5. TypeOK'
  BY <1>0, <1>1 DEF TypeOK, CreateFrame, MonitorGet
<1>6. HeldAlive'
  BY <1>0, <1>1 DEF HeldAlive, CreateFrame, TypeOK
<1>7. RefInv'
  <2> SUFFICES ASSUME NEW m \in alive'
               PROVE  /\ refcnt'[m] = Cardinality(Holders(m)')
                      /\ grp'[m] = refcnt'[m]
                      /\ refcnt'[m] > 0
    BY DEF RefInv
  <2>1. m \in Monitors /\ m \in alive
    BY <1>0 DEF TypeOK
  <2>2. CASE m = m0
    <3>1. refcnt'[m] = refcnt[m] + 1 /\ grp'[m] = grp[m] + 1
      BY <2>1, <2>2, <1>0 DEF MonitorGet, TypeOK
    <3>2. refcnt[m] = Cardinality(Holders(m)) /\ grp[m] = refcnt[m]
      BY <2>1, <1>0 DEF RefInv
    <3>3. Cardinality(Holders(m0)) \in Nat
      BY <1>3, FS_CardinalityType
    <3>4. Cardinality(Holders(m)') = Cardinality(Holders(m)) + 1
      BY <2>2, <1>4
    <3>. QED
      BY <3>1, <3>2, <3>3, <3>4, <2>2
  <2>3. CASE m # m0
    <3>1. refcnt'[m] = refcnt[m] /\ grp'[m] = grp[m]
      BY <2>1, <2>3, <1>0 DEF MonitorGet, TypeOK
    <3>. QED
      BY <3>1, <2>1, <2>3, <1>2, <1>0 DEF RefInv
  <2>. QED
    BY <2>2, <2>3
<1>8. AliveUnique'
  BY <1>0 DEF AliveUnique
<1>. QED
  BY <1>5, <1>6, <1>7, <1>8 DEF Inv

(***************************************************************************)
(* With no sibling holding a monitor, no monitor is alive, so the one     *)
(* _fsm_init allocates is the only one, with its single holder c.        *)
(***************************************************************************)
LEMMA CreateAllocInv ==
    ASSUME Inv, NEW c, CreateFrame(c), Held = {},
           NEW m0 \in Monitors \ alive, Allocate(c, m0)
    PROVE  Inv'
<1>0. TypeOK /\ HeldAlive /\ RefInv /\ AliveUnique /\ c \in Cpus /\ c \notin tracers
  BY DEF Inv, CreateFrame
<1>1. alive = {}
  BY AliveIsHeld
<1>2. /\ alive' = {m0}
      /\ refcnt' = [refcnt EXCEPT ![m0] = 1]
      /\ grp' = [grp EXCEPT ![m0] = 1]
      /\ fsm' = [fsm EXCEPT ![c] = m0]
  BY <1>1 DEF Allocate
\* every sibling is without a monitor
<1>3. \A x \in tracers : fsm[x] = NULL
  BY <1>0, <1>1 DEF HeldAlive
<1>4. Holders(m0)' = {c}
  <2>1. Holders(m0) = {}
    BY <1>3, MonitorAssumption DEF Holders, Monitors, NULL
  <2>. QED
    BY <2>1, <1>0, <1>2, CreateHolders DEF CreateFrame
<1>5. TypeOK'
  BY <1>0, <1>2 DEF TypeOK, CreateFrame
<1>6. HeldAlive'
  BY <1>0, <1>2, <1>3 DEF HeldAlive, CreateFrame, TypeOK
<1>7. RefInv'
  <2>1. Cardinality({c}) = 1
    BY FS_Singleton
  <2>. QED
    BY <2>1, <1>0, <1>2, <1>4 DEF RefInv, TypeOK
<1>8. AliveUnique'
  BY <1>2 DEF AliveUnique
<1>. QED
  BY <1>5, <1>6, <1>7, <1>8 DEF Inv

(***************************************************************************)
(* iotrace_create_inode_tracer keeps the invariant, whichever way         *)
(* _fsm_init goes.                                                        *)
(***************************************************************************)
LEMMA CreateInv ==
    ASSUME Inv, NEW c \in Cpus, CreateTracer(c)
    PROVE  Inv'
<1>0. /\ TypeOK /\ c \notin tracers /\ tracers' = tracers \cup {c}
      /\ UNCHANGED <<Compatible, SymbolsFound>> /\ FsmInit(c)
  BY DEF Inv, CreateTracer, kernel
<1>1. CASE ~Compatible
  BY <1>0, <1>1, CreateNullInv DEF FsmInit, CreateFrame, TypeOK
<1>2. CASE Compatible /\ ~resolved /\ ~SymbolsFound
  BY <1>0, <1>2, CreateNullInv DEF FsmInit, CreateFrame, TypeOK, Resolved
<1>3. CASE Compatible /\ Resolved
  <2>1. resolved' \in BOOLEAN
    BY <1>0, <1>3 DEF Resolved, TypeOK
  <2>2. CASE \E m \in Held : /\ MonitorGet(m)
                              /\ fsm' = [fsm EXCEPT ![c] = m]
                              /\ UNCHANGED <<alive, inited, absent>>
    BY <2>1, <2>2, <1>0, CreateShareInv DEF CreateFrame, TypeOK
  <2>3. CASE Held = {} /\ \E m \in Monitors \ alive : Allocate(c, m)
    BY <2>1, <2>3, <1>0, CreateAllocInv DEF CreateFrame, TypeOK, Allocate
  <2>4. CASE /\ Held = {}
             /\ fsm' = [fsm EXCEPT ![c] = NULL]
             /\ absent' = TRUE
             /\ UNCHANGED <<alive, refcnt, grp, inited>>
    BY <2>1, <2>4, <1>0, CreateNullInv DEF CreateFrame, TypeOK
  <2>. QED
    BY <1>0, <1>3, <2>2, <2>3, <2>4 DEF FsmInit, Resolved
<1>. QED
  BY <1>0, <1>1, <1>2, <1>3 DEF FsmInit

LEMMA NextInv == Inv /\ [Next]_vars => Inv'
<1> SUFFICES ASSUME Inv, [Next]_vars PROVE Inv'
  OBVIOUS
<1>1. CASE \E c \in Cpus : CreateTracer(c)
  BY <1>1, CreateInv
<1>2. CASE \E c \in Cpus : DestroyTracer(c)
  BY <1>2, DestroyInv
<1>3. CASE UNCHANGED vars
  BY <1>3 DEF vars, kernel, Inv, TypeOK, HeldAlive, RefInv, AliveUnique, Holders
<1>. QED
  BY <1>1, <1>2, <1>3 DEF Next

\* The counting invariant holds in every reachable state.
THEOREM MonitorInvariant == Spec => []Inv
BY InitInv, NextInv, PTL DEF Spec

(***************************************************************************)
(* Over every sequence of iotrace_create_inode_tracer and                 *)
(* iotrace_destroy_inode_tracer calls, for any finite set of CPUs, a live *)
(* monitor's refcnt and group references equal its holders and a freed    *)
(* monitor has none (MonitorRefcount).                                    *)
(***************************************************************************)
THEOREM MonitorRefcountThm == Spec => []MonitorRefcount
<1>1. Inv => MonitorRefcount
  <2> SUFFICES ASSUME Inv, NEW m \in Monitors
               PROVE  LET holders == {c \in tracers : fsm[c] = m}
                      IN /\ m \in alive => /\ refcnt[m] = Cardinality(holders)
                                           /\ grp[m] = refcnt[m]
                                           /\ refcnt[m] > 0
                         /\ m \notin alive => holders = {}
    BY DEF MonitorRefcount
  <2>1. m \in alive => /\ refcnt[m] = Cardinality(Holders(m))
                      /\ grp[m] = refcnt[m]
                      /\ refcnt[m] > 0
    BY DEF Inv, RefInv
  <2>2. m \notin alive => Holders(m) = {}
    BY MonitorAssumption DEF Inv, HeldAlive, Holders, Monitors, NULL
  <2>. QED
    BY <2>1, <2>2 DEF Holders
<1>. QED
  BY <1>1, MonitorInvariant, PTL

(***************************************************************************)
(* _fsm_init allocates only when no tracer holds a monitor, so at most    *)
(* one monitor is ever alive and every tracer's monitor is that one       *)
(* (SingleMonitor).                                                       *)
(***************************************************************************)
THEOREM SingleMonitorThm == Spec => []SingleMonitor
<1>1. Inv => SingleMonitor
  <2> SUFFICES ASSUME Inv PROVE SingleMonitor
    OBVIOUS
  <2>1. CASE alive = {}
    BY <2>1, FS_EmptySet DEF Inv, HeldAlive, SingleMonitor
  <2>2. CASE alive # {}
    <3>1. PICK m \in alive : TRUE
      BY <2>2
    <3>2. alive = {m}
      BY <3>1 DEF Inv, AliveUnique
    <3>3. Cardinality(alive) = 1
      BY <3>2, FS_Singleton
    <3>. QED
      BY <3>3 DEF Inv, HeldAlive, SingleMonitor
  <2>. QED
    BY <2>1, <2>2
<1>. QED
  BY <1>1, MonitorInvariant, PTL

\* The TypeOK of the monitor run, for every finite set of CPUs.
THEOREM MonitorTypeCorrect == Spec => []TypeOK
BY MonitorInvariant, PTL DEF Inv

=============================================================================
