---------------------------- MODULE MarkAdd_proofs ----------------------------
(***************************************************************************)
(* Proofs that concurrent _fs_add_mark calls keep every mark's reference  *)
(* count equal to its holders and leave no mark behind when the group is *)
(* destroyed, for any finite sets of CPUs and inodes.                     *)
(***************************************************************************)
EXTENDS MarkAdd, FiniteSetTheorems, TLAPS

\* The reference the inode list holds on m, if m is attached.
AttCount(m) == IF \E o \in Inodes : attached[o] = m THEN 1 ELSE 0

\* A CPU inside _fs_add_mark holds a live mark exactly in the Holding steps.
LocalMark ==
    \A c \in Cpus : IF pc[c] \in Holding THEN lm[c] \in live ELSE lm[c] = NoMark

\* The mark about to be added is attached nowhere and held by its CPU only.
Fresh ==
    \A c \in Cpus : pc[c] = "add" =>
        /\ \A o \in Inodes : attached[o] # lm[c]
        /\ Holders(lm[c]) = {c}

\* No mark is attached to two inodes.
AttachedOnce ==
    \A o1, o2 \in Inodes :
        attached[o1] = attached[o2] /\ attached[o1] # NoMark => o1 = o2

\* An attached mark is allocated.
AttachedLive ==
    \A o \in Inodes : attached[o] # NoMark => attached[o] \in live

\* MarkRefs with the inode list's reference counted as 0 or 1.
Refs ==
    /\ \A m \in live : /\ ref[m] = AttCount(m) + Cardinality(Holders(m))
                       /\ ref[m] > 0
    /\ \A m \in Marks \ live : AttCount(m) = 0 /\ Holders(m) = {}

IInv == /\ TypeOK /\ LocalMark /\ Fresh /\ AttachedOnce /\ AttachedLive
        /\ Refs /\ NoMarkLeak

-----------------------------------------------------------------------------
LEMMA HoldersFinite ==
    ASSUME NEW m
    PROVE  IsFiniteSet(Holders(m)) /\ Cardinality(Holders(m)) \in Nat
<1>1. Holders(m) \subseteq Cpus
  BY DEF Holders
<1>. QED
  BY <1>1, MarkAssumption, FS_Subset, FS_CardinalityType

\* With no mark attached twice, the inodes carrying m are AttCount(m).
LEMMA AttCountCard ==
    ASSUME AttachedOnce, NEW m \in Marks
    PROVE  Cardinality({o \in Inodes : attached[o] = m}) = AttCount(m)
<1>1. CASE \E o \in Inodes : attached[o] = m
  <2>1. PICK o \in Inodes : attached[o] = m
    BY <1>1
  <2>2. m # NoMark
    BY DEF Marks, NoMark
  <2>3. {x \in Inodes : attached[x] = m} = {o}
    BY <2>1, <2>2 DEF AttachedOnce
  <2>. QED
    BY <2>3, <1>1, FS_Singleton DEF AttCount
<1>2. CASE ~\E o \in Inodes : attached[o] = m
  <2>1. {x \in Inodes : attached[x] = m} = {}
    BY <1>2
  <2>. QED
    BY <2>1, <1>2, FS_EmptySet DEF AttCount
<1>. QED
  BY <1>1, <1>2

\* A step of CPU c leaves the other CPUs' holdings alone.
LEMMA HoldersOther ==
    ASSUME NEW c \in Cpus,
           \A x \in Cpus \ {c} : pc'[x] = pc[x] /\ lm'[x] = lm[x],
           NEW m
    PROVE  Holders(m)' \ {c} = Holders(m) \ {c}
BY DEF Holders

\* Adding c to, or removing c from, the holders of m.
LEMMA HoldersAdd ==
    ASSUME NEW m, NEW c \in Cpus, c \notin Holders(m),
           Holders(m)' = Holders(m) \cup {c}
    PROVE  Cardinality(Holders(m)') = Cardinality(Holders(m)) + 1
BY HoldersFinite, FS_AddElement

LEMMA HoldersRemove ==
    ASSUME NEW m, NEW c \in Cpus, c \in Holders(m),
           Holders(m)' = Holders(m) \ {c}
    PROVE  Cardinality(Holders(m)') = Cardinality(Holders(m)) - 1
BY HoldersFinite, FS_RemoveElement

LEMMA InitIInv == Init => IInv
<1> SUFFICES ASSUME Init PROVE IInv
  OBVIOUS
<1>1. TypeOK
  BY DEF Init, TypeOK, Marks, NoMark
<1>2. \A m : Holders(m) = {}
  BY DEF Init, Holders, Holding
<1>3. \A m \in Marks : AttCount(m) = 0
  BY DEF Init, AttCount, Marks, NoMark
<1>. QED
  BY <1>1, <1>2, <1>3 DEF Init, IInv, LocalMark, Fresh, AttachedOnce,
                         AttachedLive, Refs, NoMarkLeak, Holding

\* _fs_add_mark is entered: no reference is taken yet.
LEMMA StartInv ==
    ASSUME IInv, NEW c \in Cpus, NEW o \in Inodes, Start(c, o)
    PROVE  IInv'
<1>0. pc[c] = "idle" /\ pc' = [pc EXCEPT ![c] = "find"]
      /\ UNCHANGED <<attached, ref, live, lm, leftover>>
  BY DEF Start
<1>1. \A m : Holders(m)' = Holders(m)
  BY <1>0 DEF IInv, TypeOK, Holders, Holding
<1>2. \A m : AttCount(m)' = AttCount(m)
  BY <1>0 DEF AttCount
<1>3. TypeOK'
  BY <1>0 DEF Start, IInv, TypeOK
<1>4. LocalMark'
  BY <1>0 DEF IInv, TypeOK, LocalMark, Holding
<1>5. Fresh'
  BY <1>0, <1>1 DEF IInv, TypeOK, Fresh
<1>6. (AttachedOnce /\ AttachedLive /\ Refs /\ NoMarkLeak)'
  BY <1>0, <1>1, <1>2 DEF IInv, AttachedOnce, AttachedLive, Refs, NoMarkLeak
<1>. QED
  BY <1>3, <1>4, <1>5, <1>6 DEF IInv

\* find_mark finds the inode's mark and takes a reference, or finds none.
LEMMA FindInv ==
    ASSUME IInv, NEW c \in Cpus, FindMark(c)
    PROVE  IInv'
<1>0. /\ TypeOK /\ LocalMark /\ Fresh /\ AttachedOnce /\ AttachedLive /\ Refs
      /\ NoMarkLeak /\ pc[c] = "find" /\ lm[c] = NoMark
      /\ UNCHANGED <<attached, live, tgt, leftover>>
  BY DEF IInv, FindMark, LocalMark, Holding
<1>1. \A m : AttCount(m)' = AttCount(m)
  BY <1>0 DEF AttCount
<1>2. \A m : Holders(m)' \ {c} = Holders(m) \ {c}
  <2>1. \A x \in Cpus \ {c} : pc'[x] = pc[x] /\ lm'[x] = lm[x]
    BY <1>0 DEF FindMark, TypeOK
  <2>. QED
    BY <2>1, HoldersOther
<1>3. \A m : c \notin Holders(m)
  BY <1>0 DEF Holders, Holding
<1>4. CASE attached[tgt[c]] # NoMark
  <2>0. PICK m0 : m0 = attached[tgt[c]]
    OBVIOUS
  <2>1. /\ ref' = [ref EXCEPT ![m0] = @ + 1]
        /\ lm' = [lm EXCEPT ![c] = m0]
        /\ pc' = [pc EXCEPT ![c] = "put_found"]
    BY <2>0, <1>4 DEF FindMark
  <2>2. m0 \in live /\ m0 \in Marks
    BY <2>0, <1>4, <1>0 DEF AttachedLive, TypeOK
  <2>3. Holders(m0)' = Holders(m0) \cup {c}
    BY <2>1, <1>0, <1>2 DEF Holders, Holding, TypeOK
  <2>4. \A m : m # m0 => Holders(m)' = Holders(m)
    BY <2>1, <1>0, <1>2, <1>3 DEF Holders, TypeOK
  <2>5. Cardinality(Holders(m0)') = Cardinality(Holders(m0)) + 1
    BY <2>3, <1>3, HoldersAdd
  <2>6. TypeOK'
    BY <2>1, <2>2, <1>0 DEF TypeOK, Holding
  <2>7. LocalMark'
    BY <2>1, <2>2, <1>0 DEF LocalMark, TypeOK, Holding
  <2>8. Fresh'
    <3> SUFFICES ASSUME NEW x \in Cpus, pc'[x] = "add"
                 PROVE  (/\ \A o \in Inodes : attached[o] # lm[x]
                         /\ Holders(lm[x]) = {x})'
      BY DEF Fresh
    <3>0. PICK k : k = lm[x]
      OBVIOUS
    <3>1. x # c /\ pc[x] = "add" /\ lm'[x] = k
      BY <3>0, <2>1, <1>0 DEF TypeOK
    <3>2. (\A o \in Inodes : attached[o] # k) /\ Holders(k) = {x}
      BY <3>0, <3>1, <1>0 DEF Fresh
    <3>3. k # m0
      BY <3>2, <2>0, <1>0 DEF TypeOK
    <3>4. Holders(k)' = {x}
      BY <3>2, <3>3, <2>4
    <3>. QED
      BY <3>1, <3>2, <3>4, <1>0 DEF Holders
  <2>9. Refs'
    <3>1. ASSUME NEW m \in live'
          PROVE  ref'[m] = AttCount(m)' + Cardinality(Holders(m)') /\ ref'[m] > 0
      <4>1. CASE m = m0
        <5>1. ref[m] = AttCount(m) + Cardinality(Holders(m)) /\ ref[m] \in Nat
          BY <4>1, <2>2, <1>0 DEF Refs, TypeOK
        <5>2. ref'[m] = ref[m] + 1
          BY <4>1, <2>1, <2>2, <1>0 DEF TypeOK
        <5>3. AttCount(m)' = AttCount(m) /\ AttCount(m) \in Nat
          BY <1>1 DEF AttCount
        <5>4. Cardinality(Holders(m)') = Cardinality(Holders(m)) + 1
          BY <4>1, <2>5
        <5>5. Cardinality(Holders(m)) \in Nat
          BY HoldersFinite
        <5>. QED
          BY <5>1, <5>2, <5>3, <5>4, <5>5
      <4>2. CASE m # m0
        BY <4>2, <3>1, <2>1, <2>4, <1>1, <1>0 DEF Refs, TypeOK
      <4>. QED
        BY <4>1, <4>2
    <3>2. ASSUME NEW m \in Marks \ live'
          PROVE  AttCount(m)' = 0 /\ Holders(m)' = {}
      BY <3>1, <2>2, <2>4, <1>1, <1>0 DEF Refs
    <3>. QED
      BY <3>1, <3>2 DEF Refs
  <2>. QED
    BY <2>6, <2>7, <2>8, <2>9, <1>0
       DEF IInv, AttachedOnce, AttachedLive, NoMarkLeak
<1>5. CASE attached[tgt[c]] = NoMark
  <2>1. pc' = [pc EXCEPT ![c] = "alloc"] /\ UNCHANGED <<ref, lm>>
    BY <1>5 DEF FindMark
  <2>2. \A m : Holders(m)' = Holders(m)
    BY <2>1, <1>0 DEF Holders, Holding, TypeOK
  <2>. QED
    BY <2>1, <2>2, <1>0, <1>1
       DEF IInv, TypeOK, LocalMark, Fresh, AttachedOnce, AttachedLive, Refs,
           NoMarkLeak, Holding
<1>. QED
  BY <1>4, <1>5

\* kmem_cache_zalloc and init_mark: a free mark becomes c's, with one reference.
LEMMA AllocInv ==
    ASSUME IInv, NEW c \in Cpus, AllocMark(c)
    PROVE  IInv'
<1>0. /\ TypeOK /\ LocalMark /\ Fresh /\ AttachedOnce /\ AttachedLive /\ Refs
      /\ NoMarkLeak /\ pc[c] = "alloc" /\ lm[c] = NoMark
      /\ pc' = [pc EXCEPT ![c] = "add"]
      /\ UNCHANGED <<attached, tgt, leftover>>
  BY DEF IInv, AllocMark, LocalMark, Holding
<1>1. PICK m0 \in Marks \ live :
          /\ live' = live \cup {m0}
          /\ ref' = [ref EXCEPT ![m0] = 1]
          /\ lm' = [lm EXCEPT ![c] = m0]
  BY DEF AllocMark
<1>2. AttCount(m0) = 0 /\ Holders(m0) = {}
  BY <1>0, <1>1 DEF Refs
<1>3. \A m : AttCount(m)' = AttCount(m)
  BY <1>0 DEF AttCount
<1>4. \A m : Holders(m)' \ {c} = Holders(m) \ {c}
  <2>1. \A x \in Cpus \ {c} : pc'[x] = pc[x] /\ lm'[x] = lm[x]
    BY <1>0, <1>1 DEF TypeOK
  <2>. QED
    BY <2>1, HoldersOther
<1>5. Holders(m0)' = {c}
  BY <1>0, <1>1, <1>2, <1>4 DEF Holders, Holding, TypeOK
<1>6. \A m : m # m0 => Holders(m)' = Holders(m)
  BY <1>0, <1>1, <1>4 DEF Holders, Holding, TypeOK
<1>7. TypeOK'
  BY <1>0, <1>1 DEF TypeOK, Holding
<1>8. LocalMark'
  BY <1>0, <1>1 DEF LocalMark, TypeOK, Holding
<1>9. Fresh'
  <2>1. \A o \in Inodes : attached[o] # m0
    BY <1>2, <1>0 DEF AttCount
  <2>2. \A x \in Cpus : x # c /\ pc[x] = "add" => lm[x] # m0
    BY <1>2, <1>0 DEF Holders, Holding
  <2>. QED
    BY <2>1, <2>2, <1>0, <1>1, <1>5, <1>6 DEF Fresh, TypeOK
<1>10. Refs'
  <2>1. ASSUME NEW m \in live'
        PROVE  ref'[m] = AttCount(m)' + Cardinality(Holders(m)') /\ ref'[m] > 0
    <3>1. CASE m = m0
      <4>1. Cardinality({c}) = 1
        BY FS_Singleton
      <4>. QED
        BY <4>1, <3>1, <1>0, <1>1, <1>2, <1>3, <1>5 DEF TypeOK
    <3>2. CASE m # m0
      <4>1. m \in live /\ ref'[m] = ref[m]
        BY <3>2, <1>0, <1>1 DEF TypeOK
      <4>. QED
        BY <4>1, <3>2, <1>0, <1>3, <1>6 DEF Refs
    <3>. QED
      BY <3>1, <3>2
  <2>2. ASSUME NEW m \in Marks \ live'
        PROVE  AttCount(m)' = 0 /\ Holders(m)' = {}
    BY <2>2, <1>0, <1>1, <1>3, <1>6 DEF Refs
  <2>. QED
    BY <2>1, <2>2 DEF Refs
<1>. QED
  BY <1>7, <1>8, <1>9, <1>10, <1>0, <1>1
     DEF IInv, AttachedOnce, AttachedLive, NoMarkLeak

\* add_mark attaches c's fresh mark with the inode list's reference, or fails.
LEMMA AddInv ==
    ASSUME IInv, NEW c \in Cpus, AddMark(c)
    PROVE  IInv'
<1>0. /\ TypeOK /\ LocalMark /\ Fresh /\ AttachedOnce /\ AttachedLive /\ Refs
      /\ NoMarkLeak /\ pc[c] = "add"
      /\ UNCHANGED <<live, tgt, lm, leftover>>
  BY DEF IInv, AddMark
<1>1. PICK m0 : m0 = lm[c]
  OBVIOUS
<1>2. /\ m0 \in live /\ m0 \in Marks
      /\ \A o \in Inodes : attached[o] # m0
      /\ Holders(m0) = {c}
  BY <1>0, <1>1 DEF LocalMark, Fresh, Holding, TypeOK
<1>3. \A m : Holders(m)' = Holders(m)
  BY <1>0 DEF AddMark, Holders, Holding, TypeOK
<1>4. CASE attached[tgt[c]] = NoMark
  <2>0. PICK t : t = tgt[c]
    OBVIOUS
  <2>1. /\ attached' = [attached EXCEPT ![t] = m0]
        /\ ref' = [ref EXCEPT ![m0] = @ + 1]
        /\ pc' = [pc EXCEPT ![c] = "put"]
    BY <1>4, <1>1, <2>0 DEF AddMark
  <2>2. t \in Inodes /\ attached[t] = NoMark
    BY <1>4, <2>0, <1>0 DEF TypeOK
  <2>3. AttCount(m0) = 0 /\ AttCount(m0)' = 1
    BY <2>1, <2>2, <1>2, <1>0 DEF AttCount, TypeOK
  <2>4. \A m \in Marks : m # m0 => AttCount(m)' = AttCount(m)
    BY <2>1, <2>2, <1>0 DEF AttCount, TypeOK, Marks, NoMark
  <2>5. TypeOK'
    BY <2>1, <2>2, <1>2, <1>0 DEF TypeOK, Holding
  <2>6. LocalMark'
    BY <2>1, <1>0 DEF LocalMark, TypeOK, Holding
  <2>7. Fresh'
    <3> SUFFICES ASSUME NEW x \in Cpus, pc'[x] = "add"
                 PROVE  (/\ \A o \in Inodes : attached[o] # lm[x]
                         /\ Holders(lm[x]) = {x})'
      BY DEF Fresh
    <3>0. PICK k : k = lm[x]
      OBVIOUS
    <3>1. x # c /\ pc[x] = "add" /\ lm'[x] = k
      BY <3>0, <2>1, <1>0 DEF TypeOK
    <3>2. (\A o \in Inodes : attached[o] # k) /\ Holders(k) = {x}
      BY <3>0, <3>1, <1>0 DEF Fresh
    <3>3. k # m0
      BY <3>1, <3>2, <1>2
    <3>4. \A o \in Inodes : attached'[o] # k
      BY <3>2, <3>3, <2>1, <1>0 DEF TypeOK
    <3>. QED
      BY <3>1, <3>2, <3>4, <1>3
  <2>8. AttachedOnce'
    BY <2>1, <2>2, <1>2, <1>0 DEF AttachedOnce, TypeOK, Marks, NoMark
  <2>9. AttachedLive'
    BY <2>1, <1>2, <1>0 DEF AttachedLive, TypeOK
  <2>10. Refs'
    <3>1. ASSUME NEW m \in live'
          PROVE  ref'[m] = AttCount(m)' + Cardinality(Holders(m)') /\ ref'[m] > 0
      <4>1. CASE m = m0
        <5>1. ref[m] = AttCount(m) + Cardinality(Holders(m)) /\ ref[m] \in Nat
          BY <4>1, <1>2, <1>0 DEF Refs, TypeOK
        <5>2. ref'[m] = ref[m] + 1
          BY <4>1, <2>1, <1>2, <1>0 DEF TypeOK
        <5>3. Cardinality(Holders(m)) \in Nat /\ Holders(m)' = Holders(m)
          BY <1>3, HoldersFinite
        <5>. QED
          BY <5>1, <5>2, <5>3, <2>3, <4>1
      <4>2. CASE m # m0
        <5>1. m \in live /\ m \in Marks /\ ref'[m] = ref[m]
          BY <4>2, <2>1, <1>0 DEF TypeOK
        <5>. QED
          BY <5>1, <4>2, <2>4, <1>3, <1>0 DEF Refs
      <4>. QED
        BY <4>1, <4>2
    <3>2. ASSUME NEW m \in Marks \ live'
          PROVE  AttCount(m)' = 0 /\ Holders(m)' = {}
      BY <3>2, <2>4, <1>3, <1>2, <1>0 DEF Refs
    <3>. QED
      BY <3>1, <3>2 DEF Refs
  <2>. QED
    BY <2>5, <2>6, <2>7, <2>8, <2>9, <2>10, <1>0 DEF IInv, NoMarkLeak
<1>5. CASE attached[tgt[c]] # NoMark
  <2>1. pc' = [pc EXCEPT ![c] = "put_err"] /\ UNCHANGED <<attached, ref>>
    BY <1>5 DEF AddMark
  <2>2. \A m : AttCount(m)' = AttCount(m)
    BY <2>1 DEF AttCount
  <2>3. Fresh'
    BY <2>1, <1>0, <1>3 DEF Fresh, TypeOK
  <2>. QED
    BY <2>1, <2>2, <2>3, <1>0, <1>3
       DEF IInv, TypeOK, LocalMark, AttachedOnce, AttachedLive, Refs,
           NoMarkLeak, Holding
<1>. QED
  BY <1>4, <1>5

(***************************************************************************)
(* put_mark before _fs_add_mark returns: c gives up its reference, and the *)
(* mark is freed only when c was its last holder and it is not attached.  *)
(***************************************************************************)
LEMMA ReleaseInv ==
    ASSUME IInv, NEW c \in Cpus, Release(c)
    PROVE  IInv'
<1>0. /\ TypeOK /\ LocalMark /\ Fresh /\ AttachedOnce /\ AttachedLive /\ Refs
      /\ NoMarkLeak /\ pc[c] \in Holding
      /\ pc' = [pc EXCEPT ![c] = "idle"] /\ lm' = [lm EXCEPT ![c] = NoMark]
      /\ UNCHANGED <<attached, tgt, leftover>>
  BY DEF IInv, Release, Holding
<1>1. PICK m0 : m0 = lm[c]
  OBVIOUS
<1>2. /\ ref' = [ref EXCEPT ![m0] = @ - 1]
      /\ live' = IF ref[m0] = 1 THEN live \ {m0} ELSE live
  BY <1>1 DEF Release, PutMark
<1>3. m0 \in live /\ m0 \in Marks /\ c \in Holders(m0)
  BY <1>0, <1>1 DEF LocalMark, TypeOK, Holders
<1>4. \A m : Holders(m)' = Holders(m) \ {c}
  <2>1. \A x \in Cpus \ {c} : pc'[x] = pc[x] /\ lm'[x] = lm[x]
    BY <1>0 DEF TypeOK
  <2>2. \A m : c \notin Holders(m)'
    BY <1>0 DEF Holders, Holding, TypeOK
  <2>. QED
    BY <2>1, <2>2, HoldersOther
<1>5. \A m : m # m0 => Holders(m)' = Holders(m)
  BY <1>1, <1>4 DEF Holders
<1>6. \A m : AttCount(m)' = AttCount(m)
  BY <1>0 DEF AttCount
<1>7. /\ ref[m0] = AttCount(m0) + Cardinality(Holders(m0))
      /\ Cardinality(Holders(m0)') = Cardinality(Holders(m0)) - 1
      /\ Cardinality(Holders(m0)) \in Nat \ {0}
      /\ AttCount(m0) \in {0, 1}
  <2>1. Cardinality(Holders(m0)') = Cardinality(Holders(m0)) - 1
    BY <1>3, <1>4, HoldersRemove
  <2>2. Cardinality(Holders(m0)) \in Nat \ {0}
    BY <1>3, HoldersFinite, FS_EmptySet
  <2>. QED
    BY <2>1, <2>2, <1>0, <1>3 DEF Refs, AttCount
\* The reference c drops is not the last one unless nothing else holds m0.
<1>8. ref[m0] = 1 => AttCount(m0) = 0 /\ Holders(m0)' = {}
  <2>1. ASSUME ref[m0] = 1 PROVE AttCount(m0) = 0 /\ Cardinality(Holders(m0)') = 0
    BY <2>1, <1>7
  <2>2. IsFiniteSet(Holders(m0)')
    BY <1>4, <1>3, HoldersFinite, FS_Subset
  <2>. QED
    BY <2>1, <2>2, FS_EmptySet
<1>9. ref[m0] # 1 => ref'[m0] > 0
  BY <1>0, <1>2, <1>3, <1>7 DEF TypeOK
<1>10. TypeOK'
  BY <1>0, <1>2, <1>3, <1>7 DEF TypeOK, Holding, NoMark
<1>11. LocalMark'
  <2> SUFFICES ASSUME NEW x \in Cpus, pc'[x] \in Holding PROVE lm'[x] \in live'
    BY <1>0 DEF LocalMark, TypeOK, Holding
  <2>1. x # c /\ pc[x] \in Holding /\ lm'[x] = lm[x] /\ lm[x] \in live
    BY <1>0 DEF LocalMark, TypeOK, Holding
  <2>2. x \in Holders(lm[x])
    BY <2>1 DEF Holders
  <2>3. lm[x] = m0 => Holders(m0)' # {}
    BY <2>1, <2>2, <1>4
  <2>. QED
    BY <2>1, <2>3, <1>2, <1>8
<1>12. Fresh'
  <2> SUFFICES ASSUME NEW x \in Cpus, pc'[x] = "add"
               PROVE  (/\ \A o \in Inodes : attached[o] # lm[x]
                       /\ Holders(lm[x]) = {x})'
    BY DEF Fresh
  <2>0. PICK k : k = lm[x]
    OBVIOUS
  <2>1. x # c /\ pc[x] = "add" /\ lm'[x] = k
    BY <2>0, <1>0 DEF TypeOK
  <2>2. (\A o \in Inodes : attached[o] # k) /\ Holders(k) = {x}
    BY <2>0, <2>1, <1>0 DEF Fresh
  <2>3. Holders(k)' = {x}
    BY <2>1, <2>2, <1>4
  <2>. QED
    BY <2>1, <2>2, <2>3, <1>0
<1>13. AttachedLive'
  BY <1>0, <1>2, <1>8 DEF AttachedLive, AttCount
<1>14. Refs'
  <2>1. ASSUME NEW m \in live'
        PROVE  ref'[m] = AttCount(m)' + Cardinality(Holders(m)') /\ ref'[m] > 0
    <3>1. CASE m = m0
      <4>1. ref[m0] # 1 /\ ref'[m0] = ref[m0] - 1
        BY <3>1, <2>1, <1>0, <1>2, <1>3 DEF TypeOK
      <4>. QED
        BY <4>1, <3>1, <1>6, <1>7, <1>9
    <3>2. CASE m # m0
      <4>1. m \in live /\ ref'[m] = ref[m]
        BY <3>2, <1>0, <1>2 DEF TypeOK
      <4>. QED
        BY <4>1, <3>2, <1>5, <1>6, <1>0 DEF Refs
    <3>. QED
      BY <3>1, <3>2
  <2>2. ASSUME NEW m \in Marks \ live'
        PROVE  AttCount(m)' = 0 /\ Holders(m)' = {}
    <3>1. CASE m = m0
      BY <3>1, <2>2, <1>2, <1>3, <1>6, <1>8
    <3>2. CASE m # m0
      BY <3>2, <2>2, <1>0, <1>2, <1>5, <1>6 DEF Refs
    <3>. QED
      BY <3>1, <3>2
  <2>. QED
    BY <2>1, <2>2 DEF Refs
<1>. QED
  BY <1>10, <1>11, <1>12, <1>13, <1>14, <1>0 DEF IInv, AttachedOnce, NoMarkLeak

\* Eviction detaches the inode's mark and puts the inode list's reference.
LEMMA EvictInv ==
    ASSUME IInv, NEW o \in Inodes, Evict(o)
    PROVE  IInv'
<1>0. /\ TypeOK /\ LocalMark /\ Fresh /\ AttachedOnce /\ AttachedLive /\ Refs
      /\ NoMarkLeak /\ UNCHANGED <<pc, tgt, lm, leftover>>
  BY DEF IInv, Evict
<1>1. PICK m0 : m0 = attached[o]
  OBVIOUS
<1>2. /\ m0 # NoMark /\ m0 \in live /\ m0 \in Marks
      /\ attached' = [attached EXCEPT ![o] = NoMark]
      /\ ref' = [ref EXCEPT ![m0] = @ - 1]
      /\ live' = IF ref[m0] = 1 THEN live \ {m0} ELSE live
  BY <1>0, <1>1 DEF Evict, PutMark, AttachedLive, TypeOK
<1>3. \A m : Holders(m)' = Holders(m)
  BY <1>0 DEF Holders
\* o was the only inode carrying m0.
<1>4. AttCount(m0) = 1 /\ AttCount(m0)' = 0
  <2>1. \A x \in Inodes : x # o => attached[x] # m0
    BY <1>0, <1>1, <1>2 DEF AttachedOnce
  <2>. QED
    BY <2>1, <1>0, <1>1, <1>2 DEF AttCount, TypeOK
<1>5. \A m \in Marks : m # m0 => AttCount(m)' = AttCount(m)
  BY <1>0, <1>1, <1>2 DEF AttCount, TypeOK, Marks, NoMark
<1>6. /\ ref[m0] = 1 + Cardinality(Holders(m0))
      /\ Cardinality(Holders(m0)) \in Nat
  BY <1>0, <1>2, <1>4, HoldersFinite DEF Refs
<1>7. ref[m0] = 1 => Holders(m0) = {}
  BY <1>6, HoldersFinite, FS_EmptySet
<1>8. TypeOK'
  BY <1>0, <1>2, <1>6 DEF TypeOK
<1>9. LocalMark'
  <2> SUFFICES ASSUME NEW x \in Cpus, pc[x] \in Holding PROVE lm[x] \in live'
    BY <1>0 DEF LocalMark
  <2>1. lm[x] \in live /\ x \in Holders(lm[x])
    BY <1>0 DEF LocalMark, Holders
  <2>. QED
    BY <2>1, <1>2, <1>7
<1>10. Fresh'
  <2>1. \A x \in Cpus : pc[x] = "add" => lm[x] # NoMark
    BY <1>0 DEF LocalMark, Holding, TypeOK, Marks, NoMark
  <2>. QED
    BY <2>1, <1>0, <1>2 DEF Fresh, Holders, TypeOK
<1>11. AttachedOnce' /\ AttachedLive'
  BY <1>0, <1>1, <1>2 DEF AttachedOnce, AttachedLive, TypeOK
<1>12. Refs'
  <2>1. ASSUME NEW m \in live'
        PROVE  ref'[m] = AttCount(m)' + Cardinality(Holders(m)') /\ ref'[m] > 0
    <3>1. CASE m = m0
      <4>1. ref[m0] # 1 /\ ref'[m0] = ref[m0] - 1
        BY <3>1, <2>1, <1>0, <1>2 DEF TypeOK
      <4>. QED
        BY <4>1, <3>1, <1>3, <1>4, <1>6
    <3>2. CASE m # m0
      <4>1. m \in live /\ m \in Marks /\ ref'[m] = ref[m]
        BY <3>2, <1>0, <1>2 DEF TypeOK
      <4>. QED
        BY <4>1, <3>2, <1>3, <1>5, <1>0 DEF Refs
    <3>. QED
      BY <3>1, <3>2
  <2>2. ASSUME NEW m \in Marks \ live'
        PROVE  AttCount(m)' = 0 /\ Holders(m)' = {}
    <3>1. CASE m = m0
      BY <3>1, <2>2, <1>2, <1>3, <1>4, <1>7
    <3>2. CASE m # m0
      BY <3>2, <2>2, <1>0, <1>2, <1>3, <1>5 DEF Refs
    <3>. QED
      BY <3>1, <3>2
  <2>. QED
    BY <2>1, <2>2 DEF Refs
<1>. QED
  BY <1>8, <1>9, <1>10, <1>11, <1>12, <1>0 DEF IInv, NoMarkLeak

(***************************************************************************)
(* With no CPU in _fs_add_mark, every live mark is attached and holds just *)
(* the inode list's reference, so the group's destruction frees them all. *)
(***************************************************************************)
LEMMA DestroyInv ==
    ASSUME IInv, DestroyGroup
    PROVE  IInv'
<1>0. /\ TypeOK /\ LocalMark /\ Refs /\ NoMarkLeak
      /\ \A c \in Cpus : pc[c] = "idle"
      /\ attached' = [o \in Inodes |-> NoMark]
      /\ ref' = [m \in Marks |-> 0] /\ live' = {}
      /\ UNCHANGED <<pc, tgt, lm>>
  BY DEF IInv, DestroyGroup
<1>1. \A m : Holders(m) = {} /\ Holders(m)' = {}
  BY <1>0 DEF Holders, Holding
<1>2. \A m \in live : AttCount(m) = 1 /\ ref[m] = 1
  <2> SUFFICES ASSUME NEW m \in live PROVE AttCount(m) = 1 /\ ref[m] = 1
    OBVIOUS
  <2>1. Cardinality(Holders(m)) = 0
    BY <1>1, FS_EmptySet
  <2>. QED
    BY <2>1, <1>0 DEF Refs, AttCount
<1>3. leftover' = {}
  <2>1. \A m \in live : (\E o \in Inodes : attached[o] = m) /\ ~(ref[m] > 1)
    BY <1>2 DEF AttCount
  <2>. QED
    BY <2>1, <1>0 DEF DestroyGroup, NoMarkLeak
<1>4. \A m \in Marks : AttCount(m)' = 0
  BY <1>0 DEF AttCount, Marks, NoMark
<1>. QED
  BY <1>0, <1>1, <1>3, <1>4
     DEF IInv, TypeOK, LocalMark, Fresh, AttachedOnce, AttachedLive, Refs,
         NoMarkLeak, Holding, Marks, NoMark

LEMMA NextInv == IInv /\ [Next]_vars => IInv'
<1> SUFFICES ASSUME IInv, [Next]_vars PROVE IInv'
  OBVIOUS
<1>1. CASE UNCHANGED vars
  <2>1. UNCHANGED <<attached, ref, live, pc, tgt, lm, leftover>>
    BY <1>1 DEF vars
  <2>2. \A m : Holders(m)' = Holders(m) /\ AttCount(m)' = AttCount(m)
    BY <2>1 DEF Holders, AttCount
  <2>. QED
    BY <2>1, <2>2 DEF IInv, TypeOK, LocalMark, Fresh, AttachedOnce,
                      AttachedLive, Refs, NoMarkLeak
<1>. QED
  BY <1>1, StartInv, FindInv, AllocInv, AddInv, ReleaseInv, EvictInv,
     DestroyInv DEF Next

\* The invariant, with the inode list's reference counted by cardinality.
LEMMA IInvMarkRefs == IInv => MarkRefs
<1> SUFFICES ASSUME IInv PROVE MarkRefs
  OBVIOUS
<1>1. \A m \in live :
         Cardinality({o \in Inodes : attached[o] = m}) = AttCount(m)
  BY AttCountCard DEF IInv, TypeOK
<1>2. \A m \in Marks \ live : \A o \in Inodes : attached[o] # m
  BY DEF IInv, Refs, AttCount
<1>. QED
  BY <1>1, <1>2 DEF IInv, Refs, MarkRefs

(***************************************************************************)
(* MarkRefs for every number of CPUs, inodes and cache objects: whatever  *)
(* the interleaving of _fs_add_mark calls with one another, with eviction *)
(* and with the group's destruction, every allocated mark's refcnt is its  *)
(* inode list reference plus the references of the calls holding it, and  *)
(* no freed mark is attached or held.                                      *)
(***************************************************************************)
THEOREM MarkRefsThm == Spec => []MarkRefs
<1>. QED
  BY InitIInv, NextInv, IInvMarkRefs, PTL DEF Spec

(***************************************************************************)
(* NoMarkLeak for every number of CPUs, inodes and cache objects: the     *)
(* kmem_cache_destroy of the group's mark_cache never finds a mark still  *)
(* allocated, because the CPU that loses the race in add_mark puts its    *)
(* own mark and a found mark's extra reference is put before returning.   *)
(***************************************************************************)
THEOREM NoMarkLeakThm == Spec => []NoMarkLeak
<1>1. IInv => NoMarkLeak
  BY DEF IInv
<1>. QED
  BY <1>1, InitIInv, NextInv, PTL DEF Spec

\* The TypeOK of the mark run, for every number of CPUs, inodes and objects.
THEOREM MarkTypeCorrect == Spec => []TypeOK
<1>1. IInv => TypeOK
  BY DEF IInv
<1>. QED
  BY <1>1, InitIInv, NextInv, PTL DEF Spec

=============================================================================
