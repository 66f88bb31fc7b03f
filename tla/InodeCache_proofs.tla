-------------------------- MODULE InodeCache_proofs --------------------------
(***************************************************************************)
(* Proofs about the identity cache, for every arena size, identity set    *)
(* and ctime set: the LRU positions stay a permutation of the arena, no   *)
(* identity is mapped twice, and free entries stay behind mapped ones.    *)
(***************************************************************************)
EXTENDS InodeCache, TLAPS

\* The positions form a permutation of the arena.
IsPerm(p) ==
    /\ p \in [Entries -> Entries]
    /\ \A a, b \in Entries : p[a] = p[b] => a = b
    /\ \A j \in Entries : \E a \in Entries : p[a] = j

(***************************************************************************)
(* Moving one entry to the head of lru_list (_set_hot, and the list_add   *)
(* of _map) keeps the positions a permutation.                             *)
(***************************************************************************)
LEMMA ToHeadPerm ==
    ASSUME IsPerm(pos), NEW e \in Entries
    PROVE  IsPerm(ToHead(e))
<1> DEFINE q == ToHead(e)
<1>0. /\ pos \in [Entries -> Entries]
      /\ \A a, b \in Entries : pos[a] = pos[b] => a = b
      /\ \A j \in Entries : \E a \in Entries : pos[a] = j
  BY Zenon DEF IsPerm
<1>1. ASSUME NEW x \in Entries
      PROVE  q[x] = IF x = e THEN 1
                    ELSE IF pos[x] < pos[e] THEN pos[x] + 1 ELSE pos[x]
  BY DEF ToHead
<1>2. ASSUME NEW x \in Entries PROVE q[x] \in Entries
  <2>1. pos[x] \in 1..N /\ pos[e] \in 1..N
    BY <1>0, Zenon DEF Entries
  <2>2. QED  BY <1>1, <2>1, NAssumption, SMTT(30) DEF Entries
<1>3. q \in [Entries -> Entries]
  BY <1>2, Zenon DEF ToHead
<1>4. ASSUME NEW x \in Entries, NEW y \in Entries, q[x] = q[y] PROVE x = y
  <2>1. pos[x] \in 1..N /\ pos[y] \in 1..N /\ pos[e] \in 1..N
    BY <1>0, Zenon DEF Entries
  <2>2. pos[x] = pos[y] => x = y
    BY <1>0, Zenon
  <2>3. x # e => pos[x] # pos[e]
    BY <1>0, Zenon
  <2>4. y # e => pos[y] # pos[e]
    BY <1>0, Zenon
  <2>5. QED  BY <1>1, <1>4, <2>1, <2>2, <2>3, <2>4, SMTT(30)
<1>5. ASSUME NEW i \in Entries PROVE \E x \in Entries : q[x] = i
  <2>1. pos[e] \in 1..N /\ i \in 1..N
    BY <1>0, Zenon DEF Entries
  <2>2. CASE i = 1
    BY <1>1, <2>2, Zenon
  <2>3. CASE 1 < i /\ i <= pos[e]
    <3>0. i - 1 \in Entries
      BY <2>1, <2>3, NAssumption, SMTT(30) DEF Entries
    <3>1. PICK x \in Entries : pos[x] = i - 1
      BY <1>0, <3>0, Zenon
    <3>2. q[x] = i
      BY <1>1, <2>1, <2>3, <3>1, SMTT(30)
    <3>3. QED  BY <3>2, Zenon
  <2>4. CASE i > pos[e]
    <3>1. PICK x \in Entries : pos[x] = i
      BY <1>0, Zenon
    <3>2. q[x] = i
      BY <1>1, <2>1, <2>4, <3>1, SMTT(30)
    <3>3. QED  BY <3>2, Zenon
  <2>5. QED  BY <2>1, <2>2, <2>3, <2>4, NAssumption, SMTT(30)
<1>6. QED  BY <1>3, <1>4, <1>5, Zenon DEF IsPerm

(***************************************************************************)
(* Moving one entry to the tail (_remove_entry's list_add_tail) keeps the *)
(* positions a permutation.                                                *)
(***************************************************************************)
LEMMA ToTailPerm ==
    ASSUME IsPerm(pos), NEW e \in Entries
    PROVE  IsPerm(ToTail(e))
<1> DEFINE q == ToTail(e)
<1>0. /\ pos \in [Entries -> Entries]
      /\ \A a, b \in Entries : pos[a] = pos[b] => a = b
      /\ \A j \in Entries : \E a \in Entries : pos[a] = j
  BY Zenon DEF IsPerm
<1>1. ASSUME NEW x \in Entries
      PROVE  q[x] = IF x = e THEN N
                    ELSE IF pos[x] > pos[e] THEN pos[x] - 1 ELSE pos[x]
  BY DEF ToTail
<1>2. ASSUME NEW x \in Entries PROVE q[x] \in Entries
  <2>1. pos[x] \in 1..N /\ pos[e] \in 1..N
    BY <1>0, Zenon DEF Entries
  <2>2. QED  BY <1>1, <2>1, NAssumption, SMTT(30) DEF Entries
<1>3. q \in [Entries -> Entries]
  BY <1>2, Zenon DEF ToTail
<1>4. ASSUME NEW x \in Entries, NEW y \in Entries, q[x] = q[y] PROVE x = y
  <2>1. pos[x] \in 1..N /\ pos[y] \in 1..N /\ pos[e] \in 1..N
    BY <1>0, Zenon DEF Entries
  <2>2. pos[x] = pos[y] => x = y
    BY <1>0, Zenon
  <2>3. x # e => pos[x] # pos[e]
    BY <1>0, Zenon
  <2>4. y # e => pos[y] # pos[e]
    BY <1>0, Zenon
  <2>5. QED  BY <1>1, <1>4, <2>1, <2>2, <2>3, <2>4, SMTT(30)
<1>5. ASSUME NEW i \in Entries PROVE \E x \in Entries : q[x] = i
  <2>1. pos[e] \in 1..N /\ i \in 1..N
    BY <1>0, Zenon DEF Entries
  <2>2. CASE i = N
    BY <1>1, <2>2, Zenon
  <2>3. CASE pos[e] <= i /\ i < N
    <3>0. i + 1 \in Entries
      BY <2>1, <2>3, NAssumption, SMTT(30) DEF Entries
    <3>1. PICK x \in Entries : pos[x] = i + 1
      BY <1>0, <3>0, Zenon
    <3>2. q[x] = i
      BY <1>1, <2>1, <2>3, <3>1, SMTT(30)
    <3>3. QED  BY <3>2, Zenon
  <2>4. CASE i < pos[e]
    <3>1. PICK x \in Entries : pos[x] = i
      BY <1>0, Zenon
    <3>2. q[x] = i
      BY <1>1, <2>1, <2>4, <3>1, SMTT(30)
    <3>3. QED  BY <3>2, Zenon
  <2>5. QED  BY <2>1, <2>2, <2>3, <2>4, NAssumption, SMTT(30)
<1>6. QED  BY <1>3, <1>4, <1>5, Zenon DEF IsPerm

\* The LRU tail exists and is the entry at position N.
LEMMA TailAtEnd ==
    ASSUME IsPerm(pos)
    PROVE  LruTail \in Entries /\ pos[LruTail] = N
BY NAssumption DEF IsPerm, LruTail, Entries

(***************************************************************************)
(* _map's victim: the entry at the end of lru_list is refilled, hashed and *)
(* moved to the head.                                                      *)
(***************************************************************************)
LEMMA MapVictim ==
    ASSUME IsPerm(pos), NEW id, NEW c, Map(id, c)
    PROVE  \E t \in Entries :
              /\ pos[t] = N
              /\ pos' = ToHead(t) /\ hashed' = hashed \cup {t}
              /\ key' = [key EXCEPT ![t] = id] /\ ctm' = [ctm EXCEPT ![t] = c]
BY TailAtEnd DEF Map

-----------------------------------------------------------------------------
\* The inductive invariant: the three properties together.
CacheInv == CacheTypeOK /\ UniqueKey /\ FreeSuffix

LEMMA TypeIsPerm == CacheTypeOK => IsPerm(pos)
BY DEF CacheTypeOK, IsPerm

LEMMA CacheInitInv == CacheInit => CacheInv
BY NAssumption DEF CacheInit, CacheInv, CacheTypeOK, UniqueKey, FreeSuffix,
                   Entries

LEMMA CacheNextInv == CacheInv /\ [CacheNext]_cacheVars => CacheInv'
<1> SUFFICES ASSUME CacheInv, [CacheNext]_cacheVars PROVE CacheInv'
  OBVIOUS
<1>0. IsPerm(pos)
  BY TypeIsPerm DEF CacheInv
<1>1. ASSUME NEW id \in Ids, NEW c \in Ctimes, LookupHit(id, c)
      PROVE  CacheInv'
  <2>1. PICK e \in Matches(id) : ctm[e] = c /\ pos' = ToHead(e)
                                 /\ UNCHANGED <<hashed, key, ctm>>
    BY <1>1 DEF LookupHit
  <2>2. e \in hashed /\ e \in Entries
    BY <2>1 DEF Matches, CacheInv, CacheTypeOK
  <2>3. IsPerm(pos')
    BY <1>0, <2>1, <2>2, ToHeadPerm
  <2>4. CacheTypeOK'
    BY <2>1, <2>3 DEF CacheInv, CacheTypeOK, IsPerm
  <2>5. UniqueKey'
    BY <2>1 DEF CacheInv, UniqueKey
  <2>6. FreeSuffix'
    <3> SUFFICES ASSUME NEW x \in hashed, NEW f \in Entries \ hashed
                 PROVE  pos'[x] < pos'[f]
      BY <2>1, Zenon DEF FreeSuffix
    <3>1. x \in Entries /\ pos[x] \in 1..N /\ pos[f] \in 1..N
          /\ pos[e] \in 1..N
      BY <1>0, <2>2, Zenon DEF IsPerm, CacheInv, CacheTypeOK, Entries
    <3>2. pos[x] < pos[f] /\ pos[e] < pos[f] /\ f # e
      BY <2>2, Zenon DEF CacheInv, FreeSuffix
    <3>3. /\ pos'[x] = IF x = e THEN 1
                       ELSE IF pos[x] < pos[e] THEN pos[x] + 1 ELSE pos[x]
          /\ pos'[f] = IF f = e THEN 1
                       ELSE IF pos[f] < pos[e] THEN pos[f] + 1 ELSE pos[f]
      BY <2>1, <3>1, Zenon DEF ToHead
    <3>4. QED  BY <3>1, <3>2, <3>3, SMTT(30)
  <2>7. QED  BY <2>4, <2>5, <2>6 DEF CacheInv
<1>2. ASSUME NEW id \in Ids, NEW c \in Ctimes, LookupStale(id, c)
      PROVE  CacheInv'
  <2>1. PICK e \in Matches(id) : ctm[e] # c /\ pos' = ToTail(e)
                                 /\ hashed' = hashed \ {e}
                                 /\ UNCHANGED <<key, ctm>>
    BY <1>2 DEF LookupStale
  <2>2. e \in hashed /\ e \in Entries
    BY <2>1 DEF Matches, CacheInv, CacheTypeOK
  <2>3. IsPerm(pos')
    BY <1>0, <2>1, <2>2, ToTailPerm
  <2>4. CacheTypeOK'
    BY <2>1, <2>3 DEF CacheInv, CacheTypeOK, IsPerm
  <2>5. UniqueKey'
    BY <2>1 DEF CacheInv, UniqueKey
  <2>6. FreeSuffix'
    <3> SUFFICES ASSUME NEW x \in hashed \ {e}, NEW f \in Entries \ hashed'
                 PROVE  pos'[x] < pos'[f]
      BY <2>1, Zenon DEF FreeSuffix
    <3>1. x \in Entries /\ pos[x] \in 1..N /\ pos[f] \in 1..N
          /\ pos[e] \in 1..N /\ x # e
      BY <1>0, <2>2, Zenon DEF IsPerm, CacheInv, CacheTypeOK, Entries
    <3>2. pos[x] # pos[e]
      BY <1>0, <2>2, <3>1, Zenon DEF IsPerm
    <3>3. f # e => pos[x] < pos[f] /\ pos[e] < pos[f]
      BY <2>1, <2>2, Zenon DEF CacheInv, FreeSuffix
    <3>4. /\ pos'[x] = IF pos[x] > pos[e] THEN pos[x] - 1 ELSE pos[x]
          /\ pos'[f] = IF f = e THEN N
                       ELSE IF pos[f] > pos[e] THEN pos[f] - 1 ELSE pos[f]
      BY <2>1, <3>1, Zenon DEF ToTail
    <3>5. QED  BY <3>1, <3>2, <3>3, <3>4, NAssumption, SMTT(30)
  <2>7. QED  BY <2>4, <2>5, <2>6 DEF CacheInv
<1>3. ASSUME NEW id \in Ids, NEW c \in Ctimes, LookupMiss(id), Map(id, c)
      PROVE  CacheInv'
  <2> DEFINE t == LruTail
  <2>1. t \in Entries /\ pos[t] = N
    BY <1>0, TailAtEnd
  <2>2. /\ pos' = ToHead(t)
        /\ hashed' = hashed \cup {t}
        /\ key' = [key EXCEPT ![t] = id]
        /\ ctm' = [ctm EXCEPT ![t] = c]
    BY <1>3 DEF Map
  <2>3. IsPerm(pos')
    BY <1>0, <2>1, <2>2, ToHeadPerm
  <2>4. CacheTypeOK'
    BY <2>1, <2>2, <2>3, IdsAssumption, CtimesAssumption
       DEF CacheInv, CacheTypeOK, IsPerm
  <2>5. UniqueKey'
    BY <1>3, <2>1, <2>2 DEF CacheInv, CacheTypeOK, UniqueKey, LookupMiss,
                            Matches
  <2>6. FreeSuffix'
    <3> SUFFICES ASSUME NEW x \in hashed \cup {t}, NEW f \in Entries \ hashed'
                 PROVE  pos'[x] < pos'[f]
      BY <2>2, Zenon DEF FreeSuffix
    <3>1. x \in Entries /\ pos[x] \in 1..N /\ pos[f] \in 1..N /\ f # t
      BY <1>0, <2>1, <2>2, Zenon DEF IsPerm, CacheInv, CacheTypeOK, Entries
    <3>2. pos[f] # N
      BY <1>0, <2>1, <3>1, Zenon DEF IsPerm
    <3>3. x # t => pos[x] < pos[f]
      BY <2>2, Zenon DEF CacheInv, FreeSuffix
    <3>4. /\ pos'[x] = IF x = t THEN 1
                       ELSE IF pos[x] < N THEN pos[x] + 1 ELSE pos[x]
          /\ pos'[f] = IF pos[f] < N THEN pos[f] + 1 ELSE pos[f]
      BY <2>1, <2>2, <3>1, Zenon DEF ToHead
    <3>5. QED  BY <3>1, <3>2, <3>3, <3>4, NAssumption, SMTT(30)
  <2>7. QED  BY <2>4, <2>5, <2>6 DEF CacheInv
<1>4. CASE UNCHANGED cacheVars
  BY <1>4 DEF CacheInv, CacheTypeOK, UniqueKey, FreeSuffix, cacheVars
<1>5. QED  BY <1>1, <1>2, <1>3, <1>4 DEF CacheNext

(***************************************************************************)
(* The cache of iotrace_trace_inode keeps its arena a permutation of the  *)
(* LRU list, maps each identity at most once (so _lookup's early return   *)
(* on a hit never hides a second mapping), and keeps every free entry     *)
(* behind every mapped one (so _get_entry evicts a live mapping only when *)
(* no entry is free), whatever CACHE_SIZE, identities and ctimes.         *)
(***************************************************************************)
THEOREM CacheInvariant == CacheSpec => []CacheInv
BY CacheInitInv, CacheNextInv, PTL DEF CacheSpec

\* The type invariant of the cache run.
THEOREM CacheTypeCorrect == CacheSpec => []CacheTypeOK
BY CacheInvariant, PTL DEF CacheInv

\* No identity is mapped twice: the UniqueKey invariant of the cache run.
THEOREM CacheUniqueKey == CacheSpec => []UniqueKey
BY CacheInvariant, PTL DEF CacheInv

\* Free entries stay behind mapped ones: the FreeSuffix invariant.
THEOREM CacheFreeSuffix == CacheSpec => []FreeSuffix
BY CacheInvariant, PTL DEF CacheInv

=============================================================================
