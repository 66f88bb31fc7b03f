------------------------ MODULE InodeCacheLru_proofs ------------------------
(***************************************************************************)
(* Proof that the arena of trace_inode.c implements the LRU cache of spec *)
(* section 4.1 (LruCache) under the mapping of InodeCacheLru, for every   *)
(* CACHE_SIZE, identity set and ctime set: each _lookup hit, stale        *)
(* removal and _map is a Hit, Invalidate or Insert of the abstract cache. *)
(***************************************************************************)
EXTENDS InodeCacheLru, InodeCache_proofs, SequenceTheorems

\* The mapped entries are the first k of lru_list.
Prefix(k) == hashed = {e \in Entries : pos[e] <= k}

PrefixInv == \E k \in 0..N : Prefix(k)

\* The inductive invariant of the refinement.
RInv == CacheInv /\ PrefixInv

-----------------------------------------------------------------------------
(* The inverse of a permutation and the length of the mapped prefix.       *)

\* The entry a permutation p puts at place p[x] is x.
LEMMA AtOfPos ==
    ASSUME NEW p, IsPerm(p), NEW x \in Entries
    PROVE  (CHOOSE y \in Entries : p[y] = p[x]) = x
BY Zenon DEF IsPerm

\* At(j) is the entry at place j of lru_list.
LEMMA AtPlace ==
    ASSUME IsPerm(pos), NEW j \in Entries
    PROVE  At(j) \in Entries /\ pos[At(j)] = j
BY Zenon DEF IsPerm, At

(***************************************************************************)
(* A permutation and a set of entries fix the length of the prefix they   *)
(* form: the entry at place max(k1, k2) tells two candidates apart.       *)
(***************************************************************************)
LEMMA LenOfPrefix ==
    ASSUME NEW p, NEW h, IsPerm(p), NEW k \in 0..N,
           h = {e \in Entries : p[e] <= k}
    PROVE  (CHOOSE j \in 0..N : h = {e \in Entries : p[e] <= j}) = k
<1> SUFFICES ASSUME NEW j \in 0..N, h = {e \in Entries : p[e] <= j}
             PROVE  j = k
  BY Zenon
<1>1. SUFFICES ASSUME j # k PROVE FALSE
  OBVIOUS
<1>2. PICK m \in Entries : m = IF j > k THEN j ELSE k
  BY <1>1, NAssumption DEF Entries
<1>3. PICK a \in Entries : p[a] = m
  BY <1>2 DEF IsPerm
<1>4. (a \in h) = (p[a] <= j) /\ (a \in h) = (p[a] <= k)
  OBVIOUS
<1>. QED
  BY <1>1, <1>2, <1>3, <1>4, NAssumption DEF Entries

LEMMA LruLenIs ==
    ASSUME CacheInv, NEW k \in 0..N, Prefix(k)
    PROVE  LruLen = k
BY TypeIsPerm, LenOfPrefix DEF CacheInv, Prefix, LruLen

-----------------------------------------------------------------------------
(* What the abstract cache's steps do to its sequence, place by place.     *)

\* RemoveAt(s, i): the places behind i move one forward.
LEMMA RemoveAtEl ==
    ASSUME NEW S, NEW s \in Seq(S), NEW i \in 1..Len(s)
    PROVE  Abstract!RemoveAt(s, i)
             = [j \in 1..Len(s) - 1 |-> IF j < i THEN s[j] ELSE s[j + 1]]
<1> DEFINE A == SubSeq(s, 1, i - 1)
           B == SubSeq(s, i + 1, Len(s))
           R == [j \in 1..Len(s) - 1 |-> IF j < i THEN s[j] ELSE s[j + 1]]
<1>1. /\ A \in Seq(S) /\ Len(A) = i - 1
      /\ \A k \in 1..i - 1 : A[k] = s[k]
  BY SubSeqProperties
<1>2. /\ B \in Seq(S) /\ Len(B) = Len(s) - i
      /\ \A k \in 1..Len(s) - i : B[k] = s[i + k]
  BY SubSeqProperties
<1> HIDE DEF A, B, R
<1>3. /\ A \o B \in Seq(S) /\ Len(A \o B) = Len(A) + Len(B)
      /\ \A k \in 1..Len(A) + Len(B) :
            (A \o B)[k] = IF k <= Len(A) THEN A[k] ELSE B[k - Len(A)]
  BY <1>1, <1>2, ConcatProperties, Zenon
<1>4. Len(A \o B) = Len(s) - 1
  <2>1. Len(A \o B) = Len(A) + Len(B)
    BY <1>3, Zenon
  <2>2. Len(A) = i - 1 /\ Len(B) = Len(s) - i
    BY <1>1, <1>2, Zenon
  <2>. QED  BY <2>1, <2>2, SMTT(30)
<1>5. /\ R \in Seq(S) /\ Len(R) = Len(s) - 1
      /\ \A k \in 1..Len(s) - 1 : R[k] = IF k < i THEN s[k] ELSE s[k + 1]
  BY DEF R
<1>6. ASSUME NEW k \in 1..Len(s) - 1 PROVE (A \o B)[k] = R[k]
  <2>1. (A \o B)[k] = IF k <= i - 1 THEN A[k] ELSE B[k - (i - 1)]
    <3>1. k \in 1..Len(A) + Len(B) /\ Len(A) = i - 1
      BY <1>1, <1>2
    <3>. QED  BY <3>1, <1>3, Zenon
  <2>2. CASE k <= i - 1
    BY <1>1, <1>5, <2>1, <2>2
  <2>3. CASE ~(k <= i - 1)
    <3>1. k - (i - 1) \in 1..Len(s) - i /\ i + (k - (i - 1)) = k + 1
      BY <2>3
    <3>. QED  BY <1>2, <1>5, <2>1, <2>3, <3>1
  <2>. QED  BY <2>2, <2>3
<1>7. A \o B = R
  BY <1>3, <1>4, <1>5, <1>6, SeqEqual, Zenon
<1>. QED
  BY <1>7, Zenon DEF Abstract!RemoveAt, A, B, R

\* An insertion into a cache that is not full.
LEMMA ConsEl ==
    ASSUME NEW S, NEW s \in Seq(S), NEW x
    PROVE  <<x>> \o s = [j \in 1..Len(s) + 1 |-> IF j = 1 THEN x ELSE s[j - 1]]
OBVIOUS

\* A hit: s[i] goes to the front, the places before it move one back.
LEMMA ToFrontEl ==
    ASSUME NEW S, NEW s \in Seq(S), NEW i \in 1..Len(s)
    PROVE  <<s[i]>> \o Abstract!RemoveAt(s, i)
             = [j \in 1..Len(s) |-> IF j = 1 THEN s[i]
                                    ELSE IF j <= i THEN s[j - 1] ELSE s[j]]
<1> DEFINE R == [j \in 1..Len(s) - 1 |-> IF j < i THEN s[j] ELSE s[j + 1]]
<1>1. Abstract!RemoveAt(s, i) = R
  BY RemoveAtEl
<1>2. R \in Seq(S) /\ Len(R) = Len(s) - 1
  OBVIOUS
<1>3. <<s[i]>> \o R = [j \in 1..Len(R) + 1 |-> IF j = 1 THEN s[i] ELSE R[j - 1]]
  BY <1>2, ConsEl
<1>. QED
  BY <1>1, <1>2, <1>3

\* An insertion into a full cache: the last mapping is pushed out.
LEMMA ConsFrontEl ==
    ASSUME NEW S, NEW s \in Seq(S), Len(s) # 0, NEW x
    PROVE  <<x>> \o Abstract!Front(s)
             = [j \in 1..Len(s) |-> IF j = 1 THEN x ELSE s[j - 1]]
BY DEF Abstract!Front

-----------------------------------------------------------------------------
(* The abstract cache in a state and in the next one.                      *)

\* The values the abstract cache's mappings take.
Pairs == (Ids \cup {0}) \X (Ctimes \cup {0})

\* In the next state, At inverts the next positions.
LEMMA AtPrimed ==
    ASSUME IsPerm(pos'), NEW x \in Entries, NEW j, pos'[x] = j
    PROVE  At(j)' = x
<1>1. (CHOOSE y \in Entries : pos'[y] = pos'[x]) = x
  BY AtOfPos
<1>. QED  BY <1>1, Zenon DEF At

\* In the next state, the length of the mapped prefix is the one it has.
LEMMA LenPrimed ==
    ASSUME IsPerm(pos'), NEW k \in 0..N, hashed' = {e \in Entries : pos'[e] <= k}
    PROVE  LruLen' = k
BY LenOfPrefix, Zenon DEF LruLen

\* The abstract cache lists the first k entries of lru_list.
LEMMA OrderShape ==
    ASSUME CacheInv, NEW k \in 0..N, Prefix(k)
    PROVE  /\ LruOrder = [j \in 1..k |-> <<key[At(j)], ctm[At(j)]>>]
           /\ LruOrder \in Seq(Pairs) /\ Len(LruOrder) = k
<1>1. LruLen = k
  BY LruLenIs
<1>2. LruOrder = [j \in 1..k |-> <<key[At(j)], ctm[At(j)]>>]
  BY <1>1 DEF LruOrder
<1>3. \A j \in 1..k : At(j) \in Entries
  BY TypeIsPerm, AtPlace, NAssumption DEF CacheInv, Entries
<1>4. key \in [Entries -> Ids \cup {0}] /\ ctm \in [Entries -> Ctimes \cup {0}]
  BY DEF CacheInv, CacheTypeOK
<1>. QED  BY <1>2, <1>3, <1>4 DEF Pairs

LEMMA OrderShapePrimed ==
    ASSUME IsPerm(pos'), NEW k \in 0..N, Prefix(k)'
    PROVE  LruOrder' = [j \in 1..k |-> <<key'[At(j)'], ctm'[At(j)']>>]
<1>1. LruLen' = k
  BY LenPrimed DEF Prefix
<1>. QED  BY <1>1 DEF LruOrder

-----------------------------------------------------------------------------
(***************************************************************************)
(* A hit of _lookup is a Hit of the abstract cache: _set_hot moves entry  *)
(* e from place pos[e] to the head, the mapped prefix keeps its length,   *)
(* and the mappings that were before e move one place back.               *)
(***************************************************************************)
LEMMA HitStep ==
    ASSUME CacheInv, NEW k \in 0..N, Prefix(k),
           NEW id \in Ids, NEW c \in Ctimes, NEW e \in Matches(id), ctm[e] = c,
           pos' = ToHead(e), UNCHANGED <<hashed, key, ctm>>
    PROVE  Prefix(k)' /\ Abstract!Hit(id, c)
<1>0. /\ pos \in [Entries -> Entries] /\ IsPerm(pos)
      /\ e \in hashed /\ e \in Entries /\ key[e] = id
  BY TypeIsPerm DEF CacheInv, CacheTypeOK, Matches
<1>1. IsPerm(pos')
  BY <1>0, ToHeadPerm
<1>2. pos[e] \in 1..k
  <2>1. pos[e] \in Entries /\ pos[e] <= k
    BY <1>0, Zenon DEF Prefix
  <2>. QED  BY <2>1 DEF Entries
<1>3. ASSUME NEW x \in Entries
      PROVE  pos'[x] = IF x = e THEN 1
                       ELSE IF pos[x] < pos[e] THEN pos[x] + 1 ELSE pos[x]
  BY DEF ToHead
<1>4. Prefix(k)'
  <2>1. ASSUME NEW x \in Entries PROVE (pos'[x] <= k) = (pos[x] <= k)
    <3>1. pos[x] \in 1..N
      BY <1>0 DEF Entries
    <3>. QED  BY <1>2, <1>3, <3>1, SMTT(30)
  <2>. QED  BY <2>1 DEF Prefix
<1>5. ASSUME NEW j \in 1..k
      PROVE  At(j)' = IF j = 1 THEN e ELSE IF j <= pos[e] THEN At(j - 1) ELSE At(j)
  <2>1. CASE j = 1
    <3>1. pos'[e] = 1  BY <1>0, <1>3
    <3>. QED  BY <1>1, <1>0, <2>1, <3>1, AtPrimed
  <2>2. CASE j # 1 /\ j <= pos[e]
    <3>1. j - 1 \in Entries /\ j \in Entries
      BY <1>2, <2>2, NAssumption DEF Entries
    <3>2. At(j - 1) \in Entries /\ pos[At(j - 1)] = j - 1
      BY <1>0, <3>1, AtPlace
    <3>3. At(j - 1) # e
      BY <3>2, <2>2, <1>2
    <3>4. pos'[At(j - 1)] = j
      BY <1>2, <2>2, <3>2, <3>3, <1>3
    <3>. QED  BY <1>1, <2>2, <3>2, <3>4, AtPrimed
  <2>3. CASE j > pos[e]
    <3>1. j \in Entries
      BY NAssumption DEF Entries
    <3>2. At(j) \in Entries /\ pos[At(j)] = j
      BY <1>0, <3>1, AtPlace
    <3>3. At(j) # e
      BY <3>2, <2>3
    <3>4. pos'[At(j)] = j
      BY <1>2, <2>3, <3>2, <3>3, <1>3
    <3>5. j # 1
      BY <1>2, <2>3
    <3>6. PICK y \in Entries : y = At(j)
      BY <3>2
    <3>7. At(j)' = y
      BY <1>1, <3>4, <3>6, AtPrimed
    <3>. QED  BY <1>2, <2>3, <3>5, <3>6, <3>7
  <2>. QED  BY <1>2, <2>1, <2>2, <2>3
<1>6. /\ LruOrder = [j \in 1..k |-> <<key[At(j)], ctm[At(j)]>>]
      /\ LruOrder \in Seq(Pairs) /\ Len(LruOrder) = k
  BY OrderShape
<1>7. LruOrder' = [j \in 1..k |-> <<key'[At(j)'], ctm'[At(j)']>>]
  BY <1>1, <1>4, OrderShapePrimed
<1>8. At(pos[e]) = e
  BY <1>0, AtOfPos, Zenon DEF At
<1>9. LruOrder[pos[e]] = <<id, c>>
  BY <1>0, <1>2, <1>6, <1>8
<1>10. LruOrder' = [j \in 1..k |-> IF j = 1 THEN LruOrder[pos[e]]
                                   ELSE IF j <= pos[e] THEN LruOrder[j - 1]
                                   ELSE LruOrder[j]]
  BY <1>2, <1>5, <1>6, <1>7, <1>8
<1>11. LruOrder' = <<LruOrder[pos[e]]>> \o Abstract!RemoveAt(LruOrder, pos[e])
  <2>1. PICK o \in Seq(Pairs) : o = LruOrder
    BY <1>6
  <2>2. PICK i \in 1..Len(o) : i = pos[e]
    BY <1>2, <1>6, <2>1
  <2>3. <<o[i]>> \o Abstract!RemoveAt(o, i)
          = [j \in 1..Len(o) |-> IF j = 1 THEN o[i]
                                 ELSE IF j <= i THEN o[j - 1] ELSE o[j]]
    BY ToFrontEl
  <2>. QED  BY <1>6, <1>10, <2>1, <2>2, <2>3
<1>. QED
  BY <1>2, <1>4, <1>6, <1>9, <1>11 DEF Abstract!Hit

(***************************************************************************)
(* A stale candidate of _lookup is an Invalidate of the abstract cache:   *)
(* _remove_entry unhashes e and moves it to the tail, so the mapped       *)
(* prefix shrinks by one and the mappings behind e move one place forward.*)
(***************************************************************************)
LEMMA StaleStep ==
    ASSUME CacheInv, NEW k \in 0..N, Prefix(k),
           NEW id \in Ids, NEW c \in Ctimes, NEW e \in Matches(id), ctm[e] # c,
           pos' = ToTail(e), hashed' = hashed \ {e}, UNCHANGED <<key, ctm>>
    PROVE  k - 1 \in 0..N /\ Prefix(k - 1)' /\ Abstract!Invalidate(id, c)
<1>0. /\ pos \in [Entries -> Entries] /\ IsPerm(pos)
      /\ e \in hashed /\ e \in Entries /\ key[e] = id
  BY TypeIsPerm DEF CacheInv, CacheTypeOK, Matches
<1>1. IsPerm(pos')
  BY <1>0, ToTailPerm
<1>2. pos[e] \in 1..k
  <2>1. pos[e] \in Entries /\ pos[e] <= k
    BY <1>0, Zenon DEF Prefix
  <2>. QED  BY <2>1 DEF Entries
<1>3. ASSUME NEW x \in Entries
      PROVE  pos'[x] = IF x = e THEN N
                       ELSE IF pos[x] > pos[e] THEN pos[x] - 1 ELSE pos[x]
  BY DEF ToTail
<1>4. k - 1 \in 0..N
  BY <1>2, NAssumption
<1>5. Prefix(k - 1)'
  <2>1. ASSUME NEW x \in Entries
        PROVE  (pos'[x] <= k - 1) = (x \in hashed /\ x # e)
    <3>0. pos[x] \in Entries /\ (x \in hashed <=> pos[x] <= k)
      BY <1>0, Zenon DEF Prefix
    <3>1. pos[x] \in 1..N
      BY <3>0 DEF Entries
    <3>2. x # e => pos[x] # pos[e]
      BY <1>0, Zenon DEF CacheInv, CacheTypeOK
    <3>. QED  BY <1>2, <1>3, <3>0, <3>1, <3>2, NAssumption, SMTT(30)
  <2>. QED  BY <2>1 DEF Prefix
<1>6. ASSUME NEW j \in 1..k - 1
      PROVE  At(j)' = IF j < pos[e] THEN At(j) ELSE At(j + 1)
  <2>1. PICK y \in Entries : y = IF j < pos[e] THEN At(j) ELSE At(j + 1)
    <3>1. j \in Entries /\ j + 1 \in Entries
      BY NAssumption DEF Entries
    <3>. QED  BY <1>0, <3>1, AtPlace
  <2>2. pos[y] = IF j < pos[e] THEN j ELSE j + 1
    <3>1. j \in Entries /\ j + 1 \in Entries
      BY NAssumption DEF Entries
    <3>. QED  BY <1>0, <2>1, <3>1, AtPlace
  <2>3. y # e
    BY <1>2, <2>2
  <2>4. pos'[y] = j
    BY <1>2, <1>3, <2>2, <2>3
  <2>5. At(j)' = y
    BY <1>1, <2>4, AtPrimed
  <2>. QED  BY <2>1, <2>5
<1>7. /\ LruOrder = [j \in 1..k |-> <<key[At(j)], ctm[At(j)]>>]
      /\ LruOrder \in Seq(Pairs) /\ Len(LruOrder) = k
  BY OrderShape
<1>8. LruOrder' = [j \in 1..k - 1 |-> <<key'[At(j)'], ctm'[At(j)']>>]
  BY <1>1, <1>4, <1>5, OrderShapePrimed
<1>9. At(pos[e]) = e
  BY <1>0, AtOfPos, Zenon DEF At
<1>10. LruOrder[pos[e]][1] = id /\ LruOrder[pos[e]][2] # c
  BY <1>0, <1>2, <1>7, <1>9
<1>11. LruOrder' = [j \in 1..k - 1 |-> IF j < pos[e] THEN LruOrder[j]
                                       ELSE LruOrder[j + 1]]
  BY <1>2, <1>6, <1>7, <1>8
<1>12. LruOrder' = Abstract!RemoveAt(LruOrder, pos[e])
  <2>1. PICK o \in Seq(Pairs) : o = LruOrder
    BY <1>7
  <2>2. PICK i \in 1..Len(o) : i = pos[e]
    BY <1>2, <1>7, <2>1
  <2>3. Abstract!RemoveAt(o, i)
          = [j \in 1..Len(o) - 1 |-> IF j < i THEN o[j] ELSE o[j + 1]]
    BY RemoveAtEl
  <2>. QED  BY <1>7, <1>11, <2>1, <2>2, <2>3
<1>. QED
  BY <1>2, <1>4, <1>5, <1>7, <1>10, <1>12 DEF Abstract!Invalidate

(***************************************************************************)
(* A missed lookup followed by _map is an Insert of the abstract cache:   *)
(* the LRU tail, free or the least recently used mapping, is refilled and *)
(* put at the head; the prefix grows by one unless it was the whole arena,*)
(* in which case the last mapping is the one pushed out.                  *)
(***************************************************************************)
LEMMA MapStep ==
    ASSUME CacheInv, NEW k \in 0..N, Prefix(k),
           NEW id \in Ids, NEW c \in Ctimes, LookupMiss(id), Map(id, c)
    PROVE  /\ Prefix(IF k < N THEN k + 1 ELSE N)'
           /\ Abstract!Insert(id, c)
<1>0. /\ pos \in [Entries -> Entries] /\ IsPerm(pos)
      /\ \A a, b \in Entries : pos[a] = pos[b] => a = b
  BY TypeIsPerm DEF CacheInv, CacheTypeOK
<1>2. PICK t \in Entries :
          /\ pos[t] = N
          /\ pos' = ToHead(t) /\ hashed' = hashed \cup {t}
          /\ key' = [key EXCEPT ![t] = id] /\ ctm' = [ctm EXCEPT ![t] = c]
  BY <1>0, MapVictim
<1>3. IsPerm(pos')
  BY <1>0, <1>2, ToHeadPerm
<1>4. ASSUME NEW x \in Entries \ {t}
      PROVE  pos[x] \in 1..N - 1 /\ pos'[x] = pos[x] + 1
  <2>1. pos[x] \in 1..N /\ pos[x] # N
    <3>1. pos[x] \in Entries /\ pos[x] # pos[t]
      BY <1>0, <1>2, Zenon
    <3>. QED  BY <1>2, <3>1 DEF Entries
  <2>2. pos'[x] = IF pos[x] < pos[t] THEN pos[x] + 1 ELSE pos[x]
    BY <1>2 DEF ToHead
  <2>. QED  BY <1>2, <2>1, <2>2, NAssumption, SMTT(30)
<1>5. pos'[t] = 1
  BY <1>2 DEF ToHead
<1>6. PICK k2 \in 1..N : k2 = IF k < N THEN k + 1 ELSE N
  BY NAssumption
<1>7. Prefix(k2)'
  <2>1. ASSUME NEW x \in Entries PROVE (pos'[x] <= k2) <=> (x \in hashed \/ x = t)
    <3>1. (x \in hashed) <=> pos[x] <= k
      BY Zenon DEF Prefix
    <3>2. CASE x = t
      BY <1>5, <1>6, <3>2
    <3>3. CASE x # t
      BY <1>4, <1>6, <3>1, <3>3
    <3>. QED  BY <3>2, <3>3
  <2>. QED  BY <1>2, <2>1 DEF Prefix
<1>8. ASSUME NEW j \in 1..k2 PROVE At(j)' = IF j = 1 THEN t ELSE At(j - 1)
  <2>1. CASE j = 1
    BY <1>3, <1>5, <2>1, AtPrimed
  <2>2. CASE j # 1
    <3>1. j - 1 \in Entries
      BY <1>6, <2>2, NAssumption DEF Entries
    <3>2. PICK y \in Entries : y = At(j - 1)
      BY <1>0, <3>1, AtPlace
    <3>3. pos[y] = j - 1
      BY <1>0, <3>1, <3>2, AtPlace
    <3>4. y # t
      BY <1>2, <1>6, <3>3
    <3>5. pos'[y] = j
      BY <1>4, <3>3, <3>4
    <3>. QED  BY <1>3, <2>2, <3>2, <3>5, AtPrimed
  <2>. QED  BY <2>1, <2>2
<1>9. /\ LruOrder = [j \in 1..k |-> <<key[At(j)], ctm[At(j)]>>]
      /\ LruOrder \in Seq(Pairs) /\ Len(LruOrder) = k
  BY OrderShape
<1>10. LruOrder' = [j \in 1..k2 |-> IF j = 1 THEN <<id, c>> ELSE LruOrder[j - 1]]
  <2>1. LruOrder' = [j \in 1..k2 |-> <<key'[At(j)'], ctm'[At(j)']>>]
    BY <1>3, <1>7, OrderShapePrimed
  <2>2. key \in [Entries -> Ids \cup {0}] /\ ctm \in [Entries -> Ctimes \cup {0}]
    BY DEF CacheInv, CacheTypeOK
  <2>3. ASSUME NEW j \in 1..k2
        PROVE  <<key'[At(j)'], ctm'[At(j)']>>
                 = IF j = 1 THEN <<id, c>> ELSE LruOrder[j - 1]
    <3>1. CASE j = 1
      BY <1>2, <1>8, <2>2, <3>1
    <3>2. CASE j # 1
      <4>1. j - 1 \in Entries /\ j - 1 \in 1..k
        BY <1>6, <3>2, NAssumption DEF Entries
      <4>2. PICK y \in Entries : y = At(j - 1)
        BY <1>0, <4>1, AtPlace
      <4>3. pos[y] = j - 1
        BY <1>0, <4>1, <4>2, AtPlace
      <4>4. y # t
        BY <1>2, <1>6, <4>1, <4>3
      <4>5. At(j)' = y
        BY <1>8, <3>2, <4>2
      <4>6. LruOrder[j - 1] = <<key[y], ctm[y]>>
        BY <1>9, <4>1, <4>2
      <4>. QED  BY <1>2, <2>2, <3>2, <4>4, <4>5, <4>6
    <3>. QED  BY <3>1, <3>2
  <2>. QED  BY <2>1, <2>3
<1>11. \A i \in 1..Len(LruOrder) : LruOrder[i][1] # id
  <2>1. SUFFICES ASSUME NEW i \in 1..k PROVE key[At(i)] # id
    BY <1>9
  <2>2. i \in Entries
    BY NAssumption DEF Entries
  <2>3. At(i) \in Entries /\ pos[At(i)] = i
    BY <1>0, <2>2, AtPlace
  <2>4. At(i) \in hashed
    BY <2>3 DEF Prefix
  <2>. QED  BY <2>4 DEF LookupMiss, Matches
<1>12. Prefix(IF k < N THEN k + 1 ELSE N)'
  BY <1>6, <1>7
<1>13. CASE k = N
  <2>1. PICK o \in Seq(Pairs) : o = LruOrder
    BY <1>9
  <2>2. Len(o) # 0
    BY <1>9, <1>13, <2>1, NAssumption
  <2>3. <<<<id, c>>>> \o Abstract!Front(o)
          = [j \in 1..Len(o) |-> IF j = 1 THEN <<id, c>> ELSE o[j - 1]]
    BY <2>2, ConsFrontEl
  <2>4. k2 = Len(o)
    BY <1>6, <1>9, <1>13, <2>1
  <2>5. LruOrder' = <<<<id, c>>>> \o Abstract!Front(LruOrder)
    BY <1>10, <2>1, <2>3, <2>4, Zenon
  <2>. QED  BY <1>9, <1>11, <1>12, <1>13, <2>5 DEF Abstract!Insert
<1>14. CASE k # N
  <2>1. PICK o \in Seq(Pairs) : o = LruOrder
    BY <1>9
  <2>2. <<<<id, c>>>> \o o
          = [j \in 1..Len(o) + 1 |-> IF j = 1 THEN <<id, c>> ELSE o[j - 1]]
    BY ConsEl
  <2>3. k2 = Len(o) + 1
    BY <1>6, <1>9, <1>14, <2>1, NAssumption
  <2>4. LruOrder' = <<<<id, c>>>> \o LruOrder
    BY <1>10, <2>1, <2>2, <2>3, Zenon
  <2>. QED  BY <1>9, <1>11, <1>12, <1>14, <2>4 DEF Abstract!Insert
<1>. QED  BY <1>13, <1>14

-----------------------------------------------------------------------------
(* The initial state and the steps that leave the arena alone.             *)

\* iotrace_create_inode_tracer maps nothing: the abstract cache starts empty.
LEMMA InitRefines == CacheInit => RInv /\ Abstract!Init
<1> SUFFICES ASSUME CacheInit PROVE RInv /\ Abstract!Init
  OBVIOUS
<1>1. CacheInv
  BY CacheInitInv
<1>2. Prefix(0)
  <2>1. ASSUME NEW e \in Entries PROVE ~(pos[e] <= 0)
    BY NAssumption DEF CacheInit, Entries
  <2>2. hashed = {}
    BY DEF CacheInit
  <2>. QED  BY <2>1, <2>2 DEF Prefix
<1>3. LruOrder = [j \in 1..0 |-> <<key[At(j)], ctm[At(j)]>>]
  <2>1. 0 \in 0..N
    BY NAssumption
  <2>. QED  BY <1>1, <1>2, <2>1, OrderShape, Zenon
<1>4. [j \in 1..0 |-> <<key[At(j)], ctm[At(j)]>>] = << >>
  OBVIOUS
<1>5. PrefixInv
  BY <1>2, NAssumption DEF PrefixInv
<1>. QED  BY <1>1, <1>3, <1>4, <1>5 DEF RInv, Abstract!Init

\* A step that leaves the arena alone leaves the abstract cache alone.
LEMMA StutterRefines ==
    ASSUME CacheInv, NEW k \in 0..N, Prefix(k), UNCHANGED cacheVars
    PROVE  Prefix(k)' /\ LruOrder' = LruOrder
<1>1. Prefix(k)' /\ IsPerm(pos')
  BY TypeIsPerm DEF Prefix, cacheVars, CacheInv
<1>2. LruOrder' = [j \in 1..k |-> <<key'[At(j)'], ctm'[At(j)']>>]
  BY <1>1, OrderShapePrimed
<1>3. LruOrder = [j \in 1..k |-> <<key[At(j)], ctm[At(j)]>>]
  BY OrderShape
<1>4. \A j \in 1..k : At(j)' = At(j)
  BY DEF At, cacheVars
<1>. QED  BY <1>1, <1>2, <1>3, <1>4 DEF cacheVars

(***************************************************************************)
(* Every step of the cache, as iotrace_trace_inode drives it, keeps the   *)
(* inductive invariant and is a step of the abstract cache or leaves it   *)
(* unchanged.                                                              *)
(***************************************************************************)
LEMMA NextRefines ==
    RInv /\ [CacheNext]_cacheVars => RInv' /\ [Abstract!Next]_LruOrder
<1> SUFFICES ASSUME RInv, [CacheNext]_cacheVars
             PROVE  RInv' /\ [Abstract!Next]_LruOrder
  OBVIOUS
<1>1. CacheInv'
  BY CacheNextInv DEF RInv
<1>2. PICK k \in 0..N : Prefix(k)
  BY DEF RInv, PrefixInv
<1>3. CacheInv
  BY DEF RInv
<1>4. CASE UNCHANGED cacheVars
  BY <1>1, <1>2, <1>3, <1>4, StutterRefines DEF RInv, PrefixInv
<1>5. CASE CacheNext
  <2>1. PICK id \in Ids, c \in Ctimes :
            \/ LookupHit(id, c)
            \/ LookupStale(id, c)
            \/ LookupMiss(id) /\ Map(id, c)
    BY <1>5 DEF CacheNext
  <2>2. CASE LookupHit(id, c)
    <3>1. PICK e \in Matches(id) :
              ctm[e] = c /\ pos' = ToHead(e) /\ UNCHANGED <<hashed, key, ctm>>
      BY <2>2 DEF LookupHit
    <3>2. Prefix(k)' /\ Abstract!Hit(id, c)
      BY <1>2, <1>3, <3>1, HitStep
    <3>. QED  BY <1>1, <3>2 DEF RInv, PrefixInv, Abstract!Next
  <2>3. CASE LookupStale(id, c)
    <3>1. PICK e \in Matches(id) :
              /\ ctm[e] # c /\ pos' = ToTail(e) /\ hashed' = hashed \ {e}
              /\ UNCHANGED <<key, ctm>>
      BY <2>3 DEF LookupStale
    <3>2. k - 1 \in 0..N /\ Prefix(k - 1)' /\ Abstract!Invalidate(id, c)
      BY <1>2, <1>3, <3>1, StaleStep
    <3>. QED  BY <1>1, <3>2 DEF RInv, PrefixInv, Abstract!Next
  <2>4. CASE LookupMiss(id) /\ Map(id, c)
    <3>1. Prefix(IF k < N THEN k + 1 ELSE N)' /\ Abstract!Insert(id, c)
      BY <1>2, <1>3, <2>4, MapStep
    <3>2. (IF k < N THEN k + 1 ELSE N) \in 0..N
      BY NAssumption
    <3>. QED  BY <1>1, <3>1, <3>2 DEF RInv, PrefixInv, Abstract!Next
  <2>. QED  BY <2>1, <2>2, <2>3, <2>4
<1>. QED  BY <1>4, <1>5 DEF cacheVars

(***************************************************************************)
(* The arena of trace_inode.c, with its LRU list and hash chains, is the  *)
(* LRU cache of spec section 4.1: mapped entries listed head first form a *)
(* behaviour of LruCache, for every CACHE_SIZE, identity set and ctime    *)
(* set.  The cache_lru run checks the same formula for CACHE_SIZE = 3.    *)
(***************************************************************************)
THEOREM CacheRefinesLru == CacheSpec => LruRefinement
<1>1. CacheInit => RInv /\ Abstract!Init
  BY InitRefines
<1>2. RInv /\ [CacheNext]_cacheVars => RInv' /\ [Abstract!Next]_LruOrder
  BY NextRefines
<1>. QED  BY <1>1, <1>2, PTL DEF CacheSpec, LruRefinement, Abstract!Spec

=============================================================================
