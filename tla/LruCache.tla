------------------------------ MODULE LruCache ------------------------------
(***************************************************************************)
(* What the identity cache promises (spec section 4.1), free of arenas    *)
(* and lists: a sequence of (identity, ctime) mappings, most recently     *)
(* used first, never longer than the capacity.  A lookup that matches     *)
(* identity and ctime promotes the mapping; one that matches the identity *)
(* only drops it as stale; an insertion of an identity that is not cached *)
(* goes to the front and, when the cache is full, pushes out the least    *)
(* recently used mapping.                                                  *)
(***************************************************************************)
EXTENDS Naturals, Sequences, SequencesExt

CONSTANTS Capacity, Ids, Ctimes

VARIABLE order

Init == order = << >>

Hit(id, c) ==
    \E i \in 1..Len(order) :
        /\ order[i] = <<id, c>>
        /\ order' = <<order[i]>> \o RemoveAt(order, i)

Invalidate(id, c) ==
    \E i \in 1..Len(order) :
        /\ order[i][1] = id
        /\ order[i][2] # c
        /\ order' = RemoveAt(order, i)

Insert(id, c) ==
    /\ \A i \in 1..Len(order) : order[i][1] # id
    /\ order' = IF Len(order) = Capacity
                THEN <<<<id, c>>>> \o Front(order)
                ELSE <<<<id, c>>>> \o order

Next == \E id \in Ids, c \in Ctimes :
            Hit(id, c) \/ Invalidate(id, c) \/ Insert(id, c)

Spec == Init /\ [][Next]_order

=============================================================================
