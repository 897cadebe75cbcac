--------------------------- MODULE NodeHeapProofs ---------------------------
(***************************************************************************)
(* What the list functions of NodeHeap preserve, for any finite number of  *)
(* items and lists: each of them takes well formed rings to well formed    *)
(* rings, provided an item is only added when no list owns it.             *)
(***************************************************************************)
EXTENDS NodeHeap, SequencesExt, FiniteSetTheorems, SequenceTheorems, TLAPS

(* Membership of the parts of a heap. *)
LEMMA HeapFields ==
  ASSUME NEW h \in Heaps
  PROVE  /\ h.owner \in [Nodes -> Roots \cup {NULL}]
         /\ h.prev \in [Cells -> Cells \cup {NULL}]
         /\ h.next \in [Cells -> Cells \cup {NULL}]
         /\ h.len \in [Roots -> 0 .. LenMod - 1]
BY DEF Heaps

(* The members of a list are finitely many, fewer than "len" can count. *)
LEMMA MembersBound ==
  ASSUME NEW h, NEW l
  PROVE  /\ IsFiniteSet(Members(h, l))
         /\ Cardinality(Members(h, l)) \in 0 .. LenMod - 1
<1>1. Members(h, l) \in SUBSET Nodes
  BY DEF Members
<1>2. IsFiniteSet(Members(h, l)) /\ Cardinality(Members(h, l)) <= Cardinality(Nodes)
  BY <1>1, FS_Subset, CellAssumption
<1>3. Cardinality(Members(h, l)) \in Nat /\ Cardinality(Nodes) \in Nat
  BY <1>2, FS_CardinalityType, CellAssumption
<1> QED
  BY <1>2, <1>3, LenAssumption

(* A walk of a list meets no cell outside a set closed under its steps. *)
LEMMA WalkedInClosed ==
  ASSUME NEW h, NEW l, NEW S \in SUBSET (Cells \cup {NULL}), ClosedWalk(h, l, S)
  PROVE  Walked(h, l) \subseteq S
BY DEF Walked

(* In well linked rings a walk meets only members of the list and its root:*)
(* no other list, and no null pointer.                                     *)
LEMMA WalkStaysInList ==
  ASSUME NEW h \in Heaps, RingsLinked(h), NEW l \in Roots
  PROVE  Walked(h, l) \subseteq Members(h, l) \cup {l}
<1> DEFINE S == Members(h, l) \cup {l}
<1>1. S \in SUBSET (Cells \cup {NULL})
  BY DEF Members, Cells
<1>2. ClosedWalk(h, l, S)
  BY DEF ClosedWalk, RingsLinked
<1> HIDE DEF S
<1>3. Walked(h, l) \subseteq S
  BY <1>1, <1>2, WalkedInClosed
<1> QED
  BY <1>3 DEF S

(* Every walk of a well linked list comes back to its root, for the last   *)
(* cell before the root is met like all others.                            *)
LEMMA WalkReturns ==
  ASSUME NEW h \in Heaps, RingsLinked(h), RingsConnected(h), NEW l \in Roots
  PROVE  l \in Walked(h, l)
<1> SUFFICES ASSUME NEW S \in SUBSET (Cells \cup {NULL}), ClosedWalk(h, l, S)
             PROVE  l \in S
  BY DEF Walked, Cells
<1> DEFINE t == h.prev[l]
<1>1. t \in Members(h, l) \cup {l} /\ h.next[t] = l
  BY DEF RingsLinked
<1>2. CASE t = l
  BY <1>1, <1>2 DEF ClosedWalk
<1>3. CASE t # l
  <2>1. t \in Members(h, l)
    BY <1>1, <1>3
  <2>2. t \in S
    BY <2>1, WalkedInClosed DEF RingsConnected
  <2>3. t \in Cells
    BY <2>1 DEF Members, Cells
  <2> QED
    BY <1>1, <1>3, <2>2, <2>3 DEF ClosedWalk
<1> QED
  BY <1>2, <1>3

(* The searches of page_manager.c on well formed lists: a search ends, and *)
(* finds exactly the members.                                              *)
LEMMA WalkFindsMembers ==
  ASSUME NEW h \in Heaps, WellFormed(h), NEW l \in Roots, NEW n \in Nodes
  PROVE  WalkResult(h, l, n) = IF h.owner[n] = l THEN "found" ELSE "absent"
<1>1. RingsLinked(h) /\ RingsConnected(h)
  BY DEF WellFormed
<1>2. n \in Walked(h, l) <=> h.owner[n] = l
  <2>1. n # l
    BY CellAssumption
  <2> QED
    BY <1>1, <2>1, WalkStaysInList DEF RingsConnected, Members
<1>3. NULL \notin Walked(h, l)
  BY <1>1, WalkStaysInList, CellAssumption DEF Members
<1>4. l \in Walked(h, l)
  BY <1>1, WalkReturns
<1> QED
  BY <1>2, <1>3, <1>4 DEF WalkResult

(* "len" tells whether the ring is empty, so the ends that the get         *)
(* functions return are members of the list.                               *)
LEMMA EndsAreMembers ==
  ASSUME NEW h \in Heaps, WellFormed(h), NEW l \in Roots
  PROVE  /\ IsEmpty(h, l) <=> Members(h, l) = {}
         /\ ~ IsEmpty(h, l) => /\ h.next[l] \in Members(h, l)
                               /\ h.prev[l] \in Members(h, l)
<1>1. IsEmpty(h, l) <=> Members(h, l) = {}
  BY MembersBound, FS_EmptySet DEF WellFormed, LengthsExact, IsEmpty
<1>2. ASSUME Members(h, l) # {}, h.next[l] = l
      PROVE  FALSE
  <2> DEFINE S == {l}
  <2>1. S \in SUBSET (Cells \cup {NULL}) /\ ClosedWalk(h, l, S)
    BY <1>2 DEF ClosedWalk, Cells
  <2>2. Walked(h, l) \subseteq S
    BY <2>1, WalkedInClosed
  <2>3. l \notin Members(h, l)
    BY CellAssumption DEF Members
  <2> QED
    BY <1>2, <2>2, <2>3 DEF WellFormed, RingsConnected
<1>3. h.prev[l] = l => h.next[l] = l
  BY DEF WellFormed, RingsLinked
<1> QED
  BY <1>1, <1>2, <1>3 DEF WellFormed, RingsLinked

-----------------------------------------------------------------------------
(* A heap of closed rings is where every program starts. *)
LEMMA EmptyHeapWellFormed ==
  EmptyHeap \in Heaps /\ WellFormed(EmptyHeap)
<1>1. EmptyHeap \in Heaps
  BY LenAssumption, FS_CardinalityType, CellAssumption DEF EmptyHeap, Heaps, Cells
<1>2. \A l \in Roots : Members(EmptyHeap, l) = {}
  BY CellAssumption DEF EmptyHeap, Members
<1>3. RingsLinked(EmptyHeap) /\ FreeDetached(EmptyHeap)
  BY <1>2, CellAssumption DEF RingsLinked, FreeDetached, EmptyHeap, Cells
<1>4. RingsConnected(EmptyHeap)
  BY <1>2 DEF RingsConnected
<1>5. LengthsExact(EmptyHeap)
  BY <1>2, FS_EmptySet DEF LengthsExact, EmptyHeap
<1> QED
  BY <1>1, <1>3, <1>4, <1>5 DEF WellFormed

(* Nothing points to an item that no list owns. *)
LEMMA NothingPointsToFree ==
  ASSUME NEW h \in Heaps, RingsLinked(h), FreeDetached(h),
         NEW n \in Nodes, h.owner[n] = NULL, NEW d \in Cells
  PROVE  h.next[d] # n /\ h.prev[d] # n
<1>1. CASE d \in Roots
  BY <1>1, CellAssumption DEF RingsLinked, Members
<1>2. CASE d \in Nodes /\ h.owner[d] # NULL
  BY <1>2, HeapFields, CellAssumption DEF RingsLinked, Members
<1>3. CASE d \in Nodes /\ h.owner[d] = NULL
  BY <1>3, CellAssumption DEF FreeDetached
<1> QED
  BY <1>1, <1>2, <1>3 DEF Cells

(* Adding an unowned item at the tail makes it a member of that list, and  *)
(* leaves every list a list.                                               *)
LEMMA AddTailPreserves ==
  ASSUME NEW h \in Heaps, WellFormed(h), NEW l \in Roots,
         NEW n \in Nodes, h.owner[n] = NULL
  PROVE  LET k == AddTail(h, l, n)
         IN  /\ k \in Heaps
             /\ WellFormed(k)
             /\ k.owner = [h.owner EXCEPT ![n] = l]
<1> DEFINE k == AddTail(h, l, n)
           t == h.prev[l]
<1> USE HeapFields, CellAssumption
<1>1. k.owner = [h.owner EXCEPT ![n] = l]
  BY DEF AddTail
<1>2. k \in Heaps
  <2>1. h.prev[l] \in Cells \cup {NULL}
    BY DEF Cells
  <2>2. Inc(h.len[l]) \in 0 .. LenMod - 1
    BY LenAssumption DEF Inc
  <2> QED
    BY <2>1, <2>2 DEF AddTail, Heaps, Cells
<1>3. /\ Members(k, l) = Members(h, l) \cup {n}
      /\ n \notin Members(h, l)
      /\ \A m \in Roots : m # l => Members(k, m) = Members(h, m) /\ n \notin Members(h, m)
  BY <1>1 DEF Members
<1>4. RingsLinked(h) /\ FreeDetached(h) /\ RingsConnected(h) /\ LengthsExact(h)
  BY DEF WellFormed
<1>5. t \in Members(h, l) \cup {l} /\ t \in Cells /\ t # n /\ h.next[t] = l
  BY <1>3, <1>4 DEF RingsLinked, Members, Cells
<1>6. /\ k.next[t] = n /\ k.next[n] = l /\ k.prev[l] = n /\ k.prev[n] = t
      /\ \A c \in Cells : c \notin {t, n} => k.next[c] = h.next[c]
      /\ \A c \in Cells : c \notin {l, n} => k.prev[c] = h.prev[c]
  BY <1>5 DEF AddTail, Cells
<1>7. RingsLinked(k)
  <2> SUFFICES ASSUME NEW m \in Roots, NEW c \in Members(k, m) \cup {m}
               PROVE  /\ k.next[c] \in Members(k, m) \cup {m}
                      /\ k.prev[c] \in Members(k, m) \cup {m}
                      /\ k.prev[k.next[c]] = c
                      /\ k.next[k.prev[c]] = c
    BY DEF RingsLinked
  <2>1. c \in Cells
    BY DEF Members, Cells
  <2>2. CASE m # l
    <3>1. c \notin {t, n, l} /\ h.next[c] \notin {t, n, l} /\ h.prev[c] \notin {t, n, l}
      BY <1>3, <1>4, <1>5, <2>2 DEF RingsLinked, Members
    <3>2. h.next[c] \in Cells /\ h.prev[c] \in Cells
      BY <1>3, <1>4, <2>2 DEF RingsLinked, Members, Cells
    <3> QED
      BY <1>3, <1>4, <1>6, <2>1, <2>2, <3>1, <3>2 DEF RingsLinked
  <2>3. CASE m = l /\ c = n
    BY <1>3, <1>5, <1>6, <2>3
  <2>4. CASE m = l /\ c # n
    <3>1. c \in Members(h, l) \cup {l}
      BY <1>3, <2>4
    <3>2. /\ h.next[c] \in Members(h, l) \cup {l} /\ h.next[c] \in Cells
          /\ h.prev[c] \in Members(h, l) \cup {l} /\ h.prev[c] \in Cells
          /\ h.prev[h.next[c]] = c /\ h.next[h.prev[c]] = c
      BY <1>4, <3>1 DEF RingsLinked, Members, Cells
    <3>3. h.next[c] # n /\ h.prev[c] # n
      BY <1>3, <3>2
    <3>4. c = t <=> h.next[c] = l
      BY <3>2, <1>5
    <3>5. c = l <=> h.prev[c] = t
      BY <3>2, <1>5
    <3> QED
      BY <1>3, <1>5, <1>6, <2>1, <2>4, <3>1, <3>2, <3>3, <3>4, <3>5
  <2> QED
    BY <2>2, <2>3, <2>4
<1>8. FreeDetached(k)
  BY <1>1, <1>4, <1>5, <1>6 DEF FreeDetached, Members, Cells
<1>9. RingsConnected(k)
  <2> SUFFICES ASSUME NEW m \in Roots, NEW c \in Members(k, m),
                      NEW S \in SUBSET (Cells \cup {NULL}), ClosedWalk(k, m, S)
               PROVE  c \in S
    BY DEF RingsConnected, Walked, Members, Cells
  <2>1. CASE m # l
    <3> DEFINE Q == S \cap (Members(h, m) \cup {m})
    <3>1. ClosedWalk(h, m, Q)
      <4>1. \A d \in Members(h, m) \cup {m} : d \in Cells /\ k.next[d] = h.next[d]
        BY <1>3, <1>5, <1>6, <2>1 DEF Members, Cells
      <4> QED
        BY <1>4, <4>1 DEF ClosedWalk, RingsLinked
    <3>2. Members(h, m) \subseteq Q
      BY <1>4, <3>1, WalkedInClosed DEF RingsConnected
    <3> QED
      BY <1>3, <2>1, <3>2
  <2>2. CASE m = l
    <3> DEFINE Q == S \ {n}
    <3>1. t \in Cells /\ (t = l \/ t \in Members(h, l))
      BY <1>5
    <3>2. ClosedWalk(h, l, Q \cup {l})
      <4>1. h.next[l] \in Q \cup {l}
        BY <1>3, <1>4, <1>5, <1>6, <2>2 DEF ClosedWalk, RingsLinked, Cells
      <4>2. ASSUME NEW d \in (Q \cup {l}) \cap Cells, d # l
            PROVE  h.next[d] \in Q \cup {l}
        <5>1. CASE d = t
          BY <5>1, <1>5
        <5>2. CASE d # t
          <6>1. k.next[d] = h.next[d] /\ k.next[d] \in S
            BY <1>6, <2>2, <4>2, <5>2 DEF ClosedWalk
          <6>2. h.next[d] # n
            BY <1>4, NothingPointsToFree
          <6> QED
            BY <6>1, <6>2
        <5> QED
          BY <5>1, <5>2
      <4> QED
        BY <4>1, <4>2 DEF ClosedWalk
    <3>3. Members(h, l) \subseteq Q
      <4>1. Q \cup {l} \in SUBSET (Cells \cup {NULL})
        BY DEF Cells
      <4>2. Members(h, l) \subseteq Q \cup {l}
        BY <1>4, <3>2, <4>1, WalkedInClosed DEF RingsConnected
      <4> QED
        BY <4>2 DEF Members
    <3>4. n \in S
      BY <1>5, <1>6, <2>2, <3>1, <3>3 DEF ClosedWalk
    <3> QED
      BY <1>3, <2>2, <3>3, <3>4
  <2> QED
    BY <2>1, <2>2
<1>10. LengthsExact(k)
  <2>1. Cardinality(Members(k, l)) = Cardinality(Members(h, l)) + 1
    BY <1>3, MembersBound, FS_AddElement
  <2>2. k.len[l] = Cardinality(Members(k, l))
    <3>1. k.len[l] = (h.len[l] + 1) % LenMod
      BY DEF AddTail, Inc
    <3>2. h.len[l] + 1 \in 0 .. LenMod - 1
      BY <1>4, <2>1, MembersBound DEF LengthsExact
    <3> QED
      BY <1>4, <2>1, <3>1, <3>2, LenAssumption DEF LengthsExact
  <2>3. \A m \in Roots : m # l => k.len[m] = h.len[m]
    BY DEF AddTail
  <2> QED
    BY <1>3, <1>4, <2>2, <2>3 DEF LengthsExact
<1> QED
  BY <1>1, <1>2, <1>7, <1>8, <1>9, <1>10 DEF WellFormed

-----------------------------------------------------------------------------
(* Adding an unowned item at the head. *)
LEMMA AddHeadPreserves ==
  ASSUME NEW h \in Heaps, WellFormed(h), NEW l \in Roots,
         NEW n \in Nodes, h.owner[n] = NULL
  PROVE  LET k == AddHead(h, l, n)
         IN  /\ k \in Heaps
             /\ WellFormed(k)
             /\ k.owner = [h.owner EXCEPT ![n] = l]
<1> DEFINE k == AddHead(h, l, n)
           t == h.next[l]
<1> USE HeapFields, CellAssumption
<1>1. k.owner = [h.owner EXCEPT ![n] = l]
  BY DEF AddHead
<1>2. k \in Heaps
  <2>1. h.next[l] \in Cells \cup {NULL}
    BY DEF Cells
  <2>2. Inc(h.len[l]) \in 0 .. LenMod - 1
    BY LenAssumption DEF Inc
  <2> QED
    BY <2>1, <2>2 DEF AddHead, Heaps, Cells
<1>3. /\ Members(k, l) = Members(h, l) \cup {n}
      /\ n \notin Members(h, l)
      /\ \A m \in Roots : m # l => Members(k, m) = Members(h, m) /\ n \notin Members(h, m)
  BY <1>1 DEF Members
<1>4. RingsLinked(h) /\ FreeDetached(h) /\ RingsConnected(h) /\ LengthsExact(h)
  BY DEF WellFormed
<1>5. t \in Members(h, l) \cup {l} /\ t \in Cells /\ t # n /\ h.prev[t] = l
  BY <1>3, <1>4 DEF RingsLinked, Members, Cells
<1>6. /\ k.prev[t] = n /\ k.prev[n] = l /\ k.next[l] = n /\ k.next[n] = t
      /\ \A c \in Cells : c \notin {t, n} => k.prev[c] = h.prev[c]
      /\ \A c \in Cells : c \notin {l, n} => k.next[c] = h.next[c]
  BY <1>5 DEF AddHead, Cells
<1>7. RingsLinked(k)
  <2> SUFFICES ASSUME NEW m \in Roots, NEW c \in Members(k, m) \cup {m}
               PROVE  /\ k.next[c] \in Members(k, m) \cup {m}
                      /\ k.prev[c] \in Members(k, m) \cup {m}
                      /\ k.prev[k.next[c]] = c
                      /\ k.next[k.prev[c]] = c
    BY DEF RingsLinked
  <2>1. c \in Cells
    BY DEF Members, Cells
  <2>2. CASE m # l
    <3>1. c \notin {t, n, l} /\ h.next[c] \notin {t, n, l} /\ h.prev[c] \notin {t, n, l}
      BY <1>3, <1>4, <1>5, <2>2 DEF RingsLinked, Members
    <3>2. h.next[c] \in Cells /\ h.prev[c] \in Cells
      BY <1>3, <1>4, <2>2 DEF RingsLinked, Members, Cells
    <3> QED
      BY <1>3, <1>4, <1>6, <2>1, <2>2, <3>1, <3>2 DEF RingsLinked
  <2>3. CASE m = l /\ c = n
    BY <1>3, <1>5, <1>6, <2>3
  <2>4. CASE m = l /\ c # n
    <3>1. c \in Members(h, l) \cup {l}
      BY <1>3, <2>4
    <3>2. /\ h.next[c] \in Members(h, l) \cup {l} /\ h.next[c] \in Cells
          /\ h.prev[c] \in Members(h, l) \cup {l} /\ h.prev[c] \in Cells
          /\ h.prev[h.next[c]] = c /\ h.next[h.prev[c]] = c
      BY <1>4, <3>1 DEF RingsLinked, Members, Cells
    <3>3. h.next[c] # n /\ h.prev[c] # n
      BY <1>3, <3>2
    <3>4. c = t <=> h.prev[c] = l
      BY <3>2, <1>5
    <3>5. c = l <=> h.next[c] = t
      BY <3>2, <1>5
    <3> QED
      BY <1>3, <1>5, <1>6, <2>1, <2>4, <3>1, <3>2, <3>3, <3>4, <3>5
  <2> QED
    BY <2>2, <2>3, <2>4
<1>8. FreeDetached(k)
  BY <1>1, <1>4, <1>5, <1>6 DEF FreeDetached, Members, Cells
<1>9. RingsConnected(k)
  <2> SUFFICES ASSUME NEW m \in Roots,
                      NEW S \in SUBSET (Cells \cup {NULL}), ClosedWalk(k, m, S)
               PROVE  Members(k, m) \subseteq S
    BY DEF RingsConnected, Walked, Members, Cells
  <2>1. \A d \in Cells : d # l /\ d # n => k.next[d] = h.next[d] /\ h.next[d] # n
    BY <1>4, <1>6, NothingPointsToFree
  <2> DEFINE Q == S \ {n}
  <2>2. l # n /\ m # n
    OBVIOUS
  <2>3. m = l => n \in S /\ t \in S
    BY <1>6, <2>2 DEF ClosedWalk, Cells
  <2>4. ClosedWalk(h, m, Q)
    <3>1. h.next[m] \in Q
      BY <1>5, <2>1, <2>2, <2>3 DEF ClosedWalk, Cells
    <3>2. ASSUME NEW d \in Q \cap Cells, d # m, d # l
          PROVE  h.next[d] \in Q
      BY <2>1, <3>2 DEF ClosedWalk
    <3>3. ASSUME l \in Q, l # m
          PROVE  h.next[l] \in Q
      BY <1>5, <1>6, <2>2, <3>3 DEF ClosedWalk, Cells
    <3> QED
      BY <3>1, <3>2, <3>3 DEF ClosedWalk
  <2>5. Members(h, m) \subseteq Q
    BY <1>4, <2>4, WalkedInClosed DEF RingsConnected
  <2> QED
    BY <1>3, <2>3, <2>5
<1>10. LengthsExact(k)
  <2>1. Cardinality(Members(k, l)) = Cardinality(Members(h, l)) + 1
    BY <1>3, MembersBound, FS_AddElement
  <2>2. k.len[l] = Cardinality(Members(k, l))
    <3>1. k.len[l] = (h.len[l] + 1) % LenMod
      BY DEF AddHead, Inc
    <3>2. h.len[l] + 1 \in 0 .. LenMod - 1
      BY <1>4, <2>1, MembersBound DEF LengthsExact
    <3> QED
      BY <1>4, <2>1, <3>1, <3>2, LenAssumption DEF LengthsExact
  <2>3. \A m \in Roots : m # l => k.len[m] = h.len[m]
    BY DEF AddHead
  <2> QED
    BY <1>3, <1>4, <2>2, <2>3 DEF LengthsExact
<1> QED
  BY <1>1, <1>2, <1>7, <1>8, <1>9, <1>10 DEF WellFormed

-----------------------------------------------------------------------------
(* No member of a list is its own neighbour: the ring through it would     *)
(* leave the root out.                                                     *)
LEMMA NeighboursDiffer ==
  ASSUME NEW h \in Heaps, WellFormed(h), NEW l \in Roots, NEW n \in Members(h, l)
  PROVE  h.next[n] # n /\ h.prev[n] # n
<1> USE HeapFields, CellAssumption
<1>1. RingsLinked(h) /\ FreeDetached(h) /\ RingsConnected(h)
  BY DEF WellFormed
<1>2. n \in Nodes /\ n \in Cells /\ l \in Cells /\ l # n
  BY DEF Members, Cells
<1>3. h.prev[h.next[n]] = n /\ h.next[h.prev[n]] = n
  BY <1>1 DEF RingsLinked
<1>4. ASSUME h.next[n] = n PROVE FALSE
  <2> DEFINE Q == (Cells \cup {NULL}) \ {n}
  <2>1. \A d \in Cells : d # n => h.next[d] # n
    <3> SUFFICES ASSUME NEW d \in Cells, d # n, h.next[d] = n PROVE FALSE
      OBVIOUS
    <3>1. ASSUME NEW m \in Roots, d \in Members(h, m) \cup {m} PROVE FALSE
      BY <1>1, <1>3, <1>4, <3>1 DEF RingsLinked
    <3>2. d \in Nodes /\ h.owner[d] = NULL
      BY <3>1 DEF Members, Cells
    <3> QED
      BY <1>1, <1>2, <3>2 DEF FreeDetached
  <2>2. ClosedWalk(h, l, Q)
    BY <1>2, <2>1 DEF ClosedWalk
  <2>3. Walked(h, l) \subseteq Q
    BY <2>2, WalkedInClosed
  <2> QED
    BY <1>1, <2>3 DEF RingsConnected
<1> QED
  BY <1>3, <1>4

(* Unlinking a member leaves it detached and every list a list. *)
LEMMA UnlinkedPreserves ==
  ASSUME NEW h \in Heaps, WellFormed(h), NEW l \in Roots,
         NEW n \in Nodes, h.owner[n] = l
  PROVE  LET k == Unlinked(h, l, n)
         IN  /\ k \in Heaps
             /\ WellFormed(k)
             /\ k.owner = [h.owner EXCEPT ![n] = NULL]
<1> DEFINE k == Unlinked(h, l, n)
           p == h.prev[n]
           s == h.next[n]
<1> USE HeapFields, CellAssumption
<1>1. k.owner = [h.owner EXCEPT ![n] = NULL]
  BY DEF Unlinked
<1>2. k \in Heaps
  <2>1. n \in Cells /\ h.next[n] \in Cells \cup {NULL} /\ h.prev[n] \in Cells \cup {NULL}
    BY DEF Cells
  <2>2. Dec(h.len[l]) \in 0 .. LenMod - 1
    BY LenAssumption DEF Dec
  <2> QED
    BY <2>1, <2>2 DEF Unlinked, Heaps
<1>3. /\ Members(k, l) = Members(h, l) \ {n}
      /\ n \in Members(h, l)
      /\ \A m \in Roots : m # l => Members(k, m) = Members(h, m) /\ n \notin Members(h, m)
  BY <1>1 DEF Members
<1>4. RingsLinked(h) /\ FreeDetached(h) /\ RingsConnected(h) /\ LengthsExact(h)
  BY DEF WellFormed
<1>5. /\ p \in Members(h, l) \cup {l} /\ p \in Cells /\ h.next[p] = n
      /\ s \in Members(h, l) \cup {l} /\ s \in Cells /\ h.prev[s] = n
  BY <1>3, <1>4 DEF RingsLinked, Members, Cells
<1>6. p # n /\ s # n
  BY <1>3, NeighboursDiffer
<1>7. /\ k.next[p] = s /\ k.prev[s] = p /\ k.next[n] = NULL /\ k.prev[n] = NULL
      /\ \A c \in Cells : c \notin {p, n} => k.next[c] = h.next[c]
      /\ \A c \in Cells : c \notin {s, n} => k.prev[c] = h.prev[c]
  BY <1>5, <1>6 DEF Unlinked, Cells
<1>8. RingsLinked(k)
  <2> SUFFICES ASSUME NEW m \in Roots, NEW c \in Members(k, m) \cup {m}
               PROVE  /\ k.next[c] \in Members(k, m) \cup {m}
                      /\ k.prev[c] \in Members(k, m) \cup {m}
                      /\ k.prev[k.next[c]] = c
                      /\ k.next[k.prev[c]] = c
    BY DEF RingsLinked
  <2>1. c \in Cells /\ c # n
    BY <1>1 DEF Members, Cells
  <2>2. c \in Members(h, m) \cup {m}
    BY <1>3
  <2>3. /\ h.next[c] \in Members(h, m) \cup {m} /\ h.next[c] \in Cells
        /\ h.prev[c] \in Members(h, m) \cup {m} /\ h.prev[c] \in Cells
        /\ h.prev[h.next[c]] = c /\ h.next[h.prev[c]] = c
    BY <1>4, <2>2 DEF RingsLinked, Members, Cells
  <2>4. CASE m # l
    <3>1. c \notin {p, s, n} /\ h.next[c] \notin {p, s, n} /\ h.prev[c] \notin {p, s, n}
      BY <1>3, <1>5, <2>2, <2>3, <2>4 DEF Members
    <3> QED
      BY <1>3, <1>7, <2>1, <2>3, <2>4, <3>1
  <2>5. CASE m = l
    <3>1. c = p <=> h.next[c] = n
      BY <1>5, <2>3
    <3>2. c = s <=> h.prev[c] = n
      BY <1>5, <2>3
    <3>3. h.next[c] = s => c = n
      BY <1>5, <2>3
    <3>4. h.prev[c] = p => c = n
      BY <1>5, <2>3
    <3> QED
      BY <1>3, <1>5, <1>6, <1>7, <2>1, <2>3, <2>5, <3>1, <3>2, <3>3, <3>4
  <2> QED
    BY <2>4, <2>5
<1>9. FreeDetached(k)
  BY <1>1, <1>4, <1>5, <1>6, <1>7 DEF FreeDetached, Members, Cells
<1>10. RingsConnected(k)
  <2> SUFFICES ASSUME NEW m \in Roots,
                      NEW S \in SUBSET (Cells \cup {NULL}), ClosedWalk(k, m, S)
               PROVE  Members(k, m) \subseteq S
    BY DEF RingsConnected, Walked, Members, Cells
  <2>1. n \in Cells /\ p \in Cells /\ m \in Cells /\ m # n
    BY <1>5 DEF Cells
  <2>2. \A d \in Cells : h.next[d] = n => d = p
    <3> SUFFICES ASSUME NEW d \in Cells, h.next[d] = n PROVE d = p
      OBVIOUS
    <3>1. CASE d \in Nodes /\ h.owner[d] = NULL
      BY <1>4, <3>1 DEF FreeDetached
    <3>2. ASSUME NEW j \in Roots, d \in Members(h, j) \cup {j} PROVE d = p
      BY <1>4, <3>2 DEF RingsLinked
    <3>3. (d \in Nodes /\ h.owner[d] = NULL) \/ \E j \in Roots : d \in Members(h, j) \cup {j}
      BY DEF Members, Cells
    <3> QED
      BY <3>1, <3>2, <3>3
  <2>3. CASE p \in S \/ p = m
    <3> DEFINE Q == S \cup {n}
    <3>1. s \in S
      BY <1>7, <2>1, <2>3 DEF ClosedWalk
    <3>2. ClosedWalk(h, m, Q)
      <4>1. \A d \in Cells : (d \in S \/ d = m) /\ d # m /\ d # n => k.next[d] \in S
        BY DEF ClosedWalk
      <4>2. k.next[m] \in S
        BY DEF ClosedWalk
      <4>3. ASSUME NEW d \in Cells, d \in Q \/ d = m
            PROVE  h.next[d] \in Q
        <5>1. CASE d = n
          BY <3>1, <5>1
        <5>2. CASE d = p
          BY <1>5, <5>2
        <5>3. CASE d \notin {n, p}
          <6>1. h.next[d] = k.next[d]
            BY <1>7, <5>3
          <6> QED
            BY <4>1, <4>2, <4>3, <5>3, <6>1
        <5> QED
          BY <5>1, <5>2, <5>3
      <4> QED
        BY <2>1, <4>3 DEF ClosedWalk
    <3>3. Members(h, m) \subseteq Q
      BY <1>4, <2>1, <3>2, WalkedInClosed DEF RingsConnected
    <3> QED
      BY <1>3, <3>3
  <2>4. CASE p \notin S /\ p # m
    <3> DEFINE Q == S \ {n}
    <3>1. ClosedWalk(h, m, Q)
      <4>1. h.next[m] \in Q
        BY <1>7, <2>1, <2>2, <2>4 DEF ClosedWalk
      <4>2. ASSUME NEW d \in Q \cap Cells, d # m
            PROVE  h.next[d] \in Q
        BY <1>7, <2>2, <2>4, <4>2 DEF ClosedWalk
      <4> QED
        BY <4>1, <4>2 DEF ClosedWalk
    <3>2. Members(h, m) \subseteq Q
      BY <1>4, <3>1, WalkedInClosed DEF RingsConnected
    <3> QED
      BY <1>3, <3>2
  <2> QED
    BY <2>3, <2>4
<1>11. LengthsExact(k)
  <2>1. Cardinality(Members(k, l)) = Cardinality(Members(h, l)) - 1
    <3> DEFINE M == Members(h, l)
    <3>1. IsFiniteSet(M)
      BY MembersBound
    <3>2. n \in M /\ Members(k, l) = M \ {n}
      BY <1>3
    <3> HIDE DEF M, k
    <3>3. Cardinality(M \ {n}) = Cardinality(M) - 1
      BY <3>1, <3>2, FS_RemoveElement
    <3>4. Cardinality(Members(k, l)) = Cardinality(M) - 1
      BY <3>2, <3>3
    <3> QED
      BY <3>4 DEF M
  <2>2. k.len[l] = Cardinality(Members(k, l))
    <3>1. k.len[l] = Dec(h.len[l])
      BY DEF Unlinked
    <3>2. Cardinality(Members(k, l)) \in Nat
      BY MembersBound
    <3>3. h.len[l] = Cardinality(Members(h, l))
      BY <1>4 DEF LengthsExact
    <3> QED
      BY <2>1, <3>1, <3>2, <3>3, MembersBound DEF Dec
  <2>3. \A m \in Roots : m # l => k.len[m] = h.len[m]
    BY DEF Unlinked
  <2> QED
    BY <1>3, <1>4, <2>2, <2>3 DEF LengthsExact
<1> QED
  BY <1>1, <1>2, <1>8, <1>9, <1>10, <1>11 DEF WellFormed

(* node_list_delete_item, whichever list is named. *)
LEMMA DeleteItemPreserves ==
  ASSUME NEW h \in Heaps, WellFormed(h), NEW l \in Roots, NEW n \in Nodes
  PROVE  LET k == DeleteItem(h, l, n)
         IN  /\ k \in Heaps
             /\ WellFormed(k)
             /\ k.owner = IF h.owner[n] = l THEN [h.owner EXCEPT ![n] = NULL] ELSE h.owner
BY UnlinkedPreserves DEF DeleteItem

(* Taking the head or the tail of a list that is not empty unlinks it. *)
LEMMA TakenIsUnlinked ==
  ASSUME NEW h \in Heaps, WellFormed(h), NEW l \in Roots, ~ IsEmpty(h, l)
  PROVE  /\ HeadTaken(h, l) = Unlinked(h, l, GetHead(h, l))
         /\ TailTaken(h, l) = Unlinked(h, l, GetTail(h, l))
<1>1. /\ h.prev[h.next[l]] = l
      /\ h.next[h.prev[l]] = l
  BY DEF WellFormed, RingsLinked
<1>2. GetHead(h, l) = h.next[l] /\ GetTail(h, l) = h.prev[l]
  BY DEF IsEmpty, GetHead, GetTail
<1> QED
  BY <1>1, <1>2 DEF HeadTaken, TailTaken, Unlinked

-----------------------------------------------------------------------------
(* What an operation leaves at the end of each list. *)
LEMMA TailOfAdded ==
  ASSUME NEW h \in Heaps, WellFormed(h), NEW l \in Roots,
         NEW n \in Nodes, h.owner[n] = NULL
  PROVE  LET k == AddTail(h, l, n)
         IN  /\ GetTail(k, l) = n
             /\ \A m \in Roots : m # l => GetTail(k, m) = GetTail(h, m)
<1> DEFINE k == AddTail(h, l, n)
<1> USE HeapFields, CellAssumption
<1>0. k \in Heaps /\ WellFormed(k) /\ k.owner = [h.owner EXCEPT ![n] = l]
  BY AddTailPreserves
<1>1. k \in Heaps /\ WellFormed(k) /\ k.owner[n] = l
  <2> HIDE DEF k
  <2> QED
    BY <1>0
<1>2. k.prev[l] = n
  BY DEF AddTail, Cells
<1>3. ~ IsEmpty(k, l)
  <2> HIDE DEF k
  <2> QED
    BY <1>1, EndsAreMembers DEF Members
<1>4. ASSUME NEW m \in Roots, m # l PROVE k.prev[m] = h.prev[m] /\ k.len[m] = h.len[m]
  BY <1>4 DEF AddTail, Cells
<1> QED
  BY <1>2, <1>3, <1>4 DEF GetTail, IsEmpty

LEMMA TailOfUnlinked ==
  ASSUME NEW h \in Heaps, WellFormed(h), NEW l \in Roots,
         NEW n \in Nodes, h.owner[n] = l
  PROVE  LET k == Unlinked(h, l, n)
         IN  /\ n # GetTail(h, l) => GetTail(k, l) = GetTail(h, l)
             /\ \A m \in Roots : m # l => GetTail(k, m) = GetTail(h, m)
<1> DEFINE k == Unlinked(h, l, n)
<1> USE HeapFields, CellAssumption
<1>1. k \in Heaps /\ WellFormed(k) /\ k.owner = [h.owner EXCEPT ![n] = NULL]
  BY UnlinkedPreserves
<1>2. n \in Members(h, l) /\ ~ IsEmpty(h, l)
  BY EndsAreMembers DEF Members
<1>3. /\ h.next[n] \in Members(h, l) \cup {l}
      /\ h.prev[h.next[n]] = n
      /\ h.prev[l] \in Members(h, l)
  BY <1>2, EndsAreMembers DEF WellFormed, RingsLinked
<1>4. ASSUME n # GetTail(h, l) PROVE GetTail(k, l) = GetTail(h, l)
  <2>1. GetTail(h, l) = h.prev[l] /\ h.next[n] # l
    BY <1>2, <1>3, <1>4 DEF GetTail, IsEmpty
  <2>2. k.prev[l] = h.prev[l]
    BY <2>1 DEF Unlinked, Cells
  <2>3. h.prev[l] \in Members(k, l)
    BY <1>1, <1>3, <1>4, <2>1 DEF Members
  <2>4. ~ IsEmpty(k, l)
    <3> HIDE DEF k
    <3> QED
      BY <1>1, <2>3, EndsAreMembers
  <2> QED
    BY <2>1, <2>2, <2>4 DEF GetTail, IsEmpty
<1>5. ASSUME NEW m \in Roots, m # l PROVE GetTail(k, m) = GetTail(h, m)
  <2>1. m # h.next[n] /\ m # n
    BY <1>3, <1>5 DEF Members
  <2> QED
    BY <1>5, <2>1 DEF GetTail, Unlinked, Cells
<1> QED
  BY <1>4, <1>5

(* A move from one list to the tail of another, the way every operation of *)
(* the page manager moves a page.                                          *)
LEMMA MovePreserves ==
  ASSUME NEW h \in Heaps, WellFormed(h), NEW from \in Roots, NEW to \in Roots,
         from # to, NEW n \in Nodes, h.owner[n] = from
  PROVE  LET k == AddTail(DeleteItem(h, from, n), to, n)
         IN  /\ k \in Heaps
             /\ WellFormed(k)
             /\ k.owner = [h.owner EXCEPT ![n] = to]
             /\ GetTail(k, to) = n
             /\ n # GetTail(h, from) => GetTail(k, from) = GetTail(h, from)
             /\ \A m \in Roots : m \notin {from, to} => GetTail(k, m) = GetTail(h, m)
<1> DEFINE d == Unlinked(h, from, n)
<1>1. DeleteItem(h, from, n) = d
  BY DEF DeleteItem
<1>2. /\ d \in Heaps /\ WellFormed(d)
      /\ d.owner = [h.owner EXCEPT ![n] = NULL]
      /\ n # GetTail(h, from) => GetTail(d, from) = GetTail(h, from)
      /\ \A m \in Roots : m # from => GetTail(d, m) = GetTail(h, m)
  BY UnlinkedPreserves, TailOfUnlinked
<1> HIDE DEF d
<1>3. d.owner[n] = NULL /\ h.owner \in [Nodes -> Roots \cup {NULL}]
  BY <1>2, HeapFields
<1> DEFINE k == AddTail(d, to, n)
<1>4. /\ k \in Heaps /\ WellFormed(k)
      /\ k.owner = [d.owner EXCEPT ![n] = to]
      /\ GetTail(k, to) = n
      /\ \A m \in Roots : m # to => GetTail(k, m) = GetTail(d, m)
  BY <1>2, <1>3, AddTailPreserves, TailOfAdded
<1> HIDE DEF k
<1>5. k.owner = [h.owner EXCEPT ![n] = to]
  BY <1>2, <1>3, <1>4
<1>6. /\ n # GetTail(h, from) => GetTail(k, from) = GetTail(h, from)
      /\ \A m \in Roots : m \notin {from, to} => GetTail(k, m) = GetTail(h, m)
  BY <1>2, <1>4
<1> QED
  BY <1>1, <1>4, <1>5, <1>6 DEF k

-----------------------------------------------------------------------------
(* The order of a ring.  What a list contains is not computed along the    *)
(* ring but chosen among the sequences in ring order: there is at most one,*)
(* and every list function makes one out of the one there was.             *)
Ordered(h) == \A l \in Roots : RingOrders(h, l) # {}

(* A ring order is a sequence of all the members. *)
LEMMA RingOrderIsSeq ==
  ASSUME NEW h, NEW l, NEW s \in RingOrders(h, l)
  PROVE  /\ s \in Seq(Members(h, l))
         /\ Len(s) \in Nat /\ Len(s) = Cardinality(Members(h, l))
         /\ DOMAIN s = 1 .. Len(s)
         /\ \A i \in 1 .. Len(s) : s[i] \in Members(h, l)
         /\ InRingOrder(h, l, s)
<1> DEFINE n == Cardinality(Members(h, l))
<1>1. n \in Nat
  BY MembersBound
<1>2. s \in [1 .. n -> Members(h, l)] /\ InRingOrder(h, l, s)
  BY DEF RingOrders
<1> HIDE DEF n
<1>3. s \in Seq(Members(h, l))
  BY <1>1, <1>2, SeqDef
<1>4. Len(s) \in Nat /\ DOMAIN s = 1 .. Len(s) /\ DOMAIN s = 1 .. n
  BY <1>2, <1>3, LenProperties
<1>5. ASSUME NEW k \in Nat, 1 .. k = 1 .. n PROVE k = n
  <2>1. \A j \in Nat : j \in 1 .. k <=> j \in 1 .. n
    BY <1>5
  <2>2. k <= n /\ n <= k
    BY <1>1, <1>5, <2>1
  <2> QED
    BY <1>1, <2>2
<1>6. Len(s) = n
  BY <1>4, <1>5
<1> QED
  BY <1>2, <1>3, <1>4, <1>6 DEF n

LEMMA SeqIsRingOrder ==
  ASSUME NEW h, NEW l, NEW s \in Seq(Members(h, l)),
         Len(s) = Cardinality(Members(h, l)), InRingOrder(h, l, s)
  PROVE  s \in RingOrders(h, l)
BY LenProperties DEF RingOrders

(* Positions next to each other in a ring order are next to each other in  *)
(* the ring.                                                               *)
LEMMA RingOrderSteps ==
  ASSUME NEW h, NEW l, NEW s \in RingOrders(h, l)
  PROVE  /\ s = <<>> => h.next[l] = l
         /\ s # <<>> => h.next[l] = s[1] /\ h.next[s[Len(s)]] = l
         /\ \A i \in 1 .. Len(s) - 1 : h.next[s[i]] = s[i + 1]
         /\ \A i, j \in 1 .. Len(s) : s[i] = s[j] => i = j
<1>1. /\ Len(s) \in Nat /\ DOMAIN s = 1 .. Len(s)
      /\ InRingOrder(h, l, s) /\ s \in Seq(Members(h, l))
  BY RingOrderIsSeq
<1>2. \A i \in 0 .. Len(s) : h.next[IF i \in 1 .. Len(s) THEN s[i] ELSE l]
                             = IF i + 1 \in 1 .. Len(s) THEN s[i + 1] ELSE l
  BY <1>1 DEF InRingOrder, At
<1>3. s # <<>> <=> Len(s) > 0
  BY <1>1, EmptySeq
<1>4. h.next[l] = IF Len(s) > 0 THEN s[1] ELSE l
  BY <1>1, <1>2
<1>5. Len(s) > 0 => h.next[s[Len(s)]] = l
  BY <1>1, <1>2
<1>6. \A i \in 1 .. Len(s) - 1 : h.next[s[i]] = s[i + 1]
  BY <1>1, <1>2
<1> QED
  BY <1>1, <1>3, <1>4, <1>5, <1>6 DEF InRingOrder

(* ... and conversely. *)
LEMMA StepsAreRingOrder ==
  ASSUME NEW h, NEW l, NEW s \in Seq(Members(h, l)),
         Len(s) = Cardinality(Members(h, l)),
         s = <<>> => h.next[l] = l,
         s # <<>> => h.next[l] = s[1] /\ h.next[s[Len(s)]] = l,
         \A i \in 1 .. Len(s) - 1 : h.next[s[i]] = s[i + 1],
         \A i, j \in 1 .. Len(s) : s[i] = s[j] => i = j
  PROVE  s \in RingOrders(h, l)
<1>1. Len(s) \in Nat /\ DOMAIN s = 1 .. Len(s)
  BY LenProperties
<1>2. s # <<>> <=> Len(s) > 0
  BY <1>1, EmptySeq
<1>3. ASSUME NEW i \in 0 .. Len(s) PROVE h.next[At(s, l, i)] = At(s, l, i + 1)
  <2>1. CASE i = 0 /\ Len(s) = 0
    BY <1>1, <1>2, <2>1 DEF At
  <2>2. CASE i = 0 /\ Len(s) > 0
    BY <1>1, <1>2, <2>2 DEF At
  <2>3. CASE i > 0 /\ i = Len(s)
    BY <1>1, <1>2, <2>3 DEF At
  <2>4. CASE i > 0 /\ i < Len(s)
    <3>1. i \in 1 .. Len(s) - 1 /\ i \in 1 .. Len(s) /\ i + 1 \in 1 .. Len(s)
      BY <1>1, <2>4
    <3> QED
      BY <1>1, <3>1 DEF At
  <2> QED
    BY <1>1, <2>1, <2>2, <2>3, <2>4
<1>4. InRingOrder(h, l, s)
  BY <1>1, <1>3 DEF InRingOrder
<1> QED
  BY <1>4, SeqIsRingOrder

(* Every member has its place: the places form a closed walk. *)
LEMMA RingOrderCovers ==
  ASSUME NEW h \in Heaps, WellFormed(h), NEW l \in Roots,
         NEW s \in RingOrders(h, l), NEW n \in Members(h, l)
  PROVE  \E i \in 1 .. Len(s) : s[i] = n
<1> DEFINE Q == {s[i] : i \in 1 .. Len(s)} \cup {l}
<1>1. /\ Len(s) \in Nat
      /\ \A i \in 1 .. Len(s) : s[i] \in Members(h, l)
      /\ s # <<>> => Len(s) > 0
  BY RingOrderIsSeq, EmptySeq
<1>2. /\ s = <<>> => h.next[l] = l
      /\ s # <<>> => h.next[l] = s[1] /\ h.next[s[Len(s)]] = l
      /\ \A i \in 1 .. Len(s) - 1 : h.next[s[i]] = s[i + 1]
  BY RingOrderSteps
<1>3. h.next[l] \in Q
  BY <1>1, <1>2
<1>4. ASSUME NEW c \in Q \cap Cells, c # l PROVE h.next[c] \in Q
  <2>1. PICK i \in 1 .. Len(s) : s[i] = c
    BY <1>4
  <2>2. CASE i = Len(s)
    <3>1. s # <<>>
      BY <1>1, <2>1, EmptySeq
    <3> QED
      BY <1>2, <2>1, <2>2, <3>1
  <2>3. CASE i # Len(s)
    <3>1. i \in 1 .. Len(s) - 1 /\ i + 1 \in 1 .. Len(s)
      BY <1>1, <2>3
    <3> QED
      BY <1>2, <2>1, <3>1
  <2> QED
    BY <2>2, <2>3
<1>5. Q \in SUBSET (Cells \cup {NULL}) /\ ClosedWalk(h, l, Q)
  BY <1>1, <1>3, <1>4 DEF ClosedWalk, Members, Cells
<1> HIDE DEF Q
<1>6. n \in Q
  BY <1>5, WalkedInClosed DEF WellFormed, RingsConnected
<1>7. n # l
  BY CellAssumption DEF Members
<1> QED
  BY <1>6, <1>7 DEF Q

(* Two ring orders agree: so do their first items, and with every item on  *)
(* which they agree the next one.                                          *)
LEMMA RingOrdersAgree ==
  ASSUME NEW h \in Heaps, WellFormed(h), NEW l \in Roots,
         NEW s \in RingOrders(h, l), NEW t \in RingOrders(h, l)
  PROVE  s = t
<1> DEFINE Q == {s[i] : i \in {j \in 1 .. Len(s) : s[j] = t[j]}} \cup {l}
<1>1. /\ s \in Seq(Members(h, l)) /\ t \in Seq(Members(h, l))
      /\ Len(s) \in Nat /\ Len(t) = Len(s)
      /\ \A i \in 1 .. Len(s) : s[i] \in Members(h, l)
  BY RingOrderIsSeq
<1>2. (s # <<>> <=> Len(s) > 0) /\ (t # <<>> <=> Len(s) > 0)
  BY <1>1, EmptySeq
<1>3. /\ s = <<>> => h.next[l] = l
      /\ s # <<>> => h.next[l] = s[1] /\ h.next[s[Len(s)]] = l
      /\ \A i \in 1 .. Len(s) - 1 : h.next[s[i]] = s[i + 1]
      /\ \A i, j \in 1 .. Len(s) : s[i] = s[j] => i = j
  BY RingOrderSteps
<1>4. /\ t # <<>> => h.next[l] = t[1]
      /\ \A i \in 1 .. Len(s) - 1 : h.next[t[i]] = t[i + 1]
  BY <1>1, RingOrderSteps
<1>5. h.next[l] \in Q
  <2>1. CASE Len(s) = 0
    BY <1>2, <1>3, <2>1
  <2>2. CASE Len(s) > 0
    <3>1. 1 \in 1 .. Len(s) /\ s[1] = t[1] /\ h.next[l] = s[1]
      BY <1>1, <1>2, <1>3, <1>4, <2>2
    <3> QED
      BY <3>1
  <2> QED
    BY <1>1, <2>1, <2>2
<1>6. ASSUME NEW c \in Q \cap Cells, c # l PROVE h.next[c] \in Q
  <2>1. PICK i \in 1 .. Len(s) : s[i] = c /\ t[i] = c
    BY <1>6
  <2>2. CASE i = Len(s)
    BY <1>1, <1>2, <1>3, <2>1, <2>2
  <2>3. CASE i # Len(s)
    <3>1. i \in 1 .. Len(s) - 1 /\ i + 1 \in 1 .. Len(s)
      BY <1>1, <2>3
    <3>2. s[i + 1] = t[i + 1] /\ h.next[c] = s[i + 1]
      BY <1>3, <1>4, <2>1, <3>1
    <3> QED
      BY <3>1, <3>2
  <2> QED
    BY <2>2, <2>3
<1>7. Q \in SUBSET (Cells \cup {NULL}) /\ ClosedWalk(h, l, Q)
  BY <1>1, <1>5, <1>6 DEF ClosedWalk, Members, Cells
<1>8. l \notin Members(h, l)
  BY CellAssumption DEF Members
<1>9. ASSUME NEW i \in 1 .. Len(s) PROVE s[i] = t[i]
  <2> HIDE DEF Q
  <2>1. s[i] \in Q /\ s[i] # l
    BY <1>1, <1>7, <1>8, WalkedInClosed DEF WellFormed, RingsConnected
  <2> USE DEF Q
  <2>2. PICK j \in 1 .. Len(s) : s[j] = t[j] /\ s[j] = s[i]
    BY <2>1
  <2> QED
    BY <1>3, <2>2
<1> QED
  BY <1>1, <1>9, SeqEqual

(* The chosen order is the one there is. *)
LEMMA ContentsOf ==
  ASSUME NEW h \in Heaps, WellFormed(h), NEW l \in Roots,
         NEW s \in RingOrders(h, l)
  PROVE  Contents(h, l) = s
<1>1. Contents(h, l) \in RingOrders(h, l)
  BY DEF Contents
<1> QED
  BY <1>1, RingOrdersAgree

(* A list whose links are left alone keeps its order. *)
LEMMA SameRing ==
  ASSUME NEW h, NEW k, NEW l, Members(k, l) = Members(h, l),
         \A c \in Members(h, l) \cup {l} : k.next[c] = h.next[c]
  PROVE  RingOrders(h, l) \subseteq RingOrders(k, l)
<1> SUFFICES ASSUME NEW s \in RingOrders(h, l) PROVE s \in RingOrders(k, l)
  OBVIOUS
<1>1. /\ DOMAIN s = 1 .. Len(s) /\ \A i \in 1 .. Len(s) : s[i] \in Members(h, l)
      /\ InRingOrder(h, l, s)
  BY RingOrderIsSeq
<1>2. \A i \in 0 .. Len(s) : At(s, l, i) \in Members(h, l) \cup {l}
  BY <1>1 DEF At
<1>3. InRingOrder(k, l, s)
  BY <1>1, <1>2 DEF InRingOrder
<1> QED
  BY <1>3 DEF RingOrders

(* The first and the last item of a ring order are the ends of the list.   *)
LEMMA EndsOfRingOrder ==
  ASSUME NEW h \in Heaps, WellFormed(h), NEW l \in Roots, NEW s \in RingOrders(h, l)
  PROVE  /\ IsEmpty(h, l) <=> s = <<>>
         /\ h.next[l] = IF s = <<>> THEN l ELSE s[1]
         /\ h.prev[l] = IF s = <<>> THEN l ELSE s[Len(s)]
<1>1. /\ Len(s) \in Nat /\ Len(s) = Cardinality(Members(h, l))
      /\ \A i \in 1 .. Len(s) : s[i] \in Members(h, l)
      /\ s # <<>> <=> Len(s) > 0
  BY RingOrderIsSeq, EmptySeq
<1>2. /\ s = <<>> => h.next[l] = l
      /\ s # <<>> => h.next[l] = s[1] /\ h.next[s[Len(s)]] = l
  BY RingOrderSteps
<1>3. \A c \in Members(h, l) \cup {l} : h.prev[h.next[c]] = c
  BY DEF WellFormed, RingsLinked
<1>4. h.prev[l] = IF s = <<>> THEN l ELSE s[Len(s)]
  BY <1>1, <1>2, <1>3
<1>5. IsEmpty(h, l) <=> s = <<>>
  BY <1>1 DEF IsEmpty, WellFormed, LengthsExact
<1> QED
  BY <1>2, <1>4, <1>5

(* node_list_add_tail appends. *)
LEMMA AddTailOrders ==
  ASSUME NEW h \in Heaps, WellFormed(h), NEW l \in Roots,
         NEW n \in Nodes, h.owner[n] = NULL, NEW s \in RingOrders(h, l)
  PROVE  LET k == AddTail(h, l, n)
         IN  /\ Append(s, n) \in RingOrders(k, l)
             /\ \A m \in Roots : m # l => RingOrders(h, m) \subseteq RingOrders(k, m)
<1> DEFINE k == AddTail(h, l, n)
           t == h.prev[l]
           r == Append(s, n)
<1> USE HeapFields, CellAssumption
<1>1. k \in Heaps /\ WellFormed(k) /\ k.owner = [h.owner EXCEPT ![n] = l]
  BY AddTailPreserves
<1>2. /\ Members(k, l) = Members(h, l) \cup {n}
      /\ n \notin Members(h, l)
      /\ \A m \in Roots : m # l => Members(k, m) = Members(h, m) /\ n \notin Members(h, m)
  <2> HIDE DEF k
  <2> QED
    BY <1>1 DEF Members
<1>3. t \in Members(h, l) \cup {l} /\ t # n /\ t \in Cells
  BY <1>2 DEF WellFormed, RingsLinked, Members, Cells
<1>4. /\ k.next[t] = n /\ k.next[n] = l
      /\ \A c \in Cells : c \notin {t, n} => k.next[c] = h.next[c]
  BY <1>3 DEF AddTail, Cells
<1> HIDE DEF k
<1>5. /\ s \in Seq(Members(h, l)) /\ Len(s) \in Nat
      /\ Len(s) = Cardinality(Members(h, l))
      /\ \A i \in 1 .. Len(s) : s[i] \in Members(h, l)
      /\ s # <<>> <=> Len(s) > 0
  BY RingOrderIsSeq, EmptySeq
<1>6. /\ s # <<>> => h.next[l] = s[1]
      /\ \A i \in 1 .. Len(s) - 1 : h.next[s[i]] = s[i + 1]
      /\ \A i, j \in 1 .. Len(s) : s[i] = s[j] => i = j
  BY RingOrderSteps
<1>7. t = IF s = <<>> THEN l ELSE s[Len(s)]
  BY EndsOfRingOrder
<1>8. /\ r \in Seq(Members(k, l)) /\ Len(r) = Len(s) + 1
      /\ \A i \in 1 .. Len(s) : r[i] = s[i]
      /\ r[Len(s) + 1] = n
      /\ r # <<>>
  <2>1. s \in Seq(Members(k, l)) /\ n \in Members(k, l)
    BY <1>2, <1>5, SeqMonotonic
  <2> QED
    BY <1>5, <2>1, AppendProperties, EmptySeq
<1>9. Len(r) = Cardinality(Members(k, l))
  <2>1. Cardinality(Members(k, l)) = Cardinality(Members(h, l)) + 1
    BY ONLY <1>2, MembersBound, FS_AddElement
  <2> QED
    BY ONLY <2>1, <1>5, <1>8
<1> HIDE DEF r, t
<1>10. \A i \in 1 .. Len(r) - 1 : k.next[r[i]] = r[i + 1]
  <2> SUFFICES ASSUME NEW i \in 1 .. Len(s) PROVE k.next[s[i]] = r[i + 1]
    BY <1>5, <1>8
  <2>1. s[i] \in Cells /\ s[i] # n /\ s # <<>>
    BY <1>2, <1>5 DEF Members, Cells
  <2>2. CASE i = Len(s)
    BY <1>4, <1>7, <1>8, <2>1, <2>2
  <2>3. CASE i # Len(s)
    <3>1. i \in 1 .. Len(s) - 1 /\ i + 1 \in 1 .. Len(s) /\ Len(s) \in 1 .. Len(s)
      BY <1>5, <2>3
    <3>2. s[i] # t
      BY <1>6, <1>7, <2>1, <2>3, <3>1
    <3> QED
      BY <1>4, <1>6, <1>8, <2>1, <3>1, <3>2
  <2> QED
    BY <2>2, <2>3
<1>11. k.next[l] = r[1] /\ k.next[r[Len(r)]] = l
  <2>1. CASE s = <<>>
    BY <1>4, <1>5, <1>7, <1>8, <2>1
  <2>2. CASE s # <<>>
    <3>1. Len(s) \in 1 .. Len(s) /\ 1 \in 1 .. Len(s)
      BY <1>5, <2>2
    <3>2. l # t /\ l # n /\ l \in Cells
      BY <1>5, <1>7, <2>2, <3>1 DEF Members, Cells
    <3> QED
      BY <1>4, <1>5, <1>6, <1>8, <2>2, <3>1, <3>2
  <2> QED
    BY <2>1, <2>2
<1>12. \A i, j \in 1 .. Len(r) : r[i] = r[j] => i = j
  BY <1>2, <1>5, <1>6, <1>8
<1>13. r \in RingOrders(k, l)
  BY <1>8, <1>9, <1>10, <1>11, <1>12, StepsAreRingOrder
<1>14. ASSUME NEW m \in Roots, m # l PROVE RingOrders(h, m) \subseteq RingOrders(k, m)
  <2>1. \A c \in Members(h, m) \cup {m} : c \in Cells /\ c \notin {t, n}
    BY <1>2, <1>3, <1>14 DEF Members, Cells
  <2> QED
    BY <1>2, <1>4, <1>14, <2>1, SameRing
<1> QED
  BY <1>13, <1>14 DEF k, r

(* node_list_add_head puts the item in front. *)
LEMMA AddHeadOrders ==
  ASSUME NEW h \in Heaps, WellFormed(h), NEW l \in Roots,
         NEW n \in Nodes, h.owner[n] = NULL, NEW s \in RingOrders(h, l)
  PROVE  LET k == AddHead(h, l, n)
         IN  /\ <<n>> \o s \in RingOrders(k, l)
             /\ \A m \in Roots : m # l => RingOrders(h, m) \subseteq RingOrders(k, m)
<1> DEFINE k == AddHead(h, l, n)
           r == <<n>> \o s
<1> USE HeapFields, CellAssumption
<1>1. k \in Heaps /\ WellFormed(k) /\ k.owner = [h.owner EXCEPT ![n] = l]
  BY AddHeadPreserves
<1>2. /\ Members(k, l) = Members(h, l) \cup {n}
      /\ n \notin Members(h, l)
      /\ \A m \in Roots : m # l => Members(k, m) = Members(h, m) /\ n \notin Members(h, m)
  <2> HIDE DEF k
  <2> QED
    BY <1>1 DEF Members
<1>3. /\ k.next[l] = n /\ k.next[n] = h.next[l]
      /\ \A c \in Cells : c \notin {l, n} => k.next[c] = h.next[c]
  BY DEF AddHead, Cells
<1> HIDE DEF k
<1>4. /\ s \in Seq(Members(h, l)) /\ Len(s) \in Nat
      /\ Len(s) = Cardinality(Members(h, l))
      /\ \A i \in 1 .. Len(s) : s[i] \in Members(h, l)
      /\ s # <<>> <=> Len(s) > 0
  BY RingOrderIsSeq, EmptySeq
<1>5. /\ h.next[l] = IF s = <<>> THEN l ELSE s[1]
      /\ s # <<>> => h.next[s[Len(s)]] = l
      /\ \A i \in 1 .. Len(s) - 1 : h.next[s[i]] = s[i + 1]
      /\ \A i, j \in 1 .. Len(s) : s[i] = s[j] => i = j
  BY RingOrderSteps
<1>6. /\ r \in Seq(Members(k, l)) /\ Len(r) = Len(s) + 1
      /\ \A i \in 1 .. Len(s) : r[i + 1] = s[i]
      /\ r[1] = n
      /\ r # <<>>
  <2>1. s \in Seq(Members(k, l)) /\ <<n>> \in Seq(Members(k, l)) /\ Len(<<n>>) = 1
    BY <1>2, <1>4, SeqMonotonic
  <2>2. /\ r \in Seq(Members(k, l)) /\ Len(r) = 1 + Len(s)
        /\ \A i \in 1 .. 1 + Len(s) : r[i] = IF i <= 1 THEN <<n>>[i] ELSE s[i - 1]
    BY <2>1, ConcatProperties
  <2> HIDE DEF r
  <2>3. r[1] = n
    BY <1>4, <2>2
  <2>4. ASSUME NEW i \in 1 .. Len(s) PROVE r[i + 1] = s[i]
    <3>1. i + 1 \in 1 .. 1 + Len(s) /\ ~ (i + 1 <= 1) /\ (i + 1) - 1 = i
      BY <1>4
    <3> QED
      BY <2>2, <3>1
  <2> QED
    BY <1>4, <2>2, <2>3, <2>4, EmptySeq
<1>7. Len(r) = Cardinality(Members(k, l))
  <2>1. Cardinality(Members(k, l)) = Cardinality(Members(h, l)) + 1
    BY ONLY <1>2, MembersBound, FS_AddElement
  <2> QED
    BY ONLY <2>1, <1>4, <1>6
<1> HIDE DEF r
<1>8. \A i \in 1 .. Len(s) : s[i] \in Cells /\ s[i] \notin {l, n}
  BY <1>2, <1>4 DEF Members, Cells
<1>9. \A i \in 1 .. Len(r) - 1 : k.next[r[i]] = r[i + 1]
  <2> SUFFICES ASSUME NEW i \in 1 .. Len(s) PROVE k.next[r[i]] = s[i]
    BY <1>4, <1>6
  <2>1. CASE i = 1
    BY <1>3, <1>4, <1>5, <1>6, <2>1
  <2>2. CASE i # 1
    <3> DEFINE j == i - 1
    <3>1. j \in 1 .. Len(s) - 1 /\ j \in 1 .. Len(s) /\ j + 1 = i
      BY <1>4, <2>2
    <3> HIDE DEF j
    <3>2. r[i] = s[j] /\ h.next[s[j]] = s[i]
      BY <1>5, <1>6, <3>1
    <3> QED
      BY <1>3, <1>8, <3>1, <3>2
  <2> QED
    BY <2>1, <2>2
<1>10. k.next[l] = r[1] /\ k.next[r[Len(r)]] = l
  <2>1. CASE s = <<>>
    BY <1>3, <1>4, <1>5, <1>6, <2>1
  <2>2. CASE s # <<>>
    <3>1. Len(s) \in 1 .. Len(s)
      BY <1>4, <2>2
    <3> QED
      BY <1>3, <1>5, <1>6, <1>8, <2>2, <3>1
  <2> QED
    BY <2>1, <2>2
<1>11. \A i, j \in 1 .. Len(r) : r[i] = r[j] => i = j
  <2>1. ASSUME NEW i \in 1 .. Len(r), i # 1
        PROVE  \E a \in 1 .. Len(s) : i = a + 1 /\ r[i] = s[a]
    <3>1. i - 1 \in 1 .. Len(s) /\ i = (i - 1) + 1
      BY <1>4, <1>6, <2>1
    <3> QED
      BY <1>6, <3>1
  <2> SUFFICES ASSUME NEW i \in 1 .. Len(r), NEW j \in 1 .. Len(r), r[i] = r[j] PROVE i = j
    OBVIOUS
  <2>2. CASE i = 1 \/ j = 1
    BY <1>6, <1>8, <2>1, <2>2
  <2>3. CASE i # 1 /\ j # 1
    <3>1. PICK a \in 1 .. Len(s) : i = a + 1 /\ r[i] = s[a]
      BY <2>1, <2>3
    <3>2. PICK b \in 1 .. Len(s) : j = b + 1 /\ r[j] = s[b]
      BY <2>1, <2>3
    <3> QED
      BY <1>5, <3>1, <3>2
  <2> QED
    BY <2>2, <2>3
<1>12. r \in RingOrders(k, l)
  BY <1>6, <1>7, <1>9, <1>10, <1>11, StepsAreRingOrder
<1>13. ASSUME NEW m \in Roots, m # l PROVE RingOrders(h, m) \subseteq RingOrders(k, m)
  <2>1. \A c \in Members(h, m) \cup {m} : c \in Cells /\ c \notin {l, n}
    BY <1>2, <1>13 DEF Members, Cells
  <2> QED
    BY <1>2, <1>3, <1>13, <2>1, SameRing
<1> QED
  BY <1>12, <1>13 DEF k, r

(* What RemoveAt leaves of a sequence without repetitions. *)
LEMMA RemoveAtElements ==
  ASSUME NEW S, NEW s \in Seq(S), NEW i \in 1 .. Len(s),
         \A a, b \in 1 .. Len(s) : s[a] = s[b] => a = b
  PROVE  LET r == RemoveAt(s, i)
         IN  /\ r \in Seq(S \ {s[i]}) /\ Len(r) = Len(s) - 1
             /\ \A j \in 1 .. Len(r) : r[j] = IF j < i THEN s[j] ELSE s[j + 1]
<1> DEFINE a == SubSeq(s, 1, i - 1)
           b == SubSeq(s, i + 1, Len(s))
           r == RemoveAt(s, i)
<1>1. Len(s) \in Nat /\ i \in Nat /\ i >= 1 /\ i <= Len(s)
      /\ \A j \in 1 .. Len(s) : s[j] \in S
  BY LenProperties, ElementOfSeq
<1>2. /\ a \in Seq(S) /\ Len(a) = i - 1
      /\ \A j \in 1 .. i - 1 : a[j] = s[j]
  <2>1. /\ a \in Seq(S) /\ Len(a) = IF 1 <= i - 1 THEN (i - 1) - 1 + 1 ELSE 0
        /\ \A j \in 1 .. (i - 1) - 1 + 1 : a[j] = s[1 + j - 1]
    BY <1>1, SubSeqProperties
  <2> HIDE DEF a
  <2>2. Len(a) = i - 1
    BY <1>1, <2>1
  <2>3. ASSUME NEW j \in 1 .. i - 1 PROVE a[j] = s[j]
    <3>1. j \in 1 .. (i - 1) - 1 + 1 /\ 1 + j - 1 = j
      BY <1>1
    <3> QED
      BY <2>1, <3>1
  <2> QED
    BY <2>1, <2>2, <2>3
<1>3. /\ b \in Seq(S) /\ Len(b) = Len(s) - i
      /\ \A j \in 1 .. Len(s) - i : b[j] = s[i + j]
  <2>1. /\ b \in Seq(S) /\ Len(b) = IF i + 1 <= Len(s) THEN Len(s) - (i + 1) + 1 ELSE 0
        /\ \A j \in 1 .. Len(s) - (i + 1) + 1 : b[j] = s[(i + 1) + j - 1]
    BY <1>1, SubSeqProperties
  <2> HIDE DEF b
  <2>2. Len(b) = Len(s) - i
    BY <1>1, <2>1
  <2>3. ASSUME NEW j \in 1 .. Len(s) - i PROVE b[j] = s[i + j]
    <3>1. j \in 1 .. Len(s) - (i + 1) + 1 /\ (i + 1) + j - 1 = i + j
      BY <1>1
    <3> QED
      BY <2>1, <3>1
  <2> QED
    BY <2>1, <2>2, <2>3
<1>4. r = a \o b
  BY DEF RemoveAt
<1> HIDE DEF a, b, r
<1>5. /\ r \in Seq(S) /\ Len(r) = Len(a) + Len(b)
      /\ \A j \in 1 .. Len(a) + Len(b) : r[j] = IF j <= Len(a) THEN a[j] ELSE b[j - Len(a)]
  <2>1. a \in Seq(S) /\ b \in Seq(S)
    BY <1>2, <1>3
  <2>2. /\ a \o b \in Seq(S) /\ Len(a \o b) = Len(a) + Len(b)
        /\ \A j \in 1 .. Len(a) + Len(b) :
             (a \o b)[j] = IF j <= Len(a) THEN a[j] ELSE b[j - Len(a)]
    BY <2>1, ConcatProperties
  <2> QED
    BY <1>4, <2>2
<1>6. Len(r) = Len(s) - 1
  BY <1>1, <1>2, <1>3, <1>5
<1>7. ASSUME NEW j \in 1 .. Len(r) PROVE r[j] = IF j < i THEN s[j] ELSE s[j + 1]
  <2>1. CASE j < i
    <3>1. j \in 1 .. i - 1 /\ j <= Len(a) /\ j \in 1 .. Len(a) + Len(b)
      BY <1>1, <1>2, <1>3, <1>6, <2>1
    <3> QED
      BY <1>2, <1>5, <2>1, <3>1
  <2>2. CASE ~ (j < i)
    <3>1. /\ j - Len(a) \in 1 .. Len(s) - i /\ ~ (j <= Len(a)) /\ j \in 1 .. Len(a) + Len(b)
          /\ i + (j - Len(a)) = j + 1
      BY <1>1, <1>2, <1>3, <1>6, <2>2
    <3> QED
      BY <1>3, <1>5, <2>2, <3>1
  <2> QED
    BY <2>1, <2>2
<1>8. ASSUME NEW j \in 1 .. Len(r) PROVE r[j] \in S \ {s[i]}
  <2>1. j \in 1 .. Len(s) /\ j + 1 \in 1 .. Len(s)
    BY <1>1, <1>6
  <2> QED
    BY <1>1, <1>7, <2>1
<1>9. r \in Seq(S \ {s[i]})
  <2>1. Len(r) \in Nat /\ r \in [1 .. Len(r) -> S]
    BY <1>5, LenProperties
  <2>2. r \in [1 .. Len(r) -> S \ {s[i]}]
    BY <1>8, <2>1
  <2> QED
    BY <2>1, <2>2, SeqDef
<1> QED
  BY <1>6, <1>7, <1>9 DEF r

(* node_list_delete_item takes the item out of its place. *)
LEMMA UnlinkedOrders ==
  ASSUME NEW h \in Heaps, WellFormed(h), NEW l \in Roots,
         NEW n \in Nodes, h.owner[n] = l,
         NEW s \in RingOrders(h, l), NEW i \in 1 .. Len(s), s[i] = n
  PROVE  LET k == Unlinked(h, l, n)
         IN  /\ RemoveAt(s, i) \in RingOrders(k, l)
             /\ \A m \in Roots : m # l => RingOrders(h, m) \subseteq RingOrders(k, m)
<1> DEFINE k == Unlinked(h, l, n)
           r == RemoveAt(s, i)
           p == h.prev[n]
           q == h.next[n]
<1> USE HeapFields, CellAssumption
<1>1. k \in Heaps /\ WellFormed(k) /\ k.owner = [h.owner EXCEPT ![n] = NULL]
  BY UnlinkedPreserves
<1>2. /\ Members(k, l) = Members(h, l) \ {n}
      /\ n \in Members(h, l)
      /\ \A m \in Roots : m # l => Members(k, m) = Members(h, m) /\ n \notin Members(h, m)
  <2> HIDE DEF k
  <2> QED
    BY <1>1 DEF Members
<1>3. /\ p \in Members(h, l) \cup {l} /\ p \in Cells /\ h.next[p] = n /\ p # n
      /\ q \in Members(h, l) \cup {l} /\ q \in Cells
  BY <1>2, NeighboursDiffer DEF WellFormed, RingsLinked, Members, Cells
<1>4. k.next[p] = q /\ \A c \in Cells : c \notin {p, n} => k.next[c] = h.next[c]
  BY <1>3 DEF Unlinked, Cells
<1> HIDE DEF k
<1>5. /\ s \in Seq(Members(h, l)) /\ Len(s) \in Nat
      /\ Len(s) = Cardinality(Members(h, l))
      /\ \A j \in 1 .. Len(s) : s[j] \in Members(h, l) /\ s[j] \in Cells /\ s[j] # l
      /\ s # <<>>
  <2>1. /\ s \in Seq(Members(h, l)) /\ Len(s) \in Nat
        /\ Len(s) = Cardinality(Members(h, l))
        /\ \A j \in 1 .. Len(s) : s[j] \in Members(h, l)
    BY RingOrderIsSeq
  <2>2. Members(h, l) \subseteq Cells /\ l \notin Members(h, l)
    BY DEF Members, Cells
  <2>3. s # <<>>
    BY <2>1, EmptySeq
  <2> QED
    BY <2>1, <2>2, <2>3
<1>6. /\ h.next[l] = s[1]
      /\ h.next[s[Len(s)]] = l
      /\ \A j \in 1 .. Len(s) - 1 : h.next[s[j]] = s[j + 1]
      /\ \A a, b \in 1 .. Len(s) : s[a] = s[b] => a = b
  BY <1>5, RingOrderSteps
<1>7. \A c \in Members(h, l) \cup {l} : h.prev[h.next[c]] = c
  BY DEF WellFormed, RingsLinked
<1>8. p = IF i = 1 THEN l ELSE s[i - 1]
  <2>1. CASE i = 1
    BY <1>6, <1>7, <2>1
  <2>2. CASE i # 1
    <3>1. i - 1 \in 1 .. Len(s) - 1 /\ i - 1 \in 1 .. Len(s) /\ (i - 1) + 1 = i
      BY <1>5, <2>2
    <3>2. h.next[s[i - 1]] = n
      BY <1>6, <3>1
    <3> QED
      BY <1>5, <1>7, <2>2, <3>1, <3>2
  <2> QED
    BY <2>1, <2>2
<1>9. q = IF i = Len(s) THEN l ELSE s[i + 1]
  <2>1. i # Len(s) => i \in 1 .. Len(s) - 1
    BY <1>5
  <2> QED
    BY <1>6, <2>1
<1>10. /\ r \in Seq(Members(k, l)) /\ Len(r) = Len(s) - 1
       /\ \A j \in 1 .. Len(r) : r[j] = IF j < i THEN s[j] ELSE s[j + 1]
  <2> DEFINE M == Members(h, l)
  <2>1. s \in Seq(M) /\ Members(k, l) = M \ {s[i]}
    BY <1>2, <1>5
  <2>2. \A a, b \in 1 .. Len(s) : s[a] = s[b] => a = b
    BY <1>6
  <2> HIDE DEF M, r, p, q
  <2>3. /\ RemoveAt(s, i) \in Seq(M \ {s[i]}) /\ Len(RemoveAt(s, i)) = Len(s) - 1
        /\ \A j \in 1 .. Len(RemoveAt(s, i)) :
             RemoveAt(s, i)[j] = IF j < i THEN s[j] ELSE s[j + 1]
    BY ONLY <2>1, <2>2, RemoveAtElements, i \in 1 .. Len(s)
  <2> QED
    BY <2>1, <2>3 DEF r
<1>11. Len(r) = Cardinality(Members(k, l))
  <2> DEFINE M == Members(h, l)
  <2>1. IsFiniteSet(M) /\ n \in M /\ Members(k, l) = M \ {n}
    BY <1>2, MembersBound
  <2>2. Len(r) = Cardinality(M) - 1
    BY <1>5, <1>10
  <2> HIDE DEF M, r
  <2>3. Cardinality(M \ {n}) = Cardinality(M) - 1
    BY <2>1, FS_RemoveElement
  <2> QED
    BY <2>1, <2>2, <2>3
<1> HIDE DEF r, p, q
<1>12. ASSUME NEW j \in 1 .. Len(s), j # i, i = 1 \/ j # i - 1
       PROVE  s[j] \in Cells /\ k.next[s[j]] = h.next[s[j]]
  <2>1. s[j] # n
    BY <1>6, <1>12
  <2>2. s[j] # p
    <3>1. CASE i = 1
      BY <1>5, <1>8, <3>1
    <3>2. CASE i # 1
      <4>1. i - 1 \in 1 .. Len(s)
        BY <1>5, <3>2
      <4> QED
        BY <1>6, <1>8, <1>12, <3>2, <4>1
    <3> QED
      BY <3>1, <3>2
  <2> QED
    BY <1>4, <1>5, <2>1, <2>2
<1>13. ASSUME NEW j \in 1 .. Len(r) - 1 PROVE k.next[r[j]] = r[j + 1]
  <2>1. j \in 1 .. Len(r) /\ j + 1 \in 1 .. Len(r) /\ j \in Nat /\ i \in Nat
    BY <1>5, <1>10
  <2>2. CASE j + 1 < i
    <3>1. j \in 1 .. Len(s) - 1 /\ j \in 1 .. Len(s) /\ j # i /\ j # i - 1 /\ j < i
      BY <1>5, <2>1, <2>2
    <3> QED
      BY <1>6, <1>10, <1>12, <2>1, <2>2, <3>1
  <2>3. CASE j + 1 = i
    <3>1. j < i /\ ~ (j + 1 < i) /\ i # Len(s) /\ i # 1 /\ j = i - 1
      <4>1. j \in Int /\ j >= 1 /\ j <= (Len(s) - 1) - 1
        BY <1>5, <1>10
      <4> QED
        BY <1>5, <2>3, <4>1
    <3>2. r[j] = p
      BY <1>8, <1>10, <2>1, <3>1
    <3>3. r[j + 1] = q
      BY <1>9, <1>10, <2>1, <2>3, <3>1
    <3> QED
      BY <1>4, <3>2, <3>3
  <2>4. CASE j + 1 > i
    <3>1. /\ ~ (j < i) /\ ~ (j + 1 < i)
          /\ j + 1 \in 1 .. Len(s) - 1 /\ j + 1 \in 1 .. Len(s) /\ j + 1 # i /\ j + 1 # i - 1
      BY <1>5, <1>10, <2>1, <2>4
    <3>2. r[j] = s[j + 1] /\ r[j + 1] = s[(j + 1) + 1]
      BY <1>10, <2>1, <3>1
    <3>3. k.next[s[j + 1]] = h.next[s[j + 1]] /\ h.next[s[j + 1]] = s[(j + 1) + 1]
      BY <1>6, <1>12, <3>1
    <3> QED
      BY <3>2, <3>3
  <2> QED
    BY <2>1, <2>2, <2>3, <2>4
<1>14. r # <<>> <=> Len(r) > 0
  BY <1>5, <1>10, EmptySeq
<1>15. ASSUME r = <<>> PROVE k.next[l] = l
  <2>1. i = 1 /\ Len(s) = 1
    BY <1>5, <1>10, <1>14, <1>15
  <2> QED
    BY <1>4, <1>8, <1>9, <2>1
<1>16. ASSUME r # <<>> PROVE k.next[l] = r[1] /\ k.next[r[Len(r)]] = l
  <2>1. Len(r) \in 1 .. Len(r) /\ 1 \in 1 .. Len(r) /\ i \in Nat
    BY <1>5, <1>10, <1>14, <1>16
  <2>2. k.next[l] = r[1]
    <3>1. CASE i = 1
      <4>1. i # Len(s) /\ ~ (1 < i)
        BY <1>10, <2>1, <3>1
      <4> QED
        BY <1>4, <1>8, <1>9, <1>10, <2>1, <3>1, <4>1
    <3>2. CASE i # 1
      <4>1. i - 1 \in 1 .. Len(s) /\ 1 < i
        BY <1>5, <3>2
      <4>2. l \in Cells /\ l # p /\ l # n
        BY <1>5, <1>8, <3>2, <4>1 DEF Cells
      <4> QED
        BY <1>4, <1>6, <1>10, <2>1, <4>1, <4>2
    <3> QED
      BY <3>1, <3>2
  <2>3. k.next[r[Len(r)]] = l
    <3>1. CASE i = Len(s)
      <4>1. Len(r) < i /\ Len(r) = i - 1 /\ i # 1
        BY <1>5, <1>10, <2>1, <3>1
      <4>2. r[Len(r)] = p
        BY <1>8, <1>10, <2>1, <4>1
      <4> QED
        BY <1>4, <1>9, <3>1, <4>2
    <3>2. CASE i # Len(s)
      <4>1. /\ ~ (Len(r) < i) /\ Len(r) + 1 = Len(s)
            /\ Len(s) \in 1 .. Len(s) /\ Len(s) # i - 1
        BY <1>5, <1>10, <2>1, <3>2
      <4>2. r[Len(r)] = s[Len(s)]
        BY <1>10, <2>1, <4>1
      <4> QED
        BY <1>6, <1>12, <3>2, <4>1, <4>2
    <3> QED
      BY <3>1, <3>2
  <2> QED
    BY <2>2, <2>3
<1>17. ASSUME NEW a \in 1 .. Len(r), NEW b \in 1 .. Len(r), r[a] = r[b] PROVE a = b
  <2>1. /\ a \in 1 .. Len(s) /\ a + 1 \in 1 .. Len(s) /\ a \in Nat
        /\ b \in 1 .. Len(s) /\ b + 1 \in 1 .. Len(s) /\ b \in Nat
    BY <1>5, <1>10
  <2>2. (IF a < i THEN a ELSE a + 1) = (IF b < i THEN b ELSE b + 1)
    BY <1>6, <1>10, <1>17, <2>1
  <2> QED
    BY <2>1, <2>2
<1>18. r \in RingOrders(k, l)
  BY <1>10, <1>11, <1>13, <1>15, <1>16, <1>17, StepsAreRingOrder
<1>19. ASSUME NEW m \in Roots, m # l PROVE RingOrders(h, m) \subseteq RingOrders(k, m)
  <2>1. \A c \in Members(h, m) \cup {m} : c \in Cells /\ c \notin {p, n}
    BY <1>2, <1>3, <1>19 DEF Members, Cells
  <2> QED
    BY <1>2, <1>4, <1>19, <2>1, SameRing
<1> QED
  BY <1>18, <1>19 DEF k, r

(* The order of every list is known from one sequence in it for each. *)
LEMMA OrderedFrom ==
  ASSUME NEW h, NEW k \in Heaps, WellFormed(k), NEW l \in Roots, NEW r \in RingOrders(k, l),
         \A m \in Roots : Contents(h, m) \in RingOrders(h, m),
         \A m \in Roots : m # l => RingOrders(h, m) \subseteq RingOrders(k, m)
  PROVE  /\ Ordered(k)
         /\ Contents(k, l) = r
         /\ \A m \in Roots : m # l => Contents(k, m) = Contents(h, m)
<1>1. \A m \in Roots : m # l => Contents(h, m) \in RingOrders(k, m)
  OBVIOUS
<1> QED
  BY <1>1, ContentsOf DEF Ordered

LEMMA EmptyHeapOrdered ==
  /\ Ordered(EmptyHeap)
  /\ \A l \in Roots : Contents(EmptyHeap, l) = <<>>
<1>1. EmptyHeap \in Heaps /\ WellFormed(EmptyHeap)
  BY EmptyHeapWellFormed
<1>2. ASSUME NEW l \in Roots PROVE <<>> \in RingOrders(EmptyHeap, l)
  <2>1. Members(EmptyHeap, l) = {}
    BY CellAssumption DEF EmptyHeap, Members
  <2>2. EmptyHeap.next[l] = l
    BY CellAssumption DEF EmptyHeap, Cells
  <2>3. <<>> \in Seq(Members(EmptyHeap, l)) /\ Len(<<>>) = 0
    BY EmptySeq
  <2>4. Cardinality(Members(EmptyHeap, l)) = 0
    BY <2>1, FS_EmptySet
  <2> DEFINE r == <<>>
  <2>5. /\ r \in Seq(Members(EmptyHeap, l)) /\ Len(r) = Cardinality(Members(EmptyHeap, l))
        /\ r = <<>> /\ Len(r) = 0
    BY <2>3, <2>4
  <2> HIDE DEF r
  <2>6. InRingOrder(EmptyHeap, l, r)
    BY <2>2, <2>5, LenProperties DEF InRingOrder, At
  <2> QED
    BY <2>5, <2>6, SeqIsRingOrder
<1> QED
  BY <1>1, <1>2, ContentsOf DEF Ordered

(* What the functions do to the contents of the lists. *)
LEMMA AddTailContents ==
  ASSUME NEW h \in Heaps, WellFormed(h), Ordered(h), NEW l \in Roots,
         NEW n \in Nodes, h.owner[n] = NULL
  PROVE  LET k == AddTail(h, l, n)
         IN  /\ Ordered(k)
             /\ Contents(k, l) = Append(Contents(h, l), n)
             /\ \A m \in Roots : m # l => Contents(k, m) = Contents(h, m)
<1> DEFINE k == AddTail(h, l, n)
           s == Contents(h, l)
<1>1. k \in Heaps /\ WellFormed(k)
  BY AddTailPreserves
<1>2. \A m \in Roots : Contents(h, m) \in RingOrders(h, m)
  BY DEF Ordered, Contents
<1>3. /\ Append(s, n) \in RingOrders(k, l)
      /\ \A m \in Roots : m # l => RingOrders(h, m) \subseteq RingOrders(k, m)
  BY <1>2, AddTailOrders
<1> DEFINE r == Append(s, n)
<1> HIDE DEF k, s, r
<1>4. r \in RingOrders(k, l) /\ l \in Roots
  BY <1>3 DEF r
<1>5. /\ Ordered(k)
      /\ Contents(k, l) = r
      /\ \A m \in Roots : m # l => Contents(k, m) = Contents(h, m)
  BY ONLY <1>1, <1>2, <1>3, <1>4, OrderedFrom
<1> QED
  BY <1>5 DEF k, s, r

LEMMA AddHeadContents ==
  ASSUME NEW h \in Heaps, WellFormed(h), Ordered(h), NEW l \in Roots,
         NEW n \in Nodes, h.owner[n] = NULL
  PROVE  LET k == AddHead(h, l, n)
         IN  /\ Ordered(k)
             /\ Contents(k, l) = <<n>> \o Contents(h, l)
             /\ \A m \in Roots : m # l => Contents(k, m) = Contents(h, m)
<1> DEFINE k == AddHead(h, l, n)
           s == Contents(h, l)
<1>1. k \in Heaps /\ WellFormed(k)
  BY AddHeadPreserves
<1>2. \A m \in Roots : Contents(h, m) \in RingOrders(h, m)
  BY DEF Ordered, Contents
<1>3. /\ <<n>> \o s \in RingOrders(k, l)
      /\ \A m \in Roots : m # l => RingOrders(h, m) \subseteq RingOrders(k, m)
  BY <1>2, AddHeadOrders
<1> DEFINE r == <<n>> \o s
<1> HIDE DEF k, s, r
<1>4. r \in RingOrders(k, l) /\ l \in Roots
  BY <1>3 DEF r
<1>5. /\ Ordered(k)
      /\ Contents(k, l) = r
      /\ \A m \in Roots : m # l => Contents(k, m) = Contents(h, m)
  BY ONLY <1>1, <1>2, <1>3, <1>4, OrderedFrom
<1> QED
  BY <1>5 DEF k, s, r

LEMMA UnlinkedContents ==
  ASSUME NEW h \in Heaps, WellFormed(h), Ordered(h), NEW l \in Roots,
         NEW n \in Nodes, h.owner[n] = l
  PROVE  LET k == Unlinked(h, l, n)
             s == Contents(h, l)
         IN  /\ Ordered(k)
             /\ \E i \in 1 .. Len(s) : s[i] = n /\ Contents(k, l) = RemoveAt(s, i)
             /\ \A m \in Roots : m # l => Contents(k, m) = Contents(h, m)
<1> DEFINE k == Unlinked(h, l, n)
           s == Contents(h, l)
<1>1. k \in Heaps /\ WellFormed(k)
  BY UnlinkedPreserves
<1>2. \A m \in Roots : Contents(h, m) \in RingOrders(h, m)
  BY DEF Ordered, Contents
<1>3. PICK i \in 1 .. Len(s) : s[i] = n
  BY <1>2, RingOrderCovers DEF Members
<1>4. /\ RemoveAt(s, i) \in RingOrders(k, l)
      /\ \A m \in Roots : m # l => RingOrders(h, m) \subseteq RingOrders(k, m)
  BY <1>2, <1>3, UnlinkedOrders
<1> HIDE DEF k
<1>5. /\ Ordered(k)
      /\ Contents(k, l) = RemoveAt(s, i)
      /\ \A m \in Roots : m # l => Contents(k, m) = Contents(h, m)
  BY <1>1, <1>2, <1>4, OrderedFrom
<1> QED
  BY <1>3, <1>5 DEF k

(* What the get functions return. *)
LEMMA EndsOfContents ==
  ASSUME NEW h \in Heaps, WellFormed(h), Ordered(h), NEW l \in Roots
  PROVE  LET s == Contents(h, l)
         IN  /\ s \in Seq(Members(h, l)) /\ Len(s) \in Nat
             /\ \A i, j \in 1 .. Len(s) : s[i] = s[j] => i = j
             /\ Members(h, l) = {s[i] : i \in 1 .. Len(s)}
             /\ IsEmpty(h, l) <=> s = <<>>
             /\ s = <<>> => GetHead(h, l) = NULL /\ GetTail(h, l) = NULL
             /\ s # <<>> => GetHead(h, l) = s[1] /\ GetTail(h, l) = s[Len(s)]
<1> DEFINE s == Contents(h, l)
<1>1. s \in RingOrders(h, l)
  BY DEF Ordered, Contents
<1> HIDE DEF s
<1>2. /\ IsEmpty(h, l) <=> s = <<>>
      /\ h.next[l] = IF s = <<>> THEN l ELSE s[1]
      /\ h.prev[l] = IF s = <<>> THEN l ELSE s[Len(s)]
  BY <1>1, EndsOfRingOrder
<1>3. /\ s = <<>> => GetHead(h, l) = NULL /\ GetTail(h, l) = NULL
      /\ s # <<>> => GetHead(h, l) = s[1] /\ GetTail(h, l) = s[Len(s)]
  BY <1>2 DEF GetHead, GetTail, IsEmpty
<1>4. Members(h, l) = {s[i] : i \in 1 .. Len(s)}
  BY <1>1, RingOrderIsSeq, RingOrderCovers
<1> QED
  BY <1>1, <1>2, <1>3, <1>4, RingOrderIsSeq, RingOrderSteps DEF s

(* Taking an end of a sequence out. *)
LEMMA RemoveAtEnds ==
  ASSUME NEW S, NEW s \in Seq(S), s # <<>>
  PROVE  /\ RemoveAt(s, 1) = Tail(s)
         /\ RemoveAt(s, Len(s)) = Front(s)
<1>1. Len(s) \in Nat /\ Len(s) > 0 /\ \A j \in 1 .. Len(s) : s[j] \in S
  BY EmptySeq, LenProperties, ElementOfSeq
<1>2. Tail(s) = SubSeq(s, 2, Len(s)) /\ Tail(s) \in Seq(S)
  BY TailIsSubSeq, HeadTailProperties
<1>3. SubSeq(s, 1, 1 - 1) = <<>> /\ SubSeq(s, Len(s) + 1, Len(s)) = <<>>
  BY <1>1, SubSeqEmpty
<1>4. SubSeq(s, 1, Len(s) - 1) \in Seq(S)
  BY <1>1, SubSeqProperties
<1>5. RemoveAt(s, 1) = Tail(s)
  <2>1. SubSeq(s, 1 + 1, Len(s)) = Tail(s)
    BY <1>2
  <2>2. <<>> \o Tail(s) = Tail(s)
    BY <1>2, ConcatEmptySeq
  <2> QED
    BY <1>3, <2>1, <2>2 DEF RemoveAt
<1>6. RemoveAt(s, Len(s)) = Front(s)
  <2>1. SubSeq(s, 1, Len(s) - 1) \o <<>> = SubSeq(s, 1, Len(s) - 1)
    BY <1>4, ConcatEmptySeq
  <2> QED
    BY <1>3, <2>1 DEF RemoveAt, Front
<1> QED
  BY <1>5, <1>6

(* A move takes the item out of one sequence and appends it to another. *)
LEMMA MoveContents ==
  ASSUME NEW h \in Heaps, WellFormed(h), Ordered(h), NEW from \in Roots, NEW to \in Roots,
         from # to, NEW n \in Nodes, h.owner[n] = from
  PROVE  LET k == AddTail(DeleteItem(h, from, n), to, n)
             s == Contents(h, from)
         IN  /\ Ordered(k)
             /\ \E i \in 1 .. Len(s) : s[i] = n /\ Contents(k, from) = RemoveAt(s, i)
             /\ Contents(k, to) = Append(Contents(h, to), n)
             /\ \A m \in Roots : m \notin {from, to} => Contents(k, m) = Contents(h, m)
<1> DEFINE d == Unlinked(h, from, n)
           s == Contents(h, from)
<1>1. DeleteItem(h, from, n) = d
  BY DEF DeleteItem
<1>2. /\ d \in Heaps /\ WellFormed(d) /\ d.owner = [h.owner EXCEPT ![n] = NULL]
      /\ Ordered(d)
      /\ \E i \in 1 .. Len(s) : s[i] = n /\ Contents(d, from) = RemoveAt(s, i)
      /\ \A m \in Roots : m # from => Contents(d, m) = Contents(h, m)
  BY UnlinkedPreserves, UnlinkedContents
<1> HIDE DEF d, s
<1>3. d.owner[n] = NULL
  BY <1>2, HeapFields
<1> DEFINE k == AddTail(d, to, n)
<1>4. /\ Ordered(k)
      /\ Contents(k, to) = Append(Contents(d, to), n)
      /\ \A m \in Roots : m # to => Contents(k, m) = Contents(d, m)
  <2>1. d \in Heaps /\ WellFormed(d) /\ Ordered(d) /\ to \in Roots /\ n \in Nodes
    BY <1>2
  <2> QED
    BY ONLY <1>3, <2>1, AddTailContents
<1> HIDE DEF k
<1>5. \E i \in 1 .. Len(s) : s[i] = n /\ Contents(k, from) = RemoveAt(s, i)
  BY <1>2, <1>4
<1>6. Contents(k, to) = Append(Contents(h, to), n)
  BY <1>2, <1>4
<1>7. \A m \in Roots : m \notin {from, to} => Contents(k, m) = Contents(h, m)
  BY <1>2, <1>4
<1> QED
  BY <1>1, <1>4, <1>5, <1>6, <1>7 DEF k, s
=============================================================================
