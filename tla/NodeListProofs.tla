--------------------------- MODULE NodeListProofs ---------------------------
(***************************************************************************)
(* The list library never breaks a ring, for any number of items and       *)
(* lists, under its one assumption on the client (Addable).                *)
(***************************************************************************)
EXTENDS NodeList, NodeHeapProofs

(* Well-formedness is inductive once the fields have their types: every    *)
(* function takes well formed rings to well formed rings.                  *)
IInv == TypeOK /\ ListsWellFormed

LEMMA InitIInv == Init => IInv
BY EmptyHeapWellFormed DEF Init, IInv, TypeOK, ListsWellFormed

(* node_list_take_head and node_list_take_tail. *)
LEMMA TakePreserves ==
  ASSUME IInv, NEW l \in Roots, ~ IsEmpty(heap, l)
  PROVE  /\ GetHead(heap, l) \in Nodes /\ HeadTaken(heap, l) \in Heaps
         /\ GetTail(heap, l) \in Nodes /\ TailTaken(heap, l) \in Heaps
         /\ WellFormed(HeadTaken(heap, l)) /\ WellFormed(TailTaken(heap, l))
<1>1. heap \in Heaps /\ WellFormed(heap)
  BY DEF IInv, TypeOK, ListsWellFormed
<1>2. /\ GetHead(heap, l) \in Members(heap, l)
      /\ GetTail(heap, l) \in Members(heap, l)
  BY <1>1, EndsAreMembers DEF GetHead, GetTail, IsEmpty
<1>3. /\ GetHead(heap, l) \in Nodes /\ heap.owner[GetHead(heap, l)] = l
      /\ GetTail(heap, l) \in Nodes /\ heap.owner[GetTail(heap, l)] = l
  BY <1>2 DEF Members
<1>4. /\ HeadTaken(heap, l) = Unlinked(heap, l, GetHead(heap, l))
      /\ TailTaken(heap, l) = Unlinked(heap, l, GetTail(heap, l))
  BY <1>1, TakenIsUnlinked
<1>5. ASSUME NEW n \in Nodes, heap.owner[n] = l
      PROVE  Unlinked(heap, l, n) \in Heaps /\ WellFormed(Unlinked(heap, l, n))
  BY <1>1, <1>5, UnlinkedPreserves
<1> QED
  BY <1>3, <1>4, <1>5

LEMMA NextIInv == IInv /\ [Next]_vars => IInv'
<1> SUFFICES ASSUME IInv, [Next]_vars PROVE IInv'
  OBVIOUS
<1>0. heap \in Heaps /\ WellFormed(heap) /\ ret \in Nodes \cup {NULL}
  BY DEF IInv, TypeOK, ListsWellFormed
<1> USE <1>0
<1>1. ASSUME NEW l \in Roots, NodeListTakeHead(l) PROVE IInv'
  BY <1>1, TakePreserves DEF NodeListTakeHead, IInv, TypeOK, ListsWellFormed, GetHead, IsEmpty
<1>2. ASSUME NEW l \in Roots, NodeListTakeTail(l) PROVE IInv'
  BY <1>2, TakePreserves DEF NodeListTakeTail, IInv, TypeOK, ListsWellFormed, GetTail, IsEmpty
<1>3. ASSUME NEW l \in Roots, NodeListGetHead(l) \/ NodeListGetTail(l) PROVE IInv'
  <2>1. ret' \in Nodes \cup {NULL}
    BY <1>3, TakePreserves DEF NodeListGetHead, NodeListGetTail, GetHead, GetTail, IsEmpty
  <2> QED
    BY <1>3, <2>1 DEF NodeListGetHead, NodeListGetTail, IInv, TypeOK, ListsWellFormed
<1>4. ASSUME NEW l \in Roots, NEW n \in Nodes, NodeListAddHead(l, n) PROVE IInv'
  BY <1>4, AddHeadPreserves DEF NodeListAddHead, Addable, IInv, TypeOK, ListsWellFormed
<1>5. ASSUME NEW l \in Roots, NEW n \in Nodes, NodeListAddTail(l, n) PROVE IInv'
  BY <1>5, AddTailPreserves DEF NodeListAddTail, Addable, IInv, TypeOK, ListsWellFormed
<1>6. ASSUME NEW l \in Roots, NEW n \in Nodes, NodeListDeleteItem(l, n) PROVE IInv'
  BY <1>6, DeleteItemPreserves DEF NodeListDeleteItem, IInv, TypeOK, ListsWellFormed
<1>7. CASE UNCHANGED vars
  BY <1>7 DEF vars, IInv, TypeOK, ListsWellFormed
<1> QED
  BY <1>1, <1>2, <1>3, <1>4, <1>5, <1>6, <1>7 DEF Next

(* Every call returns an item or NULL and leaves the fields of every cell  *)
(* in their types: no list function ever stores a stray pointer.           *)
THEOREM NodeListTypeOK == Spec => []TypeOK
<1>1. IInv => TypeOK
  BY DEF IInv
<1> QED
  BY <1>1, InitIInv, NextIInv, PTL DEF Spec

(* After any sequence of calls of node.h every list is one ring through    *)
(* exactly its owned items, linked both ways, of the length "len" says.    *)
THEOREM NodeListWellFormed == Spec => []ListsWellFormed
<1>1. IInv => ListsWellFormed
  BY DEF IInv
<1> QED
  BY <1>1, InitIInv, NextIInv, PTL DEF Spec

-----------------------------------------------------------------------------
(* The refinement.  On well formed rings the contents of a list are one    *)
(* sequence; that there is one at all is kept by every function, and so is *)
(* the invariant that goes with the mapping.                               *)
OInv == IInv /\ Ordered(heap)

Mapped == [l \in Roots |-> Contents(heap, l)]

LEMMA InitMaps == Init => OInv /\ Abstract!Init
<1> SUFFICES ASSUME Init PROVE OInv /\ Abstract!Init
  OBVIOUS
<1>1. heap = EmptyHeap /\ ret = NULL /\ IInv
  BY InitIInv DEF Init
<1> QED
  BY <1>1, EmptyHeapOrdered DEF OInv, Abstract!Init

(* node_list_add_head, node_list_add_tail. *)
LEMMA AddMaps ==
  ASSUME OInv, NEW l \in Roots, NEW n \in Nodes
  PROVE  /\ NodeListAddHead(l, n) => Ordered(heap)' /\ Abstract!AddHead(l, n)
         /\ NodeListAddTail(l, n) => Ordered(heap)' /\ Abstract!AddTail(l, n)
<1>1. heap \in Heaps /\ WellFormed(heap) /\ Ordered(heap)
  BY DEF OInv, IInv, TypeOK, ListsWellFormed
<1>2. ASSUME Addable(n) PROVE Abstract!Free(n)
  <2> SUFFICES ASSUME NEW m \in Roots PROVE n \notin {Contents(heap, m)[i] : i \in 1 .. Len(Contents(heap, m))}
    BY <1>1, EndsOfContents, LenProperties DEF Abstract!Free, Abstract!In, Abstract!ToSet
  <2>1. n \notin Members(heap, m)
    BY <1>2, CellAssumption DEF Addable, Members
  <2> QED
    BY <1>1, <2>1, EndsOfContents
<1>3. ASSUME NodeListAddHead(l, n) PROVE Ordered(heap)' /\ Abstract!AddHead(l, n)
  <2>1. heap.owner[n] = NULL /\ Addable(n) /\ heap' = AddHead(heap, l, n) /\ ret' = NULL
    BY <1>3 DEF NodeListAddHead, Addable
  <2>2. /\ Ordered(heap')
        /\ Contents(heap', l) = <<n>> \o Contents(heap, l)
        /\ \A m \in Roots : m # l => Contents(heap', m) = Contents(heap, m)
    BY <1>1, <2>1, AddHeadContents
  <2>3. Mapped' = [Mapped EXCEPT ![l] = <<n>> \o @]
    BY <2>2 DEF Mapped
  <2> QED
    BY <1>2, <2>1, <2>2, <2>3 DEF Abstract!AddHead, Mapped
<1>4. ASSUME NodeListAddTail(l, n) PROVE Ordered(heap)' /\ Abstract!AddTail(l, n)
  <2>1. heap.owner[n] = NULL /\ Addable(n) /\ heap' = AddTail(heap, l, n) /\ ret' = NULL
    BY <1>4 DEF NodeListAddTail, Addable
  <2>2. /\ Ordered(heap')
        /\ Contents(heap', l) = Append(Contents(heap, l), n)
        /\ \A m \in Roots : m # l => Contents(heap', m) = Contents(heap, m)
    BY <1>1, <2>1, AddTailContents
  <2>3. Mapped' = [Mapped EXCEPT ![l] = Append(@, n)]
    BY <2>2 DEF Mapped
  <2> QED
    BY <1>2, <2>1, <2>2, <2>3 DEF Abstract!AddTail, Mapped
<1> QED
  BY <1>3, <1>4

(* node_list_delete_item, of a member of the list and of another item. *)
LEMMA DeleteMaps ==
  ASSUME OInv, NEW l \in Roots, NEW n \in Nodes, NodeListDeleteItem(l, n)
  PROVE  Ordered(heap)' /\ Abstract!Delete(l, n)
<1> DEFINE s == Contents(heap, l)
<1>1. /\ heap \in Heaps /\ WellFormed(heap) /\ Ordered(heap)
      /\ heap' = DeleteItem(heap, l, n) /\ ret' = NULL
  BY DEF OInv, IInv, TypeOK, ListsWellFormed, NodeListDeleteItem
<1>2. /\ s \in Seq(Members(heap, l))
      /\ Members(heap, l) = {s[i] : i \in 1 .. Len(s)}
      /\ DOMAIN s = 1 .. Len(s)
  BY <1>1, EndsOfContents, LenProperties
<1>3. CASE heap.owner[n] # l
  <2>1. heap' = heap /\ n \notin Members(heap, l)
    BY <1>1, <1>3 DEF DeleteItem, Members
  <2>2. ~ Abstract!In(l, n)
    BY <1>2, <2>1 DEF Abstract!In, Abstract!ToSet
  <2> QED
    BY <1>1, <2>1, <2>2 DEF Abstract!Delete
<1>4. CASE heap.owner[n] = l
  <2>1. heap' = Unlinked(heap, l, n)
    BY <1>1, <1>4 DEF DeleteItem
  <2>2. /\ Ordered(heap')
        /\ \E i \in 1 .. Len(s) : s[i] = n /\ Contents(heap', l) = RemoveAt(s, i)
        /\ \A m \in Roots : m # l => Contents(heap', m) = Contents(heap, m)
    BY <1>1, <1>4, <2>1, UnlinkedContents
  <2>3. PICK i \in 1 .. Len(s) : s[i] = n /\ Contents(heap', l) = RemoveAt(s, i)
    BY <2>2
  <2>4. Mapped' = [Mapped EXCEPT ![l] = RemoveAt(@, i)]
    BY <2>2, <2>3 DEF Mapped
  <2>5. i \in DOMAIN Mapped[l] /\ Mapped[l][i] = n
    BY <1>2, <2>3 DEF Mapped
  <2>6. \A x, y : RemoveAt(x, y) = Abstract!RemoveAt(x, y)
    BY DEF RemoveAt, Abstract!RemoveAt
  <2>7. Mapped' = [Mapped EXCEPT ![l] = Abstract!RemoveAt(@, i)]
    BY <2>4, <2>6
  <2> QED
    BY <1>1, <2>2, <2>5, <2>7 DEF Abstract!Delete, Mapped
<1> QED
  BY <1>3, <1>4

(* node_list_get_head and node_list_get_tail, and what the take functions  *)
(* return. *)
LEMMA EndsMap ==
  ASSUME OInv, NEW l \in Roots
  PROVE  LET s == Contents(heap, l)
         IN  /\ IsEmpty(heap, l) <=> s = <<>>
             /\ GetHead(heap, l) = IF s = <<>> THEN NULL ELSE Head(s)
             /\ GetTail(heap, l) = IF s = <<>> THEN NULL ELSE Abstract!Last(s)
             /\ s \in Seq(Nodes)
             /\ \A i, j \in 1 .. Len(s) : s[i] = s[j] => i = j
<1>1. heap \in Heaps /\ WellFormed(heap) /\ Ordered(heap)
  BY DEF OInv, IInv, TypeOK, ListsWellFormed
<1> DEFINE s == Contents(heap, l)
<1>2. /\ s \in Seq(Members(heap, l)) /\ Members(heap, l) \subseteq Nodes
      /\ \A i, j \in 1 .. Len(s) : s[i] = s[j] => i = j
      /\ IsEmpty(heap, l) <=> s = <<>>
      /\ s = <<>> => GetHead(heap, l) = NULL /\ GetTail(heap, l) = NULL
      /\ s # <<>> => GetHead(heap, l) = s[1] /\ GetTail(heap, l) = s[Len(s)]
  BY <1>1, EndsOfContents DEF Members
<1> HIDE DEF s
<1>3. s \in Seq(Nodes)
  BY <1>2, SeqMonotonic
<1>4. s # <<>> => Head(s) = s[1] /\ Abstract!Last(s) = s[Len(s)]
  BY <1>3 DEF Abstract!Last
<1> QED
  BY <1>2, <1>3, <1>4 DEF s

(* node_list_take_head, node_list_take_tail. *)
LEMMA TakeMaps ==
  ASSUME OInv, NEW l \in Roots
  PROVE  /\ NodeListTakeHead(l) => Ordered(heap)' /\ Abstract!TakeHead(l)
         /\ NodeListTakeTail(l) => Ordered(heap)' /\ Abstract!TakeTail(l)
<1> DEFINE s == Contents(heap, l)
           head == GetHead(heap, l)
           tail == GetTail(heap, l)
<1>1. heap \in Heaps /\ WellFormed(heap) /\ Ordered(heap) /\ Mapped[l] = s
  BY DEF OInv, IInv, TypeOK, ListsWellFormed, Mapped
<1>2. /\ IsEmpty(heap, l) <=> s = <<>>
      /\ head = IF s = <<>> THEN NULL ELSE Head(s)
      /\ tail = IF s = <<>> THEN NULL ELSE Abstract!Last(s)
      /\ s \in Seq(Nodes)
      /\ \A i, j \in 1 .. Len(s) : s[i] = s[j] => i = j
  BY EndsMap
<1>3. s # <<>> => /\ Head(s) = s[1] /\ Abstract!Last(s) = s[Len(s)]
                  /\ Len(s) \in 1 .. Len(s) /\ 1 \in 1 .. Len(s)
                  /\ s[1] \in Nodes /\ s[Len(s)] \in Nodes
  BY <1>2, EmptySeq, ElementOfSeq DEF Abstract!Last
<1>4. ASSUME IsEmpty(heap, l), heap' = heap, ret' = NULL
      PROVE  Ordered(heap)' /\ Abstract!TakeHead(l) /\ Abstract!TakeTail(l)
  BY <1>1, <1>2, <1>4 DEF Abstract!TakeHead, Abstract!TakeTail, Mapped
<1>5. ASSUME ~ IsEmpty(heap, l)
      PROVE  /\ HeadTaken(heap, l) = Unlinked(heap, l, head)
             /\ TailTaken(heap, l) = Unlinked(heap, l, tail)
             /\ head \in Nodes /\ heap.owner[head] = l
             /\ tail \in Nodes /\ heap.owner[tail] = l
             /\ head = s[1] /\ tail = s[Len(s)] /\ s # <<>>
  <2>1. head \in Members(heap, l) /\ tail \in Members(heap, l)
    BY <1>1, <1>5, EndsAreMembers DEF GetHead, GetTail, IsEmpty
  <2> QED
    BY <1>1, <1>2, <1>3, <1>5, <2>1, TakenIsUnlinked DEF Members
<1>6. ASSUME ~ IsEmpty(heap, l), NEW i \in 1 .. Len(s), s[i] \in Nodes, heap.owner[s[i]] = l,
             heap' = Unlinked(heap, l, s[i])
      PROVE  Ordered(heap') /\ Mapped' = [Mapped EXCEPT ![l] = RemoveAt(s, i)]
  <2>1. /\ Ordered(heap')
        /\ \E j \in 1 .. Len(s) : s[j] = s[i] /\ Contents(heap', l) = RemoveAt(s, j)
        /\ \A m \in Roots : m # l => Contents(heap', m) = Contents(heap, m)
    BY <1>1, <1>6, UnlinkedContents
  <2>2. Contents(heap', l) = RemoveAt(s, i)
    BY <1>2, <2>1
  <2> QED
    BY <2>1, <2>2 DEF Mapped
<1>7. ASSUME NodeListTakeHead(l), ~ IsEmpty(heap, l)
      PROVE  Ordered(heap)' /\ Abstract!TakeHead(l)
  <2>1. ret' = head /\ heap' = Unlinked(heap, l, s[1])
    BY <1>5, <1>7 DEF NodeListTakeHead
  <2>2. Ordered(heap') /\ Mapped' = [Mapped EXCEPT ![l] = RemoveAt(s, 1)]
    BY <1>3, <1>5, <1>6, <1>7, <2>1
  <2>3. Mapped' = [Mapped EXCEPT ![l] = Tail(@)]
    BY <1>1, <1>2, <1>5, <1>7, <2>2, RemoveAtEnds
  <2> QED
    BY <1>1, <1>2, <1>5, <1>7, <2>1, <2>2, <2>3 DEF Abstract!TakeHead, Mapped
<1>8. ASSUME NodeListTakeTail(l), ~ IsEmpty(heap, l)
      PROVE  Ordered(heap)' /\ Abstract!TakeTail(l)
  <2>1. ret' = tail /\ heap' = Unlinked(heap, l, s[Len(s)])
    BY <1>5, <1>8 DEF NodeListTakeTail
  <2>2. Ordered(heap') /\ Mapped' = [Mapped EXCEPT ![l] = RemoveAt(s, Len(s))]
    BY <1>3, <1>5, <1>6, <1>8, <2>1
  <2>3. RemoveAt(s, Len(s)) = Abstract!Front(s)
    BY <1>2, <1>5, <1>8, RemoveAtEnds DEF Front, Abstract!Front
  <2>4. Mapped' = [Mapped EXCEPT ![l] = Abstract!Front(@)]
    BY <1>1, <2>2, <2>3
  <2> QED
    BY <1>1, <1>2, <1>5, <1>8, <2>1, <2>2, <2>4 DEF Abstract!TakeTail, Mapped
<1>9. IsEmpty(heap, l) => head = NULL /\ tail = NULL
  BY <1>2
<1> QED
  BY <1>4, <1>7, <1>8, <1>9 DEF NodeListTakeHead, NodeListTakeTail

LEMMA GetMaps ==
  ASSUME OInv, NEW l \in Roots
  PROVE  /\ NodeListGetHead(l) => Ordered(heap)' /\ Abstract!GetHead(l)
         /\ NodeListGetTail(l) => Ordered(heap)' /\ Abstract!GetTail(l)
BY EndsMap DEF NodeListGetHead, NodeListGetTail, Abstract!GetHead, Abstract!GetTail, OInv, Ordered

(* Every function acts as its namesake. *)
LEMMA StepActsAsNamed ==
  ASSUME OInv, NEW l \in Roots
  PROVE  ActsAsNamed(l)
BY TakeMaps, GetMaps, AddMaps, DeleteMaps DEF ActsAsNamed

LEMMA StepMaps ==
  ASSUME OInv, [Next]_vars
  PROVE  Ordered(heap)' /\ [Abstract!Next]_(Abstract!vars)
<1>1. ASSUME NEW l \in Roots,
             NodeListTakeHead(l) \/ NodeListTakeTail(l) \/ NodeListGetHead(l) \/ NodeListGetTail(l)
      PROVE  Ordered(heap)' /\ Abstract!Next
  BY <1>1, TakeMaps, GetMaps DEF Abstract!Next
<1>2. ASSUME NEW l \in Roots, NEW n \in Nodes,
             NodeListAddHead(l, n) \/ NodeListAddTail(l, n) \/ NodeListDeleteItem(l, n)
      PROVE  Ordered(heap)' /\ Abstract!Next
  BY <1>2, AddMaps, DeleteMaps DEF Abstract!Next
<1>3. CASE UNCHANGED vars
  BY <1>3 DEF vars, Abstract!vars, OInv, Ordered
<1> QED
  BY <1>1, <1>2, <1>3 DEF Next

(* node.h implements sequences: for any number of items and lists, every   *)
(* sequence of calls is one of Lists, and each function acts on the ring   *)
(* of its list as its namesake does on a sequence.                         *)
THEOREM NodeListImplementsLists == Spec => ImplementsLists
<1>1. OInv /\ [Next]_vars => OInv'
  BY NextIInv, StepMaps DEF OInv
<1>2. OInv /\ [Next]_vars => [Abstract!Next]_(Abstract!vars)
  BY StepMaps
<1>3. OInv => \A l \in Roots : ActsAsNamed(l)
  BY StepActsAsNamed
<1> QED
  BY <1>1, <1>2, <1>3, InitMaps, PTL DEF Spec, ImplementsLists, Abstract!Spec
=============================================================================
