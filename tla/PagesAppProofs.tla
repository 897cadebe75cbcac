--------------------------- MODULE PagesAppProofs ---------------------------
(***************************************************************************)
(* The shipped client is spared what it does to the lists: whatever the    *)
(* timer's calls lose to running transitions, and however often the        *)
(* lengths wrap, it stays within two shapes of the lists, in which every   *)
(* walk ends.                                                              *)
(***************************************************************************)
EXTENDS PagesApp, PageManagerProofs

(* page1 is on the stack, and the backstage is empty or, after the first   *)
(* turn, still points to it.                                               *)
Shown(h) ==
  /\ h.owner[page1] = Stack
  /\ h.next[Stack] = page1 /\ h.prev[Stack] = page1
  /\ h.next[page1] = Stack /\ h.prev[page1] = Stack
  /\ h.len[Stack] = 1
  /\ h.prev[Backstage] = h.next[Backstage]
  /\ h.next[Backstage] \in {Backstage, page1}

(* page1 is in the backstage: what it points back to may be itself, and    *)
(* the length may be anything.                                             *)
Parked(h) ==
  /\ h.owner[page1] = Backstage
  /\ h.next[Stack] = Stack /\ h.prev[Stack] = Stack
  /\ h.len[Stack] = 0
  /\ h.next[Backstage] = page1 /\ h.prev[Backstage] = page1

(* During pages_init every page is in the pool or nowhere.                 *)
Beginning ==
  /\ WellFormed(heap)
  /\ \A p \in Nodes : heap.owner[p] \in {NULL, Pool}
  /\ begun > 0 => heap.owner[page1] = Pool
  /\ status = "IDLE" /\ pageTop = NULL /\ obj = {}

Turning ==
  /\ obj = {page1} /\ pageWillDisappear \in {NULL, page1}
  /\ \/ Shown(heap) /\ pageTop = page1
     \/ Parked(heap) /\ pageTop = NULL

AppInv ==
  /\ AppTypeOK
  /\ fault = "none" /\ lost = {} /\ ~ release
  /\ begun < 4 => Beginning
  /\ begun = 4 => Turning

-----------------------------------------------------------------------------
(* Lists, however broken. *)

LEMMA App ==
  /\ Nodes = {page1, page2, page3} /\ page1 \in Nodes
  /\ page1 \in Cells /\ Stack \in Cells /\ Backstage \in Cells /\ Pool \in Cells
  /\ Roots = {Pool, Stack, Backstage}
  /\ Pool # Stack /\ Pool # Backstage /\ Stack # Backstage
  /\ page1 \notin Roots /\ page1 # NULL
  /\ Stack # NULL /\ Backstage # NULL /\ Pool # NULL
  /\ {Pool, Stack, Backstage} \cap {"absent", "hang", "crash"} = {}
  BY AppAssumption, ListAssumption, CellAssumption DEF Cells

LEMMA Lengths ==
  /\ LenMod \in Nat /\ LenMod > 1
  /\ \A k \in 0 .. LenMod - 1 : Inc(k) \in 0 .. LenMod - 1 /\ Dec(k) \in 0 .. LenMod - 1
  /\ Inc(0) = 1 /\ Dec(1) = 0
  <1>1. LenMod \in Nat /\ LenMod > 1
    <2>1. Cardinality(Nodes) \in Nat /\ Cardinality(Nodes) # 0
      BY App, FS_CardinalityType, FS_EmptySet, CellAssumption
    <2> QED BY <2>1, LenAssumption
  <1> QED BY <1>1 DEF Inc, Dec

LEMMA AddTailType ==
  ASSUME NEW h \in Heaps, NEW l \in Roots, NEW n \in Nodes
  PROVE  AddTail(h, l, n) \in Heaps
  <1>1. n \in Cells /\ l \in Cells
    BY DEF Cells
  <1>2. /\ [h.owner EXCEPT ![n] = l] \in [Nodes -> Roots \cup {NULL}]
        /\ [h.prev EXCEPT ![n] = h.prev[l], ![l] = n] \in [Cells -> Cells \cup {NULL}]
        /\ [h.next EXCEPT ![h.prev[l]] = n, ![n] = l] \in [Cells -> Cells \cup {NULL}]
    BY <1>1, HeapFields
  <1>3. [h.len EXCEPT ![l] = Inc(@)] \in [Roots -> 0 .. LenMod - 1]
    BY HeapFields, Lengths
  <1> QED BY <1>2, <1>3 DEF AddTail, Heaps

LEMMA DeleteItemType ==
  ASSUME NEW h \in Heaps, NEW l \in Roots, NEW n \in Nodes
  PROVE  DeleteItem(h, l, n) \in Heaps
  <1>1. n \in Cells /\ l \in Cells
    BY DEF Cells
  <1>2. /\ [h.owner EXCEPT ![n] = NULL] \in [Nodes -> Roots \cup {NULL}]
        /\ [h.prev EXCEPT ![h.next[n]] = h.prev[n], ![n] = NULL] \in [Cells -> Cells \cup {NULL}]
        /\ [h.next EXCEPT ![h.prev[n]] = h.next[n], ![n] = NULL] \in [Cells -> Cells \cup {NULL}]
    BY <1>1, HeapFields
  <1>3. [h.len EXCEPT ![l] = Dec(@)] \in [Roots -> 0 .. LenMod - 1]
    BY HeapFields, Lengths
  <1> QED BY <1>2, <1>3 DEF DeleteItem, Unlinked, Heaps

LEMMA FirstIsFound ==
  ASSUME NEW h, NEW l \in Roots, NEW n \in Nodes, h.next[l] = n
  PROVE  WalkResult(h, l, n) = "found"
  <1>1. n \in Walked(h, l)
    BY DEF Walked, ClosedWalk, Cells
  <1> QED BY <1>1 DEF WalkResult

LEMMA ClosedIsAbsent ==
  ASSUME NEW h, NEW l \in Roots, NEW n \in Nodes, h.next[l] = l
  PROVE  WalkResult(h, l, n) = "absent"
  <1>1. n # l /\ NULL # l /\ {l} \in SUBSET (Cells \cup {NULL})
    BY CellAssumption DEF Cells
  <1>2. l \in Walked(h, l)
    BY DEF Walked, ClosedWalk, Cells
  <1>3. ClosedWalk(h, l, {l})
    BY DEF ClosedWalk
  <1>4. Walked(h, l) \subseteq {l}
    BY <1>1, <1>3, WalkedInClosed
  <1>5. n \notin Walked(h, l) /\ NULL \notin Walked(h, l)
    BY <1>1, <1>4
  <1> QED BY <1>2, <1>5 DEF WalkResult

-----------------------------------------------------------------------------
(* Transitions keep types in any lists. *)

(* A transition that releases nothing. *)
Starts(h, new, old, created) ==
  \E rel, away, small \in BOOLEAN :
    ~ rel /\ AnimStart(h, new, old, rel, created, "OVER", away, small)

LEMMA AnimStartType ==
  ASSUME TypeOK, NEW h \in Heaps, NEW new \in Nodes \cup {NULL}, NEW old \in Nodes \cup {NULL},
         NEW created \in SUBSET Nodes, new # NULL \/ old # NULL,
         new \in obj \cup created \cup {NULL}, old \in obj \cup created \cup {NULL},
         Starts(h, new, old, created), UNCHANGED loop
  PROVE  /\ TypeOK' /\ heap' = h /\ ~ release'
         /\ pageTop' = new /\ pageWillDisappear' = old
         /\ obj' = obj \cup created /\ lost' = lost \cup (created \cap obj)
         /\ fault' = fault
  <1>0. PICK rel \in BOOLEAN, away \in BOOLEAN, small \in BOOLEAN :
          ~ rel /\ AnimStart(h, new, old, rel, created, "OVER", away, small)
    BY DEF Starts
  <1> DEFINE objs == obj \cup created
             looks == Uncovered(new, created)
             moves == Movements("OVER", Object(new, objs), Object(old, objs), away, small, looks)
  <1>1. /\ heap' = h /\ status' = "RUNNING" /\ timeline' = TRUE /\ release' = rel
        /\ pageTop' = new /\ pageWillDisappear' = old
        /\ obj' = objs /\ lost' = lost \cup (created \cap obj)
        /\ motion' = moves /\ look' = UnderWay(looks, moves)
        /\ ret' = "OK" /\ fault' = fault
    BY <1>0 DEF AnimStart
  <1>2. looks \in [Nodes -> SUBSET Marks] /\ look' \in [Nodes -> SUBSET Marks]
    BY <1>1, LooksType
  <1>3. objs \in SUBSET Nodes /\ lost' \in SUBSET Nodes
    BY <1>1 DEF TypeOK
  <1>4. \A m \in moves : m \in Nodes \X Marks \X BOOLEAN
    <2> HIDE DEF looks
    <2> QED BY <1>2, <1>3, MovementsType
  <1>5. motion' \in SUBSET (Nodes \X Marks \X BOOLEAN)
    <2> HIDE DEF moves
    <2> QED BY <1>1, <1>4
  <1>6. timeline' \in BOOLEAN /\ release' \in BOOLEAN /\ ~ release'
    BY <1>0, <1>1, Zenon
  <1> HIDE DEF looks, moves, objs
  <1>7. TypeOK'
    BY <1>1, <1>2, <1>3, <1>5, <1>6 DEF TypeOK, loop
  <1> QED BY <1>1, <1>6, <1>7 DEF objs

LEMMA RunType ==
  ASSUME TypeOK, PmRun, ~ release, pageWillDisappear \in obj \cup {NULL},
         GetTail(heap, Stack) \in Nodes \cup {NULL}
  PROVE  /\ TypeOK' /\ heap' = heap /\ ~ release'
         /\ pageTop' = GetTail(heap, Stack) /\ pageWillDisappear' = NULL
         /\ obj' = obj /\ lost' = lost /\ fault' = fault
  <1> DEFINE looks == Uncovered(NULL, {})
             freed == {p \in HasRelease : release /\ p = pageWillDisappear}
  <1>1. AnimDone(heap, NULL, pageWillDisappear, release, {}, "VOID") /\ UNCHANGED loop
    BY DEF PmRun
  <1>2. freed = {} /\ obj \cup {} = obj /\ lost \cup ({} \cap obj) = lost
    OBVIOUS
  <1>3. /\ heap' = heap /\ status' = "IDLE" /\ timeline' = FALSE /\ release' = FALSE
        /\ pageTop' = GetTail(heap, Stack) /\ pageWillDisappear' = NULL
        /\ obj' = obj /\ lost' = lost /\ motion' = {}
        /\ look' = Settled(looks, pageWillDisappear, {})
        /\ ret' = "VOID" /\ fault' = fault
    BY <1>1, <1>2 DEF AnimDone
  <1>4. looks \in [Nodes -> SUBSET Marks]
    BY LooksType
  <1>5. look' \in [Nodes -> SUBSET Marks]
    <2> HIDE DEF looks
    <2> QED BY <1>3, <1>4 DEF Settled, Marks
  <1>6. timeline' \in BOOLEAN /\ release' \in BOOLEAN /\ ~ release'
    BY <1>3, Zenon
  <1> HIDE DEF looks, freed
  <1>7. TypeOK'
    BY <1>1, <1>3, <1>5, <1>6 DEF TypeOK, loop
  <1> QED BY <1>3, <1>6, <1>7

(* A call that is refused. *)
LEMMA ReturnType ==
  ASSUME TypeOK, NEW code \in {"DOUBLE_PAGE", "NO_PAGE", "BUSY"}, Return(code), UNCHANGED loop
  PROVE  /\ TypeOK'
         /\ UNCHANGED <<heap, status, pageTop, pageWillDisappear, release, obj, lost, fault>>
  BY DEF Return, TypeOK, ctrl, screen, loop

-----------------------------------------------------------------------------
(* pages_init. *)

LEMMA AppInitInv == ASSUME AppInit PROVE AppInv
  <1>1. Init /\ begun = 0 /\ count = 0
    BY DEF AppInit
  <1>2. IInv
    BY <1>1, InitIInv
  <1>3. TypeOK /\ WellFormed(heap)
    BY <1>2 DEF IInv, ListsWellFormed
  <1>4. AppTypeOK
    BY <1>1, <1>3, AppAssumption DEF AppTypeOK
  <1>5. /\ heap = EmptyHeap /\ status = "IDLE" /\ release = FALSE /\ pageTop = NULL
        /\ obj = {} /\ lost = {} /\ fault = "none"
    BY <1>1 DEF Init
  <1>6. \A p \in Nodes : heap.owner[p] = NULL
    BY <1>5 DEF EmptyHeap
  <1>7. Beginning
    BY <1>1, <1>3, <1>5, <1>6 DEF Beginning
  <1> QED BY <1>1, <1>4, <1>5, <1>7 DEF AppInv

LEMMA RegisterInv ==
  ASSUME AppInv, begun \in 0 .. 2, begun' = begun + 1, UNCHANGED count,
         NEW p \in Nodes, begun = 0 => p = page1, PmRegisterPage(p)
  PROVE  AppInv'
  <1>1. /\ heap' = AddTail(heap, Pool, p) /\ heap.owner[p] = NULL /\ ret' = "OK"
        /\ UNCHANGED <<ctrl, screen, loop, fault>>
    BY DEF PmRegisterPage
  <1>2. heap \in Heaps /\ TypeOK /\ Beginning /\ fault = "none" /\ lost = {} /\ ~ release
    BY DEF AppInv, AppTypeOK, TypeOK
  <1>3. /\ heap' \in Heaps /\ WellFormed(heap')
        /\ heap'.owner = [heap.owner EXCEPT ![p] = Pool]
    BY <1>1, <1>2, App, AddTailPreserves DEF Beginning
  <1>4. TypeOK'
    BY <1>1, <1>2, <1>3 DEF TypeOK, ctrl, screen, loop
  <1>5. Beginning'
    <2>1. \A q \in Nodes : heap'.owner[q] = IF q = p THEN Pool ELSE heap.owner[q]
      BY <1>2, <1>3, HeapFields
    <2>2. heap'.owner[page1] = Pool
      BY <1>2, <2>1, App DEF Beginning
    <2> QED BY <1>1, <1>2, <1>3, <2>1, <2>2 DEF Beginning, ctrl, screen
  <1>6. begun' \in 0 .. 4 /\ begun' # 4 /\ begun' < 4
    OBVIOUS
  <1>7. AppTypeOK'
    BY <1>4, <1>6 DEF AppTypeOK, AppInv
  <1> QED BY <1>1, <1>2, <1>5, <1>6, <1>7 DEF AppInv, ctrl, screen

(* page1, the only page of the stack, alone in its ring.                   *)
LEMMA FirstShown ==
  ASSUME NEW h \in Heaps, WellFormed(h), h.owner[page1] = Stack,
         \A p \in Nodes \ {page1} : h.owner[p] \in {NULL, Pool}
  PROVE  Shown(h)
  <1>1. Members(h, Stack) = {page1} /\ Members(h, Backstage) = {}
    BY App DEF Members
  <1>2. h.len[Stack] = 1
    <2>1. Stack \in Roots /\ h.len[Stack] = Cardinality({page1})
      BY <1>1, App DEF WellFormed, LengthsExact
    <2> QED BY ONLY <2>1, FS_Singleton
  <1>3. h.next[Stack] = page1 /\ h.prev[Stack] = page1
    BY <1>1, App, EndsAreMembers
  <1>4. h.next[page1] = Stack /\ h.prev[page1] = Stack
    <2>1. h.next[page1] \in {page1, Stack} /\ h.prev[page1] \in {page1, Stack}
      BY <1>1, App DEF WellFormed, RingsLinked
    <2> QED BY <1>1, <2>1, App, NeighboursDiffer
  <1>5. h.next[Backstage] = Backstage /\ h.prev[Backstage] = Backstage
    BY <1>1, App DEF WellFormed, RingsLinked
  <1> QED BY <1>2, <1>3, <1>4, <1>5 DEF Shown

(* The call of push in either place. *)
LEMMA PushStarts ==
  ASSUME NEW h, NEW created, NEW away \in BOOLEAN, page1 \in obj \cup created,
         Enter(h, page1, NULL, FALSE, created, "OVER", away)
  PROVE  Starts(h, page1, NULL, created)
  <1>1. AnimStart(h, page1, NULL, FALSE, created, "OVER", away,
                 IsSmall(page1, created))
    BY DEF Enter, Over
  <1>2. IsSmall(page1, created) \in BOOLEAN
    BY DEF IsSmall
  <1> QED BY <1>1, <1>2, Zenon DEF Starts

LEMMA FirstPushInv ==
  ASSUME AppInv, begun = 3, begun' = 4, UNCHANGED count, PmStackPushPage(page1, "OVER")
  PROVE  AppInv'
  <1> DEFINE h == AddTail(DeleteItem(heap, Pool, page1), Stack, page1)
             upward == "OVER" \in {"OVER_BOTTOM_TO_TOP", "PUSH_BOTTOM_TO_TOP"}
  <1>1. heap \in Heaps /\ TypeOK /\ Beginning /\ fault = "none" /\ lost = {} /\ ~ release
    BY DEF AppInv, AppTypeOK, TypeOK
  <1>2. heap.owner[page1] = Pool /\ WellFormed(heap) /\ status = "IDLE" /\ pageTop = NULL /\ obj = {}
    BY <1>1 DEF Beginning
  <1>3. Search(page1) = Pool
    <2>1. \A l \in Roots : WalkResult(heap, l, page1) = IF l = Pool THEN "found" ELSE "absent"
      BY <1>1, <1>2, App, WalkFindsMembers
    <2>2. /\ WalkResult(heap, Stack, page1) = "absent"
          /\ WalkResult(heap, Backstage, page1) = "absent"
          /\ WalkResult(heap, Pool, page1) = "found"
      BY <2>1, App
    <2> QED BY <2>2 DEF Search
  <1>4. Pool # Stack /\ Pool # Backstage /\ Pool \notin {"absent", "hang", "crash"}
    BY App
  <1>5. Enter(h, page1, NULL, FALSE, {page1}, "OVER", upward) /\ UNCHANGED loop
    BY <1>2, <1>3, <1>4, Zenon DEF PmStackPushPage, Busy
  <1>6. h \in Heaps /\ Shown(h)
    <2> DEFINE d == DeleteItem(heap, Pool, page1)
    <2>1. d \in Heaps /\ WellFormed(d) /\ d.owner = [heap.owner EXCEPT ![page1] = NULL]
      BY <1>1, <1>2, App, DeleteItemPreserves
    <2>2. d.owner[page1] = NULL
      BY <2>1, <1>1, App, HeapFields
    <2> HIDE DEF d
    <2>3. h \in Heaps /\ WellFormed(h) /\ h.owner = [d.owner EXCEPT ![page1] = Stack]
      BY <2>1, <2>2, App, AddTailPreserves DEF d
    <2> HIDE DEF h
    <2>4. /\ h.owner[page1] = Stack
          /\ \A p \in Nodes \ {page1} : h.owner[p] \in {NULL, Pool}
      BY <1>1, <2>1, <2>3, App, HeapFields DEF Beginning
    <2> QED BY <2>3, <2>4, FirstShown
  <1> HIDE DEF h
  <1>7. /\ TypeOK' /\ heap' = h /\ ~ release' /\ fault' = fault
        /\ pageTop' = page1 /\ pageWillDisappear' = NULL
        /\ obj' = obj \cup {page1} /\ lost' = lost \cup ({page1} \cap obj)
    <2>1. page1 \in obj \cup {page1} /\ upward \in BOOLEAN
      OBVIOUS
    <2> HIDE DEF upward
    <2>2. Starts(h, page1, NULL, {page1}) /\ UNCHANGED loop
      BY <1>5, <2>1, PushStarts, Zenon
    <2> QED BY <1>1, <1>6, <2>1, <2>2, App, AnimStartType
  <1>8. obj' = {page1} /\ lost' = {}
    BY <1>1, <1>2, <1>7
  <1>9. Turning'
    BY <1>6, <1>7, <1>8 DEF Turning, Shown
  <1>10. AppTypeOK'
    BY <1>7 DEF AppTypeOK, AppInv
  <1> QED BY <1>1, <1>7, <1>8, <1>9, <1>10 DEF AppInv

-----------------------------------------------------------------------------
(* The turns of the timer. *)

(* The page comes back: the backstage goes on pointing to it.              *)
LEMMA ShowsAgain ==
  ASSUME NEW h \in Heaps, Parked(h)
  PROVE  LET k == AddTail(DeleteItem(h, Pool, page1), Stack, page1)
         IN  k \in Heaps /\ Shown(k)
  <1> DEFINE k == AddTail(h, Stack, page1)
  <1>1. DeleteItem(h, Pool, page1) = h
    BY App DEF DeleteItem, Parked
  <1>2. k \in Heaps
    BY App, AddTailType
  <1>3. /\ k.owner = [h.owner EXCEPT ![page1] = Stack]
        /\ k.prev = [h.prev EXCEPT ![page1] = Stack, ![Stack] = page1]
        /\ k.next = [h.next EXCEPT ![Stack] = page1, ![page1] = Stack]
        /\ k.len = [h.len EXCEPT ![Stack] = Inc(h.len[Stack])]
    BY DEF AddTail, Parked
  <1> HIDE DEF k
  <1>4. /\ k.owner[page1] = Stack
        /\ k.next[Stack] = page1 /\ k.prev[Stack] = page1
        /\ k.next[page1] = Stack /\ k.prev[page1] = Stack
        /\ k.prev[Backstage] = page1 /\ k.next[Backstage] = page1
    BY <1>3, App, HeapFields DEF Parked
  <1>5. k.len[Stack] = 1
    BY <1>3, App, HeapFields, Lengths DEF Parked
  <1>6. Shown(k)
    BY <1>4, <1>5 DEF Shown
  <1> QED BY <1>1, <1>2, <1>6 DEF k

(* The page is parked: its ring in the backstage, if it was ruined, is     *)
(* good again in the direction of walks.                                   *)
LEMMA ParksAgain ==
  ASSUME NEW h \in Heaps, Shown(h)
  PROVE  LET k == AddTail(DeleteItem(h, Stack, page1), Backstage, page1)
         IN  k \in Heaps /\ Parked(k)
  <1> DEFINE d == DeleteItem(h, Stack, page1)
             k == AddTail(d, Backstage, page1)
  <1>1. d \in Heaps /\ k \in Heaps
    BY App, AddTailType, DeleteItemType
  <1>2. /\ d.owner = [h.owner EXCEPT ![page1] = NULL]
        /\ d.prev = [h.prev EXCEPT ![Stack] = Stack, ![page1] = NULL]
        /\ d.next = [h.next EXCEPT ![Stack] = Stack, ![page1] = NULL]
        /\ d.len = [h.len EXCEPT ![Stack] = Dec(h.len[Stack])]
    BY DEF DeleteItem, Unlinked, Shown
  <1> HIDE DEF d
  <1>3. /\ d.next[Stack] = Stack /\ d.prev[Stack] = Stack
        /\ d.prev[Backstage] = h.prev[Backstage] /\ d.next[Backstage] = h.next[Backstage]
    BY <1>2, App, HeapFields
  <1>4. d.len[Stack] = 0
    BY <1>2, App, HeapFields, Lengths DEF Shown
  <1>5. /\ k.owner = [d.owner EXCEPT ![page1] = Backstage]
        /\ k.prev = [d.prev EXCEPT ![page1] = d.prev[Backstage], ![Backstage] = page1]
        /\ k.next = [d.next EXCEPT ![d.prev[Backstage]] = page1, ![page1] = Backstage]
        /\ k.len = [d.len EXCEPT ![Backstage] = Inc(d.len[Backstage])]
    BY DEF AddTail
  <1> HIDE DEF k
  <1>6. /\ k.owner[page1] = Backstage
        /\ k.next[Stack] = Stack /\ k.prev[Stack] = Stack /\ k.len[Stack] = 0
        /\ k.prev[Backstage] = page1
    BY <1>1, <1>3, <1>4, <1>5, App, HeapFields DEF Shown
  <1>7. k.next[Backstage] = page1
    <2>1. CASE d.prev[Backstage] = Backstage
      BY <1>1, <1>5, <2>1, App, HeapFields
    <2>2. CASE d.prev[Backstage] = page1
      BY <1>1, <1>3, <1>5, <2>2, App, HeapFields DEF Shown
    <2> QED BY <1>3, <2>1, <2>2 DEF Shown
  <1> QED BY <1>1, <1>6, <1>7 DEF Parked, k, d

LEMMA PushInv ==
  ASSUME AppInv, begun = 4, begun' = 4, count' \in 0 .. CountMod - 1,
         PmStackPushPage(page1, "OVER")
  PROVE  AppInv'
  <1> DEFINE h == AddTail(DeleteItem(heap, Pool, page1), Stack, page1)
             upward == "OVER" \in {"OVER_BOTTOM_TO_TOP", "PUSH_BOTTOM_TO_TOP"}
  <1>1. heap \in Heaps /\ TypeOK /\ Turning /\ fault = "none" /\ lost = {} /\ ~ release
    BY DEF AppInv, AppTypeOK, TypeOK
  <1>2. obj = {page1} /\ UNCHANGED loop
    BY <1>1 DEF Turning, PmStackPushPage
  <1>3. ASSUME NEW code \in {"DOUBLE_PAGE", "NO_PAGE", "BUSY"}, Return(code) PROVE AppInv'
    <2>1. /\ TypeOK'
          /\ UNCHANGED <<heap, status, pageTop, pageWillDisappear, release, obj, lost, fault>>
      BY <1>1, <1>2, <1>3, ReturnType
    <2>2. Turning'
      BY <1>1, <2>1 DEF Turning, Shown, Parked
    <2> QED BY <1>1, <2>1, <2>2 DEF AppInv, AppTypeOK
  <1>4. CASE Busy
    BY <1>3, <1>4 DEF Busy
  <1>5. CASE ~ Busy /\ Shown(heap)
    <2>1. Search(page1) = Stack
      BY <1>5, App, FirstIsFound DEF Search, Shown
    <2>2. Return("DOUBLE_PAGE")
      BY <1>5, <2>1, App DEF PmStackPushPage
    <2> QED BY <1>3, <2>2
  <1>6. CASE ~ Busy /\ Parked(heap)
    <2>1. Search(page1) = Backstage
      <3>1. WalkResult(heap, Stack, page1) = "absent"
        BY <1>6, App, ClosedIsAbsent DEF Parked
      <3>2. WalkResult(heap, Backstage, page1) = "found"
        BY <1>6, App, FirstIsFound DEF Parked
      <3> QED BY <3>1, <3>2 DEF Search
    <2>2. pageTop = NULL
      BY <1>1, <1>6, App DEF Turning, Shown, Parked
    <2>3. /\ Backstage # Stack /\ Backstage # Pool
          /\ Backstage \notin {"absent", "hang", "crash"}
      BY App
    <2>4. Enter(h, page1, NULL, FALSE, {}, "OVER", upward)
      BY <1>6, <2>1, <2>2, <2>3, Zenon DEF PmStackPushPage
    <2>5. h \in Heaps /\ Shown(h)
      BY <1>1, <1>6, ShowsAgain
    <2> HIDE DEF h
    <2>6. /\ TypeOK' /\ heap' = h /\ ~ release' /\ fault' = fault
          /\ pageTop' = page1 /\ pageWillDisappear' = NULL
          /\ obj' = obj \cup {} /\ lost' = lost \cup ({} \cap obj)
      <3>1. page1 \in obj \cup {} /\ upward \in BOOLEAN
        BY <1>2
      <3> HIDE DEF upward
      <3>2. Starts(h, page1, NULL, {})
        BY <2>4, <3>1, PushStarts, Zenon
      <3> QED BY <1>1, <1>2, <2>5, <3>1, <3>2, App, AnimStartType
    <2>7. obj' = {page1} /\ lost' = {}
      BY <1>1, <1>2, <2>6
    <2>8. Turning'
      BY <2>5, <2>6, <2>7 DEF Turning, Shown
    <2> QED BY <1>1, <2>6, <2>7, <2>8 DEF AppInv, AppTypeOK
  <1> QED BY <1>1, <1>4, <1>5, <1>6 DEF Turning

LEMMA BackstageInv ==
  ASSUME AppInv, begun = 4, begun' = 4, count' \in 0 .. CountMod - 1,
         PmStackPageBackstage(NULL, "OVER")
  PROVE  AppInv'
  <1> DEFINE h == AddTail(DeleteItem(heap, Stack, page1), Backstage, page1)
  <1>1. heap \in Heaps /\ TypeOK /\ Turning /\ fault = "none" /\ lost = {} /\ ~ release
    BY DEF AppInv, AppTypeOK, TypeOK
  <1>2. obj = {page1} /\ UNCHANGED loop
    BY <1>1 DEF Turning, PmStackPageBackstage
  <1>3. ASSUME NEW code \in {"DOUBLE_PAGE", "NO_PAGE", "BUSY"}, Return(code) PROVE AppInv'
    <2>1. /\ TypeOK'
          /\ UNCHANGED <<heap, status, pageTop, pageWillDisappear, release, obj, lost, fault>>
      BY <1>1, <1>2, <1>3, ReturnType
    <2>2. Turning'
      BY <1>1, <2>1 DEF Turning, Shown, Parked
    <2> QED BY <1>1, <2>1, <2>2 DEF AppInv, AppTypeOK
  <1>4. CASE Busy
    BY <1>3, <1>4 DEF Busy
  <1>5. CASE ~ Busy /\ Parked(heap)
    <2>1. IsEmpty(heap, Stack)
      BY <1>5 DEF IsEmpty, Parked
    <2>2. Return("NO_PAGE")
      BY <1>5, <2>1 DEF PmStackPageBackstage, PopTo
    <2> QED BY <1>3, <2>2
  <1>6. CASE ~ Busy /\ Shown(heap)
    <2>1. ~ IsEmpty(heap, Stack)
      BY <1>6 DEF IsEmpty, Shown
    <2>2. pageTop = page1
      BY <1>1, <1>6, App DEF Turning, Shown, Parked
    <2>3. Named(NULL) = page1 /\ Removable(NULL) = "found"
      BY <2>2, App DEF Named, Removable
    <2>4. Leave(h, page1, FALSE, "OVER", Over \cup {"SIZE", "FADE_OUT"})
      BY <1>6, <2>1, <2>3 DEF PmStackPageBackstage, PopTo, Moved
    <2>5. AnimStart(h, NULL, page1, FALSE, {}, "OVER", TRUE, TRUE)
      BY <2>2, <2>4 DEF Leave, Over
    <2>6. h \in Heaps /\ Parked(h)
      BY <1>1, <1>6, ParksAgain
    <2> HIDE DEF h
    <2>7. /\ TypeOK' /\ heap' = h /\ ~ release' /\ fault' = fault
          /\ pageTop' = NULL /\ pageWillDisappear' = page1
          /\ obj' = obj \cup {} /\ lost' = lost \cup ({} \cap obj)
      <3>1. TRUE \in BOOLEAN /\ FALSE \in BOOLEAN /\ ~ FALSE
        OBVIOUS
      <3>2. Starts(h, NULL, page1, {})
        BY <2>5, <3>1, Zenon DEF Starts
      <3> QED BY <1>1, <1>2, <2>6, <3>2, App, AnimStartType
    <2>8. obj' = {page1} /\ lost' = {}
      BY <1>1, <1>2, <2>7
    <2>9. Turning'
      BY <2>6, <2>7, <2>8 DEF Turning, Parked
    <2> QED BY <1>1, <2>7, <2>8, <2>9 DEF AppInv, AppTypeOK
  <1> QED BY <1>1, <1>4, <1>5, <1>6 DEF Turning

-----------------------------------------------------------------------------
(* All together. *)

LEMMA LoopInv == ASSUME AppInv, Loop PROVE AppInv'
  <1>1. heap \in Heaps /\ TypeOK /\ Turning /\ fault = "none" /\ lost = {} /\ ~ release
    BY DEF AppInv, AppTypeOK, TypeOK, Loop
  <1>2. begun = 4 /\ begun' = 4 /\ count' = count
    BY DEF Loop, app
  <1>3. CASE AnimLastFrame
    <2>1. /\ look' = LastFrame(look, motion) /\ motion' = {} /\ ret' = "VOID"
          /\ UNCHANGED <<heap, status, timeline, pageTop, pageWillDisappear, release>>
          /\ UNCHANGED <<obj, lost, pc, cursor, style, fault>>
      BY <1>3 DEF AnimLastFrame, ctrl, loop
    <2>2. look' \in [Nodes -> SUBSET Marks]
      BY <1>1, <2>1, LooksType DEF TypeOK
    <2>3. TypeOK'
      BY <1>1, <2>1, <2>2 DEF TypeOK
    <2>4. Turning'
      BY <1>1, <2>1 DEF Turning, Shown, Parked
    <2> QED BY <1>1, <1>2, <2>1, <2>3, <2>4 DEF AppInv, AppTypeOK
  <1>4. CASE PmRun
    <2>1. /\ Shown(heap) => GetTail(heap, Stack) = page1
          /\ Parked(heap) => GetTail(heap, Stack) = NULL
      BY DEF GetTail, Shown, Parked
    <2>2. GetTail(heap, Stack) \in Nodes \cup {NULL}
      BY <1>1, <2>1, App DEF Turning
    <2>3. /\ TypeOK' /\ heap' = heap /\ ~ release'
          /\ pageTop' = GetTail(heap, Stack) /\ pageWillDisappear' = NULL
          /\ obj' = obj /\ lost' = lost /\ fault' = fault
      BY <1>1, <1>4, <2>2, RunType DEF Turning
    <2>4. Turning'
      BY <1>1, <2>1, <2>3 DEF Turning, Shown, Parked
    <2> QED BY <1>1, <1>2, <2>3, <2>4 DEF AppInv, AppTypeOK
  <1> QED BY <1>3, <1>4 DEF Loop

LEMMA AppNextInv == ASSUME AppInv, [AppNext]_appVars PROVE AppInv'
  <1>1. CASE PagesInit
    <2>1. CASE begun = 0 /\ PmRegisterPage(page1)
      BY <1>1, <2>1, App, RegisterInv DEF PagesInit
    <2>2. CASE begun = 1 /\ PmRegisterPage(page2)
      BY <1>1, <2>2, App, RegisterInv DEF PagesInit
    <2>3. CASE begun = 2 /\ PmRegisterPage(page3)
      BY <1>1, <2>3, App, RegisterInv DEF PagesInit
    <2>4. CASE begun = 3 /\ PmStackPushPage(page1, "OVER")
      BY <1>1, <2>4, FirstPushInv DEF PagesInit
    <2> QED BY <1>1, <2>1, <2>2, <2>3, <2>4 DEF PagesInit
  <1>2. CASE TimerCb
    <2>1. begun = 4 /\ begun' = 4 /\ count' \in 0 .. CountMod - 1
      <3>1. \A n \in Nat \ {0}, c \in Nat : (c + 1) % n \in 0 .. n - 1
        OBVIOUS
      <3> QED BY <1>2, <3>1, AppAssumption DEF TimerCb, AppInv, AppTypeOK
    <2>2. CASE PmStackPageBackstage(NULL, "OVER")
      BY <2>1, <2>2, BackstageInv
    <2>3. CASE PmStackPushPage(page1, "OVER")
      BY <2>1, <2>3, PushInv
    <2> QED BY <1>2, <2>2, <2>3 DEF TimerCb
  <1>3. CASE Loop
    BY <1>3, LoopInv
  <1>4. CASE UNCHANGED appVars
    BY <1>4 DEF appVars, app, vars, ctrl, screen, loop, AppInv, AppTypeOK, TypeOK,
                Beginning, Turning, Shown, Parked
  <1> QED BY <1>1, <1>2, <1>3, <1>4 DEF AppNext

LEMMA AppCorrect == AppSpec => [](AppTypeOK /\ NeverStops /\ OneClock)
  <1>1. AppInit => AppInv
    BY AppInitInv
  <1>2. AppInv /\ [AppNext]_appVars => AppInv'
    BY AppNextInv
  <1>3. AppInv => AppTypeOK /\ NeverStops /\ OneClock
    <2>1. AppInv => begun < 4 \/ begun = 4
      BY DEF AppInv, AppTypeOK
    <2> QED BY <2>1 DEF AppInv, NeverStops, OneClock, Beginning, Turning
  <1> QED BY <1>1, <1>2, <1>3, PTL DEF AppSpec

(* Whatever the width of the lengths and of the timer's counter, they and  *)
(* the lists of the shipped program keep their types.                      *)
THEOREM PagesAppTypeOK == AppSpec => []AppTypeOK
  BY AppCorrect, PTL

(* pages.c pushes a page that is still linked in the backstage, and yet no *)
(* walk of the page manager goes astray in this program.                   *)
THEOREM PagesAppNeverStops == AppSpec => []NeverStops
  BY AppCorrect, PTL

(* Parking and pushing page1 for ever makes one object of one page.        *)
THEOREM PagesAppOneClock == AppSpec => []OneClock
  BY AppCorrect, PTL
=============================================================================
