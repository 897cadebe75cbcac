------------------------- MODULE PageManagerProofs -------------------------
(***************************************************************************)
(* Safety of the page manager for any number of pages, any callbacks and   *)
(* any styles, for a client that does not push a page that is in the       *)
(* backstage (PushRestores): see README for what each theorem says.        *)
(***************************************************************************)
EXTENDS PageManager, NodeHeapProofs

(* The book-keeping of a transition in pm_ctrl. *)
TransitionKept ==
  /\ timeline = (status = "RUNNING")
  /\ status = "IDLE" => pageWillDisappear = NULL /\ ~ release
  /\ pageWillDisappear \in obj \cup {NULL}
  /\ release /\ pageWillDisappear # NULL => heap.owner[pageWillDisappear] = Pool

(* A page in use has an object. *)
ListedHaveObjects ==
  \A p \in Nodes : heap.owner[p] \in {Stack, Backstage} => p \in obj

(* Whatever neither is on top nor goes is hidden, in a transition as well; *)
(* no animation touches that.                                              *)
OthersHidden ==
  /\ \A p \in obj : p \notin {pageTop, pageWillDisappear} => "hidden" \in look[p]
  /\ \A m \in motion : m[2] # "hidden"

(* The loops of pm_stack_back_home_page stay in the list they walk, though *)
(* they take the page at the cursor out of it.                             *)
LoopInList ==
  /\ pc # "ready" => status = "IDLE"
  /\ pc = "parked" => cursor \in Members(heap, Backstage) \cup {Backstage}
  /\ pc = "middle" => cursor \in Members(heap, Stack) \cup {Stack}

IInv ==
  /\ TypeOK
  /\ ListsWellFormed
  /\ TopIsTail
  /\ AnimatedObjectsLive
  /\ TransitionKept
  /\ ListedHaveObjects
  /\ OthersHidden
  /\ LoopInList

(* No call is being taken apart after the step. *)
AtRest ==
  /\ pc' = "ready"
  /\ cursor' \in Cells \cup {NULL}
  /\ style' \in Styles \cup {"NONE"}

USE ListAssumption, CellAssumption, ClientAssumption

LEMMA InitIInv == Init => IInv
<1> SUFFICES ASSUME Init PROVE IInv
  OBVIOUS
<1>1. heap \in Heaps /\ WellFormed(heap)
  BY EmptyHeapWellFormed DEF Init
<1>2. TypeOK
  BY <1>1 DEF Init, TypeOK, Marks
<1>3. GetTail(heap, Stack) = NULL /\ \A p \in Nodes : heap.owner[p] = NULL
  BY DEF Init, EmptyHeap, GetTail
<1> QED
  BY <1>1, <1>2, <1>3
     DEF IInv, Init, ListsWellFormed, TopIsTail, AnimatedObjectsLive, TransitionKept,
         ListedHaveObjects, OthersHidden, LoopInList

(* A call that only returns, and a thread that stops. *)
LEMMA NothingDoneKeeps ==
  ASSUME IInv, AtRest,
         UNCHANGED <<heap, ctrl, screen>>,
         ret' \in {"VOID", "OK", "FAIL", "NOT_FOUND", "DOUBLE_PAGE", "NO_PAGE", "BUSY"},
         fault' \in {"none", "hang", "crash"}
  PROVE  IInv'
<1>1. TypeOK'
  BY DEF IInv, TypeOK, AtRest, ctrl, screen
<1> QED
  BY <1>1 DEF IInv, AtRest, ctrl, screen, ListsWellFormed, TopIsTail, AnimatedObjectsLive,
              TransitionKept, ListedHaveObjects, OthersHidden, LoopInList

-----------------------------------------------------------------------------
(* Transitions. *)

(* A timeline moves only objects that exist, and does not hide any. *)
LEMMA MovementsType ==
  ASSUME NEW objs \in SUBSET Nodes, NEW looks \in [Nodes -> SUBSET Marks],
         NEW new \in Nodes \cup {NULL}, NEW old \in Nodes \cup {NULL},
         new # NULL \/ old # NULL,
         new \in objs \cup {NULL}, old \in objs \cup {NULL},
         NEW s, NEW away \in BOOLEAN, NEW small \in BOOLEAN,
         NEW m \in Movements(s, Object(new, objs), Object(old, objs), away, small, looks)
  PROVE  /\ m \in Nodes \X Marks \X BOOLEAN
         /\ m[1] \in objs
         /\ m[2] # "hidden"
<1>1. Object(new, objs) = new /\ Object(old, objs) = old
  BY DEF Object
<1> DEFINE mover == IF old # NULL THEN old ELSE new
<1>2. mover \in Nodes /\ mover \in objs
  OBVIOUS
<1>3. \/ s \in Over /\ m = <<mover, "away", away>>
      \/ new # NULL /\ m = <<new, "away", away>>
      \/ old # NULL /\ m = <<old, "away", TRUE>>
      \/ m = <<mover, "small", small>>
      \/ new # NULL /\ m = <<new, "faint", "faint" \in looks[new]>>
      \/ old # NULL /\ m = <<old, "faint", TRUE>>
  <2> HIDE DEF mover
  <2> DEFINE M == Movements(s, new, old, away, small, looks)
  <2>1. M = CASE s \in Over  -> {<<mover, "away", away>>}
              [] s \in Pushy -> IF new # NULL /\ old # NULL
                                THEN {<<new, "away", away>>, <<old, "away", TRUE>>}
                                ELSE {}
              [] s = "SIZE"  -> {<<mover, "small", small>>}
              [] s = "FADE_IN"  -> IF new # NULL
                                   THEN {<<new, "faint", "faint" \in looks[new]>>}
                                   ELSE {}
              [] s = "FADE_OUT" -> IF old # NULL THEN {<<old, "faint", TRUE>>} ELSE {}
              [] OTHER -> {}
    BY DEF Movements, mover, PmAnimOver, PmAnimPush, PmAnimSize, PmAnimFadeIn, PmAnimFadeOut
  <2>2. m \in M
    BY <1>1
  <2> HIDE DEF M
  <2>3. CASE s \in Over
    BY <2>1, <2>2, <2>3 DEF Over, Pushy
  <2>4. CASE s \in Pushy
    BY <2>1, <2>2, <2>4 DEF Over, Pushy
  <2>5. CASE s = "SIZE"
    BY <2>1, <2>2, <2>5 DEF Over, Pushy
  <2>6. CASE s = "FADE_IN"
    BY <2>1, <2>2, <2>6 DEF Over, Pushy
  <2>7. CASE s = "FADE_OUT"
    BY <2>1, <2>2, <2>7 DEF Over, Pushy
  <2>8. CASE s \notin Over \cup Pushy \cup {"SIZE", "FADE_IN", "FADE_OUT"}
    BY <2>1, <2>2, <2>8
  <2> QED
    BY <2>3, <2>4, <2>5, <2>6, <2>7, <2>8
<1> HIDE DEF mover
<1>4. ASSUME NEW p \in Nodes \cap objs, NEW k \in Marks \ {"hidden"}, NEW e \in BOOLEAN,
             m = <<p, k, e>>
      PROVE  m \in Nodes \X Marks \X BOOLEAN /\ m[1] \in objs /\ m[2] # "hidden"
  BY <1>4
<1> DEFINE faint == "faint" \in looks[new]
<1>5. faint \in BOOLEAN
  OBVIOUS
<1>6. \/ m = <<mover, "away", away>>
      \/ new # NULL /\ m = <<new, "away", away>>
      \/ old # NULL /\ m = <<old, "away", TRUE>>
      \/ m = <<mover, "small", small>>
      \/ new # NULL /\ m = <<new, "faint", faint>>
      \/ old # NULL /\ m = <<old, "faint", TRUE>>
  BY <1>3
<1> HIDE DEF faint
<1>7. /\ "away" \in Marks \ {"hidden"}
      /\ "small" \in Marks \ {"hidden"}
      /\ "faint" \in Marks \ {"hidden"}
  BY DEF Marks
<1>8. new # NULL => new \in Nodes \cap objs
  OBVIOUS
<1>9. old # NULL => old \in Nodes \cap objs
  OBVIOUS
<1> QED
  BY <1>2, <1>4, <1>5, <1>6, <1>7, <1>8, <1>9

LEMMA LooksType ==
  ASSUME TypeOK, NEW new, NEW created, NEW moves
  PROVE  /\ Uncovered(new, created) \in [Nodes -> SUBSET Marks]
         /\ \A looks \in [Nodes -> SUBSET Marks] :
              /\ UnderWay(looks, moves) \in [Nodes -> SUBSET Marks]
              /\ LastFrame(looks, moves) \in [Nodes -> SUBSET Marks]
BY DEF TypeOK, Uncovered, UnderWay, LastFrame

(* What the lists and the pages named must be for a transition to begin or *)
(* to end well: the heap h it leaves, the page that enters, the page that  *)
(* goes.                                                                   *)
Landing(h, new, old, rel, created) ==
  /\ h \in Heaps /\ WellFormed(h)
  /\ new \in {NULL, GetTail(h, Stack)}
  /\ rel \in BOOLEAN
  /\ created \subseteq Nodes
  /\ new \in obj \cup created \cup {NULL}
  /\ old \in obj \cup {NULL}
  /\ old # NULL /\ rel => h.owner[old] = Pool
  /\ \A p \in Nodes : h.owner[p] \in {Stack, Backstage} => p \in obj \cup created
  /\ created \subseteq {new}

LEMMA TailType ==
  ASSUME NEW h \in Heaps, WellFormed(h), NEW l \in Roots
  PROVE  GetTail(h, l) \in Nodes \cup {NULL}
         /\ (GetTail(h, l) # NULL => h.owner[GetTail(h, l)] = l)
BY EndsAreMembers DEF GetTail, IsEmpty, Members

LEMMA AnimStartKeeps ==
  ASSUME IInv, AtRest, status = "IDLE",
         NEW h, NEW new, NEW old, NEW rel, NEW created, NEW s,
         NEW away \in BOOLEAN, NEW small \in BOOLEAN,
         Landing(h, new, old, rel, created),
         new # NULL \/ old # NULL,
         pageTop \in {NULL, old},
         fault = "none",
         AnimStart(h, new, old, rel, created, s, away, small)
  PROVE  IInv'
<1>1. CASE s = "NONE"
  <2>1. UNCHANGED <<heap, ctrl, screen, ret>> /\ fault' = "crash"
    BY <1>1 DEF AnimStart, Stop
  <2>2. ret' \in {"VOID", "OK", "FAIL", "NOT_FOUND", "DOUBLE_PAGE", "NO_PAGE", "BUSY"}
    BY <2>1 DEF IInv, TypeOK
  <2> QED
    BY <2>1, <2>2, NothingDoneKeeps
<1>2. CASE s # "NONE"
  <2> DEFINE objs == obj \cup created
             looks == Uncovered(new, created)
             moves == Movements(s, Object(new, objs), Object(old, objs), away, small, looks)
  <2>1. /\ heap' = h
        /\ status' = "RUNNING" /\ timeline' = TRUE /\ release' = rel
        /\ pageTop' = new /\ pageWillDisappear' = old
        /\ obj' = objs /\ lost' = lost \cup (created \cap obj)
        /\ motion' = moves
        /\ look' = UnderWay(looks, moves)
        /\ ret' = "OK" /\ fault' = fault
    BY <1>2 DEF AnimStart
  <2>2. new \in Nodes \cup {NULL} /\ old \in Nodes \cup {NULL} /\ objs \in SUBSET Nodes
    BY TailType DEF Landing, IInv, TypeOK
  <2>3. looks \in [Nodes -> SUBSET Marks] /\ look' \in [Nodes -> SUBSET Marks]
    BY <2>1, LooksType DEF IInv
  <2>4. \A m \in moves : m \in Nodes \X Marks \X BOOLEAN /\ m[1] \in objs /\ m[2] # "hidden"
    <3> HIDE DEF looks, objs
    <3>1. new \in objs \cup {NULL} /\ old \in objs \cup {NULL}
      BY DEF objs, Landing
    <3> QED
      BY <2>2, <2>3, <3>1, MovementsType
  <2>5. TypeOK'
    <3> HIDE DEF looks, moves
    <3>1. motion' \in SUBSET (Nodes \X Marks \X BOOLEAN)
      BY <2>1, <2>4
    <3> QED
      BY <2>1, <2>2, <2>3, <3>1 DEF Landing, AtRest, IInv, TypeOK
  <2>6. OthersHidden'
    <3>1. ASSUME NEW p \in objs, p \notin {new, old} PROVE "hidden" \in looks[p]
      BY <2>2, <3>1 DEF Landing, Uncovered, IInv, OthersHidden, TransitionKept, TypeOK
    <3>2. ASSUME NEW p \in objs, p \notin {new, old} PROVE "hidden" \in UnderWay(looks, moves)[p]
      BY <2>2, <3>1, <3>2 DEF UnderWay
    <3> HIDE DEF looks, moves
    <3> QED
      BY <2>1, <2>4, <3>2 DEF OthersHidden
  <2>7. AnimatedObjectsLive'
    <3> HIDE DEF looks, moves
    <3> QED
      BY <2>1, <2>4 DEF AnimatedObjectsLive
  <2>8. ListsWellFormed' /\ TopIsTail'
    BY <2>1 DEF Landing, ListsWellFormed, TopIsTail
  <2>9. TransitionKept' /\ ListedHaveObjects'
    BY <2>1 DEF Landing, TransitionKept, ListedHaveObjects
  <2>10. LoopInList'
    BY DEF LoopInList, AtRest
  <2> QED
    BY <2>5, <2>6, <2>7, <2>8, <2>9, <2>10 DEF IInv
<1> QED
  BY <1>1, <1>2

LEMMA AnimDoneKeeps ==
  ASSUME IInv, AtRest, fault = "none",
         NEW h, NEW new, NEW old, NEW rel, NEW created,
         NEW code \in {"OK", "VOID"},
         Landing(h, new, old, rel, created),
         pageTop \in {NULL, old, GetTail(h, Stack)},
         pageWillDisappear \in {NULL, old},
         AnimDone(h, new, old, rel, created, code)
  PROVE  IInv'
<1> DEFINE objs  == obj \cup created
           looks == Uncovered(new, created)
           freed == {p \in HasRelease : rel /\ p = old}
           top   == GetTail(h, Stack)
<1>1. /\ heap' = h
      /\ status' = "IDLE" /\ timeline' = FALSE /\ release' = FALSE
      /\ pageTop' = top /\ pageWillDisappear' = NULL
      /\ obj' = objs \ freed /\ lost' = lost \cup (created \cap obj)
      /\ motion' = {}
      /\ look' = [p \in Nodes |->
                    CASE p \in freed -> {}
                      [] p = old /\ p \notin freed -> (looks[p] \ {"away"}) \cup {"hidden"}
                      [] OTHER -> looks[p]]
      /\ ret' = code /\ fault' = fault
  BY DEF AnimDone, Settled, Landing
<1>2. looks \in [Nodes -> SUBSET Marks] /\ "hidden" \in Marks
  BY LooksType DEF IInv, Marks
<1>3. top \in Nodes \cup {NULL} /\ objs \in SUBSET Nodes
  BY TailType DEF Landing, IInv, TypeOK
<1>4. TypeOK'
  <2> HIDE DEF looks, freed, top
  <2>1. look' \in [Nodes -> SUBSET Marks]
    BY <1>1, <1>2
  <2> QED
    BY <1>1, <1>3, <2>1 DEF Landing, AtRest, IInv, TypeOK
<1>5. OthersHidden'
  <2>1. ASSUME NEW p \in obj' , p # top PROVE "hidden" \in look'[p]
    <3>1. p \in Nodes /\ p \in objs /\ p \notin freed
      BY <1>1, <1>3
    <3>2. CASE p = old
      <4> HIDE DEF looks, freed, top, objs
      <4> QED
        BY <1>1, <3>1, <3>2
    <3>3. CASE p # old
      <4>1. p \notin {pageTop, pageWillDisappear, new} /\ p \in obj \ created
        BY <1>3, <2>1, <3>1, <3>3 DEF Landing
      <4>2. "hidden" \in look[p]
        BY <4>1 DEF IInv, OthersHidden
      <4>3. looks[p] = look[p]
        BY <3>1, <4>1 DEF Uncovered
      <4>4. look'[p] = looks[p]
        <5> HIDE DEF looks, freed, top, objs
        <5> QED
          BY <1>1, <3>1, <3>3
      <4> QED
        BY <4>2, <4>3, <4>4
    <3> QED
      BY <3>2, <3>3
  <2> HIDE DEF looks, freed, top, objs
  <2> QED
    BY <1>1, <2>1 DEF OthersHidden
<1>6. ListsWellFormed' /\ TopIsTail'
  BY <1>1 DEF Landing, ListsWellFormed, TopIsTail
<1>7. AnimatedObjectsLive' /\ TransitionKept'
  BY <1>1 DEF AnimatedObjectsLive, TransitionKept
<1>8. ListedHaveObjects'
  BY <1>1 DEF Landing, ListedHaveObjects
<1>9. LoopInList'
  BY DEF LoopInList, AtRest
<1> QED
  BY <1>4, <1>5, <1>6, <1>7, <1>8, <1>9 DEF IInv

-----------------------------------------------------------------------------
(* Operations. *)

(* Between transitions. *)
LEMMA IdleFacts ==
  ASSUME IInv, status = "IDLE"
  PROVE  /\ pageTop = GetTail(heap, Stack)
         /\ pageTop \in Nodes \cup {NULL}
         /\ pageTop # NULL => heap.owner[pageTop] = Stack /\ pageTop \in obj
         /\ pageTop = NULL <=> IsEmpty(heap, Stack)
         /\ pageWillDisappear = NULL
         /\ heap \in Heaps /\ WellFormed(heap)
         /\ \A p \in Nodes : heap.owner[p] \in {Stack, Backstage} => p \in obj
<1>1. /\ pageTop = GetTail(heap, Stack)
      /\ heap \in Heaps /\ WellFormed(heap)
      /\ pageWillDisappear = NULL
  BY DEF IInv, TopIsTail, ListsWellFormed, TypeOK, TransitionKept
<1>2. /\ pageTop \in Nodes \cup {NULL}
      /\ pageTop # NULL => heap.owner[pageTop] = Stack
  BY <1>1, TailType
<1>3. \A p \in Nodes : heap.owner[p] \in {Stack, Backstage} => p \in obj
  BY DEF IInv, ListedHaveObjects
<1>4. pageTop = NULL <=> IsEmpty(heap, Stack)
  BY <1>1, EndsAreMembers DEF GetTail, IsEmpty, Members
<1> QED
  BY <1>1, <1>2, <1>3, <1>4

(* In well formed lists a search finds the list that owns the page. *)
LEMMA SearchFindsOwner ==
  ASSUME IInv, NEW p \in Nodes
  PROVE  Search(p) = IF heap.owner[p] = NULL THEN "absent" ELSE heap.owner[p]
<1>1. heap \in Heaps /\ WellFormed(heap)
  BY DEF IInv, TypeOK, ListsWellFormed
<1>2. \A l \in Roots : WalkResult(heap, l, p) = IF heap.owner[p] = l THEN "found" ELSE "absent"
  BY <1>1, WalkFindsMembers
<1>3. heap.owner[p] \in {Pool, Stack, Backstage, NULL}
  BY <1>1, HeapFields
<1> QED
  BY <1>2, <1>3 DEF Search

LEMMA EnterKeeps ==
  ASSUME IInv, AtRest, status = "IDLE", fault = "none",
         NEW h, NEW p \in Nodes, NEW old, NEW rel, NEW created, NEW s, NEW away \in BOOLEAN,
         Landing(h, p, old, rel, created), old \in {NULL, pageTop}, pageTop \in {NULL, old},
         Enter(h, p, old, rel, created, s, away)
  PROVE  IInv'
<1>1. p \in obj \cup created /\ p # NULL
  BY DEF Landing
<1>2. pageWillDisappear = NULL
  BY IdleFacts
<1>3. CASE p \in HasAppearing \/ s \in Over \cup Pushy \cup {"SIZE", "FADE_IN"}
  <2>1. AnimStart(h, p, old, rel, created, s, away, IsSmall(p, created))
    BY <1>1, <1>3 DEF Enter
  <2>2. IsSmall(p, created) \in BOOLEAN
    BY DEF IsSmall
  <2> QED
    BY <1>1, <2>1, <2>2, AnimStartKeeps
<1>4. CASE ~ (p \in HasAppearing \/ s \in Over \cup Pushy \cup {"SIZE", "FADE_IN"})
  <2>1. AnimDone(h, p, old, rel, created, "OK")
    BY <1>1, <1>4 DEF Enter
  <2> QED
    BY <1>2, <2>1, AnimDoneKeeps
<1> QED
  BY <1>3, <1>4

LEMMA ReturnKeeps ==
  ASSUME IInv, AtRest, NEW code \in {"OK", "FAIL", "NOT_FOUND", "DOUBLE_PAGE", "NO_PAGE", "BUSY"},
         Return(code)
  PROVE  IInv'
<1>1. UNCHANGED <<heap, ctrl, screen>> /\ fault' = fault /\ ret' = code
  BY DEF Return
<1>2. fault' \in {"none", "hang", "crash"}
  BY <1>1 DEF IInv, TypeOK
<1> QED
  BY <1>1, <1>2, NothingDoneKeeps

LEMMA StopKeeps ==
  ASSUME IInv, AtRest, NEW kind \in {"hang", "crash"}, Stop(kind)
  PROVE  IInv'
<1>1. UNCHANGED <<heap, ctrl, screen>> /\ fault' = kind /\ ret' = ret
  BY DEF Stop
<1>2. ret' \in {"VOID", "OK", "FAIL", "NOT_FOUND", "DOUBLE_PAGE", "NO_PAGE", "BUSY"}
  BY <1>1 DEF IInv, TypeOK
<1> QED
  BY <1>1, <1>2, NothingDoneKeeps

LEMMA BusyKeeps ==
  ASSUME IInv, AtRest, Busy
  PROVE  IInv'
BY ReturnKeeps DEF Busy

LEMMA ReadyRests ==
  ASSUME IInv, Ready, UNCHANGED loop
  PROVE  AtRest
BY DEF IInv, TypeOK, Ready, loop, AtRest

LEMMA PushKeeps ==
  ASSUME IInv, ~ PushRestores, NEW p \in Nodes, NEW s \in Styles, PmStackPushPage(p, s)
  PROVE  IInv'
<1> DEFINE h == AddTail(DeleteItem(heap, Pool, p), Stack, p)
           away == s \in {"OVER_BOTTOM_TO_TOP", "PUSH_BOTTOM_TO_TOP"}
           place == Search(p)
<1>1. AtRest /\ Ready
  BY ReadyRests DEF PmStackPushPage, Busy, Idle
<1>2. CASE Busy
  BY <1>1, <1>2, BusyKeeps
<1>3. CASE Idle /\ place = Stack /\ Return("DOUBLE_PAGE")
  BY <1>1, <1>3, ReturnKeeps
<1>4. CASE Idle /\ place = Pool /\ Enter(h, p, pageTop, FALSE, {p}, s, away)
  <2>1. status = "IDLE" /\ fault = "none"
    BY <1>4 DEF Idle, Ready
  <2>2. heap \in Heaps /\ WellFormed(heap) /\ heap.owner[p] = Pool
    BY <1>4, <2>1, IdleFacts, SearchFindsOwner
  <2>3. /\ h \in Heaps /\ WellFormed(h)
        /\ h.owner = [heap.owner EXCEPT ![p] = Stack]
        /\ GetTail(h, Stack) = p
    BY <2>2, MovePreserves
  <2> HIDE DEF h
  <2>4. \A q \in Nodes : h.owner[q] = IF q = p THEN Stack ELSE heap.owner[q]
    BY <2>2, <2>3, HeapFields
  <2>5. Landing(h, p, pageTop, FALSE, {p})
    BY <2>1, <2>3, <2>4, IdleFacts DEF Landing
  <2>6. away \in BOOLEAN
    OBVIOUS
  <2> HIDE DEF away
  <2> QED
    BY <1>1, <1>4, <2>1, <2>5, <2>6, EnterKeeps
<1>5. CASE Idle /\ place = "absent" /\ Return("NOT_FOUND")
  BY <1>1, <1>5, ReturnKeeps
<1>6. CASE Idle /\ place \in {"hang", "crash"} /\ Stop(place)
  BY <1>1, <1>6, StopKeeps
<1> QED
  BY <1>2, <1>3, <1>4, <1>5, <1>6 DEF PmStackPushPage

(* The rearrangement pm_stack_replace_page makes. *)
LEMMA ReplacedHeap ==
  ASSUME IInv, status = "IDLE", NEW p \in Nodes, NEW place \in {Pool, Backstage},
         heap.owner[p] = place
  PROVE  LET taken   == DeleteItem(heap, place, p)
             cleared == IF IsEmpty(heap, Stack) THEN taken
                        ELSE AddTail(DeleteItem(taken, Stack, pageTop), Pool, pageTop)
             h       == AddTail(cleared, Stack, p)
         IN  /\ h \in Heaps /\ WellFormed(h)
             /\ GetTail(h, Stack) = p
             /\ \A q \in Nodes : h.owner[q] = CASE q = p -> Stack
                                               [] q # p /\ q = pageTop -> Pool
                                               [] OTHER -> heap.owner[q]
<1> DEFINE taken   == DeleteItem(heap, place, p)
           cleared == IF IsEmpty(heap, Stack) THEN taken
                      ELSE AddTail(DeleteItem(taken, Stack, pageTop), Pool, pageTop)
           h       == AddTail(cleared, Stack, p)
<1>1. /\ heap \in Heaps /\ WellFormed(heap)
      /\ pageTop \in Nodes \cup {NULL}
      /\ pageTop # NULL => heap.owner[pageTop] = Stack
      /\ pageTop = NULL <=> IsEmpty(heap, Stack)
  BY IdleFacts
<1>2. /\ taken \in Heaps /\ WellFormed(taken)
      /\ taken.owner = [heap.owner EXCEPT ![p] = NULL]
  <2>1. heap \in Heaps /\ WellFormed(heap) /\ place \in Roots /\ heap.owner[p] = place
    BY <1>1
  <2> QED
    BY ONLY <2>1, p \in Nodes, DeleteItemPreserves
<1> HIDE DEF taken
<1>3. \A q \in Nodes : taken.owner[q] = IF q = p THEN NULL ELSE heap.owner[q]
  BY <1>1, <1>2, HeapFields
<1>4. /\ cleared \in Heaps /\ WellFormed(cleared)
      /\ \A q \in Nodes : cleared.owner[q] = CASE q = p -> NULL
                                              [] q # p /\ q = pageTop -> Pool
                                              [] OTHER -> heap.owner[q]
  <2>1. CASE pageTop = NULL
    BY <1>1, <1>2, <1>3, <2>1
  <2>2. CASE pageTop # NULL
    <3>1. pageTop \in Nodes /\ pageTop # p /\ taken.owner[pageTop] = Stack
      BY <1>1, <1>3, <2>2
    <3> DEFINE c == AddTail(DeleteItem(taken, Stack, pageTop), Pool, pageTop)
    <3>2. c \in Heaps /\ WellFormed(c) /\ c.owner = [taken.owner EXCEPT ![pageTop] = Pool]
      BY <1>2, <3>1, MovePreserves
    <3>3. cleared = c
      BY <1>1, <2>2
    <3> HIDE DEF c, cleared
    <3> QED
      BY <1>2, <1>3, <3>1, <3>2, <3>3, HeapFields
  <2> QED
    BY <2>1, <2>2
<1> HIDE DEF cleared
<1>5. cleared.owner[p] = NULL
  BY <1>4
<1>6. /\ h \in Heaps /\ WellFormed(h) /\ GetTail(h, Stack) = p
      /\ h.owner = [cleared.owner EXCEPT ![p] = Stack]
  BY <1>4, <1>5, AddTailPreserves, TailOfAdded
<1> HIDE DEF h
<1>7. \A q \in Nodes : h.owner[q] = CASE q = p -> Stack
                                    [] q # p /\ q = pageTop -> Pool
                                    [] OTHER -> heap.owner[q]
  BY <1>4, <1>6, HeapFields
<1> QED
  BY <1>6, <1>7 DEF h, cleared, taken

LEMMA ReplaceKeeps ==
  ASSUME IInv, NEW p \in Nodes, NEW s \in Styles, PmStackReplacePage(p, s)
  PROVE  IInv'
<1> DEFINE place   == Search(p)
           taken   == DeleteItem(heap, place, p)
           cleared == IF IsEmpty(heap, Stack) THEN taken
                      ELSE AddTail(DeleteItem(taken, Stack, pageTop), Pool, pageTop)
           old     == IF IsEmpty(heap, Stack) THEN NULL ELSE pageTop
           h       == AddTail(cleared, Stack, p)
<1>1. AtRest /\ Ready
  BY ReadyRests DEF PmStackReplacePage, Busy, Idle
<1>2. CASE Busy
  BY <1>1, <1>2, BusyKeeps
<1>3. CASE Idle /\ place = Stack /\ Return("DOUBLE_PAGE")
  BY <1>1, <1>3, ReturnKeeps
<1>4. ASSUME NEW created, Idle, place \in {Pool, Backstage},
             place = Pool => created = {p}, place = Backstage => created = {},
             Enter(h, p, old, TRUE, created, s, FALSE)
      PROVE  IInv'
  <2>1. status = "IDLE" /\ fault = "none"
    BY <1>4 DEF Idle, Ready
  <2>2. heap.owner[p] = place
    BY <1>4, SearchFindsOwner
  <2>3. /\ h \in Heaps /\ WellFormed(h)
        /\ GetTail(h, Stack) = p
        /\ \A q \in Nodes : h.owner[q] = CASE q = p -> Stack
                                          [] q # p /\ q = pageTop -> Pool
                                          [] OTHER -> heap.owner[q]
    <3> HIDE DEF place
    <3> QED
      BY <1>4, <2>1, <2>2, ReplacedHeap
  <2>4. old = pageTop
    BY <2>1, IdleFacts
  <2> HIDE DEF h, place, old
  <2>5. pageTop # p
    BY <1>4, <2>1, <2>2, IdleFacts
  <2>6. Landing(h, p, old, TRUE, created)
    BY <1>4, <2>1, <2>2, <2>3, <2>4, <2>5, IdleFacts DEF Landing
  <2> QED
    BY <1>1, <1>4, <2>1, <2>4, <2>6, EnterKeeps
<1>5. CASE Idle /\ place = "absent" /\ Return("NOT_FOUND")
  BY <1>1, <1>5, ReturnKeeps
<1>6. CASE Idle /\ place \in {"hang", "crash"} /\ Stop(place)
  BY <1>1, <1>6, StopKeeps
<1> HIDE DEF h, place, old
<1>7. CASE Idle /\ place = Backstage /\ Enter(h, p, old, TRUE, {}, s, FALSE)
  BY <1>4, <1>7
<1>8. CASE Idle /\ place = Pool /\ Enter(h, p, old, TRUE, {p}, s, FALSE)
  BY <1>4, <1>8
<1> QED
  BY <1>2, <1>3, <1>5, <1>6, <1>7, <1>8 DEF PmStackReplacePage, h, place, old

LEMMA LeaveKeeps ==
  ASSUME IInv, AtRest, status = "IDLE", fault = "none",
         NEW p \in Nodes, heap.owner[p] = Stack,
         NEW list \in {Pool, Backstage}, NEW rel \in BOOLEAN, rel <=> list = Pool,
         NEW s, NEW animated,
         Leave(Moved(p, list), p, rel, s, animated)
  PROVE  IInv'
<1> DEFINE h == Moved(p, list)
<1>1. /\ heap \in Heaps /\ WellFormed(heap)
      /\ pageTop = GetTail(heap, Stack) /\ pageTop \in Nodes \cup {NULL}
      /\ pageWillDisappear = NULL
      /\ \A q \in Nodes : heap.owner[q] \in {Stack, Backstage} => q \in obj
  BY IdleFacts
<1>2. /\ h \in Heaps /\ WellFormed(h)
      /\ h.owner = [heap.owner EXCEPT ![p] = list]
      /\ p # pageTop => GetTail(h, Stack) = pageTop
  BY <1>1, MovePreserves DEF Moved
<1> HIDE DEF h
<1>3. \A q \in Nodes : h.owner[q] = IF q = p THEN list ELSE heap.owner[q]
  BY <1>1, <1>2, HeapFields
<1>4. Landing(h, NULL, p, rel, {}) /\ p # NULL
  BY <1>1, <1>2, <1>3 DEF Landing
<1>5. CASE p = pageTop /\ (p \in HasDisappearing \/ s \in animated)
  <2>1. AnimStart(h, NULL, p, rel, {}, s, TRUE, TRUE)
    BY <1>5 DEF Leave, h
  <2> QED
    BY <1>4, <1>5, <2>1, AnimStartKeeps
<1>6. CASE ~ (p = pageTop /\ (p \in HasDisappearing \/ s \in animated))
  <2>1. AnimDone(h, NULL, p, rel, {}, "OK")
    BY <1>6 DEF Leave, h
  <2>2. pageTop \in {NULL, p, GetTail(h, Stack)}
    BY <1>2
  <2> QED
    BY <1>1, <1>4, <2>1, <2>2, AnimDoneKeeps
<1> QED
  BY <1>5, <1>6

LEMMA PopToKeeps ==
  ASSUME IInv, AtRest, status = "IDLE", fault = "none",
         NEW name \in Nodes \cup {NULL},
         NEW list \in {Pool, Backstage}, NEW rel \in BOOLEAN, rel <=> list = Pool,
         NEW s, NEW animated,
         PopTo(name, list, rel, s, animated)
  PROVE  IInv'
<1> DEFINE p == Named(name)
<1>1. CASE Return("NO_PAGE")
  BY <1>1, ReturnKeeps
<1>2. CASE /\ Removable(name) = "found"
           /\ Leave(Moved(p, list), p, rel, s, animated)
  <2>1. heap.owner[p] = Stack /\ p \in Nodes
    <3>1. CASE name = NULL
      BY <1>2, <3>1, IdleFacts DEF Removable, Named
    <3>2. CASE name # NULL
      BY <1>2, <3>2, IdleFacts, WalkFindsMembers DEF Removable, Named
    <3> QED
      BY <3>1, <3>2
  <2> HIDE DEF p
  <2> QED
    BY <1>2, <2>1, LeaveKeeps
<1>3. CASE Removable(name) \in {"hang", "crash"} /\ Stop(Removable(name))
  BY <1>3, StopKeeps
<1> QED
  BY <1>1, <1>2, <1>3 DEF PopTo

LEMMA PopKeeps ==
  ASSUME IInv, NEW name \in Nodes \cup {NULL}, NEW s \in Styles,
         PmStackPopPage(name, s) \/ PmStackPageBackstage(name, s)
  PROVE  IInv'
<1>1. AtRest /\ fault = "none"
  BY ReadyRests DEF PmStackPopPage, PmStackPageBackstage, Busy, Idle, Ready
<1>2. CASE Busy
  BY <1>1, <1>2, BusyKeeps
<1>3. CASE Idle /\ PopTo(name, Pool, TRUE, s, Over \cup Pushy \cup {"SIZE", "FADE_OUT"})
  BY <1>1, <1>3, PopToKeeps DEF Idle
<1>4. CASE Idle /\ PopTo(name, Backstage, FALSE, s, Over \cup {"SIZE", "FADE_OUT"})
  BY <1>1, <1>4, PopToKeeps DEF Idle
<1> QED
  BY <1>2, <1>3, <1>4 DEF PmStackPopPage, PmStackPageBackstage

LEMMA RegisterKeeps ==
  ASSUME IInv, NEW p \in Nodes, PmRegisterPage(p)
  PROVE  IInv'
<1>1. /\ heap \in Heaps /\ WellFormed(heap) /\ heap.owner[p] = NULL
      /\ heap' = AddTail(heap, Pool, p) /\ ret' = "OK"
      /\ UNCHANGED <<ctrl, screen, loop, fault>> /\ Ready
  BY DEF PmRegisterPage, IInv, TypeOK, ListsWellFormed
<1>2. /\ heap' \in Heaps /\ WellFormed(heap')
      /\ heap'.owner = [heap.owner EXCEPT ![p] = Pool]
      /\ GetTail(heap', Stack) = GetTail(heap, Stack)
  BY <1>1, AddTailPreserves, TailOfAdded
<1>3. \A q \in Nodes : heap'.owner[q] = IF q = p THEN Pool ELSE heap.owner[q]
  BY <1>1, <1>2, HeapFields
<1>4. TypeOK'
  BY <1>1, <1>2 DEF IInv, TypeOK, ctrl, screen, loop
<1>5. ListsWellFormed' /\ TopIsTail' /\ WellFormed(heap)'
  BY <1>1, <1>2 DEF IInv, ListsWellFormed, TopIsTail, ctrl
<1>6. TransitionKept' /\ ListedHaveObjects'
  BY <1>1, <1>3 DEF IInv, TypeOK, TransitionKept, ListedHaveObjects, ctrl, screen
<1>7. AnimatedObjectsLive' /\ OthersHidden'
  BY <1>1 DEF IInv, AnimatedObjectsLive, OthersHidden, ctrl, screen
<1>8. LoopInList'
  BY <1>1 DEF LoopInList, loop, Ready
<1> QED
  BY <1>4, <1>5, <1>6, <1>7, <1>8 DEF IInv

LEMMA LastFrameKeeps ==
  ASSUME IInv, AnimLastFrame
  PROVE  IInv'
<1>1. /\ look' = LastFrame(look, motion) /\ motion' = {} /\ ret' = "VOID"
      /\ UNCHANGED <<heap, ctrl, obj, lost, loop, fault>> /\ Ready
  BY DEF AnimLastFrame
<1>2. look' \in [Nodes -> SUBSET Marks]
  BY <1>1, LooksType DEF IInv, TypeOK
<1>3. TypeOK'
  BY <1>1, <1>2 DEF IInv, TypeOK, ctrl, loop
<1>4. OthersHidden'
  <2>1. ASSUME NEW p \in obj, "hidden" \in look[p] PROVE "hidden" \in LastFrame(look, motion)[p]
    BY <2>1 DEF IInv, OthersHidden, LastFrame, TypeOK
  <2> QED
    BY <1>1, <2>1 DEF IInv, OthersHidden, ctrl
<1>5. ListsWellFormed' /\ TopIsTail' /\ TransitionKept' /\ ListedHaveObjects'
  BY <1>1 DEF IInv, ListsWellFormed, TopIsTail, TransitionKept, ListedHaveObjects, ctrl
<1>6. AnimatedObjectsLive' /\ LoopInList'
  BY <1>1 DEF AnimatedObjectsLive, LoopInList, Ready, loop
<1> QED
  BY <1>3, <1>4, <1>5, <1>6 DEF IInv

LEMMA RunKeeps ==
  ASSUME IInv, PmRun
  PROVE  IInv'
<1>1. /\ AtRest /\ fault = "none"
      /\ AnimDone(heap, NULL, pageWillDisappear, release, {}, "VOID")
  BY ReadyRests DEF PmRun, Ready
<1>2. Landing(heap, NULL, pageWillDisappear, release, {})
  BY DEF Landing, IInv, TypeOK, ListsWellFormed, TransitionKept, ListedHaveObjects
<1>3. pageTop \in {NULL, pageWillDisappear, GetTail(heap, Stack)}
  BY DEF IInv, TopIsTail
<1> QED
  BY <1>1, <1>2, <1>3, AnimDoneKeeps

-----------------------------------------------------------------------------
(* pm_stack_back_home_page. *)

(* The successor of a root or of a member is the root or a member. *)
LEMMA NextInList ==
  ASSUME IInv, NEW l \in Roots, NEW c \in Members(heap, l) \cup {l}
  PROVE  heap.next[c] \in Members(heap, l) \cup {l}
BY DEF IInv, ListsWellFormed, WellFormed, RingsLinked

LEMMA MembersAreCells ==
  ASSUME NEW h, NEW l \in Roots
  PROVE  Members(h, l) \subseteq Nodes /\ Members(h, l) \cup {l} \subseteq Cells
BY DEF Members, Cells

(* One iteration takes the page at the cursor out of the list it walks and *)
(* steps to that page's successor, read before it was taken out.           *)
LEMMA ReleaseAtCursorKeeps ==
  ASSUME IInv, fault = "none", pc # "ready",
         NEW list \in {Stack, Backstage},
         list = Stack <=> pc = "middle", list = Backstage <=> pc = "parked",
         cursor # list, cursor # pageTop,
         ReleaseAtCursor(list)
  PROVE  IInv'
<1>1. /\ status = "IDLE"
      /\ cursor \in Members(heap, list)
  BY DEF IInv, LoopInList, TypeOK
<1>2. cursor \in Nodes /\ heap.owner[cursor] = list
  BY <1>1 DEF Members
<1>3. CASE cursor \notin HasRelease \cap obj
  <2>1. UNCHANGED <<heap, ctrl, screen, ret, loop>> /\ fault' = "crash"
    BY <1>3 DEF ReleaseAtCursor, Stop
  <2> QED
    BY <2>1 DEF IInv, TypeOK, ctrl, screen, loop, ListsWellFormed, TopIsTail, AnimatedObjectsLive,
                TransitionKept, ListedHaveObjects, OthersHidden, LoopInList
<1>4. CASE cursor \in HasRelease \cap obj
  <2> DEFINE h == AddTail(DeleteItem(heap, list, cursor), Pool, cursor)
  <2>1. /\ heap' = h
        /\ obj' = obj \ {cursor}
        /\ look' = [look EXCEPT ![cursor] = {}]
        /\ cursor' = heap.next[cursor]
        /\ UNCHANGED <<ctrl, lost, motion, ret, pc, style, fault>>
    BY <1>4 DEF ReleaseAtCursor
  <2>2. /\ heap \in Heaps /\ WellFormed(heap)
        /\ pageTop = GetTail(heap, Stack)
        /\ pageWillDisappear = NULL
        /\ \A q \in Nodes : heap.owner[q] \in {Stack, Backstage} => q \in obj
    BY <1>1, IdleFacts
  <2>3. /\ h \in Heaps /\ WellFormed(h)
        /\ h.owner = [heap.owner EXCEPT ![cursor] = Pool]
        /\ GetTail(h, Stack) = pageTop
    BY <1>2, <2>2, MovePreserves
  <2> HIDE DEF h
  <2>4. \A q \in Nodes : h.owner[q] = IF q = cursor THEN Pool ELSE heap.owner[q]
    BY <2>2, <2>3, HeapFields
  <2>5. motion = {} /\ ~ release
    BY <1>1 DEF IInv, TransitionKept, AnimatedObjectsLive
  <2>6. /\ cursor' \in Members(heap, list) \cup {list}
        /\ cursor' # cursor
    BY <1>1, <2>1, <2>2, NextInList, NeighboursDiffer
  <2>7. cursor' \in Members(h, list) \cup {list}
    BY <2>4, <2>6 DEF Members
  <2>8. TypeOK'
    <3>1. cursor' \in Cells
      BY <2>6, MembersAreCells
    <3>2. obj' \in SUBSET Nodes /\ look' \in [Nodes -> SUBSET Marks]
      BY <1>2, <2>1 DEF IInv, TypeOK
    <3> QED
      BY <2>1, <2>3, <3>1, <3>2 DEF IInv, TypeOK, ctrl
  <2>9. ListsWellFormed' /\ TopIsTail'
    BY <1>1, <2>1, <2>2, <2>3 DEF ListsWellFormed, TopIsTail, ctrl
  <2>10. AnimatedObjectsLive' /\ TransitionKept'
    BY <1>1, <2>1, <2>2, <2>5 DEF IInv, AnimatedObjectsLive, TransitionKept, ctrl
  <2>11. ListedHaveObjects'
    BY <2>1, <2>2, <2>4 DEF ListedHaveObjects
  <2>12. OthersHidden'
    BY <2>1, <2>5 DEF IInv, OthersHidden, TypeOK, ctrl
  <2>13. LoopInList'
    BY <1>1, <2>1, <2>7 DEF LoopInList, ctrl, IInv, TypeOK
  <2> QED
    BY <2>8, <2>9, <2>10, <2>11, <2>12, <2>13 DEF IInv
<1> QED
  BY <1>3, <1>4

(* A step that only moves the loop on. *)
LEMMA LoopStepKeeps ==
  ASSUME IInv, UNCHANGED <<heap, ctrl, screen, fault>>, status = "IDLE",
         pc' \in {"ready", "parked", "middle"},
         pc' = "parked" => cursor' \in Members(heap, Backstage) \cup {Backstage},
         pc' = "middle" => cursor' \in Members(heap, Stack) \cup {Stack},
         pc' = "ready" => cursor' = NULL,
         style' \in Styles \cup {"NONE"},
         ret' \in {"VOID", "OK", "FAIL", "NOT_FOUND", "DOUBLE_PAGE", "NO_PAGE", "BUSY"}
  PROVE  IInv'
<1>1. cursor' \in Cells \cup {NULL}
  BY MembersAreCells
<1>3. TypeOK'
  BY <1>1 DEF IInv, TypeOK, ctrl, screen
<1>4. LoopInList'
  BY DEF LoopInList, ctrl
<1> QED
  BY <1>3, <1>4 DEF IInv, ctrl, screen, ListsWellFormed, TopIsTail, AnimatedObjectsLive,
                    TransitionKept, ListedHaveObjects, OthersHidden

LEMMA BackHomeKeeps ==
  ASSUME IInv, NEW s \in Styles, PmStackBackHomePage(s)
  PROVE  IInv'
<1>1. CASE Return("FAIL") /\ UNCHANGED loop
  <2>1. AtRest
    BY <1>1, ReadyRests DEF PmStackBackHomePage
  <2> QED
    BY <1>1, <2>1, ReturnKeeps
<1>2. CASE /\ status = "IDLE"
           /\ pc' = IF IsEmpty(heap, Backstage) THEN "middle" ELSE "parked"
           /\ cursor' = heap.next[IF IsEmpty(heap, Backstage) THEN Stack ELSE Backstage]
           /\ style' = s
           /\ ret' = "VOID"
           /\ UNCHANGED <<heap, ctrl, screen, fault>>
  <2>1. /\ heap.next[Stack] \in Members(heap, Stack) \cup {Stack}
        /\ heap.next[Backstage] \in Members(heap, Backstage) \cup {Backstage}
    BY NextInList
  <2> QED
    BY <1>2, <2>1, LoopStepKeeps
<1> QED
  BY <1>1, <1>2 DEF PmStackBackHomePage, HomeRefused

LEMMA HomeBackstageReleasedKeeps ==
  ASSUME IInv, HomeBackstageReleased
  PROVE  IInv'
<1>1. status = "IDLE" /\ style \in Styles \cup {"NONE"}
  BY DEF HomeBackstageReleased, IInv, LoopInList, TypeOK
<1>2. heap.next[Stack] \in Members(heap, Stack) \cup {Stack}
  BY NextInList
<1>3. ret \in {"VOID", "OK", "FAIL", "NOT_FOUND", "DOUBLE_PAGE", "NO_PAGE", "BUSY"}
  BY DEF IInv, TypeOK
<1> QED
  BY <1>1, <1>2, <1>3, LoopStepKeeps DEF HomeBackstageReleased

LEMMA HomeReleaseMiddleKeeps ==
  ASSUME IInv, HomeReleaseMiddle
  PROVE  IInv'
<1>1. /\ pc = "middle" /\ fault = "none" /\ cursor # Stack
      /\ status = "IDLE" /\ cursor \in Members(heap, Stack)
      /\ style \in Styles \cup {"NONE"} /\ pageTop = GetTail(heap, Stack)
  BY IdleFacts DEF HomeReleaseMiddle, IInv, LoopInList, TypeOK
<1>2. CASE cursor \in {pageTop, GetHead(heap, Stack)}
  <2>1. /\ cursor' = heap.next[cursor]
        /\ UNCHANGED <<heap, ctrl, screen, ret, pc, style, fault>>
    BY <1>2 DEF HomeReleaseMiddle
  <2>2. cursor' \in Members(heap, Stack) \cup {Stack}
    BY <1>1, <2>1, NextInList
  <2>3. TypeOK'
    BY <2>1, <2>2, MembersAreCells DEF IInv, TypeOK, ctrl, screen
  <2>4. LoopInList'
    BY <1>1, <2>1, <2>2 DEF LoopInList, ctrl
  <2> QED
    BY <2>1, <2>3, <2>4 DEF IInv, ctrl, screen, ListsWellFormed, TopIsTail, AnimatedObjectsLive,
                            TransitionKept, ListedHaveObjects, OthersHidden
<1>3. CASE cursor \notin {pageTop, GetHead(heap, Stack)}
  <2>1. ReleaseAtCursor(Stack)
    BY <1>3 DEF HomeReleaseMiddle
  <2> QED
    BY <1>1, <1>3, <2>1, ReleaseAtCursorKeeps
<1> QED
  BY <1>2, <1>3

LEMMA HomeReleaseBackstageKeeps ==
  ASSUME IInv, HomeReleaseBackstage
  PROVE  IInv'
<1>1. /\ pc = "parked" /\ fault = "none" /\ cursor # Backstage
      /\ ReleaseAtCursor(Backstage)
      /\ status = "IDLE" /\ cursor \in Members(heap, Backstage)
  BY DEF HomeReleaseBackstage, IInv, LoopInList
<1>2. cursor # pageTop
  BY <1>1, IdleFacts DEF Members
<1> QED
  BY <1>1, <1>2, ReleaseAtCursorKeeps

LEMMA HomePopTopKeeps ==
  ASSUME IInv, HomePopTop
  PROVE  IInv'
<1>1. /\ fault = "none" /\ status = "IDLE" /\ AtRest
      /\ PopTo(NULL, Pool, TRUE, style, Over \cup Pushy \cup {"SIZE", "FADE_OUT"})
  BY DEF HomePopTop, IInv, LoopInList, AtRest
<1> QED
  BY <1>1, PopToKeeps

-----------------------------------------------------------------------------
LEMMA NextIInv == IInv /\ ~ PushRestores /\ [Next]_vars => IInv'
<1> SUFFICES ASSUME IInv, ~ PushRestores, [Next]_vars PROVE IInv'
  OBVIOUS
<1>1. ASSUME NEW p \in Nodes, PmRegisterPage(p) PROVE IInv'
  BY <1>1, RegisterKeeps
<1>2. ASSUME NEW p \in Nodes, NEW s \in Styles, PmStackPushPage(p, s) PROVE IInv'
  BY <1>2, PushKeeps
<1>3. ASSUME NEW p \in Nodes, NEW s \in Styles, PmStackReplacePage(p, s) PROVE IInv'
  BY <1>3, ReplaceKeeps
<1>4. CASE PmStackReplaceNull
  BY <1>4, ReadyRests, BusyKeeps, ReturnKeeps DEF PmStackReplaceNull, Busy, Idle
<1>5. ASSUME NEW name \in Nodes \cup {NULL}, NEW s \in Styles,
             PmStackPopPage(name, s) \/ PmStackPageBackstage(name, s)
      PROVE  IInv'
  BY <1>5, PopKeeps
<1>6. ASSUME NEW s \in Styles, PmStackBackHomePage(s) PROVE IInv'
  BY <1>6, BackHomeKeeps
<1>7. CASE HomeReleaseBackstage
  BY <1>7, HomeReleaseBackstageKeeps
<1>8. CASE HomeBackstageReleased
  BY <1>8, HomeBackstageReleasedKeeps
<1>9. CASE HomeReleaseMiddle
  BY <1>9, HomeReleaseMiddleKeeps
<1>10. CASE HomePopTop
  BY <1>10, HomePopTopKeeps
<1>11. CASE AnimLastFrame
  BY <1>11, LastFrameKeeps
<1>12. CASE PmRun
  BY <1>12, RunKeeps
<1>13. CASE UNCHANGED vars
  BY <1>13 DEF vars, ctrl, screen, loop, IInv, TypeOK, ListsWellFormed, TopIsTail,
               AnimatedObjectsLive, TransitionKept, ListedHaveObjects, OthersHidden, LoopInList
<1> QED
  BY <1>1, <1>2, <1>3, <1>4, <1>5, <1>6, <1>7, <1>8, <1>9, <1>10, <1>11, <1>12, <1>13 DEF Next

(* The inductive invariant holds of every behaviour in which no page of    *)
(* the backstage is pushed.                                                *)
LEMMA Inductive ==
  ASSUME ~ PushRestores
  PROVE  Spec => []IInv
<1>1. IInv /\ [Next]_vars => IInv'
  BY NextIInv
<1> QED
  BY <1>1, InitIInv, PTL DEF Spec

(* Every field of pm_ctrl and every page keeps its type: in particular the *)
(* lists hold no stray pointer and animations move only existing objects.  *)
THEOREM PageManagerTypeOK ==
  ASSUME ~ PushRestores
  PROVE  Spec => []TypeOK
<1>1. IInv => TypeOK
  BY DEF IInv
<1> QED
  BY <1>1, Inductive, PTL

(* Pool, stack and backstage remain disjoint rings of the length they      *)
(* record, whatever is pushed, replaced, popped, parked or sent home, in   *)
(* whatever order, with whatever callbacks and styles.                     *)
THEOREM PageManagerListsWellFormed ==
  ASSUME ~ PushRestores
  PROVE  Spec => []ListsWellFormed
<1>1. IInv => ListsWellFormed
  BY DEF IInv
<1> QED
  BY <1>1, Inductive, PTL

(* pm_ctrl.pageTop never disagrees with the stack. *)
THEOREM PageManagerTopIsTail ==
  ASSUME ~ PushRestores
  PROVE  Spec => []TopIsTail
<1>1. IInv => TopIsTail
  BY DEF IInv
<1> QED
  BY <1>1, Inductive, PTL

(* No running timeline moves a deleted object. *)
THEOREM PageManagerAnimatedObjectsLive ==
  ASSUME ~ PushRestores
  PROVE  Spec => []AnimatedObjectsLive
<1>1. IInv => AnimatedObjectsLive
  BY DEF IInv
<1> QED
  BY <1>1, Inductive, PTL

(* Between transitions pages never draw over each other. *)
THEOREM PageManagerOnlyTopShows ==
  ASSUME ~ PushRestores
  PROVE  Spec => []OnlyTopShows
<1>1. IInv => OnlyTopShows
  BY DEF IInv, TypeOK, OnlyTopShows, OthersHidden, TransitionKept
<1> QED
  BY <1>1, Inductive, PTL

-----------------------------------------------------------------------------
(* Where the thread can stop at all. *)

LEMMA DoneGoesOn ==
  ASSUME IInv, NEW h, NEW new, NEW old \in obj \cup {NULL}, NEW rel, NEW created, NEW code,
         AnimDone(h, new, old, rel, created, code)
  PROVE  UNCHANGED fault
BY DEF AnimDone

LEMMA StartStops ==
  ASSUME NEW h, NEW new, NEW old, NEW rel, NEW created, NEW s, NEW away, NEW small,
         AnimStart(h, new, old, rel, created, s, away, small), fault' # fault
  PROVE  s = "NONE"
BY DEF AnimStart

LEMMA EnterStops ==
  ASSUME IInv, NEW h, NEW p, NEW old \in obj \cup {NULL}, NEW rel, NEW created,
         p \in obj \cup created, NEW s, NEW away,
         Enter(h, p, old, rel, created, s, away), fault' # fault
  PROVE  s = "NONE" /\ p \in HasAppearing
<1>1. CASE p \in HasAppearing \/ s \in Over \cup Pushy \cup {"SIZE", "FADE_IN"}
  <2>1. AnimStart(h, p, old, rel, created, s, away, IsSmall(p, created))
    BY <1>1 DEF Enter
  <2>2. s = "NONE"
    BY <2>1, StartStops
  <2> QED
    BY <1>1, <2>2 DEF Over, Pushy
<1>2. CASE ~ (p \in HasAppearing \/ s \in Over \cup Pushy \cup {"SIZE", "FADE_IN"})
  <2>1. AnimDone(h, p, old, rel, created, "OK")
    BY <1>2 DEF Enter
  <2> QED
    BY <2>1, DoneGoesOn
<1> QED
  BY <1>1, <1>2

(* Searches between transitions end. *)
LEMMA SearchEnds ==
  ASSUME IInv, NEW p \in Nodes
  PROVE  Search(p) \in {Pool, Stack, Backstage, "absent"} /\ Search(p) \notin {"hang", "crash"}
<1>1. Search(p) \in {Pool, Stack, Backstage, "absent"}
  BY SearchFindsOwner, HeapFields DEF IInv, TypeOK
<1> QED
  BY <1>1

LEMMA PopToStops ==
  ASSUME IInv, status = "IDLE", NEW name \in Nodes \cup {NULL},
         NEW list \in {Pool, Backstage}, NEW rel, NEW s, NEW animated, "NONE" \notin animated,
         PopTo(name, list, rel, s, animated), fault' # fault
  PROVE  s = "NONE" /\ name \in {NULL, pageTop} /\ pageTop \in HasDisappearing
<1>1. /\ heap \in Heaps /\ WellFormed(heap)
      /\ pageTop = NULL <=> IsEmpty(heap, Stack)
      /\ pageTop # NULL => pageTop \in obj
      /\ \A p \in Nodes : heap.owner[p] \in {Stack, Backstage} => p \in obj
  BY IdleFacts
<1>2. ~ IsEmpty(heap, Stack) => Removable(name) \in {"found", "absent"}
  <2>1. CASE name = NULL
    BY <1>1, <2>1 DEF Removable
  <2>2. CASE name # NULL
    BY <1>1, <2>2, WalkFindsMembers DEF Removable
  <2> QED
    BY <2>1, <2>2
<1>3. /\ Removable(name) = "found" /\ ~ IsEmpty(heap, Stack)
      /\ Leave(Moved(Named(name), list), Named(name), rel, s, animated)
  BY <1>2 DEF PopTo, Return
<1>4. Named(name) \in obj
  <2>1. CASE name = NULL
    BY <1>1, <1>3, <2>1 DEF Named
  <2>2. CASE name # NULL
    BY <1>1, <1>3, <2>2, WalkFindsMembers DEF Named, Removable
  <2> QED
    BY <2>1, <2>2
<1>5. CASE Named(name) = pageTop /\ (Named(name) \in HasDisappearing \/ s \in animated)
  <2>1. AnimStart(Moved(Named(name), list), NULL, Named(name), rel, {}, s, TRUE, TRUE)
    BY <1>3, <1>5 DEF Leave
  <2>2. s = "NONE"
    BY <2>1, StartStops
  <2> QED
    BY <1>5, <2>2 DEF Named
<1>6. CASE ~ (Named(name) = pageTop /\ (Named(name) \in HasDisappearing \/ s \in animated))
  <2>1. AnimDone(Moved(Named(name), list), NULL, Named(name), rel, {}, "OK")
    BY <1>3, <1>6 DEF Leave
  <2> QED
    BY <1>4, <2>1, DoneGoesOn
<1> QED
  BY <1>5, <1>6

LEMMA ReleaseStops ==
  ASSUME IInv, status = "IDLE", NEW list \in {Stack, Backstage},
         pc # "ready", cursor \in Members(heap, list),
         ReleaseAtCursor(list), fault' # fault
  PROVE  ReleaseMissing
<1>1. cursor \in Nodes /\ cursor \in obj
  BY IdleFacts DEF Members
<1> QED
  BY <1>1 DEF ReleaseAtCursor, ReleaseMissing

LEMMA StepStops ==
  ASSUME IInv, ~ PushRestores, [Next]_vars, fault' # fault
  PROVE  TimelineGone \/ ReleaseMissing
<1>1. ASSUME NEW p \in Nodes, NEW s \in Styles, PmStackPushPage(p, s)
      PROVE  TimelineGone
  <2>1. /\ status = "IDLE" /\ pageTop \in obj \cup {NULL}
        /\ Enter(AddTail(DeleteItem(heap, Pool, p), Stack, p), p, pageTop, FALSE, {p}, s,
                 s \in {"OVER_BOTTOM_TO_TOP", "PUSH_BOTTOM_TO_TOP"})
    BY <1>1, SearchEnds, IdleFacts DEF PmStackPushPage, Busy, Idle, Return
  <2>2. s = "NONE" /\ p \in HasAppearing
    BY <2>1, EnterStops
  <2> QED
    BY <1>1, <2>2 DEF TimelineGone
<1>2. ASSUME NEW p \in Nodes, NEW s \in Styles, PmStackReplacePage(p, s)
      PROVE  TimelineGone
  <2> DEFINE old == IF IsEmpty(heap, Stack) THEN NULL ELSE pageTop
  <2>1. PICK h, created : /\ status = "IDLE" /\ pageTop \in obj \cup {NULL}
                          /\ p \in obj \cup created
                          /\ Enter(h, p, old, TRUE, created, s, FALSE)
    <3>1. Idle /\ status = "IDLE"
      BY <1>2, SearchEnds DEF PmStackReplacePage, Busy, Idle, Return
    <3>2. Search(p) = Backstage => p \in obj
      BY <3>1, IdleFacts, SearchFindsOwner
    <3> QED
      BY <1>2, <3>1, <3>2, SearchEnds, IdleFacts DEF PmStackReplacePage, Busy, Idle, Return
  <2>2. old \in obj \cup {NULL}
    BY <2>1
  <2> HIDE DEF old
  <2>3. s = "NONE" /\ p \in HasAppearing
    BY <2>1, <2>2, EnterStops
  <2> QED
    BY <1>2, <2>3 DEF TimelineGone
<1>3. ASSUME NEW name \in Nodes \cup {NULL}, NEW s \in Styles,
             PmStackPopPage(name, s) \/ PmStackPageBackstage(name, s)
      PROVE  TimelineGone
  <2>1. /\ status = "IDLE"
        /\ \/ PopTo(name, Pool, TRUE, s, Over \cup Pushy \cup {"SIZE", "FADE_OUT"})
           \/ PopTo(name, Backstage, FALSE, s, Over \cup {"SIZE", "FADE_OUT"})
    BY <1>3 DEF PmStackPopPage, PmStackPageBackstage, Busy, Idle, Return
  <2>2. "NONE" \notin Over \cup Pushy \cup {"SIZE", "FADE_OUT"}
    BY DEF Over, Pushy
  <2>3. s = "NONE" /\ name \in {NULL, pageTop} /\ pageTop \in HasDisappearing
    BY <2>1, <2>2, PopToStops
  <2> QED
    BY <1>3, <2>3 DEF TimelineGone
<1>4. CASE HomePopTop
  <2>1. /\ status = "IDLE" /\ "NONE" \notin Over \cup Pushy \cup {"SIZE", "FADE_OUT"}
        /\ PopTo(NULL, Pool, TRUE, style, Over \cup Pushy \cup {"SIZE", "FADE_OUT"})
    BY <1>4 DEF HomePopTop, IInv, LoopInList, Over, Pushy
  <2>2. style = "NONE" /\ pageTop \in HasDisappearing
    BY <2>1, PopToStops
  <2> QED
    BY <1>4, <2>2 DEF TimelineGone
<1>5. CASE HomeReleaseBackstage
  <2>1. status = "IDLE" /\ pc # "ready" /\ cursor \in Members(heap, Backstage)
    BY <1>5 DEF HomeReleaseBackstage, IInv, LoopInList
  <2> QED
    BY <1>5, <2>1, ReleaseStops DEF HomeReleaseBackstage
<1>6. CASE HomeReleaseMiddle
  <2>1. status = "IDLE" /\ pc # "ready" /\ cursor \in Members(heap, Stack)
    BY <1>6 DEF HomeReleaseMiddle, IInv, LoopInList
  <2>2. ReleaseAtCursor(Stack)
    BY <1>6 DEF HomeReleaseMiddle
  <2> QED
    BY <2>1, <2>2, ReleaseStops
<1>7. CASE PmRun
  <2>1. /\ pageWillDisappear \in obj \cup {NULL}
        /\ AnimDone(heap, NULL, pageWillDisappear, release, {}, "VOID")
    BY <1>7 DEF PmRun, IInv, TransitionKept
  <2> QED
    BY <2>1, DoneGoesOn
<1>8. ASSUME NEW p \in Nodes, PmRegisterPage(p) PROVE FALSE
  BY <1>8 DEF PmRegisterPage
<1>9. ASSUME NEW s \in Styles, PmStackBackHomePage(s) PROVE FALSE
  BY <1>9 DEF PmStackBackHomePage, Return
<1>10. CASE \/ PmStackReplaceNull \/ HomeBackstageReleased
            \/ AnimLastFrame \/ UNCHANGED vars
  BY <1>10 DEF PmStackReplaceNull, Busy, Return, HomeBackstageReleased, AnimLastFrame, vars
<1> QED
  BY <1>1, <1>2, <1>3, <1>4, <1>5, <1>6, <1>7, <1>8, <1>9, <1>10 DEF Next

(* Whatever pages, callbacks and styles there are, a client that does not  *)
(* push parked pages stops the thread in no other place than the two that  *)
(* StopsAsKnown names.                                                     *)
THEOREM PageManagerStopsAsKnown ==
  ASSUME ~ PushRestores
  PROVE  Spec => StopsAsKnown
<1>1. IInv /\ [Next]_vars => [fault' # fault => TimelineGone \/ ReleaseMissing]_vars
  BY StepStops
<1> QED
  BY <1>1, Inductive, PTL DEF Spec, StopsAsKnown

-----------------------------------------------------------------------------
(* What a client needs beyond that for the thread never to stop: pages     *)
(* that can be released, and the style PM_ANIM_NONE only where no page has *)
(* a transition callback.                                                  *)
Supported ==
  /\ ~ PushRestores
  /\ HasRelease = Nodes
  /\ "NONE" \in Styles => HasAppearing = {} /\ HasDisappearing = {}

SInv ==
  /\ NeverStops
  /\ ObjectsFollowLists
  /\ pc # "ready" => style \in Styles

(* The objects that exist when a transition begins or ends: those of the   *)
(* pages in use and that of the page to release.                           *)
Exact(h, old, rel, created) ==
  /\ obj \cup created = {q \in Nodes : h.owner[q] \in {Stack, Backstage}}
                           \cup {q \in Nodes : rel /\ q = old}
  /\ created \cap obj = {}
  /\ old \in obj \cup created \cup {NULL}
  /\ old # NULL /\ rel => h.owner[old] = Pool

LEMMA InitSInv == Init => SInv
<1> SUFFICES ASSUME Init PROVE SInv
  OBVIOUS
<1>1. \A p \in Nodes : heap.owner[p] = NULL
  BY DEF Init, EmptyHeap
<1> QED
  BY <1>1 DEF Init, SInv, NeverStops, ObjectsFollowLists

(* Between transitions objects and lists agree. *)
LEMMA IdleObjects ==
  ASSUME IInv, SInv, status = "IDLE"
  PROVE  obj = {q \in Nodes : heap.owner[q] \in {Stack, Backstage}} /\ lost = {}
BY DEF IInv, SInv, ObjectsFollowLists, TransitionKept

LEMMA AnimStartObjects ==
  ASSUME SInv, pc' = "ready", NEW h, NEW new, NEW old, NEW rel, NEW created,
         NEW s, s # "NONE", NEW away, NEW small,
         Exact(h, old, rel, created),
         AnimStart(h, new, old, rel, created, s, away, small)
  PROVE  SInv'
<1>1. /\ heap' = h /\ release' = rel /\ pageWillDisappear' = old
      /\ obj' = obj \cup created /\ lost' = lost \cup (created \cap obj)
      /\ UNCHANGED fault
  BY DEF AnimStart
<1> QED
  BY <1>1 DEF SInv, NeverStops, ObjectsFollowLists, Exact

LEMMA AnimDoneObjects ==
  ASSUME Supported, SInv, pc' = "ready", NEW h, NEW new, NEW old, NEW rel, NEW created, NEW code,
         Exact(h, old, rel, created),
         AnimDone(h, new, old, rel, created, code)
  PROVE  SInv'
<1>1. /\ heap' = h /\ release' = FALSE
      /\ obj' = (obj \cup created) \ {p \in HasRelease : rel /\ p = old}
      /\ lost' = lost \cup (created \cap obj)
      /\ UNCHANGED fault
  BY DEF AnimDone, Exact
<1>2. obj' = {q \in Nodes : heap'.owner[q] \in {Stack, Backstage}}
  BY <1>1 DEF Exact, Supported
<1> QED
  BY <1>1, <1>2 DEF SInv, NeverStops, ObjectsFollowLists, Exact

LEMMA EnterObjects ==
  ASSUME Supported, SInv, pc' = "ready",
         NEW h, NEW p \in Nodes, NEW old, NEW rel, NEW created, NEW s \in Styles, NEW away,
         Exact(h, old, rel, created), p \in obj \cup created,
         Enter(h, p, old, rel, created, s, away)
  PROVE  SInv'
<1>1. CASE p \in HasAppearing \/ s \in Over \cup Pushy \cup {"SIZE", "FADE_IN"}
  <2>1. AnimStart(h, p, old, rel, created, s, away, IsSmall(p, created))
    BY <1>1 DEF Enter
  <2>2. s # "NONE"
    BY <1>1 DEF Supported, Over, Pushy
  <2> QED
    BY <2>1, <2>2, AnimStartObjects
<1>2. CASE ~ (p \in HasAppearing \/ s \in Over \cup Pushy \cup {"SIZE", "FADE_IN"})
  <2>1. AnimDone(h, p, old, rel, created, "OK")
    BY <1>2 DEF Enter
  <2> QED
    BY <2>1, AnimDoneObjects
<1> QED
  BY <1>1, <1>2

LEMMA ReturnObjects ==
  ASSUME SInv, UNCHANGED loop, NEW code, Return(code)
  PROVE  SInv'
BY DEF SInv, Return, loop, ctrl, screen, NeverStops, ObjectsFollowLists

LEMMA PushObjects ==
  ASSUME Supported, IInv, SInv, NEW p \in Nodes, NEW s \in Styles, PmStackPushPage(p, s)
  PROVE  SInv'
<1> DEFINE h == AddTail(DeleteItem(heap, Pool, p), Stack, p)
           away == s \in {"OVER_BOTTOM_TO_TOP", "PUSH_BOTTOM_TO_TOP"}
           place == Search(p)
<1>1. UNCHANGED loop /\ ~ PushRestores
  BY DEF PmStackPushPage, Supported
<1>2. place \in {Pool, Stack, Backstage, "absent"}
  BY SearchFindsOwner, HeapFields DEF IInv, TypeOK
<1>3. ASSUME Idle, place = Pool, Enter(h, p, pageTop, FALSE, {p}, s, away) PROVE SInv'
  <2>1. status = "IDLE" /\ pc' = "ready"
    BY <1>1, <1>3 DEF Idle, Ready, loop
  <2>2. heap \in Heaps /\ WellFormed(heap) /\ heap.owner[p] = Pool
    BY <1>3, <2>1, IdleFacts, SearchFindsOwner
  <2>3. h.owner = [heap.owner EXCEPT ![p] = Stack]
    BY <2>2, MovePreserves
  <2> HIDE DEF h, away
  <2>4. \A q \in Nodes : h.owner[q] = IF q = p THEN Stack ELSE heap.owner[q]
    BY <2>2, <2>3, HeapFields
  <2>5. pageTop \in obj \cup {NULL}
    BY <2>1, IdleFacts
  <2>6. Exact(h, pageTop, FALSE, {p})
    BY <2>1, <2>2, <2>4, <2>5, IdleObjects DEF Exact
  <2> QED
    BY <1>3, <2>1, <2>6, EnterObjects
<1>4. \/ \E code : Return(code)
      \/ Idle /\ place = Pool /\ Enter(h, p, pageTop, FALSE, {p}, s, away)
  BY <1>1, <1>2 DEF PmStackPushPage, Busy
<1> QED
  BY <1>1, <1>3, <1>4, ReturnObjects

LEMMA ReplaceObjects ==
  ASSUME Supported, IInv, SInv, NEW p \in Nodes, NEW s \in Styles, PmStackReplacePage(p, s)
  PROVE  SInv'
<1> DEFINE place   == Search(p)
           taken   == DeleteItem(heap, place, p)
           cleared == IF IsEmpty(heap, Stack) THEN taken
                      ELSE AddTail(DeleteItem(taken, Stack, pageTop), Pool, pageTop)
           old     == IF IsEmpty(heap, Stack) THEN NULL ELSE pageTop
           h       == AddTail(cleared, Stack, p)
<1>1. UNCHANGED loop
  BY DEF PmStackReplacePage
<1>2. place \in {Pool, Stack, Backstage, "absent"}
  BY SearchFindsOwner, HeapFields DEF IInv, TypeOK
<1>3. ASSUME NEW created, Idle, place \in {Pool, Backstage},
             place = Pool => created = {p}, place = Backstage => created = {},
             Enter(h, p, old, TRUE, created, s, FALSE)
      PROVE  SInv'
  <2>1. status = "IDLE" /\ pc' = "ready"
    BY <1>1, <1>3 DEF Idle, Ready, loop
  <2>2. heap.owner[p] = place
    BY <1>3, SearchFindsOwner
  <2>3. \A q \in Nodes : h.owner[q] = CASE q = p -> Stack
                                       [] q # p /\ q = pageTop -> Pool
                                       [] OTHER -> heap.owner[q]
    <3> HIDE DEF place
    <3> QED
      BY <1>3, <2>1, <2>2, ReplacedHeap
  <2>4. old = pageTop
    BY <2>1, IdleFacts
  <2> HIDE DEF h, place, old
  <2>5. /\ pageTop # p /\ pageTop \in obj \cup {NULL} /\ pageTop \in Nodes \cup {NULL}
        /\ pageTop # NULL => heap.owner[pageTop] = Stack
    BY <1>3, <2>1, <2>2, IdleFacts
  <2>6. obj = {q \in Nodes : heap.owner[q] \in {Stack, Backstage}}
    BY <2>1, IdleObjects
  <2>7. Exact(h, old, TRUE, created) /\ p \in obj \cup created
    <3>1. CASE place = Pool
      BY <1>3, <2>2, <2>3, <2>4, <2>5, <2>6, <3>1 DEF Exact
    <3>2. CASE place = Backstage
      BY <1>3, <2>2, <2>3, <2>4, <2>5, <2>6, <3>2 DEF Exact
    <3> QED
      BY <1>3, <3>1, <3>2
  <2> QED
    BY <1>3, <2>1, <2>7, EnterObjects
<1>4. \/ \E code : Return(code)
      \/ Idle /\ place = Backstage /\ Enter(h, p, old, TRUE, {}, s, FALSE)
      \/ Idle /\ place = Pool /\ Enter(h, p, old, TRUE, {p}, s, FALSE)
  BY <1>2 DEF PmStackReplacePage, Busy
<1> HIDE DEF h, place, old
<1> QED
  BY <1>1, <1>3, <1>4, ReturnObjects

(* Removing the top, or a page of the stack by its name. *)
LEMMA PopToObjects ==
  ASSUME Supported, IInv, SInv, status = "IDLE", pc' = "ready",
         UNCHANGED loop \/ pc # "ready",
         NEW name \in Nodes \cup {NULL},
         NEW list \in {Pool, Backstage}, NEW rel \in BOOLEAN, rel <=> list = Pool,
         NEW s \in Styles, NEW animated, "NONE" \notin animated,
         PopTo(name, list, rel, s, animated)
  PROVE  SInv'
<1> DEFINE p == Named(name)
           h == Moved(p, list)
<1>1. CASE Return("NO_PAGE")
  BY <1>1 DEF SInv, Return, ctrl, screen, NeverStops, ObjectsFollowLists
<1>2. CASE Removable(name) = "found" /\ Leave(Moved(p, list), p, rel, s, animated)
  <2>1. heap.owner[p] = Stack /\ p \in Nodes
    <3>1. CASE name = NULL
      BY <1>2, <3>1, IdleFacts DEF Removable, Named
    <3>2. CASE name # NULL
      BY <1>2, <3>2, IdleFacts, WalkFindsMembers DEF Removable, Named
    <3> QED
      BY <3>1, <3>2
  <2> HIDE DEF p
  <2>2. heap \in Heaps /\ WellFormed(heap)
    BY IdleFacts
  <2>3. h.owner = [heap.owner EXCEPT ![p] = list]
    BY <2>1, <2>2, MovePreserves DEF Moved
  <2>4. Leave(h, p, rel, s, animated)
    BY <1>2
  <2> HIDE DEF h
  <2>5. \A q \in Nodes : h.owner[q] = IF q = p THEN list ELSE heap.owner[q]
    BY <2>2, <2>3, HeapFields
  <2>6. obj = {q \in Nodes : heap.owner[q] \in {Stack, Backstage}}
    BY IdleObjects
  <2>7. Exact(h, p, rel, {})
    BY <2>1, <2>5, <2>6 DEF Exact
  <2>8. CASE p = pageTop /\ (p \in HasDisappearing \/ s \in animated)
    <3>1. AnimStart(h, NULL, p, rel, {}, s, TRUE, TRUE)
      BY <2>4, <2>8 DEF Leave
    <3>2. s # "NONE"
      BY <2>8 DEF Supported
    <3> QED
      BY <2>7, <3>1, <3>2, AnimStartObjects
  <2>9. CASE ~ (p = pageTop /\ (p \in HasDisappearing \/ s \in animated))
    <3>1. AnimDone(h, NULL, p, rel, {}, "OK")
      BY <2>4, <2>9 DEF Leave
    <3> QED
      BY <2>7, <3>1, AnimDoneObjects
  <2> QED
    BY <2>8, <2>9
<1>3. ~ IsEmpty(heap, Stack) => Removable(name) \in {"found", "absent"}
  <2>1. CASE name = NULL
    BY <2>1, IdleFacts DEF Removable
  <2>2. CASE name # NULL
    BY <2>2, IdleFacts, WalkFindsMembers DEF Removable
  <2> QED
    BY <2>1, <2>2
<1> QED
  BY <1>1, <1>2, <1>3 DEF PopTo

LEMMA PopObjects ==
  ASSUME Supported, IInv, SInv, NEW name \in Nodes \cup {NULL}, NEW s \in Styles,
         PmStackPopPage(name, s) \/ PmStackPageBackstage(name, s)
  PROVE  SInv'
<1>1. UNCHANGED loop
  BY DEF PmStackPopPage, PmStackPageBackstage
<1>2. CASE Busy
  BY <1>1, <1>2, ReturnObjects DEF Busy
<1>3. ASSUME Idle PROVE status = "IDLE" /\ pc' = "ready"
  BY <1>1, <1>3 DEF Idle, Ready, loop
<1>4. CASE Idle /\ PopTo(name, Pool, TRUE, s, Over \cup Pushy \cup {"SIZE", "FADE_OUT"})
  BY <1>1, <1>3, <1>4, PopToObjects DEF Over, Pushy
<1>5. CASE Idle /\ PopTo(name, Backstage, FALSE, s, Over \cup {"SIZE", "FADE_OUT"})
  BY <1>1, <1>3, <1>5, PopToObjects DEF Over
<1> QED
  BY <1>2, <1>4, <1>5 DEF PmStackPopPage, PmStackPageBackstage

LEMMA HomeReleaseObjects ==
  ASSUME Supported, IInv, SInv, pc # "ready",
         NEW list \in {Stack, Backstage}, cursor \in Members(heap, list),
         ReleaseAtCursor(list)
  PROVE  SInv'
<1>1. /\ status = "IDLE" /\ cursor \in Nodes /\ heap.owner[cursor] = list
  BY DEF IInv, LoopInList, Members
<1>2. obj = {q \in Nodes : heap.owner[q] \in {Stack, Backstage}} /\ lost = {}
  BY <1>1, IdleObjects
<1>3. cursor \in HasRelease \cap obj
  BY <1>1, <1>2 DEF Supported
<1>4. heap \in Heaps /\ WellFormed(heap)
  BY <1>1, IdleFacts
<1> DEFINE h == AddTail(DeleteItem(heap, list, cursor), Pool, cursor)
<1>5. h.owner = [heap.owner EXCEPT ![cursor] = Pool]
  <2>1. list \in Roots /\ Pool \in Roots /\ list # Pool
    OBVIOUS
  <2> QED
    BY ONLY <1>1, <1>4, <2>1, MovePreserves
<1>6. /\ heap' = h /\ obj' = obj \ {cursor}
      /\ UNCHANGED <<ctrl, lost, pc, style, fault>>
  BY <1>3 DEF ReleaseAtCursor
<1> HIDE DEF h
<1>7. \A q \in Nodes : h.owner[q] = IF q = cursor THEN Pool ELSE heap.owner[q]
  BY <1>1, <1>4, <1>5, HeapFields
<1>8. release = FALSE
  BY <1>1 DEF IInv, TypeOK, TransitionKept
<1>9. obj' = {q \in Nodes : h.owner[q] \in {Stack, Backstage}}
  BY <1>1, <1>2, <1>6, <1>7
<1> QED
  BY <1>2, <1>6, <1>8, <1>9 DEF SInv, NeverStops, ObjectsFollowLists, ctrl

LEMMA NextSInv == Supported /\ IInv /\ SInv /\ [Next]_vars => SInv'
<1> SUFFICES ASSUME Supported, IInv, SInv, [Next]_vars PROVE SInv'
  OBVIOUS
<1>1. ASSUME NEW p \in Nodes, PmRegisterPage(p) PROVE SInv'
  <2>1. /\ heap \in Heaps /\ WellFormed(heap) /\ heap.owner[p] = NULL
        /\ heap' = AddTail(heap, Pool, p)
        /\ UNCHANGED <<ctrl, screen, loop, fault>>
    BY <1>1 DEF PmRegisterPage, IInv, TypeOK, ListsWellFormed
  <2>2. heap'.owner = [heap.owner EXCEPT ![p] = Pool]
    BY <2>1, AddTailPreserves
  <2>3. \A q \in Nodes : heap'.owner[q] = IF q = p THEN Pool ELSE heap.owner[q]
    BY <2>1, <2>2, HeapFields
  <2> QED
    BY <2>1, <2>3 DEF SInv, NeverStops, ObjectsFollowLists, ctrl, screen, loop
<1>2. ASSUME NEW p \in Nodes, NEW s \in Styles, PmStackPushPage(p, s) PROVE SInv'
  BY <1>2, PushObjects
<1>3. ASSUME NEW p \in Nodes, NEW s \in Styles, PmStackReplacePage(p, s) PROVE SInv'
  BY <1>3, ReplaceObjects
<1>4. CASE PmStackReplaceNull
  BY <1>4, ReturnObjects DEF PmStackReplaceNull, Busy
<1>5. ASSUME NEW name \in Nodes \cup {NULL}, NEW s \in Styles,
             PmStackPopPage(name, s) \/ PmStackPageBackstage(name, s)
      PROVE  SInv'
  BY <1>5, PopObjects
<1>6. ASSUME NEW s \in Styles, PmStackBackHomePage(s) PROVE SInv'
  <2>1. UNCHANGED <<heap, ctrl, screen, fault>> /\ (UNCHANGED loop \/ style' = s)
    BY <1>6 DEF PmStackBackHomePage, Return
  <2> QED
    BY <2>1 DEF SInv, NeverStops, ObjectsFollowLists, ctrl, screen, loop
<1>7. CASE HomeReleaseBackstage
  BY <1>7, HomeReleaseObjects DEF HomeReleaseBackstage, IInv, LoopInList
<1>8. CASE HomeBackstageReleased
  <2>1. UNCHANGED <<heap, ctrl, screen, fault>> /\ (pc' = "ready" \/ style' = style) /\ pc # "ready"
    BY <1>8 DEF HomeBackstageReleased
  <2> QED
    BY <2>1 DEF SInv, NeverStops, ObjectsFollowLists, ctrl, screen
<1>9. CASE HomeReleaseMiddle
  <2>1. pc = "middle" /\ cursor \in Members(heap, Stack)
    BY <1>9 DEF HomeReleaseMiddle, IInv, LoopInList
  <2>2. CASE ReleaseAtCursor(Stack)
    BY <2>1, <2>2, HomeReleaseObjects
  <2>3. CASE UNCHANGED <<heap, ctrl, screen, ret, pc, style, fault>>
    BY <2>3 DEF SInv, NeverStops, ObjectsFollowLists, ctrl, screen
  <2> QED
    BY <1>9, <2>2, <2>3 DEF HomeReleaseMiddle
<1>10. CASE HomePopTop
  <2>1. /\ status = "IDLE" /\ pc' = "ready" /\ pc # "ready" /\ style \in Styles
        /\ PopTo(NULL, Pool, TRUE, style, Over \cup Pushy \cup {"SIZE", "FADE_OUT"})
    BY <1>10 DEF HomePopTop, IInv, LoopInList, SInv
  <2> QED
    BY <2>1, PopToObjects DEF Over, Pushy
<1>11. CASE AnimLastFrame
  BY <1>11 DEF AnimLastFrame, SInv, NeverStops, ObjectsFollowLists, ctrl, loop
<1>12. CASE PmRun
  <2>1. /\ AnimDone(heap, NULL, pageWillDisappear, release, {}, "VOID")
        /\ pc' = "ready"
    BY <1>12 DEF PmRun, Ready, loop
  <2>2. Exact(heap, pageWillDisappear, release, {})
    BY DEF Exact, IInv, TransitionKept, SInv, ObjectsFollowLists
  <2> QED
    BY <2>1, <2>2, AnimDoneObjects
<1>13. CASE UNCHANGED vars
  BY <1>13 DEF vars, ctrl, screen, loop, SInv, NeverStops, ObjectsFollowLists
<1> QED
  BY <1>1, <1>2, <1>3, <1>4, <1>5, <1>6, <1>7, <1>8, <1>9, <1>10, <1>11, <1>12, <1>13 DEF Next

LEMMA SupportedInvariant ==
  ASSUME Supported
  PROVE  Spec => []SInv
<1>1. ~ PushRestores
  BY DEF Supported
<1>2. IInv /\ [Next]_vars => IInv'
  BY <1>1, NextIInv
<1>3. IInv /\ SInv /\ [Next]_vars => SInv'
  BY NextSInv
<1> QED
  BY <1>2, <1>3, InitIInv, InitSInv, PTL DEF Spec

(* For a supported client no call hangs or goes through a null pointer,    *)
(* however many pages there are and whatever it calls.                     *)
THEOREM PageManagerNeverStops ==
  ASSUME Supported
  PROVE  Spec => []NeverStops
<1>1. SInv => NeverStops
  BY DEF SInv
<1> QED
  BY <1>1, SupportedInvariant, PTL

(* For a supported client a page has its screen object exactly as long as  *)
(* the lists and the running transition say: no leak, no use after release.*)
THEOREM PageManagerObjectsFollowLists ==
  ASSUME Supported
  PROVE  Spec => []ObjectsFollowLists
<1>1. SInv => ObjectsFollowLists
  BY DEF SInv
<1> QED
  BY <1>1, SupportedInvariant, PTL

-----------------------------------------------------------------------------
(* What pm_stack_back_home_page leaves.  Its loops take out every page     *)
(* they pass except the first and the last of the stack, so the cursor is  *)
(* never far from the root.                                                *)
LoopNearRoot ==
  /\ pc = "parked" => cursor = heap.next[Backstage]
  /\ pc = "middle" =>
       /\ Members(heap, Backstage) = {}
       /\ heap.next[Stack] # heap.prev[Stack]
       /\ \/ cursor = heap.next[Stack]
          \/ cursor = heap.next[heap.next[Stack]]
          \/ cursor = Stack /\ heap.next[heap.next[Stack]] = heap.prev[Stack]

(* A ring that closes after its second cell has no third.                  *)
LEMMA RingOfTwo ==
  ASSUME NEW h \in Heaps, WellFormed(h), NEW l \in Roots,
         h.next[h.next[l]] \in {h.prev[l], l}
  PROVE  Members(h, l) \subseteq {h.next[l], h.prev[l]}
<1> DEFINE S == {h.next[l], h.prev[l], l}
<1> USE HeapFields
<1>1. RingsLinked(h) /\ RingsConnected(h)
  BY DEF WellFormed
<1>2. /\ h.next[l] \in Members(h, l) \cup {l}
      /\ h.prev[l] \in Members(h, l) \cup {l}
      /\ h.next[h.prev[l]] = l
  BY <1>1 DEF RingsLinked
<1>3. S \in SUBSET (Cells \cup {NULL})
  BY <1>2, MembersAreCells
<1>4. ClosedWalk(h, l, S)
  BY <1>2 DEF ClosedWalk
<1>5. Members(h, l) \subseteq S
  BY <1>1, <1>3, <1>4, WalkedInClosed DEF RingsConnected
<1>6. l \notin Members(h, l)
  BY DEF Members
<1> QED
  BY <1>5, <1>6

(* A list of two or more has two ends. *)
LEMMA DeepHasTwoEnds ==
  ASSUME NEW h \in Heaps, WellFormed(h), NEW l \in Roots, h.len[l] >= 2
  PROVE  h.next[l] # h.prev[l]
<1> SUFFICES ASSUME h.next[l] = h.prev[l] PROVE FALSE
  OBVIOUS
<1>1. /\ h.next[l] \in Members(h, l)
      /\ h.next[h.next[l]] = l
  BY EndsAreMembers DEF IsEmpty, WellFormed, RingsLinked
<1>2. Members(h, l) = {h.next[l]}
  BY <1>1, RingOfTwo
<1>3. Cardinality(Members(h, l)) = 1
  BY <1>2, FS_Singleton
<1> QED
  BY <1>3 DEF WellFormed, LengthsExact

(* A list of at most one is its head. *)
LEMMA ShallowIsHead ==
  ASSUME NEW h \in Heaps, WellFormed(h), NEW l \in Roots, ~ h.len[l] >= 2
  PROVE  Members(h, l) = {GetHead(h, l)} \ {NULL}
<1>1. h.len[l] = Cardinality(Members(h, l)) /\ h.len[l] \in Nat
  BY HeapFields, LenAssumption, MembersBound DEF WellFormed, LengthsExact
<1>2. CASE h.len[l] = 0
  BY <1>2, EndsAreMembers DEF GetHead, IsEmpty
<1>3. CASE h.len[l] = 1
  <2>1. PICK x : Members(h, l) = {x}
    BY <1>1, <1>3, MembersBound, FS_Singleton
  <2>2. h.next[l] \in Members(h, l) /\ h.next[l] # NULL
    BY <1>3, EndsAreMembers DEF IsEmpty, Members
  <2> QED
    BY <1>3, <2>1, <2>2 DEF GetHead
<1> QED
  BY <1>1, <1>2, <1>3

(* What a move leaves of the links of the list it takes from. *)
LEMMA LinksOfMove ==
  ASSUME NEW h \in Heaps, WellFormed(h), NEW from \in Roots, NEW to \in Roots,
         from # to, NEW n \in Nodes, h.owner[n] = from,
         NEW c \in Members(h, from) \cup {from}, c # n
  PROVE  LET k == AddTail(DeleteItem(h, from, n), to, n)
         IN  k.next[c] = IF h.next[c] = n THEN h.next[n] ELSE h.next[c]
<1> DEFINE d == Unlinked(h, from, n)
<1> USE HeapFields
<1>1. d \in Heaps /\ WellFormed(d) /\ d.owner = [h.owner EXCEPT ![n] = NULL]
  BY UnlinkedPreserves
<1>2. n \in Members(h, from) /\ c \in Cells /\ c # to /\ n # to
  BY DEF Members, Cells
<1>3. /\ h.prev[n] \in Cells /\ h.next[h.prev[n]] = n /\ h.prev[h.next[c]] = c
      /\ h.prev[n] # n
  BY <1>2, NeighboursDiffer, MembersAreCells DEF WellFormed, RingsLinked
<1>4. h.prev[n] = c <=> h.next[c] = n
  BY <1>3
<1>5. d.next[c] = IF h.next[c] = n THEN h.next[n] ELSE h.next[c]
  BY <1>2, <1>3, <1>4 DEF Unlinked
<1> HIDE DEF d
<1>6. d.prev[to] # c
  <2>1. d.prev[to] \in Members(d, to) \cup {to}
    BY <1>1 DEF WellFormed, RingsLinked
  <2> QED
    BY <1>1, <1>2, <2>1 DEF Members
<1>7. AddTail(d, to, n).next[c] = d.next[c]
  BY <1>1, <1>2, <1>6 DEF AddTail
<1> QED
  BY <1>5, <1>7 DEF DeleteItem, d

(* One iteration keeps the cursor near the root. *)
LEMMA ReleaseNearRoot ==
  ASSUME IInv, LoopNearRoot, NEW list \in {Stack, Backstage},
         cursor \in Members(heap, list), cursor # pageTop,
         list = Backstage => pc = "parked",
         list = Stack => pc = "middle" /\ cursor # heap.next[Stack],
         ReleaseAtCursor(list)
  PROVE  LoopNearRoot'
<1>1. /\ status = "IDLE" /\ cursor \in Nodes /\ heap.owner[cursor] = list
  BY DEF IInv, LoopInList, Members
<1>2. /\ heap \in Heaps /\ WellFormed(heap) /\ pageTop = GetTail(heap, Stack)
  BY <1>1, IdleFacts
<1>3. CASE cursor \notin HasRelease \cap obj
  BY <1>3 DEF ReleaseAtCursor, Stop, loop, LoopNearRoot
<1>4. CASE cursor \in HasRelease \cap obj
  <2> DEFINE h == AddTail(DeleteItem(heap, list, cursor), Pool, cursor)
  <2>1. heap' = h /\ cursor' = heap.next[cursor] /\ pc' = pc
    BY <1>4 DEF ReleaseAtCursor
  <2>2. /\ h \in Heaps /\ WellFormed(h)
        /\ h.owner = [heap.owner EXCEPT ![cursor] = Pool]
        /\ GetTail(h, Stack) = pageTop
    BY <1>1, <1>2, MovePreserves
  <2>3. \A c \in Members(heap, list) \cup {list} :
          c # cursor => h.next[c] = IF heap.next[c] = cursor THEN heap.next[cursor]
                                    ELSE heap.next[c]
    BY <1>1, <1>2, LinksOfMove
  <2> HIDE DEF h
  <2>4. \A q \in Nodes : h.owner[q] = IF q = cursor THEN Pool ELSE heap.owner[q]
    BY <1>2, <2>2, HeapFields
  <2>5. CASE list = Backstage
    <3>1. h.next[Backstage] = heap.next[cursor]
      BY <1>1, <2>3, <2>5 DEF LoopNearRoot
    <3> QED
      BY <2>1, <2>5, <3>1 DEF LoopNearRoot
  <2>6. CASE list = Stack
    <3> DEFINE head == heap.next[Stack]
    <3>1. /\ Members(heap, Backstage) = {} /\ heap.next[Stack] # heap.prev[Stack]
          /\ cursor = heap.next[head]
      BY <1>1, <2>6 DEF LoopNearRoot
    <3>2. /\ ~ IsEmpty(heap, Stack) /\ heap.prev[Stack] = pageTop
          /\ head \in Members(heap, Stack)
      BY <1>1, <1>2, <2>6, EndsAreMembers DEF Members, GetTail, IsEmpty
    <3>3. h.next[Stack] = head /\ h.next[head] = heap.next[cursor]
      BY <1>1, <2>3, <2>6, <3>1, <3>2
    <3>4. pageTop \in Members(h, Stack)
      <4>1. pageTop \in Members(heap, Stack)
        BY <1>2, <3>2, EndsAreMembers
      <4> QED
        BY <2>4, <4>1 DEF Members
    <3>5. h.prev[Stack] = pageTop
      BY <2>2, <3>4, EndsAreMembers DEF GetTail, IsEmpty
    <3>6. Members(h, Backstage) = {}
      BY <2>4, <2>6, <3>1 DEF Members
    <3>7. /\ cursor' = h.next[h.next[Stack]]
          /\ h.next[Stack] # h.prev[Stack]
      BY <2>1, <3>1, <3>2, <3>3, <3>5
    <3> HIDE DEF head
    <3> QED
      BY <2>1, <2>6, <3>6, <3>7 DEF LoopNearRoot
  <2> QED
    BY <2>5, <2>6
<1> QED
  BY <1>3, <1>4

LEMMA NextNearRoot == IInv /\ LoopNearRoot /\ [Next]_vars => LoopNearRoot'
<1> SUFFICES ASSUME IInv, LoopNearRoot, [Next]_vars PROVE LoopNearRoot'
  OBVIOUS
<1>1. ASSUME pc' = "ready" PROVE LoopNearRoot'
  BY <1>1 DEF LoopNearRoot
<1>2. ASSUME NEW s \in Styles, PmStackBackHomePage(s) PROVE LoopNearRoot'
  <2>1. CASE Return("FAIL") /\ UNCHANGED loop
    BY <2>1 DEF Return, loop, LoopNearRoot
  <2>2. CASE /\ ~ HomeRefused /\ UNCHANGED heap
             /\ pc' = IF IsEmpty(heap, Backstage) THEN "middle" ELSE "parked"
             /\ cursor' = heap.next[IF IsEmpty(heap, Backstage) THEN Stack ELSE Backstage]
    <3>1. heap \in Heaps /\ WellFormed(heap)
      BY DEF IInv, TypeOK, ListsWellFormed
    <3>2. IsEmpty(heap, Backstage) =>
            Members(heap, Backstage) = {} /\ heap.next[Stack] # heap.prev[Stack]
      BY <2>2, <3>1, EndsAreMembers, DeepHasTwoEnds DEF HomeRefused, StackIsDeep
    <3> QED
      BY <2>2, <3>2 DEF LoopNearRoot
  <2> QED
    BY <1>2, <2>1, <2>2 DEF PmStackBackHomePage
<1>3. CASE HomeReleaseBackstage
  <2>1. /\ pc = "parked" /\ cursor \in Members(heap, Backstage) /\ status = "IDLE"
        /\ ReleaseAtCursor(Backstage)
    BY <1>3 DEF HomeReleaseBackstage, IInv, LoopInList
  <2>2. cursor # pageTop
    BY <2>1, IdleFacts DEF Members
  <2> QED
    BY <2>1, <2>2, ReleaseNearRoot
<1>4. CASE HomeBackstageReleased
  <2>1. heap \in Heaps /\ WellFormed(heap) /\ UNCHANGED heap
    BY <1>4 DEF HomeBackstageReleased, IInv, TypeOK, ListsWellFormed
  <2>2. Members(heap, Backstage) = {}
    BY <1>4, <2>1, EndsAreMembers DEF HomeBackstageReleased, LoopNearRoot, Members
  <2>3. StackIsDeep => heap.next[Stack] # heap.prev[Stack]
    BY <2>1, DeepHasTwoEnds DEF StackIsDeep
  <2> QED
    BY <1>4, <2>1, <2>2, <2>3 DEF HomeBackstageReleased, LoopNearRoot
<1>5. CASE HomeReleaseMiddle
  <2>1. /\ pc = "middle" /\ cursor \in Members(heap, Stack) /\ status = "IDLE"
    BY <1>5 DEF HomeReleaseMiddle, IInv, LoopInList
  <2>2. /\ heap \in Heaps /\ WellFormed(heap) /\ ~ IsEmpty(heap, Stack)
        /\ pageTop = heap.prev[Stack] /\ GetHead(heap, Stack) = heap.next[Stack]
        /\ heap.next[heap.prev[Stack]] = Stack
    BY <2>1, IdleFacts, EndsAreMembers DEF GetTail, GetHead, IsEmpty, WellFormed, RingsLinked
  <2>3. CASE cursor \in {pageTop, heap.next[Stack]} /\ cursor' = heap.next[cursor] /\ UNCHANGED <<heap, pc>>
    BY <2>1, <2>2, <2>3 DEF LoopNearRoot, Members
  <2>4. CASE cursor \notin {pageTop, heap.next[Stack]} /\ ReleaseAtCursor(Stack)
    BY <2>1, <2>4, ReleaseNearRoot
  <2> QED
    BY <1>5, <2>2, <2>3, <2>4 DEF HomeReleaseMiddle
<1>6. CASE HomePopTop
  BY <1>1, <1>6 DEF HomePopTop
<1>7. CASE UNCHANGED vars
  BY <1>7 DEF vars, loop, LoopNearRoot
<1>8. ASSUME Ready, UNCHANGED loop PROVE LoopNearRoot'
  BY <1>1, <1>8 DEF Ready, loop
<1>9. \/ Ready /\ UNCHANGED loop
      \/ \E s \in Styles : PmStackBackHomePage(s)
      \/ HomeReleaseBackstage \/ HomeBackstageReleased \/ HomeReleaseMiddle \/ HomePopTop
      \/ UNCHANGED vars
  BY DEF Next, PmRegisterPage, PmStackPushPage, PmStackReplacePage, PmStackReplaceNull,
         PmStackPopPage, PmStackPageBackstage, AnimLastFrame, PmRun, Busy, Idle
<1> QED
  BY <1>2, <1>3, <1>4, <1>5, <1>6, <1>7, <1>8, <1>9

(* Where the two loops end. *)
LEMMA HomeEnds ==
  ASSUME IInv, LoopNearRoot, NeverStops', [Next]_vars, pc # "ready", pc' = "ready"
  PROVE  /\ Members(heap', Backstage) = {}
         /\ Members(heap', Stack) = {GetHead(heap, Stack)} \ {NULL}
<1>1. /\ heap \in Heaps /\ WellFormed(heap) /\ status = "IDLE"
      /\ pageTop = GetTail(heap, Stack) /\ pageTop \in Nodes \cup {NULL}
      /\ pageTop = NULL <=> IsEmpty(heap, Stack)
  BY IdleFacts DEF IInv, LoopInList
<1>2. HomeBackstageReleased \/ HomePopTop
  BY DEF Next, PmRegisterPage, PmStackPushPage, PmStackReplacePage, PmStackReplaceNull,
         PmStackPopPage, PmStackPageBackstage, AnimLastFrame, PmRun, Busy, Idle, Ready,
         PmStackBackHomePage, HomeReleaseBackstage, HomeReleaseMiddle, ReleaseAtCursor,
         Stop, vars, loop
<1>3. CASE HomeBackstageReleased
  <2>1. UNCHANGED heap /\ ~ StackIsDeep /\ cursor = heap.next[Backstage] /\ cursor = Backstage
    BY <1>3 DEF HomeBackstageReleased, LoopNearRoot
  <2>2. Members(heap, Backstage) = {}
    <3>1. heap.next[Backstage] \notin Members(heap, Backstage)
      BY <2>1 DEF Members
    <3> QED
      BY <1>1, <3>1, EndsAreMembers
  <2>3. Members(heap, Stack) = {GetHead(heap, Stack)} \ {NULL}
    BY <1>1, <2>1, ShallowIsHead DEF StackIsDeep
  <2> QED
    BY <2>1, <2>2, <2>3
<1>4. CASE HomePopTop
  <2>1. /\ pc = "middle" /\ cursor = Stack
        /\ PopTo(NULL, Pool, TRUE, style, Over \cup Pushy \cup {"SIZE", "FADE_OUT"})
    BY <1>4 DEF HomePopTop
  <2>2. /\ heap.next[heap.prev[Stack]] = Stack /\ heap.prev[heap.next[Stack]] = Stack
    BY <1>1 DEF WellFormed, RingsLinked
  <2>3. /\ Members(heap, Backstage) = {}
        /\ heap.next[Stack] # heap.prev[Stack]
        /\ heap.next[heap.next[Stack]] = heap.prev[Stack]
    BY <1>1, <2>1, <2>2 DEF LoopNearRoot, WellFormed, RingsLinked
  <2>4. ~ IsEmpty(heap, Stack)
    <3>1. heap.next[Stack] \in Members(heap, Stack) \/ heap.prev[Stack] \in Members(heap, Stack)
      BY <1>1, <2>3 DEF WellFormed, RingsLinked
    <3> QED
      BY <1>1, <3>1, EndsAreMembers
  <2>5. /\ Members(heap, Stack) = {heap.next[Stack], pageTop}
        /\ pageTop = heap.prev[Stack] /\ GetHead(heap, Stack) = heap.next[Stack]
        /\ pageTop \in Nodes /\ heap.owner[pageTop] = Stack /\ heap.next[Stack] # NULL
    BY <1>1, <2>3, <2>4, EndsAreMembers, RingOfTwo DEF GetTail, GetHead, IsEmpty, Members
  <2> DEFINE h == Moved(pageTop, Pool)
  <2>6. h.owner = [heap.owner EXCEPT ![pageTop] = Pool]
    BY <1>1, <2>5, MovePreserves DEF Moved
  <2>7. Leave(h, pageTop, TRUE, style, Over \cup Pushy \cup {"SIZE", "FADE_OUT"})
    BY <1>1, <2>1, <2>4, <2>5 DEF PopTo, Removable, Named
  <2> HIDE DEF h
  <2>8. heap' = h
    BY <2>7 DEF Leave, AnimStart, AnimDone, Stop, NeverStops
  <2>9. \A q \in Nodes : h.owner[q] = IF q = pageTop THEN Pool ELSE heap.owner[q]
    BY <1>1, <2>6, HeapFields
  <2> QED
    BY <2>3, <2>5, <2>8, <2>9 DEF Members
<1> QED
  BY <1>2, <1>3, <1>4

(* For a supported client, going home leaves the page at the bottom of the *)
(* stack and nothing else, however deep the stack and the backstage were.  *)
THEOREM PageManagerHomeReached ==
  ASSUME Supported
  PROVE  Spec => HomeReached
<1>1. ~ PushRestores
  BY DEF Supported
<1>2. Init => LoopNearRoot
  BY DEF Init, LoopNearRoot
<1>3. IInv /\ [Next]_vars => IInv'
  BY <1>1, NextIInv
<1>4. IInv /\ SInv /\ [Next]_vars => SInv'
  BY NextSInv
<1>5. IInv /\ LoopNearRoot /\ SInv' /\ [Next]_vars
        => [pc # "ready" /\ pc' = "ready" =>
              /\ Members(heap', Backstage) = {}
              /\ Members(heap', Stack) = {GetHead(heap, Stack)} \ {NULL}]_vars
  BY HomeEnds DEF SInv
<1> QED
  BY <1>2, <1>3, <1>4, <1>5, InitIInv, InitSInv, NextNearRoot, PTL DEF Spec, HomeReached

-----------------------------------------------------------------------------
(* The refinement of PageNavigation.  The invariant says of the lists that *)
(* each has one order, and of the loops of going home where they are: the  *)
(* second one begins when the backstage is empty and passes the ends of    *)
(* the stack by.                                                           *)
NInv == IInv /\ Ordered(heap) /\ LoopNearRoot

(* Nothing changes for PageNavigation. *)
Stays == UNCHANGED Navigation!vars

(* The page that a transition of pages old and rel releases at its end. *)
Going(rel, old) == {q \in Nodes : rel /\ q = old}

(* Heap h is what a transition begins or ends with, in which the pages of  *)
(* set gone leave for the pool; or the call ends without one.              *)
Lands(h, gone) ==
  \/ UNCHANGED <<heap, ctrl>>
  \/ heap' = h /\ Navigation!Release(gone, Members(h, Pool) \ gone)

LEMMA SameNavigation ==
  ASSUME UNCHANGED <<heap, ctrl>>
  PROVE  Stays /\ (Ordered(heap) => Ordered(heap)')
BY DEF Stays, Navigation!vars, Leaving, ctrl, Ordered

LEMMA AnimStartLands ==
  ASSUME NEW h, NEW new, NEW old, NEW rel, NEW created,
         NEW s, NEW away, NEW small,
         AnimStart(h, new, old, rel, created, s, away, small)
  PROVE  Lands(h, Going(rel, old))
<1>1. CASE s = "NONE"
  BY <1>1 DEF AnimStart, Stop, Lands
<1>2. CASE s # "NONE"
  <2>1. /\ heap' = h /\ status' = "RUNNING"
        /\ release' = rel /\ pageWillDisappear' = old
    BY <1>2 DEF AnimStart
  <2> QED
    BY <2>1 DEF Lands, Leaving, Going, Navigation!Release
<1> QED
  BY <1>1, <1>2

LEMMA AnimDoneLands ==
  ASSUME NEW h, NEW new, NEW old, NEW rel, NEW created,
         NEW code,
         rel /\ old \in Nodes => h.owner[old] = Pool,
         AnimDone(h, new, old, rel, created, code)
  PROVE  Lands(h, Going(rel, old)) /\ (heap' = h => status' = "IDLE" \/ UNCHANGED ctrl)
<1> DEFINE gone == Going(rel, old)
<1>1. gone \subseteq Members(h, Pool)
  BY DEF Members, Going
<1>2. \/ UNCHANGED <<heap, ctrl>>
      \/ heap' = h /\ status' = "IDLE" /\ release' = FALSE
  BY DEF AnimDone, Stop
<1>3. ASSUME heap' = h, status' = "IDLE", release' = FALSE PROVE Lands(h, gone)
  <2>1. Leaving' = {}
    BY <1>3 DEF Leaving
  <2> QED
    BY <1>1, <1>3, <2>1 DEF Lands, Navigation!Release
<1> QED
  BY <1>2, <1>3 DEF Lands

LEMMA EnterLands ==
  ASSUME NEW h, NEW p \in Nodes, NEW old, NEW rel, NEW created,
         NEW s, NEW away,
         rel /\ old \in Nodes => h.owner[old] = Pool,
         Enter(h, p, old, rel, created, s, away)
  PROVE  Lands(h, Going(rel, old))
<1>1. CASE Stop("crash")
  BY <1>1 DEF Stop, Lands
<1>2. CASE AnimStart(h, p, old, rel, created, s, away, IsSmall(p, created))
  BY <1>2, AnimStartLands
<1>3. CASE AnimDone(h, p, old, rel, created, "OK")
  BY <1>3, AnimDoneLands
<1> QED
  BY <1>1, <1>2, <1>3 DEF Enter

(* Only the page on top leaves in a transition. *)
LEMMA LeaveLands ==
  ASSUME NEW h, NEW p \in Nodes, NEW rel, NEW s, NEW animated,
         rel => h.owner[p] = Pool,
         Leave(h, p, rel, s, animated)
  PROVE  /\ Lands(h, Going(rel, p))
         /\ UNCHANGED ctrl \/ status' = "IDLE" \/ p = pageTop
<1>1. CASE p = pageTop /\ (p \in HasDisappearing \/ s \in animated)
  <2>1. AnimStart(h, NULL, p, rel, {}, s, TRUE, TRUE)
    BY <1>1 DEF Leave
  <2> QED
    BY <1>1, <2>1, AnimStartLands
<1>2. CASE ~ (p = pageTop /\ (p \in HasDisappearing \/ s \in animated))
  <2>1. AnimDone(h, NULL, p, rel, {}, "OK")
    BY <1>2 DEF Leave
  <2>2. UNCHANGED ctrl \/ status' = "IDLE"
    BY <2>1 DEF AnimDone, Stop
  <2> QED
    BY <2>1, <2>2, AnimDoneLands
<1> QED
  BY <1>1, <1>2

(* The navigation between transitions. *)
LEMMA IdleNavigation ==
  ASSUME NInv, status = "IDLE"
  PROVE  LET s == Contents(heap, Stack)
         IN  /\ Leaving = {}
             /\ heap \in Heaps /\ WellFormed(heap) /\ Ordered(heap)
             /\ s \in Seq(Nodes) /\ Len(s) \in Nat /\ DOMAIN s = 1 .. Len(s)
             /\ \A i, j \in 1 .. Len(s) : s[i] = s[j] => i = j
             /\ IsEmpty(heap, Stack) <=> s = <<>>
             /\ s = <<>> => pageTop = NULL
             /\ s # <<>> => /\ pageTop = s[Len(s)] /\ Navigation!Last(s) = s[Len(s)]
                            /\ GetHead(heap, Stack) = s[1] /\ Len(s) \in 1 .. Len(s)
                            /\ pageTop \in Nodes /\ heap.owner[pageTop] = Stack
<1> DEFINE s == Contents(heap, Stack)
<1>1. /\ heap \in Heaps /\ WellFormed(heap) /\ Ordered(heap)
      /\ pageTop = GetTail(heap, Stack)
      /\ pageTop \in Nodes \cup {NULL}
      /\ pageTop # NULL => heap.owner[pageTop] = Stack
      /\ pageTop = NULL <=> IsEmpty(heap, Stack)
  BY IdleFacts DEF NInv
<1>2. Leaving = {}
  BY DEF NInv, IInv, TransitionKept, Leaving
<1>3. /\ s \in Seq(Members(heap, Stack)) /\ Len(s) \in Nat
      /\ \A i, j \in 1 .. Len(s) : s[i] = s[j] => i = j
      /\ IsEmpty(heap, Stack) <=> s = <<>>
      /\ s # <<>> => GetHead(heap, Stack) = s[1] /\ GetTail(heap, Stack) = s[Len(s)]
  BY <1>1, EndsOfContents
<1> HIDE DEF s
<1>4. s \in Seq(Nodes) /\ DOMAIN s = 1 .. Len(s)
  BY <1>3, SeqMonotonic, LenProperties DEF Members
<1>5. s # <<>> => Len(s) \in 1 .. Len(s)
  BY <1>4, EmptySeq
<1>6. Navigation!Last(s) = s[Len(s)]
  BY DEF Navigation!Last
<1> QED
  BY <1>1, <1>2, <1>3, <1>4, <1>5, <1>6 DEF s

LEMMA RegisterActs ==
  ASSUME NInv, NEW p \in Nodes, PmRegisterPage(p)
  PROVE  Ordered(heap)' /\ Navigation!Register(p)
<1>1. /\ heap \in Heaps /\ WellFormed(heap) /\ Ordered(heap) /\ heap.owner[p] = NULL
      /\ heap' = AddTail(heap, Pool, p) /\ UNCHANGED ctrl
  BY DEF PmRegisterPage, NInv, IInv, TypeOK, ListsWellFormed
<1>2. /\ Ordered(heap')
      /\ \A m \in Roots : m # Pool => Contents(heap', m) = Contents(heap, m)
  BY <1>1, AddTailContents
<1>3. heap'.owner = [heap.owner EXCEPT ![p] = Pool]
  BY <1>1, AddTailPreserves
<1>4. \A q \in Nodes : heap'.owner[q] = IF q = p THEN Pool ELSE heap.owner[q]
  BY <1>1, <1>3, HeapFields
<1>5. p \notin Leaving /\ Leaving' = Leaving
  BY <1>1 DEF NInv, IInv, TransitionKept, Leaving, ctrl
<1>6. p \notin Navigation!OnStack
  <2>1. /\ Contents(heap, Stack) \in Seq(Members(heap, Stack))
        /\ p \notin Members(heap, Stack)
    BY <1>1, EndsOfContents DEF Members
  <2> QED
    BY <2>1, LenProperties, ElementOfSeq DEF Navigation!OnStack, Navigation!ToSet
<1>7. p \notin Members(heap, Pool) /\ p \notin Members(heap, Backstage)
  BY <1>1 DEF Members
<1>8. /\ Members(heap', Pool) = Members(heap, Pool) \cup {p}
      /\ Members(heap', Backstage) = Members(heap, Backstage)
  BY <1>4, <1>1 DEF Members
<1>9. Contents(heap', Stack) = Contents(heap, Stack)
  BY <1>2
<1>10. status' = status
  BY <1>1 DEF ctrl
<1> QED
  BY <1>2, <1>5, <1>6, <1>7, <1>8, <1>9, <1>10 DEF Navigation!Register

LEMMA PushActs ==
  ASSUME NInv, ~ PushRestores, NEW p \in Nodes, NEW s \in Styles, PmStackPushPage(p, s)
  PROVE  Ordered(heap)' /\ (Stays \/ Navigation!Push(p))
<1> DEFINE h     == AddTail(DeleteItem(heap, Pool, p), Stack, p)
           away  == s \in {"OVER_BOTTOM_TO_TOP", "PUSH_BOTTOM_TO_TOP"}
           place == Search(p)
<1>1. \/ UNCHANGED <<heap, ctrl>>
      \/ Idle /\ place = Pool /\ Enter(h, p, pageTop, FALSE, {p}, s, away)
  BY DEF PmStackPushPage, Busy, Return, Stop
<1>2. CASE UNCHANGED <<heap, ctrl>>
  BY <1>2, SameNavigation DEF NInv
<1>3. CASE Idle /\ place = Pool /\ Enter(h, p, pageTop, FALSE, {p}, s, away)
  <2>1. status = "IDLE" /\ heap.owner[p] = Pool
    BY <1>3, SearchFindsOwner DEF Idle, NInv
  <2>2. heap \in Heaps /\ WellFormed(heap) /\ Ordered(heap) /\ Leaving = {}
    BY <2>1, IdleNavigation
  <2>3. Lands(h, Going(FALSE, pageTop))
    <3>1. away \in BOOLEAN
      OBVIOUS
    <3> HIDE DEF h, away
    <3> QED
      BY <1>3, <3>1, EnterLands
  <2>4. Ordered(h) /\ Contents(h, Stack) = Append(Contents(heap, Stack), p)
    BY <2>1, <2>2, MoveContents
  <2>5. h.owner = [heap.owner EXCEPT ![p] = Stack]
    BY <2>1, <2>2, MovePreserves
  <2> HIDE DEF h
  <2>6. \A q \in Nodes : h.owner[q] = IF q = p THEN Stack ELSE heap.owner[q]
    BY <2>2, <2>5, HeapFields
  <2>7. /\ Members(h, Pool) = Members(heap, Pool) \ {p}
        /\ Members(h, Backstage) = Members(heap, Backstage)
        /\ p \in Members(heap, Pool)
    BY <2>1, <2>6 DEF Members
  <2>8. ASSUME heap' = h, Navigation!Release({}, Members(h, Pool) \ {}) PROVE Navigation!Push(p)
    <3>1. Navigation!Release({}, (Members(heap, Pool) \ Leaving) \ {p})
      <4>1. Members(h, Pool) \ {} = (Members(heap, Pool) \ Leaving) \ {p}
        BY <2>2, <2>7
      <4> QED
        BY <2>8, <4>1
    <3> QED
      BY <2>1, <2>2, <2>4, <2>7, <2>8, <3>1 DEF Navigation!Push
  <2>9. Going(FALSE, pageTop) = {}
    BY DEF Going
  <2> QED
    BY <2>2, <2>3, <2>4, <2>8, <2>9, SameNavigation DEF Lands, Ordered
<1> QED
  BY <1>1, <1>2, <1>3

(* The stack that pm_stack_replace_page leaves: the page on top, if there  *)
(* is one, gives its place to the new one.                                 *)
LEMMA ReplacedStack ==
  ASSUME NInv, status = "IDLE", NEW p \in Nodes, NEW place \in {Pool, Backstage},
         heap.owner[p] = place
  PROVE  LET taken   == DeleteItem(heap, place, p)
             cleared == IF IsEmpty(heap, Stack) THEN taken
                        ELSE AddTail(DeleteItem(taken, Stack, pageTop), Pool, pageTop)
             h       == AddTail(cleared, Stack, p)
             s       == Contents(heap, Stack)
         IN  /\ Ordered(h)
             /\ Contents(h, Stack) = Append(IF s = <<>> THEN <<>> ELSE Front(s), p)
<1> DEFINE taken   == DeleteItem(heap, place, p)
           cleared == IF IsEmpty(heap, Stack) THEN taken
                      ELSE AddTail(DeleteItem(taken, Stack, pageTop), Pool, pageTop)
           h       == AddTail(cleared, Stack, p)
           s       == Contents(heap, Stack)
           rest    == IF s = <<>> THEN <<>> ELSE Front(s)
<1>1. /\ heap \in Heaps /\ WellFormed(heap) /\ Ordered(heap)
      /\ s \in Seq(Nodes) /\ Len(s) \in Nat
      /\ \A i, j \in 1 .. Len(s) : s[i] = s[j] => i = j
      /\ IsEmpty(heap, Stack) <=> s = <<>>
      /\ s # <<>> => /\ pageTop = s[Len(s)] /\ Len(s) \in 1 .. Len(s)
                     /\ pageTop \in Nodes /\ heap.owner[pageTop] = Stack
  BY IdleNavigation
<1>2. /\ taken \in Heaps /\ WellFormed(taken)
      /\ taken.owner = [heap.owner EXCEPT ![p] = NULL]
  <2>1. heap \in Heaps /\ WellFormed(heap) /\ place \in Roots /\ heap.owner[p] = place
    BY <1>1
  <2> QED
    BY ONLY <2>1, p \in Nodes, DeleteItemPreserves
<1>3. Ordered(taken) /\ Contents(taken, Stack) = s
  BY <1>1, UnlinkedContents DEF DeleteItem
<1> HIDE DEF taken, s
<1>4. \A q \in Nodes : taken.owner[q] = IF q = p THEN NULL ELSE heap.owner[q]
  BY <1>1, <1>2, HeapFields
<1>5. /\ cleared \in Heaps /\ WellFormed(cleared) /\ Ordered(cleared)
      /\ cleared.owner[p] = NULL
      /\ Contents(cleared, Stack) = rest
  <2>1. CASE s = <<>>
    BY <1>1, <1>2, <1>3, <1>4, <2>1
  <2>2. CASE s # <<>>
    <3>1. pageTop \in Nodes /\ pageTop # p /\ taken.owner[pageTop] = Stack
      BY <1>1, <1>4, <2>2
    <3> DEFINE c == AddTail(DeleteItem(taken, Stack, pageTop), Pool, pageTop)
    <3>2. c \in Heaps /\ WellFormed(c) /\ c.owner = [taken.owner EXCEPT ![pageTop] = Pool]
      BY <1>2, <3>1, MovePreserves
    <3>3. /\ Ordered(c)
          /\ \E i \in 1 .. Len(s) : s[i] = pageTop /\ Contents(c, Stack) = RemoveAt(s, i)
      <4>1. Stack \in Roots /\ Pool \in Roots /\ Stack # Pool
        OBVIOUS
      <4>2. /\ taken \in Heaps /\ WellFormed(taken) /\ Ordered(taken)
            /\ pageTop \in Nodes /\ taken.owner[pageTop] = Stack
        BY <1>2, <1>3, <3>1
      <4>3. /\ Ordered(AddTail(DeleteItem(taken, Stack, pageTop), Pool, pageTop))
            /\ \E i \in 1 .. Len(Contents(taken, Stack)) :
                 /\ Contents(taken, Stack)[i] = pageTop
                 /\ Contents(AddTail(DeleteItem(taken, Stack, pageTop), Pool, pageTop), Stack)
                      = RemoveAt(Contents(taken, Stack), i)
        BY ONLY <4>1, <4>2, MoveContents
      <4> QED
        BY <1>3, <4>3
    <3>4. cleared = c
      BY <1>1, <2>2
    <3> HIDE DEF c, cleared
    <3>5. Contents(c, Stack) = RemoveAt(s, Len(s))
      BY <1>1, <2>2, <3>3
    <3>6. RemoveAt(s, Len(s)) = Front(s)
      BY <1>1, <2>2, RemoveAtEnds
    <3>7. c.owner[p] = NULL
      BY <1>2, <1>4, <3>1, <3>2, HeapFields
    <3> QED
      BY <2>2, <3>2, <3>3, <3>4, <3>5, <3>6, <3>7
  <2> QED
    BY <2>1, <2>2
<1> HIDE DEF cleared
<1>6. Ordered(h) /\ Contents(h, Stack) = Append(Contents(cleared, Stack), p)
  BY <1>5, AddTailContents
<1> QED
  BY <1>5, <1>6 DEF h, cleared, taken, s

LEMMA ReplaceActs ==
  ASSUME NInv, NEW p \in Nodes, NEW s \in Styles, PmStackReplacePage(p, s)
  PROVE  Ordered(heap)' /\ (Stays \/ Navigation!Replace(p))
<1> DEFINE place   == Search(p)
           taken   == DeleteItem(heap, place, p)
           cleared == IF IsEmpty(heap, Stack) THEN taken
                      ELSE AddTail(DeleteItem(taken, Stack, pageTop), Pool, pageTop)
           old     == IF IsEmpty(heap, Stack) THEN NULL ELSE pageTop
           h       == AddTail(cleared, Stack, p)
           stack   == Contents(heap, Stack)
<1>1. \/ UNCHANGED <<heap, ctrl>>
      \/ /\ Idle /\ place \in {Pool, Backstage}
         /\ \E created : Enter(h, p, old, TRUE, created, s, FALSE)
  BY DEF PmStackReplacePage, Busy, Return, Stop
<1>2. CASE UNCHANGED <<heap, ctrl>>
  BY <1>2, SameNavigation DEF NInv
<1>3. ASSUME NEW created, Idle, place \in {Pool, Backstage},
             Enter(h, p, old, TRUE, created, s, FALSE)
      PROVE  Ordered(heap)' /\ (Stays \/ Navigation!Replace(p))
  <2>1. status = "IDLE" /\ heap.owner[p] = place
    BY <1>3, SearchFindsOwner DEF Idle, NInv
  <2>2. /\ heap \in Heaps /\ WellFormed(heap) /\ Ordered(heap) /\ Leaving = {}
        /\ IsEmpty(heap, Stack) <=> stack = <<>>
        /\ stack # <<>> => /\ pageTop = Navigation!Last(stack)
                           /\ pageTop \in Nodes /\ heap.owner[pageTop] = Stack
        /\ stack = <<>> => pageTop = NULL
    BY <2>1, IdleNavigation
  <2>3. /\ \A q \in Nodes : h.owner[q] = CASE q = p -> Stack
                                          [] q # p /\ q = pageTop -> Pool
                                          [] OTHER -> heap.owner[q]
    <3> HIDE DEF place
    <3> QED
      BY <1>3, <2>1, ReplacedHeap DEF NInv
  <2>4. /\ Ordered(h)
        /\ Contents(h, Stack) = Append(IF stack = <<>> THEN <<>> ELSE Front(stack), p)
    <3> HIDE DEF place
    <3> QED
      BY <1>3, <2>1, ReplacedStack
  <2> HIDE DEF h, place, stack
  <2> DEFINE gone == Going(TRUE, old)
  <2>5. gone = IF stack = <<>> THEN {} ELSE {Navigation!Last(stack)}
    BY <2>2 DEF Going
  <2>6. old \in Nodes => h.owner[old] = Pool
    BY <1>3, <2>1, <2>2, <2>3
  <2>7. Lands(h, gone)
    <3> HIDE DEF old
    <3> QED
      BY <1>3, <2>6, EnterLands
  <2> HIDE DEF gone, old
  <2>8. Members(h, Pool) \ gone = (Members(heap, Pool) \ Leaving) \ {p}
    BY <1>3, <2>1, <2>2, <2>3, <2>5 DEF Members
  <2>9. /\ Members(h, Backstage) = Members(heap, Backstage) \ {p}
        /\ p \in Members(heap, Pool) \cup Members(heap, Backstage)
    BY <1>3, <2>1, <2>2, <2>3 DEF Members
  <2>10. Front(stack) = Navigation!Front(stack)
    BY DEF Front, Navigation!Front
  <2>11. ASSUME heap' = h, Navigation!Release(gone, Members(h, Pool) \ gone)
         PROVE  Navigation!Replace(p)
    <3>1. Navigation!Release(IF stack = <<>> THEN {} ELSE {Navigation!Last(stack)},
                             (Members(heap, Pool) \ Leaving) \ {p})
      BY <2>5, <2>8, <2>11
    <3> QED
      BY <2>1, <2>2, <2>4, <2>9, <2>10, <2>11, <3>1 DEF Navigation!Replace, stack
  <2> QED
    BY <2>2, <2>4, <2>7, <2>11, SameNavigation DEF Lands, Ordered
<1> QED
  BY <1>1, <1>2, <1>3

(* A page taken out of the stack, by name or from the top. *)
LEMMA PopToActs ==
  ASSUME NInv, status = "IDLE", NEW name \in Nodes \cup {NULL},
         NEW list \in {Pool, Backstage}, NEW rel \in BOOLEAN, rel <=> list = Pool,
         NEW s, NEW animated,
         PopTo(name, list, rel, s, animated)
  PROVE  /\ Ordered(heap)'
         /\ \/ Stays
            \/ Named(name) \in Nodes /\ list = Pool /\ Navigation!Pop(Named(name))
            \/ Named(name) \in Nodes /\ list = Backstage /\ Navigation!Park(Named(name))
<1> DEFINE p     == Named(name)
           h     == Moved(p, list)
           stack == Contents(heap, Stack)
<1>1. \/ UNCHANGED <<heap, ctrl>>
      \/ /\ ~ IsEmpty(heap, Stack) /\ Removable(name) = "found"
         /\ Leave(h, p, rel, s, animated)
  BY DEF PopTo, Return, Stop
<1>2. CASE UNCHANGED <<heap, ctrl>>
  BY <1>2, SameNavigation DEF NInv
<1>3. CASE /\ ~ IsEmpty(heap, Stack) /\ Removable(name) = "found"
           /\ Leave(h, p, rel, s, animated)
  <2>1. /\ heap \in Heaps /\ WellFormed(heap) /\ Ordered(heap) /\ Leaving = {}
        /\ DOMAIN stack = 1 .. Len(stack)
        /\ stack # <<>> /\ pageTop = Navigation!Last(stack)
        /\ pageTop \in Nodes /\ heap.owner[pageTop] = Stack
    BY <1>3, IdleNavigation
  <2>2. p \in Nodes /\ heap.owner[p] = Stack
    BY <1>3, <2>1, WalkFindsMembers DEF Removable, Named
  <2> HIDE DEF p
  <2>3. h.owner = [heap.owner EXCEPT ![p] = list]
    BY <2>1, <2>2, MovePreserves DEF Moved
  <2>4. /\ Ordered(h)
        /\ \E i \in 1 .. Len(stack) : stack[i] = p /\ Contents(h, Stack) = RemoveAt(stack, i)
    BY <2>1, <2>2, MoveContents DEF Moved
  <2> HIDE DEF h
  <2>5. \A q \in Nodes : h.owner[q] = IF q = p THEN list ELSE heap.owner[q]
    BY <2>1, <2>3, HeapFields
  <2>6. /\ Lands(h, Going(rel, p))
        /\ UNCHANGED ctrl \/ status' = "IDLE" \/ p = pageTop
    BY <1>3, <2>2, <2>5, LeaveLands
  <2>7. status' = "RUNNING" => p = Navigation!Last(stack)
    BY <2>1, <2>6 DEF ctrl
  <2>8. \A x, y : RemoveAt(x, y) = Navigation!RemoveAt(x, y)
    BY DEF RemoveAt, Navigation!RemoveAt
  <2>9. ASSUME heap' = h PROVE Navigation!TakenOut(p, DOMAIN stack)
    BY <2>1, <2>4, <2>8, <2>9 DEF Navigation!TakenOut
  <2>10. CASE list = Pool
    <3>1. /\ Going(rel, p) = {p}
          /\ Members(h, Pool) \ {p} = Members(heap, Pool) \ Leaving
          /\ Members(h, Backstage) = Members(heap, Backstage)
      BY <2>1, <2>2, <2>5, <2>10 DEF Going, Members
    <3>2. ASSUME heap' = h, Navigation!Release({p}, Members(h, Pool) \ {p})
          PROVE  Navigation!Pop(p)
      BY <2>7, <2>9, <3>1, <3>2 DEF Navigation!Pop
    <3> QED
      BY <2>1, <2>2, <2>4, <2>6, <2>10, <3>1, <3>2, SameNavigation DEF Lands, Ordered, p
  <2>11. CASE list = Backstage
    <3>1. /\ Going(rel, p) = {}
          /\ Members(h, Pool) \ {} = Members(heap, Pool) \ Leaving
          /\ Members(h, Backstage) = Members(heap, Backstage) \cup {p}
      BY <2>1, <2>2, <2>5, <2>11 DEF Going, Members
    <3>2. ASSUME heap' = h, Navigation!Release({}, Members(h, Pool) \ {})
          PROVE  Navigation!Park(p)
      BY <2>7, <2>9, <3>1, <3>2 DEF Navigation!Park
    <3> QED
      BY <2>1, <2>2, <2>4, <2>6, <2>11, <3>1, <3>2, SameNavigation DEF Lands, Ordered, p
  <2> QED
    BY <2>10, <2>11
<1> QED
  BY <1>1, <1>2, <1>3

LEMMA PopActs ==
  ASSUME NInv, NEW name \in Nodes \cup {NULL}, NEW s \in Styles
  PROVE  /\ PmStackPopPage(name, s) =>
              Ordered(heap)' /\ (Stays \/ (Named(name) \in Nodes /\ Navigation!Pop(Named(name))))
         /\ PmStackPageBackstage(name, s) =>
              Ordered(heap)' /\ (Stays \/ (Named(name) \in Nodes /\ Navigation!Park(Named(name))))
<1>1. CASE UNCHANGED <<heap, ctrl>>
  BY <1>1, SameNavigation DEF NInv
<1>2. ASSUME PmStackPopPage(name, s)
      PROVE  \/ UNCHANGED <<heap, ctrl>>
             \/ /\ status = "IDLE"
                /\ PopTo(name, Pool, TRUE, s, Over \cup Pushy \cup {"SIZE", "FADE_OUT"})
  BY <1>2 DEF PmStackPopPage, Busy, Return, Idle
<1>3. ASSUME PmStackPageBackstage(name, s)
      PROVE  \/ UNCHANGED <<heap, ctrl>>
             \/ /\ status = "IDLE"
                /\ PopTo(name, Backstage, FALSE, s, Over \cup {"SIZE", "FADE_OUT"})
  BY <1>3 DEF PmStackPageBackstage, Busy, Return, Idle
<1> QED
  BY <1>1, <1>2, <1>3, PopToActs

(* The page at the cursor of a loop of going home. *)
LEMMA ReleaseAtCursorActs ==
  ASSUME NInv, status = "IDLE", NEW list \in {Stack, Backstage},
         cursor \in Members(heap, list), ReleaseAtCursor(list)
  PROVE  /\ Ordered(heap)'
         /\ cursor \in Nodes /\ Leaving = {}
         /\ \/ UNCHANGED <<heap, ctrl>>
            \/ /\ UNCHANGED ctrl
               /\ Members(heap', Pool) = Members(heap, Pool) \cup {cursor}
               /\ list = Backstage =>
                    /\ Contents(heap', Stack) = Contents(heap, Stack)
                    /\ Members(heap', Backstage) = Members(heap, Backstage) \ {cursor}
               /\ list = Stack =>
                    /\ Members(heap', Backstage) = Members(heap, Backstage)
                    /\ \E i \in 1 .. Len(Contents(heap, Stack)) :
                         /\ Contents(heap, Stack)[i] = cursor
                         /\ Contents(heap', Stack) = RemoveAt(Contents(heap, Stack), i)
<1> DEFINE h == AddTail(DeleteItem(heap, list, cursor), Pool, cursor)
<1>1. /\ heap \in Heaps /\ WellFormed(heap) /\ Ordered(heap) /\ Leaving = {}
      /\ cursor \in Nodes /\ heap.owner[cursor] = list
  BY IdleNavigation DEF Members
<1>2. \/ UNCHANGED <<heap, ctrl>>
      \/ heap' = h /\ UNCHANGED ctrl
  BY DEF ReleaseAtCursor, Stop
<1>3. CASE UNCHANGED <<heap, ctrl>>
  BY <1>1, <1>3, SameNavigation
<1>4. CASE heap' = h /\ UNCHANGED ctrl
  <2>1. h.owner = [heap.owner EXCEPT ![cursor] = Pool]
    <3>1. list \in Roots /\ Pool \in Roots /\ list # Pool
      OBVIOUS
    <3> QED
      BY ONLY <1>1, <3>1, MovePreserves
  <2>2. /\ Ordered(h)
        /\ \E i \in 1 .. Len(Contents(heap, list)) :
             /\ Contents(heap, list)[i] = cursor
             /\ Contents(h, list) = RemoveAt(Contents(heap, list), i)
        /\ \A m \in Roots : m \notin {list, Pool} => Contents(h, m) = Contents(heap, m)
    <3>1. list \in Roots /\ Pool \in Roots /\ list # Pool
      OBVIOUS
    <3> QED
      BY ONLY <1>1, <3>1, MoveContents
  <2> HIDE DEF h
  <2>3. \A q \in Nodes : h.owner[q] = IF q = cursor THEN Pool ELSE heap.owner[q]
    BY <1>1, <2>1, HeapFields
  <2>4. /\ Members(h, Pool) = Members(heap, Pool) \cup {cursor}
        /\ list = Backstage => Members(h, Backstage) = Members(heap, Backstage) \ {cursor}
        /\ list = Stack => Members(h, Backstage) = Members(heap, Backstage)
    BY <1>1, <2>3 DEF Members
  <2> QED
    BY <1>1, <1>4, <2>2, <2>4
<1> QED
  BY <1>2, <1>3, <1>4

LEMMA HomeReleaseBackstageActs ==
  ASSUME NInv, HomeReleaseBackstage
  PROVE  /\ Ordered(heap)' /\ cursor \in Nodes
         /\ Stays \/ Navigation!DiscardParked(cursor)
<1>1. /\ status = "IDLE" /\ cursor \in Members(heap, Backstage)
      /\ ReleaseAtCursor(Backstage)
  BY DEF HomeReleaseBackstage, NInv, IInv, LoopInList
<1>2. /\ Ordered(heap)' /\ cursor \in Nodes /\ Leaving = {}
      /\ \/ UNCHANGED <<heap, ctrl>>
         \/ /\ UNCHANGED ctrl
            /\ Members(heap', Pool) = Members(heap, Pool) \cup {cursor}
            /\ Contents(heap', Stack) = Contents(heap, Stack)
            /\ Members(heap', Backstage) = Members(heap, Backstage) \ {cursor}
  BY <1>1, ReleaseAtCursorActs
<1>3. CASE UNCHANGED <<heap, ctrl>>
  BY <1>2, <1>3, SameNavigation
<1>4. CASE /\ UNCHANGED ctrl
           /\ Members(heap', Pool) = Members(heap, Pool) \cup {cursor}
           /\ Contents(heap', Stack) = Contents(heap, Stack)
           /\ Members(heap', Backstage) = Members(heap, Backstage) \ {cursor}
  <2>1. Leaving' = Leaving /\ status' = status
    BY <1>4 DEF Leaving, ctrl
  <2> QED
    BY <1>1, <1>2, <1>4, <2>1 DEF Navigation!DiscardParked
<1> QED
  BY <1>2, <1>3, <1>4

(* The second loop keeps off both ends of the stack. *)
LEMMA HomeReleaseMiddleActs ==
  ASSUME NInv, HomeReleaseMiddle
  PROVE  /\ Ordered(heap)' /\ cursor \in Nodes
         /\ Stays \/ Navigation!DiscardMiddle(cursor)
<1> DEFINE stack == Contents(heap, Stack)
<1>1. /\ status = "IDLE" /\ cursor \in Members(heap, Stack)
      /\ Members(heap, Backstage) = {}
  BY DEF HomeReleaseMiddle, NInv, IInv, LoopInList, LoopNearRoot
<1>2. \/ UNCHANGED <<heap, ctrl>>
      \/ cursor \notin {pageTop, GetHead(heap, Stack)} /\ ReleaseAtCursor(Stack)
  BY DEF HomeReleaseMiddle
<1>3. CASE UNCHANGED <<heap, ctrl>>
  BY <1>1, <1>3, SameNavigation DEF NInv, Members
<1>4. CASE cursor \notin {pageTop, GetHead(heap, Stack)} /\ ReleaseAtCursor(Stack)
  <2>1. /\ Ordered(heap)' /\ cursor \in Nodes /\ Leaving = {}
        /\ \/ UNCHANGED <<heap, ctrl>>
           \/ /\ UNCHANGED ctrl
              /\ Members(heap', Pool) = Members(heap, Pool) \cup {cursor}
              /\ Members(heap', Backstage) = Members(heap, Backstage)
              /\ \E i \in 1 .. Len(stack) :
                   stack[i] = cursor /\ Contents(heap', Stack) = RemoveAt(stack, i)
    BY <1>1, <1>4, ReleaseAtCursorActs
  <2>2. /\ Len(stack) \in Nat
        /\ stack = <<>> => Len(stack) = 0
        /\ stack # <<>> => pageTop = stack[Len(stack)] /\ GetHead(heap, Stack) = stack[1]
    BY <1>1, IdleNavigation, EmptySeq
  <2> HIDE DEF stack
  <2>3. ASSUME NEW i \in 1 .. Len(stack), stack[i] = cursor PROVE i \in 2 .. Len(stack) - 1
    <3>1. i # 1 /\ i # Len(stack)
      BY <1>4, <2>2, <2>3
    <3> QED
      BY <2>2, <3>1
  <2>4. \A x, y : RemoveAt(x, y) = Navigation!RemoveAt(x, y)
    BY DEF RemoveAt, Navigation!RemoveAt
  <2>5. ASSUME /\ UNCHANGED ctrl
               /\ Members(heap', Pool) = Members(heap, Pool) \cup {cursor}
               /\ Members(heap', Backstage) = Members(heap, Backstage),
               NEW i \in 1 .. Len(stack),
               stack[i] = cursor /\ Contents(heap', Stack) = RemoveAt(stack, i)
        PROVE  Navigation!DiscardMiddle(cursor)
    <3>1. Leaving' = Leaving /\ status' = status
      BY <2>5 DEF Leaving, ctrl
    <3>2. Navigation!TakenOut(cursor, 2 .. Len(stack) - 1)
      BY <2>3, <2>4, <2>5 DEF Navigation!TakenOut, stack
    <3> QED
      BY <1>1, <2>1, <2>5, <3>1, <3>2 DEF Navigation!DiscardMiddle, stack
  <2> QED
    BY <2>1, <2>5, SameNavigation
<1> QED
  BY <1>2, <1>3, <1>4

LEMMA HomePopTopActs ==
  ASSUME NInv, HomePopTop
  PROVE  /\ Ordered(heap)'
         /\ Stays \/ (pageTop \in Nodes /\ Navigation!Pop(pageTop))
<1>1. /\ status = "IDLE"
      /\ PopTo(NULL, Pool, TRUE, style, Over \cup Pushy \cup {"SIZE", "FADE_OUT"})
  BY DEF HomePopTop, NInv, IInv, LoopInList
<1> QED
  BY <1>1, PopToActs DEF Named

(* The page that goes is in the pool already. *)
LEMMA RunActs ==
  ASSUME NInv, PmRun
  PROVE  Ordered(heap)' /\ (Stays \/ Navigation!Settle)
<1>1. status = "RUNNING" /\ AnimDone(heap, NULL, pageWillDisappear, release, {}, "VOID")
  BY DEF PmRun
<1>2. /\ pageWillDisappear \in Nodes /\ release => heap.owner[pageWillDisappear] = Pool
      /\ Ordered(heap)
  BY DEF NInv, IInv, TransitionKept
<1>3. /\ Lands(heap, Going(release, pageWillDisappear))
      /\ heap' = heap => status' = "IDLE" \/ UNCHANGED ctrl
  BY <1>1, <1>2, AnimDoneLands
<1>4. Going(release, pageWillDisappear) = Leaving
  BY DEF Going, Leaving
<1>5. CASE UNCHANGED <<heap, ctrl>>
  BY <1>2, <1>5, SameNavigation
<1>6. CASE /\ heap' = heap /\ status' = "IDLE"
           /\ Navigation!Release(Leaving, Members(heap, Pool) \ Leaving)
  BY <1>1, <1>2, <1>6 DEF Navigation!Settle, Ordered
<1> QED
  BY <1>3, <1>4, <1>5, <1>6 DEF Lands

(* The rest of the steps touch neither lists nor transition. *)
LEMMA OthersStay ==
  ASSUME \/ PmStackReplaceNull
         \/ \E s \in Styles : PmStackBackHomePage(s)
         \/ HomeBackstageReleased
         \/ AnimLastFrame
         \/ UNCHANGED vars
  PROVE  UNCHANGED <<heap, ctrl>>
BY DEF PmStackReplaceNull, Busy, Return, PmStackBackHomePage, HomeBackstageReleased,
       AnimLastFrame, vars

(* An operation of page_manager.c, or an iteration of a loop of going      *)
(* home, that changes the navigation at all.                               *)
ActsAsNamed ==
  ~ Stays =>
    /\ \A p \in Nodes : PmRegisterPage(p) => Navigation!Register(p)
    /\ \A p \in Nodes, s \in Styles :
         /\ PmStackPushPage(p, s) => Navigation!Push(p)
         /\ PmStackReplacePage(p, s) => Navigation!Replace(p)
    /\ \A name \in Nodes \cup {NULL}, s \in Styles :
         /\ PmStackPopPage(name, s) => Navigation!Pop(Named(name))
         /\ PmStackPageBackstage(name, s) => Navigation!Park(Named(name))
    /\ HomeReleaseBackstage => Navigation!DiscardParked(cursor)
    /\ HomeReleaseMiddle => Navigation!DiscardMiddle(cursor)
    /\ HomePopTop => Navigation!Pop(pageTop)
    /\ PmRun => Navigation!Settle

(* It is the operation of that name, of the page that was named: nothing   *)
(* is replaced by a push, popped instead of parked, or taken from the home *)
(* or the top by the loop that empties the middle.                         *)
OperationsActAsNamed == [][ActsAsNamed]_vars

LEMMA StepActs ==
  ASSUME NInv, ~ PushRestores
  PROVE  ActsAsNamed
BY RegisterActs, PushActs, ReplaceActs, PopActs, HomeReleaseBackstageActs,
   HomeReleaseMiddleActs, HomePopTopActs, RunActs DEF ActsAsNamed

LEMMA StepNavigates ==
  ASSUME NInv, ~ PushRestores, [Next]_vars
  PROVE  Ordered(heap)' /\ [Navigation!Next]_(Navigation!vars)
<1>1. ASSUME NEW p \in Nodes, PmRegisterPage(p)
      PROVE  Ordered(heap)' /\ Navigation!Next
  BY <1>1, RegisterActs DEF Navigation!Next
<1>2. ASSUME NEW p \in Nodes, NEW s \in Styles, PmStackPushPage(p, s) \/ PmStackReplacePage(p, s)
      PROVE  Ordered(heap)' /\ (Stays \/ Navigation!Next)
  BY <1>2, PushActs, ReplaceActs DEF Navigation!Next
<1>3. ASSUME NEW name \in Nodes \cup {NULL}, NEW s \in Styles,
             PmStackPopPage(name, s) \/ PmStackPageBackstage(name, s)
      PROVE  Ordered(heap)' /\ (Stays \/ Navigation!Next)
  BY <1>3, PopActs DEF Navigation!Next
<1>4. ASSUME HomeReleaseBackstage \/ HomeReleaseMiddle \/ HomePopTop
      PROVE  Ordered(heap)' /\ (Stays \/ Navigation!Next)
  BY <1>4, HomeReleaseBackstageActs, HomeReleaseMiddleActs, HomePopTopActs
     DEF Navigation!Next
<1>5. CASE PmRun
  BY <1>5, RunActs DEF Navigation!Next, Stays
<1>6. CASE UNCHANGED <<heap, ctrl>>
  BY <1>6, SameNavigation DEF NInv, Stays
<1> QED
  BY <1>1, <1>2, <1>3, <1>4, <1>5, <1>6, OthersStay DEF Next, Stays

LEMMA InitNavigates == Init => NInv /\ Navigation!Init
<1> SUFFICES ASSUME Init PROVE NInv /\ Navigation!Init
  OBVIOUS
<1>1. /\ heap = EmptyHeap /\ status = "IDLE" /\ release = FALSE /\ pc = "ready" /\ IInv
  BY InitIInv DEF Init
<1>2. Members(heap, Pool) = {} /\ Members(heap, Backstage) = {}
  BY <1>1 DEF Members, EmptyHeap
<1> QED
  BY <1>1, <1>2, EmptyHeapOrdered DEF NInv, LoopNearRoot, Leaving, Navigation!Init

LEMMA NextNInv ==
  ASSUME NInv, ~ PushRestores, [Next]_vars
  PROVE  NInv'
BY NextIInv, NextNearRoot, StepNavigates DEF NInv

(* For any number of pages and any callbacks, page_manager.c implements    *)
(* PageNavigation: seen through the order of its rings, every call and     *)
(* every iteration of going home is one operation on a stack and sets.     *)
THEOREM PageManagerImplementsNavigation ==
  ASSUME ~ PushRestores
  PROVE  Spec => ImplementsNavigation
<1>1. NInv /\ [Next]_vars => NInv'
  BY NextNInv
<1>2. NInv /\ [Next]_vars => [Navigation!Next]_(Navigation!vars)
  BY StepNavigates
<1> QED
  BY <1>1, <1>2, InitNavigates, PTL DEF Spec, ImplementsNavigation, Navigation!Spec

(* And it is the operation of the call's own name, on the page the call    *)
(* names: PageNavigation is not implemented by another of its operations.  *)
THEOREM PageManagerOperationsActAsNamed ==
  ASSUME ~ PushRestores
  PROVE  Spec => OperationsActAsNamed
<1>1. NInv /\ [Next]_vars => NInv'
  BY NextNInv
<1>2. NInv => [ActsAsNamed]_vars
  BY StepActs
<1> QED
  BY <1>1, <1>2, InitNavigates, PTL DEF Spec, OperationsActAsNamed

(* What a move does to the lengths. *)
LEMMA LengthsOfMove ==
  ASSUME NEW h \in Heaps, WellFormed(h), NEW from \in Roots, NEW to \in Roots,
         from # to, NEW n \in Nodes, h.owner[n] = from
  PROVE  LET k == AddTail(DeleteItem(h, from, n), to, n)
         IN  /\ h.len[from] > 0
             /\ k.len[from] = h.len[from] - 1
             /\ \A m \in Roots : m \notin {from, to} => k.len[m] = h.len[m]
<1>1. h.len \in [Roots -> 0 .. LenMod - 1] /\ LenMod \in Nat
  BY HeapFields, LenAssumption
<1>2. h.len[from] # 0
  BY EndsAreMembers DEF IsEmpty, Members
<1>3. DeleteItem(h, from, n) = Unlinked(h, from, n)
  BY DEF DeleteItem
<1>4. AddTail(Unlinked(h, from, n), to, n).len
        = [[h.len EXCEPT ![from] = Dec(@)] EXCEPT ![to] = Inc(@)]
  BY DEF AddTail, Unlinked
<1>5. h.len[from] \in 0 .. LenMod - 1 /\ Dec(h.len[from]) = h.len[from] - 1
  BY <1>1, <1>2 DEF Dec
<1> QED
  BY <1>1, <1>2, <1>3, <1>4, <1>5

(* The cursor of the second loop stands on neither the root nor the home   *)
(* page once it has taken out a page.                                      *)
LEMMA MiddleAdvances ==
  ASSUME NInv, HomeReleaseMiddle, fault' = "none"
  PROVE  IterationsLeft' \in 0 .. IterationsLeft - 1
<1> DEFINE head == heap.next[Stack]
<1>1. /\ pc = "middle" /\ cursor # Stack /\ cursor \in Members(heap, Stack) /\ status = "IDLE"
      /\ head # heap.prev[Stack]
  BY DEF HomeReleaseMiddle, NInv, IInv, LoopInList, LoopNearRoot
<1>2. /\ heap \in Heaps /\ WellFormed(heap) /\ ~ IsEmpty(heap, Stack)
      /\ pageTop = heap.prev[Stack] /\ GetHead(heap, Stack) = head
      /\ heap.next[pageTop] = Stack /\ heap.prev[head] = Stack
      /\ head \in Members(heap, Stack) /\ pageTop \in Members(heap, Stack)
  BY <1>1, IdleFacts, EndsAreMembers DEF NInv, GetTail, GetHead, IsEmpty, WellFormed, RingsLinked
<1>3. heap.len[Stack] \in Nat /\ heap.len[Stack] >= 2
  <2>1. heap.len[Stack] \in Nat
    BY <1>2, HeapFields
  <2>2. ~ (Members(heap, Stack) = {GetHead(heap, Stack)} \ {NULL})
    BY <1>1, <1>2
  <2> QED
    BY <1>2, <2>1, <2>2, ShallowIsHead
<1>4. head # Stack /\ cursor \in Nodes
  BY <1>1, <1>2 DEF Members
<1>5. CASE cursor \in {pageTop, head} /\ cursor' = heap.next[cursor] /\ UNCHANGED <<heap, pc>>
  <2>1. CASE cursor = head
    <3>1. cursor' # head
      BY <1>2, <1>5, <2>1, NeighboursDiffer
    <3> QED
      BY <1>1, <1>3, <1>4, <1>5, <2>1, <3>1 DEF IterationsLeft
  <2>2. CASE cursor = pageTop /\ cursor # head
    <3>1. cursor' = Stack
      BY <1>2, <1>5, <2>2
    <3> QED
      BY <1>1, <1>3, <1>4, <1>5, <2>2, <3>1 DEF IterationsLeft
  <2> QED
    BY <1>5, <2>1, <2>2
<1>6. CASE cursor \notin {pageTop, head} /\ ReleaseAtCursor(Stack)
  <2> DEFINE h == AddTail(DeleteItem(heap, Stack, cursor), Pool, cursor)
  <2>1. heap' = h /\ cursor' = heap.next[cursor] /\ pc' = pc
    BY <1>6 DEF ReleaseAtCursor, Stop
  <2>2. heap.owner[cursor] = Stack /\ Stack \in Roots /\ Pool \in Roots /\ Stack # Pool
    BY <1>1 DEF Members
  <2>3. h.len[Stack] = heap.len[Stack] - 1
    BY ONLY <1>2, <1>4, <2>2, LengthsOfMove
  <2>4. h.next[Stack] = head
    <3>1. Stack \in Members(heap, Stack) \cup {Stack} /\ Stack # cursor
      BY <1>1
    <3> QED
      BY <1>2, <1>4, <1>6, <2>2, <3>1, LinksOfMove
  <2> HIDE DEF h
  <2>5. cursor' # head
    <3>1. heap.prev[heap.next[cursor]] = cursor
      BY <1>1, <1>2 DEF WellFormed, RingsLinked
    <3> QED
      BY <1>1, <1>2, <2>1, <3>1
  <2> HIDE DEF head
  <2> QED
    BY <1>1, <1>3, <1>6, <2>1, <2>3, <2>4, <2>5 DEF IterationsLeft, head
<1> QED
  BY <1>2, <1>5, <1>6 DEF HomeReleaseMiddle

LEMMA StepAdvances ==
  ASSUME NInv, pc # "ready", fault' = "none", Next
  PROVE  IterationsLeft' \in 0 .. IterationsLeft - 1
<1>1. /\ HomeReleaseBackstage \/ HomeBackstageReleased \/ HomeReleaseMiddle \/ HomePopTop
      /\ status = "IDLE" /\ heap \in Heaps /\ WellFormed(heap)
      /\ heap.len[Stack] \in Nat /\ heap.len[Backstage] \in Nat
  <2>1. heap \in Heaps /\ WellFormed(heap) /\ status = "IDLE"
    BY DEF NInv, IInv, TypeOK, ListsWellFormed, LoopInList
  <2>2. heap.len[Stack] \in Nat /\ heap.len[Backstage] \in Nat
    BY <2>1, HeapFields
  <2> QED
    BY <2>1, <2>2
       DEF Next, PmRegisterPage, PmStackPushPage, PmStackReplacePage, PmStackReplaceNull,
           PmStackPopPage, PmStackPageBackstage, AnimLastFrame, PmRun, Busy, Idle, Ready,
           PmStackBackHomePage
<1>2. CASE HomeReleaseBackstage
  <2> DEFINE h == AddTail(DeleteItem(heap, Backstage, cursor), Pool, cursor)
  <2>1. /\ pc = "parked" /\ cursor \in Nodes /\ heap.owner[cursor] = Backstage
        /\ ReleaseAtCursor(Backstage)
    BY <1>2 DEF HomeReleaseBackstage, NInv, IInv, LoopInList, Members
  <2>2. heap' = h /\ pc' = pc
    BY <2>1 DEF ReleaseAtCursor, Stop
  <2>3. /\ h.len[Backstage] = heap.len[Backstage] - 1 /\ heap.len[Backstage] > 0
        /\ h.len[Stack] = heap.len[Stack]
    <3>1. /\ Stack \in Roots /\ Backstage \in Roots /\ Pool \in Roots
          /\ Backstage # Pool /\ Stack \notin {Backstage, Pool}
      OBVIOUS
    <3> QED
      BY ONLY <1>1, <2>1, <3>1, LengthsOfMove
  <2> HIDE DEF h
  <2> QED
    BY <1>1, <2>1, <2>2, <2>3 DEF IterationsLeft
<1>3. CASE HomeBackstageReleased
  BY <1>1, <1>3 DEF HomeBackstageReleased, IterationsLeft
<1>4. CASE HomeReleaseMiddle
  BY <1>4, MiddleAdvances
<1>5. CASE HomePopTop
  BY <1>5 DEF HomePopTop, IterationsLeft
<1> QED
  BY <1>1, <1>2, <1>3, <1>4, <1>5

(* However many pages there are, pm_stack_back_home_page needs at most as  *)
(* many iterations as backstage and stack have pages, and two: the part of *)
(* HomeReturns that can be proved here, without fairness.                  *)
THEOREM PageManagerHomeAdvances ==
  ASSUME ~ PushRestores
  PROVE  Spec => HomeAdvances
<1>1. NInv /\ [Next]_vars => NInv'
  BY NextNInv
<1>2. NInv /\ [Next]_vars
        => [pc # "ready" /\ fault' = "none" => IterationsLeft' \in 0 .. IterationsLeft - 1]_vars
  BY StepAdvances
<1> QED
  BY <1>1, <1>2, InitNavigates, PTL DEF Spec, HomeAdvances

-----------------------------------------------------------------------------
(* What a page that comes in looks like, for styles that leave no trace on *)
(* size and opacity and a gui_thread that is never 50 ms late.             *)
Traceless ==
  /\ LoopKeepsUp /\ ~ PushRestores
  /\ Styles \subseteq {"OVER", "PUSH", "FADE_IN", "NONE"}

(* A mark of an object is its hidden flag, or the displacement of the page *)
(* that goes, or will be gone at the last frame of the transition; the     *)
(* page that comes is none of those left with one.                         *)
MarksPass ==
  /\ \A p \in Nodes : \A k \in look[p] :
       \/ k = "hidden"
       \/ k = "away" /\ p = pageWillDisappear
       \/ <<p, k, FALSE>> \in motion
  /\ \A m \in motion : m[3] => m[1] = pageWillDisappear /\ m[2] = "away"
  /\ status = "RUNNING" /\ pageTop # NULL =>
       "hidden" \notin look[pageTop] /\ pageTop # pageWillDisappear

ShownIfEntered == status' = "IDLE" /\ Entered => look'[pageTop'] = {}

(* Between transitions an object is at most hidden. *)
LEMMA IdleLooks ==
  ASSUME IInv, MarksPass, status = "IDLE"
  PROVE  motion = {} /\ \A p \in Nodes : look[p] \subseteq {"hidden"}
<1>1. motion = {} /\ pageWillDisappear = NULL
  BY DEF IInv, AnimatedObjectsLive, TransitionKept
<1> QED
  BY <1>1 DEF MarksPass

(* Nothing enters unless the top changes. *)
LEMMA SameTopShown ==
  ASSUME IInv, status = "IDLE" \/ status' # "IDLE", UNCHANGED pageTop
  PROVE  ShownIfEntered
BY IdleFacts DEF ShownIfEntered, Entered

LEMMA NothingDoneLooks ==
  ASSUME IInv, MarksPass, UNCHANGED <<status, pageTop, pageWillDisappear, look, motion>>
  PROVE  MarksPass' /\ ShownIfEntered
BY SameTopShown DEF MarksPass, IInv, TypeOK

LEMMA AnimStartLooks ==
  ASSUME Traceless, IInv, MarksPass, status = "IDLE",
         NEW h, NEW new, NEW old, NEW rel, NEW created,
         NEW s \in Styles \cup {"NONE"}, NEW away \in BOOLEAN, NEW small \in BOOLEAN,
         Landing(h, new, old, rel, created),
         new # NULL \/ old # NULL, new # old, new # NULL => ~ away,
         AnimStart(h, new, old, rel, created, s, away, small)
  PROVE  MarksPass' /\ ShownIfEntered
<1>1. CASE s = "NONE"
  BY <1>1, NothingDoneLooks DEF AnimStart, Stop, ctrl, screen
<1>2. CASE s # "NONE"
  <2> DEFINE objs == obj \cup created
             looks == Uncovered(new, created)
             moves == Movements(s, Object(new, objs), Object(old, objs), away, small, looks)
  <2>1. /\ status' = "RUNNING" /\ pageTop' = new /\ pageWillDisappear' = old
        /\ motion' = moves
        /\ look' = UnderWay(looks, moves)
    BY <1>2 DEF AnimStart
  <2>2. /\ new \in Nodes \cup {NULL} /\ old \in Nodes \cup {NULL} /\ objs \in SUBSET Nodes
        /\ new \in objs \cup {NULL} /\ old \in objs \cup {NULL}
    BY TailType DEF Landing, IInv, TypeOK
  <2>3. looks \in [Nodes -> SUBSET Marks]
    BY LooksType DEF IInv
  <2>4. /\ \A p \in Nodes : looks[p] \subseteq {"hidden"}
        /\ new # NULL => looks[new] = {}
    BY <2>2, IdleLooks DEF Uncovered
  <2>5. Object(new, objs) = new /\ Object(old, objs) = old
    BY <2>2 DEF Object
  <2>6. \A m \in moves : m[3] => m[1] = old /\ m[2] = "away"
    <3> SUFFICES ASSUME NEW m \in moves, m[3] PROVE m[1] = old /\ m[2] = "away"
      OBVIOUS
    <3> HIDE DEF objs, looks
    <3>1. m \in Movements(s, new, old, away, small, looks)
      BY <2>5
    <3>2. s \in {"OVER", "PUSH", "FADE_IN"}
      BY <1>2 DEF Traceless
    <3>3. CASE s = "OVER"
      <4> DEFINE mover == IF old # NULL THEN old ELSE new
                 M == Movements(s, new, old, away, small, looks)
      <4>1. M = CASE s \in Over  -> {<<mover, "away", away>>}
                  [] s \in Pushy -> IF new # NULL /\ old # NULL
                                    THEN PmAnimPush(new, old, away) ELSE {}
                  [] s = "SIZE"  -> PmAnimSize(mover, small)
                  [] s = "FADE_IN"  -> IF new # NULL THEN PmAnimFadeIn(new, looks) ELSE {}
                  [] s = "FADE_OUT" -> IF old # NULL THEN PmAnimFadeOut(old) ELSE {}
                  [] OTHER -> {}
        BY DEF Movements, PmAnimOver
      <4>2. away => mover = old
        OBVIOUS
      <4>3. m \in M
        BY <3>1
      <4> HIDE DEF mover, M
      <4>4. m = <<mover, "away", away>>
        BY <3>3, <4>1, <4>3 DEF Over, Pushy
      <4>5. m[1] = mover /\ m[2] = "away" /\ m[3] = away
        BY <4>4
      <4> QED
        BY <4>2, <4>5
    <3>4. CASE s = "PUSH"
      <4>1. m \in {<<new, "away", away>>, <<old, "away", TRUE>>} /\ new # NULL
        BY <3>1, <3>4 DEF Movements, PmAnimPush, Over, Pushy
      <4>2. CASE m = <<new, "away", away>>
        <5>1. m[3] = away
          BY <4>2
        <5> QED
          BY <4>1, <5>1
      <4>3. CASE m = <<old, "away", TRUE>>
        BY <4>3
      <4> QED
        BY <4>1, <4>2, <4>3
    <3>5. CASE s = "FADE_IN"
      <4> DEFINE faint == "faint" \in looks[new]
      <4>1. m = <<new, "faint", faint>> /\ new # NULL
        BY <3>1, <3>5 DEF Movements, PmAnimFadeIn, Over, Pushy
      <4>2. ~ faint
        BY <2>4, <4>1
      <4> HIDE DEF faint
      <4> QED
        BY <4>1, <4>2
    <3> QED
      BY <3>2, <3>3, <3>4, <3>5
  <2>7. \A m \in moves : m \in Nodes \X Marks \X BOOLEAN /\ m[2] # "hidden"
    <3> HIDE DEF looks, objs
    <3> QED
      BY <2>2, <2>3, MovementsType
  <2> HIDE DEF moves, looks, objs
  <2>8. ASSUME NEW p \in Nodes, NEW k \in UnderWay(looks, moves)[p]
        PROVE  \/ k = "hidden" /\ p # new
               \/ k = "away" /\ p = old
               \/ <<p, k, FALSE>> \in moves /\ k # "hidden"
    <3>1. CASE k \in looks[p]
      BY <2>4, <3>1
    <3>2. CASE k \notin looks[p]
      <4>1. PICK e \in BOOLEAN : <<p, k, e>> \in moves
        BY <3>2 DEF UnderWay
      <4>2. e => p = old /\ k = "away"
        BY <2>6, <4>1
      <4>3. k # "hidden"
        BY <2>7, <4>1
      <4>4. ~ e => <<p, k, FALSE>> \in moves
        BY <4>1
      <4> QED
        BY <4>2, <4>3, <4>4
    <3> QED
      BY <3>1, <3>2
  <2>9. new # NULL => "hidden" \notin UnderWay(looks, moves)[new]
    BY <2>2, <2>8
  <2>10. MarksPass'
    BY <2>1, <2>6, <2>8, <2>9 DEF MarksPass
  <2> QED
    BY <2>1, <2>10 DEF ShownIfEntered
<1> QED
  BY <1>1, <1>2

(* The end of a transition, and of an operation without one. *)
LEMMA AnimDoneLooks ==
  ASSUME IInv, MarksPass, motion = {},
         NEW h, NEW new, NEW old, NEW rel, NEW created, NEW code,
         Landing(h, new, old, rel, created),
         pageWillDisappear \in {NULL, old},
         AnimDone(h, new, old, rel, created, code)
  PROVE  /\ MarksPass'
         /\ status' = "IDLE" /\ pageTop' = GetTail(h, Stack)
         /\ \A p \in Nodes : p # old => look'[p] = Uncovered(new, created)[p]
<1> DEFINE looks == Uncovered(new, created)
           freed == {p \in HasRelease : rel /\ p = old}
<1>1. /\ status' = "IDLE" /\ pageTop' = GetTail(h, Stack) /\ pageWillDisappear' = NULL
      /\ motion' = {}
      /\ look' = Settled(looks, old, freed)
  BY DEF AnimDone, Landing
<1>2. \A p \in Nodes : p # old => look'[p] = looks[p]
  <2> HIDE DEF looks
  <2> QED
    BY <1>1 DEF Settled
<1>3. \A p \in Nodes : looks[p] \subseteq look[p]
  BY DEF Uncovered
<1>4. \A p \in Nodes : look'[p] \subseteq {"hidden"}
  <2>1. \A p \in Nodes : \A k \in looks[p] : k = "hidden" \/ (k = "away" /\ p = old)
    BY <1>3 DEF MarksPass, IInv, TypeOK
  <2> HIDE DEF looks
  <2> QED
    BY <1>1, <2>1 DEF Settled
<1>5. MarksPass'
  BY <1>1, <1>4 DEF MarksPass
<1> QED
  BY <1>1, <1>2, <1>5

LEMMA EnterLooks ==
  ASSUME Traceless, IInv, MarksPass, status = "IDLE",
         NEW h, NEW p \in Nodes, NEW old, NEW rel, NEW created, NEW s \in Styles,
         NEW away \in BOOLEAN, ~ away,
         Landing(h, p, old, rel, created), p # old, GetTail(h, Stack) = p,
         Enter(h, p, old, rel, created, s, away)
  PROVE  MarksPass' /\ ShownIfEntered
<1>1. p \in obj \cup created /\ p # NULL
  BY DEF Landing
<1>2. CASE p \in HasAppearing \/ s \in Over \cup Pushy \cup {"SIZE", "FADE_IN"}
  <2>1. AnimStart(h, p, old, rel, created, s, away, IsSmall(p, created))
    BY <1>1, <1>2 DEF Enter
  <2>2. IsSmall(p, created) \in BOOLEAN
    BY DEF IsSmall
  <2> QED
    BY <1>1, <2>1, <2>2, AnimStartLooks
<1>3. CASE ~ (p \in HasAppearing \/ s \in Over \cup Pushy \cup {"SIZE", "FADE_IN"})
  <2>1. AnimDone(h, p, old, rel, created, "OK")
    BY <1>1, <1>3 DEF Enter
  <2>2. pageWillDisappear = NULL /\ motion = {} /\ look[p] \subseteq {"hidden"}
    BY IdleFacts, IdleLooks
  <2>3. Uncovered(p, created)[p] = {}
    BY <2>2 DEF Uncovered
  <2>4. MarksPass' /\ pageTop' = p /\ look'[p] = {}
    BY <2>1, <2>2, <2>3, AnimDoneLooks
  <2> QED
    BY <2>4 DEF ShownIfEntered
<1> QED
  BY <1>2, <1>3

LEMMA PopToLooks ==
  ASSUME Traceless, IInv, MarksPass, status = "IDLE",
         NEW name \in Nodes \cup {NULL},
         NEW list \in {Pool, Backstage}, NEW rel \in BOOLEAN, rel <=> list = Pool,
         NEW s \in Styles \cup {"NONE"}, NEW animated,
         PopTo(name, list, rel, s, animated)
  PROVE  MarksPass' /\ ShownIfEntered
<1> DEFINE p == Named(name)
           h == Moved(p, list)
<1>1. CASE Removable(name) = "found" /\ Leave(h, p, rel, s, animated)
  <2>1. /\ heap \in Heaps /\ WellFormed(heap) /\ pageWillDisappear = NULL
        /\ \A q \in Nodes : heap.owner[q] \in {Stack, Backstage} => q \in obj
    BY IdleFacts
  <2>2. heap.owner[p] = Stack /\ p \in Nodes
    <3>1. CASE name = NULL
      BY <1>1, <3>1, IdleFacts DEF Removable, Named
    <3>2. CASE name # NULL
      BY <1>1, <2>1, <3>2, WalkFindsMembers DEF Removable, Named
    <3> QED
      BY <3>1, <3>2
  <2> HIDE DEF p
  <2>3. /\ h \in Heaps /\ WellFormed(h)
        /\ h.owner = [heap.owner EXCEPT ![p] = list]
    BY <2>1, <2>2, MovePreserves DEF Moved
  <2>4. Leave(h, p, rel, s, animated)
    BY <1>1
  <2> HIDE DEF h
  <2>5. \A q \in Nodes : h.owner[q] = IF q = p THEN list ELSE heap.owner[q]
    BY <2>1, <2>3, HeapFields
  <2>6. Landing(h, NULL, p, rel, {}) /\ p # NULL
    BY <2>1, <2>2, <2>3, <2>5 DEF Landing
  <2>7. CASE AnimStart(h, NULL, p, rel, {}, s, TRUE, TRUE)
    BY <2>6, <2>7, AnimStartLooks
  <2>8. CASE AnimDone(h, NULL, p, rel, {}, "OK")
    <3>1. MarksPass' /\ pageTop' = GetTail(h, Stack)
      BY <2>1, <2>6, <2>8, IdleLooks, AnimDoneLooks
    <3>2. pageTop' # NULL => heap.owner[pageTop'] = Stack
      BY <2>3, <2>5, <3>1, TailType
    <3> QED
      BY <3>1, <3>2 DEF ShownIfEntered, Entered
  <2> QED
    BY <2>4, <2>7, <2>8 DEF Leave
<1>2. CASE UNCHANGED <<ctrl, screen>>
  BY <1>2, NothingDoneLooks DEF ctrl, screen
<1> QED
  BY <1>1, <1>2 DEF PopTo, Return, Stop

LEMMA PushLooks ==
  ASSUME Traceless, IInv, MarksPass, NEW p \in Nodes, NEW s \in Styles, PmStackPushPage(p, s)
  PROVE  MarksPass' /\ ShownIfEntered
<1> DEFINE h == AddTail(DeleteItem(heap, Pool, p), Stack, p)
           away == s \in {"OVER_BOTTOM_TO_TOP", "PUSH_BOTTOM_TO_TOP"}
           place == Search(p)
<1>1. CASE Idle /\ place = Pool /\ Enter(h, p, pageTop, FALSE, {p}, s, away)
  <2>1. status = "IDLE"
    BY <1>1 DEF Idle
  <2>2. heap \in Heaps /\ WellFormed(heap) /\ heap.owner[p] = Pool /\ p # pageTop
    BY <1>1, <2>1, IdleFacts, SearchFindsOwner
  <2>3. /\ h \in Heaps /\ WellFormed(h)
        /\ h.owner = [heap.owner EXCEPT ![p] = Stack]
        /\ GetTail(h, Stack) = p
    BY <2>2, MovePreserves
  <2>4. ~ away
    BY DEF Traceless
  <2> HIDE DEF h, away
  <2>5. \A q \in Nodes : h.owner[q] = IF q = p THEN Stack ELSE heap.owner[q]
    BY <2>2, <2>3, HeapFields
  <2>6. Landing(h, p, pageTop, FALSE, {p})
    BY <2>1, <2>3, <2>5, IdleFacts DEF Landing
  <2>7. ASSUME NEW b \in BOOLEAN, ~ b, Enter(h, p, pageTop, FALSE, {p}, s, b)
        PROVE  MarksPass' /\ ShownIfEntered
    <3>1. /\ p # pageTop /\ GetTail(h, Stack) = p
      BY <2>2, <2>3
    <3> HIDE DEF place
    <3> QED
      BY <2>1, <2>6, <2>7, <3>1, EnterLooks, ZenonT(30)
  <2>8. away \in BOOLEAN
    BY DEF away
  <2> QED
    BY <1>1, <2>4, <2>7, <2>8
<1>2. CASE UNCHANGED <<ctrl, screen>>
  BY <1>2, NothingDoneLooks DEF ctrl, screen
<1> HIDE DEF h, away, place
<1> QED
  BY <1>1, <1>2 DEF PmStackPushPage, Busy, Return, Stop, Traceless, h, away, place

LEMMA ReplaceLooks ==
  ASSUME Traceless, IInv, MarksPass, NEW p \in Nodes, NEW s \in Styles, PmStackReplacePage(p, s)
  PROVE  MarksPass' /\ ShownIfEntered
<1> DEFINE place   == Search(p)
           taken   == DeleteItem(heap, place, p)
           cleared == IF IsEmpty(heap, Stack) THEN taken
                      ELSE AddTail(DeleteItem(taken, Stack, pageTop), Pool, pageTop)
           old     == IF IsEmpty(heap, Stack) THEN NULL ELSE pageTop
           h       == AddTail(cleared, Stack, p)
<1>1. ASSUME NEW created, Idle, place \in {Pool, Backstage},
             place = Pool => created = {p}, place = Backstage => created = {},
             Enter(h, p, old, TRUE, created, s, FALSE)
      PROVE  MarksPass' /\ ShownIfEntered
  <2>1. status = "IDLE"
    BY <1>1 DEF Idle
  <2>2. heap.owner[p] = place
    BY <1>1, SearchFindsOwner
  <2>3. /\ h \in Heaps /\ WellFormed(h)
        /\ GetTail(h, Stack) = p
        /\ \A q \in Nodes : h.owner[q] = CASE q = p -> Stack
                                          [] q # p /\ q = pageTop -> Pool
                                          [] OTHER -> heap.owner[q]
    <3> HIDE DEF place
    <3> QED
      BY <1>1, <2>1, <2>2, ReplacedHeap
  <2>4. old = pageTop
    BY <2>1, IdleFacts
  <2> HIDE DEF h, place, old
  <2>5. pageTop # p
    BY <1>1, <2>1, <2>2, IdleFacts
  <2>6. Landing(h, p, old, TRUE, created)
    BY <1>1, <2>1, <2>2, <2>3, <2>4, <2>5, IdleFacts DEF Landing
  <2> QED
    BY <1>1, <2>1, <2>3, <2>4, <2>5, <2>6, EnterLooks
<1>2. CASE UNCHANGED <<ctrl, screen>>
  BY <1>2, NothingDoneLooks DEF ctrl, screen
<1> HIDE DEF h, place, old
<1>3. CASE Idle /\ place = Backstage /\ Enter(h, p, old, TRUE, {}, s, FALSE)
  BY <1>1, <1>3
<1>4. CASE Idle /\ place = Pool /\ Enter(h, p, old, TRUE, {p}, s, FALSE)
  BY <1>1, <1>4
<1> QED
  BY <1>2, <1>3, <1>4 DEF PmStackReplacePage, Busy, Return, Stop, h, place, old

LEMMA NextLooks ==
  Traceless /\ IInv /\ MarksPass /\ [Next]_vars => MarksPass' /\ ShownIfEntered
<1> SUFFICES ASSUME Traceless, IInv, MarksPass, [Next]_vars PROVE MarksPass' /\ ShownIfEntered
  OBVIOUS
<1>1. ASSUME UNCHANGED <<ctrl, look, motion>> PROVE MarksPass' /\ ShownIfEntered
  BY <1>1, NothingDoneLooks DEF ctrl
<1>2. ASSUME NEW list \in {Stack, Backstage}, pc # "ready", ReleaseAtCursor(list)
      PROVE  MarksPass' /\ ShownIfEntered
  <2>1. status = "IDLE" /\ UNCHANGED ctrl /\ UNCHANGED motion
        /\ (UNCHANGED look \/ look' = [look EXCEPT ![cursor] = {}])
    BY <1>2 DEF ReleaseAtCursor, Stop, screen, IInv, LoopInList
  <2>2. \A q \in Nodes : look'[q] \subseteq look[q]
    BY <2>1 DEF IInv, TypeOK
  <2>3. ShownIfEntered
    BY <2>1, SameTopShown DEF ctrl
  <2>4. MarksPass'
    BY <2>1, <2>2 DEF MarksPass, ctrl
  <2> QED
    BY <2>3, <2>4
<1>3. CASE AnimLastFrame
  <2>1. look' = LastFrame(look, motion) /\ motion' = {} /\ UNCHANGED ctrl /\ motion # {}
    BY <1>3 DEF AnimLastFrame
  <2>2. status # "IDLE"
    BY <2>1, IdleLooks
  <2>3. ASSUME NEW q \in Nodes, NEW k \in LastFrame(look, motion)[q]
        PROVE  \/ k = "hidden" /\ k \in look[q]
               \/ k = "away" /\ q = pageWillDisappear
    <3>1. CASE <<q, k, TRUE>> \in motion
      BY <3>1 DEF MarksPass
    <3>2. CASE k \in look[q] /\ <<q, k, FALSE>> \notin motion
      BY <3>2 DEF MarksPass
    <3>3. look[q] \subseteq Marks
      BY DEF IInv, TypeOK
    <3> QED
      BY <3>1, <3>2, <3>3 DEF LastFrame
  <2>4. MarksPass'
    BY <2>1, <2>3 DEF MarksPass, ctrl, IInv, TypeOK
  <2> QED
    BY <2>1, <2>2, <2>4, SameTopShown DEF ctrl
<1>4. CASE PmRun
  <2>1. /\ AnimDone(heap, NULL, pageWillDisappear, release, {}, "VOID")
        /\ status = "RUNNING" /\ motion = {}
    BY <1>4 DEF PmRun, Traceless
  <2>2. Landing(heap, NULL, pageWillDisappear, release, {})
    BY DEF Landing, IInv, TypeOK, ListsWellFormed, TransitionKept, ListedHaveObjects
  <2>3. /\ MarksPass' /\ pageTop' = GetTail(heap, Stack)
        /\ \A q \in Nodes : q # pageWillDisappear => look'[q] = Uncovered(NULL, {})[q]
    BY <2>1, <2>2, AnimDoneLooks
  <2>4. ASSUME pageTop # NULL PROVE look'[pageTop'] = {}
    <3>1. pageTop' = pageTop /\ pageTop \in Nodes
      BY <2>3, <2>4 DEF IInv, TopIsTail, TypeOK
    <3>2. look'[pageTop] = look[pageTop]
      BY <2>1, <2>3, <2>4, <3>1 DEF MarksPass, Uncovered
    <3>3. look[pageTop] = {}
      BY <2>1, <2>4, <3>1 DEF MarksPass
    <3> QED
      BY <3>1, <3>2, <3>3
  <2> QED
    BY <2>1, <2>3, <2>4 DEF ShownIfEntered, Entered
<1>5. CASE PmStackReplaceNull
  BY <1>1, <1>5 DEF PmStackReplaceNull, Busy, Return, screen
<1>6. ASSUME NEW name \in Nodes \cup {NULL}, NEW s \in Styles,
             PmStackPopPage(name, s) \/ PmStackPageBackstage(name, s)
      PROVE  MarksPass' /\ ShownIfEntered
  <2>1. CASE Busy
    BY <1>1, <2>1 DEF Busy, Return, screen
  <2>2. CASE Idle /\ PopTo(name, Pool, TRUE, s, Over \cup Pushy \cup {"SIZE", "FADE_OUT"})
    BY <2>2, PopToLooks DEF Idle
  <2>3. CASE Idle /\ PopTo(name, Backstage, FALSE, s, Over \cup {"SIZE", "FADE_OUT"})
    BY <2>3, PopToLooks DEF Idle
  <2> QED
    BY <1>6, <2>1, <2>2, <2>3 DEF PmStackPopPage, PmStackPageBackstage
<1>7. CASE HomePopTop
  <2>1. status = "IDLE" /\ style \in Styles \cup {"NONE"}
    BY <1>7 DEF HomePopTop, IInv, LoopInList, TypeOK
  <2> QED
    BY <1>7, <2>1, PopToLooks DEF HomePopTop
<1>8. CASE HomeReleaseMiddle
  BY <1>1, <1>2, <1>8 DEF HomeReleaseMiddle, screen
<1>9. CASE HomeReleaseBackstage
  BY <1>2, <1>9 DEF HomeReleaseBackstage
<1>10. CASE HomeBackstageReleased
  BY <1>1, <1>10 DEF HomeBackstageReleased, screen
<1>11. ASSUME NEW s \in Styles, PmStackBackHomePage(s) PROVE MarksPass' /\ ShownIfEntered
  BY <1>1, <1>11 DEF PmStackBackHomePage, Return, screen
<1>12. ASSUME NEW p \in Nodes, PmRegisterPage(p) PROVE MarksPass' /\ ShownIfEntered
  BY <1>1, <1>12 DEF PmRegisterPage, screen
<1>13. CASE UNCHANGED vars
  BY <1>1, <1>13 DEF vars, screen
<1> QED
  BY <1>3, <1>4, <1>5, <1>6, <1>7, <1>8, <1>9, <1>10, <1>11, <1>12, <1>13,
     PushLooks, ReplaceLooks DEF Next

(* With styles that leave no trace and a gui_thread in time, a page that   *)
(* came in is seen at the end of its transition, whatever it went through  *)
(* before.                                                                 *)
THEOREM PageManagerEnteredPageShown ==
  ASSUME Traceless
  PROVE  Spec => EnteredPageShown
<1>1. ~ PushRestores
  BY DEF Traceless
<1>2. Init => MarksPass
  BY DEF Init, MarksPass
<1>3. IInv /\ [Next]_vars => IInv'
  BY <1>1, NextIInv
<1>4. IInv /\ MarksPass /\ [Next]_vars
        => MarksPass' /\ [status' = "IDLE" /\ Entered => look'[pageTop'] = {}]_vars
  BY NextLooks DEF ShownIfEntered
<1> QED
  BY <1>2, <1>3, <1>4, InitIInv, PTL DEF Spec, EnteredPageShown
=============================================================================
