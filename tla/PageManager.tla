---------------------------- MODULE PageManager ----------------------------
(***************************************************************************)
(* The page manager of pagemanager/page_manager.c.  Pages live in three    *)
(* intrusive lists (pool, stack, backstage); an operation moves pages      *)
(* between lists, creates or releases their screen objects, and starts a   *)
(* timed transition during which every other operation answers BUSY until  *)
(* pm_run ends it.  Everything runs in the one gui_thread, so an action is *)
(* a whole call; only the two loops of pm_stack_back_home_page are taken   *)
(* one iteration at a time.                                                *)
(*                                                                         *)
(* A page stands for its own name (names are taken to be distinct), and    *)
(* NULL is the null name, the top of the stack.                            *)
(***************************************************************************)
EXTENDS NodeHeap

CONSTANTS
  Pool, Stack, Backstage,   \* the three lists of pm_ctrl
  HasAppearing,      \* pages with an onAppearing callback
  HasDisappearing,   \* pages with an onDisappearing callback
  HasRelease,        \* pages with an onRelease callback
  Styles,            \* the animation styles the client passes
  PushRestores,      \* the client pushes pages that are in the backstage
  LoopKeepsUp        \* the gui_thread shows a transition's last frame
                     \* within the 50 ms that pm_run waits after its end

(* The thirteen styles of pm_anim_style_t up to direction, which only      *)
(* matters for BOTTOM_TO_TOP: pushing gives it other end points.           *)
AllStyles == {"OVER", "OVER_BOTTOM_TO_TOP", "PUSH", "PUSH_BOTTOM_TO_TOP",
              "SIZE", "FADE_IN", "FADE_OUT", "NONE"}

(* The values of page_err_t.  PM_ERR_NOT_FOUND is given none of its own    *)
(* and follows PM_ERR_FAIL, which is -1.                                   *)
Code == [OK |-> 0, FAIL |-> -1, NOT_FOUND |-> 0,
         DOUBLE_PAGE |-> 1, NO_PAGE |-> 2, BUSY |-> 3]

(* What a caller takes for success. *)
Success == {e \in DOMAIN Code : Code[e] = 0}

Over  == {"OVER", "OVER_BOTTOM_TO_TOP"}
Pushy == {"PUSH", "PUSH_BOTTOM_TO_TOP"}

ASSUME ListAssumption ==
  /\ Roots = {Pool, Stack, Backstage}
  /\ Pool # Stack /\ Pool # Backstage /\ Stack # Backstage
  /\ Roots \cap {"absent", "hang", "crash"} = {}   \* a place is no such outcome

ASSUME ClientAssumption ==
  /\ HasAppearing \subseteq Nodes
  /\ HasDisappearing \subseteq Nodes
  /\ HasRelease \subseteq Nodes
  /\ Styles \subseteq AllStyles
  /\ PushRestores \in BOOLEAN
  /\ LoopKeepsUp \in BOOLEAN

VARIABLES
  heap,                \* the lists
  status,              \* pm_ctrl.status between calls
  timeline,            \* pm_ctrl.timeline is not NULL
  pageTop,
  pageWillDisappear,
  release,
  obj,      \* pages whose "obj" points to a screen object
  lost,     \* pages that were given a second object while they had one
  look,     \* what keeps each object from being seen as laid out
  motion,   \* running animations: the object, what moves, how it ends
  ret,      \* what the last call returned
  pc,       \* where pm_stack_back_home_page is
  cursor,   \* its pNode
  style,    \* its animType
  fault     \* the gui_thread stopped: it hangs or it crashed

ctrl == <<status, timeline, pageTop, pageWillDisappear, release>>
screen == <<obj, lost, look, motion>>
loop == <<pc, cursor, style>>
vars == <<heap, ctrl, screen, ret, loop, fault>>

Marks == {"hidden", "away", "faint", "small"}

TypeOK ==
  /\ heap \in Heaps
  /\ status \in {"IDLE", "RUNNING"}
  /\ timeline \in BOOLEAN
  /\ pageTop \in Nodes \cup {NULL}
  /\ pageWillDisappear \in Nodes \cup {NULL}
  /\ release \in BOOLEAN
  /\ obj \in SUBSET Nodes
  /\ lost \in SUBSET Nodes
  /\ look \in [Nodes -> SUBSET Marks]
  /\ motion \in SUBSET (Nodes \X Marks \X BOOLEAN)
  /\ ret \in {"VOID", "OK", "FAIL", "NOT_FOUND", "DOUBLE_PAGE", "NO_PAGE", "BUSY"}
  /\ pc \in {"ready", "parked", "middle"}
  /\ cursor \in Cells \cup {NULL}
  /\ style \in Styles \cup {"NONE"}
  /\ fault \in {"none", "hang", "crash"}

(* pm_init. *)
Init ==
  /\ heap = EmptyHeap
  /\ status = "IDLE" /\ timeline = FALSE /\ release = FALSE
  /\ pageTop = NULL /\ pageWillDisappear = NULL
  /\ obj = {} /\ lost = {}
  /\ look = [p \in Nodes |-> {}]
  /\ motion = {}
  /\ ret = "VOID"
  /\ pc = "ready" /\ cursor = NULL /\ style = "NONE"
  /\ fault = "none"

-----------------------------------------------------------------------------
(* Ends of a call; the caller's place in its own loop is up to the action. *)

Return(code) == ret' = code /\ UNCHANGED <<heap, ctrl, screen, fault>>

(* The thread does not come back from the call. *)
Stop(kind) ==
  fault' = kind /\ UNCHANGED <<heap, ctrl, screen, ret>>

(* The list a name is found in when the stack, the backstage and the pool  *)
(* are searched in this order, or what the search ends with otherwise.     *)
Search(p) ==
  LET inStack == WalkResult(heap, Stack, p)
      inBackstage == WalkResult(heap, Backstage, p)
      inPool == WalkResult(heap, Pool, p)
  IN  CASE inStack = "found" -> Stack
        [] inStack \in {"hang", "crash"} -> inStack
        [] inStack = "absent" /\ inBackstage = "found" -> Backstage
        [] inStack = "absent" /\ inBackstage \in {"hang", "crash"} -> inBackstage
        [] inStack = "absent" /\ inBackstage = "absent" /\ inPool = "found" -> Pool
        [] OTHER -> inPool

-----------------------------------------------------------------------------
(* Transitions. *)

(* The animations of pm_anim.c: what they move and how they leave it.  The *)
(* opacity to fade in to is read when the animation is made.               *)
PmAnimOver(page, away)             == {<<page, "away", away>>}
PmAnimPush(driving, passive, away) == {<<driving, "away", away>>, <<passive, "away", TRUE>>}
PmAnimSize(page, small)            == {<<page, "small", small>>}
PmAnimFadeIn(page, looks)          == {<<page, "faint", "faint" \in looks[page]>>}
PmAnimFadeOut(page)                == {<<page, "faint", TRUE>>}

(* What pm_change_status_to_anim_start_cb puts on the timeline: "over" and *)
(* size styles move the old page if there is one, else the new one; "push" *)
(* styles need both.  Away and small tell how the operation's animEnd      *)
(* leaves the page it moves: a page that goes is scaled down, and one that *)
(* comes gives its present size to the page that is scaled.                *)
Movements(s, new, old, away, small, looks) ==
  LET mover == IF old # NULL THEN old ELSE new
  IN  CASE s \in Over  -> PmAnimOver(mover, away)
        [] s \in Pushy -> IF new # NULL /\ old # NULL THEN PmAnimPush(new, old, away) ELSE {}
        [] s = "SIZE"  -> PmAnimSize(mover, small)
        [] s = "FADE_IN"  -> IF new # NULL THEN PmAnimFadeIn(new, looks) ELSE {}
        [] s = "FADE_OUT" -> IF old # NULL THEN PmAnimFadeOut(old) ELSE {}
        [] OTHER -> {}

Object(p, objs) == IF p \in objs THEN p ELSE NULL

(* While an animation runs the object is neither here nor there. *)
UnderWay(looks, moves) ==
  [p \in Nodes |-> looks[p] \cup {k \in Marks : \E e \in BOOLEAN : <<p, k, e>> \in moves}]

LastFrame(looks, moves) ==
  [p \in Nodes |->
     (looks[p] \ {k \in Marks : <<p, k, FALSE>> \in moves})
       \cup {k \in Marks : <<p, k, TRUE>> \in moves}]

(* Slip: a page that comes back keeps its hidden flag. *)
UncoveredKeepsHidden(new, created) ==
  [p \in Nodes |-> IF p \in created THEN {} ELSE look[p]]

(* The looks of the objects once page new has been created or, if it had   *)
(* an object, taken out of hiding (new is NULL when no page enters).       *)
Uncovered(new, created) ==
  [p \in Nodes |-> CASE p \in created -> {}
                    [] p = new /\ p \notin created -> look[p] \ {"hidden"}
                    [] OTHER -> look[p]]

(* pm_change_status_to(PM_STATUS_ANIMATION_START) and, from there, RUNNING.*)
(* A style the switch does not know has already been driven to IDLE and    *)
(* its timeline deleted when the playtime of that timeline is asked for.   *)
AnimStart(h, new, old, rel, created, s, away, small) ==
  LET objs  == obj \cup created
      looks == Uncovered(new, created)
      moves == Movements(s, Object(new, objs), Object(old, objs), away, small, looks)
  IN  IF s = "NONE"
      THEN Stop("crash")
      ELSE /\ heap' = h
           /\ status' = "RUNNING" /\ timeline' = TRUE /\ release' = rel
           /\ pageTop' = new /\ pageWillDisappear' = old
           /\ obj' = objs /\ lost' = lost \cup (created \cap obj)
           /\ motion' = moves
           /\ look' = UnderWay(looks, moves)
           /\ ret' = "OK"
           /\ UNCHANGED fault

(* Slip: a page that only goes away is put back in place, not hidden. *)
SettledInSight(looks, old, freed) ==
  [p \in Nodes |-> IF p \in freed THEN {} ELSE looks[p] \ {k \in {"away"} : p = old}]

(* The looks once the page that goes is released, or in place and hidden. *)
Settled(looks, old, freed) ==
  [p \in Nodes |-> CASE p \in freed -> {}
                    [] p = old /\ p \notin freed -> (looks[p] \ {"away"}) \cup {"hidden"}
                    [] OTHER -> looks[p]]

(* pm_change_status_to(PM_STATUS_ANIMATION_DONE) and, from there, IDLE:    *)
(* the page that goes is released, or put back in place and hidden.        *)
AnimDone(h, new, old, rel, created, code) ==
  LET objs  == obj \cup created
      looks == Uncovered(new, created)
      freed == {p \in HasRelease : rel /\ p = old}
  IN  IF old \notin objs \cup {NULL}
      THEN Stop("crash")
      ELSE /\ heap' = h
           /\ status' = "IDLE" /\ timeline' = FALSE /\ release' = FALSE
           /\ pageTop' = GetTail(h, Stack) /\ pageWillDisappear' = NULL
           /\ obj' = objs \ freed /\ lost' = lost \cup (created \cap obj)
           /\ motion' = {}
           /\ look' = Settled(looks, old, freed)
           /\ ret' = code
           /\ UNCHANGED fault

-----------------------------------------------------------------------------
(* Operations. *)

Ready == pc = "ready" /\ fault = "none"
Idle  == Ready /\ status = "IDLE"

(* Every operation but pm_stack_back_home_page starts by asking. *)
Busy == Ready /\ status # "IDLE" /\ Return("BUSY")

(* pages_init registers each page once: nothing checks that it does. *)
PmRegisterPage(p) ==
  /\ Ready
  /\ heap.owner[p] = NULL
  /\ heap' = AddTail(heap, Pool, p)
  /\ ret' = "OK"
  /\ UNCHANGED <<ctrl, screen, loop, fault>>

(* A page that was parked with a size style is still as small as that left *)
(* it when it comes in again.                                              *)
IsSmall(p, created) == p \notin created /\ "small" \in look[p]

(* Page p, now the last of the stack of heap h, comes in. *)
Enter(h, p, old, rel, created, s, away) ==
  IF p \notin obj \cup created
  THEN Stop("crash")
  ELSE IF p \in HasAppearing \/ s \in Over \cup Pushy \cup {"SIZE", "FADE_IN"}
  THEN AnimStart(h, p, old, rel, created, s, away, IsSmall(p, created))
  ELSE AnimDone(h, p, old, rel, created, "OK")

(* Slip: whether the page is the top one is not asked. *)
LeaveUnasked(h, p, rel, s, animated) ==
  IF p \in HasDisappearing \/ s \in animated
  THEN AnimStart(h, NULL, p, rel, {}, s, TRUE, TRUE)
  ELSE AnimDone(h, NULL, p, rel, {}, "OK")

(* Page p, no longer in the stack of heap h, goes. *)
Leave(h, p, rel, s, animated) ==
  IF p = pageTop /\ (p \in HasDisappearing \/ s \in animated)
  THEN AnimStart(h, NULL, p, rel, {}, s, TRUE, TRUE)
  ELSE AnimDone(h, NULL, p, rel, {}, "OK")

(* A page found in the backstage is deleted from the pool, which does      *)
(* nothing, and then added to the stack.                                   *)
PmStackPushPage(p, s) ==
  LET place == Search(p)
      h     == AddTail(DeleteItem(heap, Pool, p), Stack, p)
      away  == s \in {"OVER_BOTTOM_TO_TOP", "PUSH_BOTTOM_TO_TOP"}
  IN  /\ UNCHANGED loop
      /\ \/ Busy
         \/ Idle /\ place = Stack /\ Return("DOUBLE_PAGE")
         \/ Idle /\ place = Backstage /\ PushRestores
            /\ Enter(h, p, pageTop, FALSE, {}, s, away)
         \/ Idle /\ place = Pool /\ Enter(h, p, pageTop, FALSE, {p}, s, away)
         \/ Idle /\ place = "absent" /\ Return("NOT_FOUND")
         \/ Idle /\ place \in {"hang", "crash"} /\ Stop(place)

(* The page on top, if there is one, goes back to the pool as the new one  *)
(* takes its place.                                                        *)
PmStackReplacePage(p, s) ==
  LET place   == Search(p)
      taken   == DeleteItem(heap, place, p)
      cleared == IF IsEmpty(heap, Stack) THEN taken
                 ELSE AddTail(DeleteItem(taken, Stack, pageTop), Pool, pageTop)
      old     == IF IsEmpty(heap, Stack) THEN NULL ELSE pageTop
      h       == AddTail(cleared, Stack, p)
  IN  /\ UNCHANGED loop
      /\ \/ Busy
         \/ Idle /\ place = Stack /\ Return("DOUBLE_PAGE")
         \/ Idle /\ place = Backstage /\ Enter(h, p, old, TRUE, {}, s, FALSE)
         \/ Idle /\ place = Pool /\ Enter(h, p, old, TRUE, {p}, s, FALSE)
         \/ Idle /\ place = "absent" /\ Return("NOT_FOUND")
         \/ Idle /\ place \in {"hang", "crash"} /\ Stop(place)

(* Replacing by the null name. *)
PmStackReplaceNull ==
  /\ UNCHANGED loop
  /\ Busy \/ (Idle /\ Return("FAIL"))

(* pm_stack_pop_page and pm_stack_page_backstage find the page the same    *)
(* way: the top, or one of the stack by its name.                          *)
Removable(name) ==
  IF name = NULL THEN (IF pageTop = NULL THEN "crash" ELSE "found")
  ELSE WalkResult(heap, Stack, name)

Named(name) == IF name = NULL THEN pageTop ELSE name

(* Slip: the page is added to the other list while the stack still owns it. *)
MovedUndeleted(p, list) == AddTail(heap, list, p)

Moved(p, list) == AddTail(DeleteItem(heap, Stack, p), list, p)

PopTo(name, list, rel, s, animated) ==
  LET p == Named(name)
  IN  \/ IsEmpty(heap, Stack) /\ Return("NO_PAGE")
      \/ ~ IsEmpty(heap, Stack) /\ Removable(name) = "absent" /\ Return("NO_PAGE")
      \/ /\ ~ IsEmpty(heap, Stack)
         /\ Removable(name) = "found"
         /\ Leave(Moved(p, list), p, rel, s, animated)
      \/ /\ ~ IsEmpty(heap, Stack)
         /\ Removable(name) \in {"hang", "crash"}
         /\ Stop(Removable(name))

PmStackPopPage(name, s) ==
  /\ UNCHANGED loop
  /\ \/ Busy
     \/ Idle /\ PopTo(name, Pool, TRUE, s, Over \cup Pushy \cup {"SIZE", "FADE_OUT"})

(* Slip: the page is put back into the pool as if it had been released. *)
PmStackPageIntoPool(name, s) ==
  /\ UNCHANGED loop
  /\ \/ Busy
     \/ Idle /\ PopTo(name, Pool, FALSE, s, Over \cup {"SIZE", "FADE_OUT"})

PmStackPageBackstage(name, s) ==
  /\ UNCHANGED loop
  /\ \/ Busy
     \/ Idle /\ PopTo(name, Backstage, FALSE, s, Over \cup {"SIZE", "FADE_OUT"})

-----------------------------------------------------------------------------
(* pm_stack_back_home_page, one loop iteration per action. *)

(* Slips: off by one; no look at the status. *)
StackIsDeeper == heap.len[Stack] > 2
NothingAboveHome == IsEmpty(heap, Backstage) /\ heap.len[Stack] < 2

StackIsDeep == heap.len[Stack] >= 2
HomeRefused == status # "IDLE" \/ (IsEmpty(heap, Backstage) /\ ~ StackIsDeep)

PmStackBackHomePage(s) ==
  /\ Ready
  /\ \/ HomeRefused /\ Return("FAIL") /\ UNCHANGED loop
     \/ /\ ~ HomeRefused
        /\ pc' = IF IsEmpty(heap, Backstage) THEN "middle" ELSE "parked"
        /\ cursor' = heap.next[IF IsEmpty(heap, Backstage) THEN Stack ELSE Backstage]
        /\ style' = s
        /\ ret' = "VOID"
        /\ UNCHANGED <<heap, ctrl, screen, fault>>

(* Slip: the successor is read after the page has been moved. *)
ReleaseThenStep(list) ==
  IF cursor \notin HasRelease \cap obj
  THEN Stop("crash") /\ UNCHANGED loop
  ELSE /\ heap' = AddTail(DeleteItem(heap, list, cursor), Pool, cursor)
       /\ obj' = obj \ {cursor}
       /\ look' = [look EXCEPT ![cursor] = {}]
       /\ cursor' = heap'.next[cursor]
       /\ UNCHANGED <<ctrl, lost, motion, ret, pc, style, fault>>

(* Slip: the page is deleted from the pool, as if it were being pushed.    *)
ReleaseFromPool(list) ==
  IF cursor \notin HasRelease \cap obj
  THEN Stop("crash") /\ UNCHANGED loop
  ELSE /\ heap' = AddTail(DeleteItem(heap, Pool, cursor), Pool, cursor)
       /\ obj' = obj \ {cursor}
       /\ look' = [look EXCEPT ![cursor] = {}]
       /\ cursor' = heap.next[cursor]
       /\ UNCHANGED <<ctrl, lost, motion, ret, pc, style, fault>>

(* The page at the cursor goes from a list to the pool and is released:    *)
(* onRelease is called whether or not there is one.                        *)
ReleaseAtCursor(list) ==
  IF cursor \notin HasRelease \cap obj
  THEN Stop("crash") /\ UNCHANGED loop
  ELSE /\ heap' = AddTail(DeleteItem(heap, list, cursor), Pool, cursor)
       /\ obj' = obj \ {cursor}
       /\ look' = [look EXCEPT ![cursor] = {}]
       /\ cursor' = heap.next[cursor]
       /\ UNCHANGED <<ctrl, lost, motion, ret, pc, style, fault>>

HomeReleaseBackstage ==
  /\ pc = "parked" /\ fault = "none" /\ cursor # Backstage
  /\ ReleaseAtCursor(Backstage)

HomeBackstageReleased ==
  /\ pc = "parked" /\ fault = "none" /\ cursor = Backstage
  /\ \/ StackIsDeep /\ pc' = "middle" /\ cursor' = heap.next[Stack] /\ UNCHANGED <<style, ret>>
     \/ ~ StackIsDeep /\ pc' = "ready" /\ cursor' = NULL /\ style' = "NONE" /\ ret' = "OK"
  /\ UNCHANGED <<heap, ctrl, screen, fault>>

HomeReleaseMiddle ==
  /\ pc = "middle" /\ fault = "none" /\ cursor # Stack
  /\ IF cursor \in {pageTop, GetHead(heap, Stack)}
     THEN cursor' = heap.next[cursor] /\ UNCHANGED <<heap, ctrl, screen, ret, pc, style, fault>>
     ELSE ReleaseAtCursor(Stack)

(* The loop ends in pm_stack_pop_page(NULL, animType). *)
HomePopTop ==
  /\ pc = "middle" /\ fault = "none" /\ cursor = Stack
  /\ pc' = "ready" /\ cursor' = NULL /\ style' = "NONE"
  /\ PopTo(NULL, Pool, TRUE, style, Over \cup Pushy \cup {"SIZE", "FADE_OUT"})

-----------------------------------------------------------------------------
(* The rest of the gui_thread loop. *)

(* lv_task_handler applies the last values of the running animations. *)
AnimLastFrame ==
  /\ Ready /\ motion # {}
  /\ look' = LastFrame(look, motion)
  /\ motion' = {}
  /\ ret' = "VOID"
  /\ UNCHANGED <<heap, ctrl, obj, lost, loop, fault>>

(* Slip: only a transition in which a page goes is ended. *)
PmRunIfLeaving ==
  /\ Ready
  /\ status = "RUNNING" /\ pageWillDisappear # NULL
  /\ LoopKeepsUp => motion = {}
  /\ AnimDone(heap, NULL, pageWillDisappear, release, {}, "VOID")
  /\ UNCHANGED loop

(* pm_run, when the clock has passed the end of the timeline by 50 ms. *)
PmRun ==
  /\ Ready
  /\ status = "RUNNING" /\ timeline
  /\ LoopKeepsUp => motion = {}
  /\ AnimDone(heap, NULL, pageWillDisappear, release, {}, "VOID")
  /\ UNCHANGED loop

Next ==
  \/ \E p \in Nodes : PmRegisterPage(p)
  \/ \E p \in Nodes, s \in Styles : PmStackPushPage(p, s)
  \/ \E p \in Nodes, s \in Styles : PmStackReplacePage(p, s)
  \/ PmStackReplaceNull
  \/ \E name \in Nodes \cup {NULL}, s \in Styles : PmStackPopPage(name, s)
  \/ \E name \in Nodes \cup {NULL}, s \in Styles : PmStackPageBackstage(name, s)
  \/ \E s \in Styles : PmStackBackHomePage(s)
  \/ HomeReleaseBackstage
  \/ HomeBackstageReleased
  \/ HomeReleaseMiddle
  \/ HomePopTop
  \/ AnimLastFrame
  \/ PmRun

(* gui_thread repeats lv_task_handler and pm_run for ever, and a call that *)
(* has begun goes on; nothing obliges a client to call anything.           *)
Fairness ==
  /\ WF_vars(AnimLastFrame)
  /\ WF_vars(PmRun)
  /\ WF_vars(HomeReleaseBackstage)
  /\ WF_vars(HomeBackstageReleased)
  /\ WF_vars(HomeReleaseMiddle)
  /\ WF_vars(HomePopTop)

Spec == Init /\ [][Next]_vars

FairSpec == Spec /\ Fairness

-----------------------------------------------------------------------------
(* Properties. *)

(* No call of the page manager ever hangs the gui_thread in a walk or      *)
(* takes it through a null pointer.                                        *)
NeverStops == fault = "none"

(* A style the switch does not know, with a page whose callback is called  *)
(* although there is nothing to animate: the timeline is gone when its     *)
(* playtime is asked for.                                                  *)
TimelineGone ==
  \/ \E p \in HasAppearing : PmStackPushPage(p, "NONE") \/ PmStackReplacePage(p, "NONE")
  \/ /\ pageTop \in HasDisappearing
     /\ \/ \E name \in {NULL, pageTop} :
             PmStackPopPage(name, "NONE") \/ PmStackPageBackstage(name, "NONE")
        \/ HomePopTop /\ style = "NONE"

(* Going home comes to a page without the onRelease it calls.              *)
ReleaseMissing == pc # "ready" /\ cursor \in Nodes \ HasRelease

(* Whatever pages, callbacks and styles there are, these two null pointers *)
(* are the only ways in which a client that does not push parked pages     *)
(* stops the thread: no walk hangs, and no page is gone when a transition  *)
(* comes to hide or release it.                                            *)
StopsAsKnown == [][fault' # fault => TimelineGone \/ ReleaseMissing]_vars

(* Whatever the order of operations, the three lists remain three disjoint *)
(* rings of the length they record.                                        *)
ListsWellFormed == WellFormed(heap)

(* A page owns a screen object exactly while it is on the stack, in the    *)
(* backstage, or going off in a transition that will release it; none is   *)
(* created over a live one.  Whatever the lists say of a page is thus true *)
(* of its memory: no use after release, no leak.                           *)
ObjectsFollowLists ==
  /\ obj = {p \in Nodes : heap.owner[p] \in {Stack, Backstage}}
             \cup {p \in Nodes : release /\ p = pageWillDisappear}
  /\ lost = {}

(* pageTop is the last page of the stack, except that it is NULL while the *)
(* former top goes; the operations that trust pageTop instead of the list  *)
(* remove the right page.                                                  *)
TopIsTail ==
  pageTop = GetTail(heap, Stack) \/ (status = "RUNNING" /\ pageTop = NULL)

(* LVGL never animates a deleted object: what a timeline moves stays alive *)
(* until the timeline is deleted, whatever is called meanwhile.            *)
AnimatedObjectsLive ==
  motion # {} => timeline /\ \A m \in motion : m[1] \in obj

(* Between transitions only the top page can show: every other page that   *)
(* still has an object is hidden, so pages never draw over each other.     *)
OnlyTopShows ==
  status = "IDLE" => \A p \in obj \ {pageTop} : "hidden" \in look[p]

(* A page that entered the stack is seen when its transition is over: not  *)
(* hidden, in place, opaque and in full size.                              *)
Entered ==
  /\ pageTop' # NULL
  /\ IF status = "RUNNING" THEN pageTop # NULL
     ELSE heap.owner[pageTop'] # Stack

EnteredPageShown == [][status' = "IDLE" /\ Entered => look'[pageTop'] = {}]_vars

(* pm_stack_back_home_page leaves nothing in the backstage and, of the     *)
(* stack, the home page alone, which is the one that was at the bottom.    *)
HomeReached ==
  [][pc # "ready" /\ pc' = "ready" =>
       /\ Members(heap', Backstage) = {}
       /\ Members(heap', Stack) = {GetHead(heap, Stack)} \ {NULL}]_vars

(* How many more iterations a call of pm_stack_back_home_page can take: one *)
(* for each parked page and one that finds the backstage empty; one for    *)
(* each page of the stack and one that pops the top.                       *)
IterationsLeft ==
  CASE pc = "ready"  -> 0
    [] pc = "parked" -> heap.len[Backstage] + heap.len[Stack] + 2
    [] pc = "middle" /\ cursor = Stack -> 1
    [] pc = "middle" /\ cursor # Stack ->
         heap.len[Stack] + (IF cursor = heap.next[Stack] THEN 1 ELSE 0)

(* Its loops never go round in vain: every iteration leaves fewer to come, *)
(* although it takes apart the ring that it walks.                         *)
HomeAdvances ==
  [][pc # "ready" /\ fault' = "none" => IterationsLeft' \in 0 .. IterationsLeft - 1]_vars

(* Every transition ends: the manager never answers BUSY for ever. *)
TransitionsEnd == status = "RUNNING" ~> status = "IDLE"

(* Every call of pm_stack_back_home_page returns. *)
HomeReturns == pc # "ready" ~> pc = "ready"

(* A caller whom pm_stack_push_page tells PM_ERR_OK has its page on the     *)
(* stack.                                                                  *)
PushedWhenOk ==
  [][\A p \in Nodes, s \in Styles :
       PmStackPushPage(p, s) /\ fault' = "none" /\ ret' \in Success
         => heap'.owner[p] = Stack]_vars

(* pm_stack_back_home_page ends on a home page that is seen. *)
HomeShown ==
  [][pc # "ready" /\ pc' = "ready" /\ status' = "IDLE" /\ pageTop' # NULL
       => look'[pageTop'] = {}]_vars

-----------------------------------------------------------------------------
(* The lists as a sequence and sets.  The page that a transition releases  *)
(* at its end is already in the pool.                                      *)
Leaving == {p \in Nodes : release /\ p = pageWillDisappear}

Navigation ==
  INSTANCE PageNavigation WITH
    Pages   <- Nodes,
    stack   <- Contents(heap, Stack),
    parked  <- Members(heap, Backstage),
    off     <- Members(heap, Pool) \ Leaving,
    leaving <- Leaving,
    moving  <- status = "RUNNING"

(* The page manager implements PageNavigation: whatever page_manager.c     *)
(* does to pointer rings in a call, or in an iteration of the loops of     *)
(* going home, is one operation on a sequence and sets, or nothing.  That  *)
(* every transition ends is TransitionsEnd.                                *)
ImplementsNavigation == Navigation!Spec
=============================================================================
