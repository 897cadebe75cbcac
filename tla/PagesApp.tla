------------------------------ MODULE PagesApp ------------------------------
(***************************************************************************)
(* The program pages/pages.c makes of the page manager: pages_init         *)
(* registers three pages and shows page1, then a 5 s LVGL timer parks      *)
(* page1 in the backstage and pushes it again, in turn.  Pushing a page of *)
(* the backstage does not take it out of there, so the lists are not well  *)
(* formed for long; this module shows what that means for this program.    *)
(***************************************************************************)
EXTENDS PageManager

CONSTANTS
  page1, page2, page3,
  CountMod             \* the values of the uint8_t "count" are 0 .. CountMod - 1

ASSUME AppAssumption ==
  /\ Nodes = {page1, page2, page3}
  /\ page1 # page2 /\ page1 # page3 /\ page2 # page3
  /\ CountMod \in Nat \ {0}
  /\ "OVER" \in Styles
  /\ PushRestores

VARIABLES
  begun,   \* how many calls of pages_init are done
  count    \* timer_cb's counter

app == <<begun, count>>
appVars == <<vars, app>>

AppTypeOK == TypeOK /\ begun \in 0 .. 4 /\ count \in 0 .. CountMod - 1

AppInit == Init /\ begun = 0 /\ count = 0

(* pages_init: page_main_init, page2_init, page3_init, then page1 enters. *)
PagesInit ==
  /\ begun < 4
  /\ begun' = begun + 1
  /\ UNCHANGED count
  /\ \/ begun = 0 /\ PmRegisterPage(page1)
     \/ begun = 1 /\ PmRegisterPage(page2)
     \/ begun = 2 /\ PmRegisterPage(page3)
     \/ begun = 3 /\ PmStackPushPage(page1, "OVER")

(* Slips: pages named by the counter, as in the code that is commented     *)
(* out; a turn that only passes when the call succeeds.                    *)
TimerCbByNumber ==
  /\ begun = 4
  /\ count' = (count + 1) % CountMod
  /\ UNCHANGED begun
  /\ IF count % 2 = 1
     THEN PmStackPageBackstage(NULL, "OVER")
     ELSE PmStackPushPage(IF count = 0 THEN page1 ELSE page2, "OVER")

TimerCbInsists ==
  /\ begun = 4
  /\ UNCHANGED begun
  /\ IF count % 2 = 1
     THEN PmStackPageBackstage(NULL, "OVER")
     ELSE PmStackPushPage(page1, "OVER")
  /\ count' = IF ret' = "OK" THEN (count + 1) % CountMod ELSE count

(* timer_cb ignores what the call returns: a call that meets a transition  *)
(* is dropped and the turn passes all the same.                            *)
TimerCb ==
  /\ begun = 4
  /\ count' = (count + 1) % CountMod
  /\ UNCHANGED begun
  /\ IF count % 2 = 1
     THEN PmStackPageBackstage(NULL, "OVER")
     ELSE PmStackPushPage(page1, "OVER")

(* The gui_thread loop. *)
Loop == begun = 4 /\ (AnimLastFrame \/ PmRun) /\ UNCHANGED app

AppNext == PagesInit \/ TimerCb \/ Loop

(* The timer is periodic and the loop endless. *)
AppSpec ==
  /\ AppInit /\ [][AppNext]_appVars
  /\ WF_appVars(PagesInit)
  /\ WF_appVars(TimerCb)
  /\ WF_appVars(Loop)

-----------------------------------------------------------------------------
(* The page in use is created once: parking and pushing it again and again *)
(* neither makes a second object over the first nor one of another page.   *)
OneClock == lost = {} /\ obj \subseteq {page1}

(* The screen keeps alternating, whatever calls the timer loses to running *)
(* transitions: page1 is again and again in full view, and again and again *)
(* put away.                                                               *)
Alternates ==
  /\ []<>(status = "IDLE" /\ pageTop = page1 /\ look[page1] = {})
  /\ []<>(status = "IDLE" /\ pageTop = NULL /\ "hidden" \in look[page1])
=============================================================================
