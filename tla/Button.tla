------------------------------- MODULE Button -------------------------------
(***************************************************************************)
(* The push button of iot_button.c, sampled every 20 ms.  The callbacks of *)
(* clicks and of a held press are not registered; what only they depend on *)
(* (repeat, long_press_hold_cnt) is left out.                              *)
(***************************************************************************)
EXTENDS Naturals

CONSTANTS
  ButtonDebounce,   \* DEBOUNCE_TICKS
  long_press_ticks, short_press_ticks,
  TickMod           \* 2^16, the range of ticks

(* The range of DEBOUNCE_TICKS is that of Kconfig; with 8, which a counter *)
(* of three bits never reaches, the button never changes.                  *)
ASSUME ButtonAssumption ==
  /\ ButtonDebounce \in 1 .. 8
  /\ long_press_ticks \in Nat /\ short_press_ticks \in Nat
  /\ TickMod \in Nat /\ TickMod > long_press_ticks + 1 /\ TickMod > short_press_ticks + 1

VARIABLES
  contact,       \* the button (the world): true while it is pressed
  button_level,  \* the same, debounced
  debounce_cnt,
  btn_state,     \* 0 idle, 1 pressed, 2 released, 3 pressed again, 5 held
  ticks

button == <<contact, button_level, debounce_cnt, btn_state, ticks>>

ButtonInit ==
  /\ contact = FALSE /\ button_level = FALSE /\ debounce_cnt = 0
  /\ btn_state = 0 /\ ticks = 0

(* The finger, or a bounce. *)
ContactMoves ==
  /\ contact' = ~contact
  /\ UNCHANGED <<button_level, debounce_cnt, btn_state, ticks>>

(* debounce_cnt is a field of three bits.                                  *)
DebounceButton ==
  LET differs == contact # button_level
      counted == (debounce_cnt + 1) % 8
      flips   == differs /\ counted >= ButtonDebounce
  IN  /\ button_level' = IF flips THEN contact ELSE button_level
      /\ debounce_cnt' = IF differs /\ ~flips THEN counted ELSE 0

Ticked == IF btn_state > 0 THEN (ticks + 1) % TickMod ELSE ticks

Idle(event) ==
  /\ btn_state = 0
  /\ \/ /\ button_level' /\ event = "PRESS_DOWN"
        /\ btn_state' = 1 /\ ticks' = 0
     \/ /\ ~button_level' /\ event = "NONE"
        /\ UNCHANGED btn_state /\ ticks' = Ticked

Pressed(event) ==
  /\ btn_state = 1
  /\ \/ /\ ~button_level' /\ event = "PRESS_UP"
        /\ btn_state' = 2 /\ ticks' = 0
     \/ /\ button_level' /\ Ticked > long_press_ticks /\ event = "LONG_PRESS_START"
        /\ btn_state' = 5 /\ ticks' = Ticked
     \/ /\ button_level' /\ Ticked <= long_press_ticks /\ event = "NONE"
        /\ UNCHANGED btn_state /\ ticks' = Ticked

Released(event) ==
  /\ btn_state = 2
  /\ \/ /\ button_level' /\ event = "PRESS_DOWN"
        /\ btn_state' = 3 /\ ticks' = 0
     \/ /\ ~button_level' /\ event = "NONE"
        /\ btn_state' = IF Ticked > short_press_ticks THEN 0 ELSE 2
        /\ ticks' = Ticked

(* A press that follows another closely never becomes a long one.          *)
PressedAgain(event) ==
  /\ btn_state = 3
  /\ \/ /\ ~button_level' /\ event = "PRESS_UP"
        /\ \/ Ticked < short_press_ticks /\ btn_state' = 2 /\ ticks' = 0
           \/ Ticked >= short_press_ticks /\ btn_state' = 0 /\ ticks' = Ticked
     \/ /\ button_level' /\ event = "NONE"
        /\ UNCHANGED btn_state /\ ticks' = Ticked

Held(event) ==
  /\ btn_state = 5
  /\ \/ /\ ~button_level' /\ event = "PRESS_UP"
        /\ btn_state' = 0
     \/ /\ button_level' /\ event = "NONE"
        /\ UNCHANGED btn_state
  /\ ticks' = Ticked

(* button_handler; event is the registered callback it calls.              *)
ButtonHandler(event) ==
  /\ DebounceButton /\ UNCHANGED contact
  /\ \/ Idle(event) \/ Pressed(event) \/ Released(event)
     \/ PressedAgain(event) \/ Held(event)

ButtonTypeOK ==
  /\ contact \in BOOLEAN /\ button_level \in BOOLEAN
  /\ debounce_cnt \in 0 .. ButtonDebounce - 1
  /\ btn_state \in {0, 1, 2, 3, 5}
  /\ ticks \in 0 .. TickMod - 1
=============================================================================
