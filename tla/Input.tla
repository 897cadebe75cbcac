-------------------------------- MODULE Input --------------------------------
(***************************************************************************)
(* From the knob to the screen: the callbacks of dev_knob.c turn events    *)
(* into bits, in the task of esp_timer, and knob_read of lv_port.c, in     *)
(* gui_thread, takes the bits, turns the ring of LEDs (dev_led.c) and      *)
(* reports a long press to LVGL.  LVGL does not look at enc_diff of a      *)
(* keypad, so the position of knob_read is followed by the LEDs only.      *)
(***************************************************************************)
EXTENDS Knob, Button

CONSTANT Num   \* led.num

ASSUME InputAssumption == Num \in Nat \ {0}

VARIABLES
  bits,     \* st_knob_ctrl.event
  led,      \* led.idx, the LED that is lit
  indev,    \* data->state, as LVGL sees it
  hurried   \* a turn came too soon to be told from another (history)

device == <<bits, led, indev, hurried>>
vars == <<knob, button, device>>

TurnBits == {"LEFT", "RIGHT"}
Masks == TurnBits \cup {"PRESS", "LONG"}

Init ==
  /\ KnobInit /\ ButtonInit
  /\ bits = {} /\ led = 0
  /\ indev = "RELEASED" /\ hurried = FALSE

EncoderCb(event) ==
  /\ bits' = IF event \in TurnBits THEN bits \cup {event} ELSE bits
  /\ hurried' = (hurried \/ (event \in TurnBits /\ bits \cap TurnBits # {}))
  /\ UNCHANGED <<led, indev>>

(* Slip: a release leaves the long press. *)
PressUpKeepsLong(event) ==
  /\ bits' = CASE event = "PRESS_DOWN" -> bits \cup {"PRESS"}
               [] event = "PRESS_UP" -> bits \ {"PRESS"}
               [] event = "LONG_PRESS_START" -> bits \cup {"LONG"}
               [] OTHER -> bits
  /\ UNCHANGED <<led, indev, hurried>>

ButtonPressCb(event) ==
  /\ bits' = CASE event = "PRESS_DOWN" -> bits \cup {"PRESS"}
               [] event = "PRESS_UP" -> bits \ {"PRESS", "LONG"}
               [] event = "LONG_PRESS_START" -> bits \cup {"LONG"}
               [] OTHER -> bits
  /\ UNCHANGED <<led, indev, hurried>>

(* The two periodic timers. *)
KnobTimer ==
  /\ \E event \in TurnBits \cup {"NONE"} : KnobHandler(event) /\ EncoderCb(event)
  /\ UNCHANGED button

ButtonTimer ==
  /\ \E event \in {"PRESS_DOWN", "PRESS_UP", "LONG_PRESS_START", "NONE"} :
       ButtonHandler(event) /\ ButtonPressCb(event)
  /\ UNCHANGED knob

ScrollLeft  == led' = IF led = Num - 1 THEN 0 ELSE led + 1
ScrollRight == led' = IF led = 0 THEN Num - 1 ELSE led - 1

(* Slip: the bits stay until they are overwritten. *)
DevKnobKeeps == UNCHANGED bits

DevKnobRead == bits' = bits \ TurnBits

(* knob_read.  LVGL clears data before it asks, so a turn is reported as   *)
(* released, too.                                                          *)
KnobRead ==
  /\ DevKnobRead
  /\ \/ /\ "LONG" \in bits
        /\ indev' = "PRESSED"
        /\ hurried' = (hurried \/ bits \cap TurnBits # {})
        /\ UNCHANGED led
     \/ /\ "LONG" \notin bits
        /\ \/ "LEFT" \in bits /\ ScrollLeft
           \/ "LEFT" \notin bits /\ "RIGHT" \in bits /\ ScrollRight
           \/ bits \cap TurnBits = {} /\ UNCHANGED led
        /\ indev' = "RELEASED"
        /\ UNCHANGED hurried
  /\ UNCHANGED <<knob, button>>

Shaft == (\E d \in {-1, 1} : Turn(d)) /\ UNCHANGED <<button, device>>

Finger == ContactMoves /\ UNCHANGED <<knob, device>>

Next == Shaft \/ Finger \/ KnobTimer \/ ButtonTimer \/ KnobRead

(* The timer of the button and the input device of LVGL are periodic.      *)
Spec ==
  /\ Init /\ [][Next]_vars
  /\ WF_vars(ButtonTimer) /\ WF_vars(KnobRead)

-----------------------------------------------------------------------------
TypeOK ==
  /\ KnobTypeOK /\ ButtonTypeOK
  /\ bits \in SUBSET Masks
  /\ led \in 0 .. Num - 1
  /\ indev \in {"RELEASED", "PRESSED"} /\ hurried \in BOOLEAN

(* The bits say what the button does, whatever order its events and the    *)
(* reads come in.                                                          *)
BitsFollowButton ==
  /\ "PRESS" \in bits <=> btn_state \in {1, 3, 5}
  /\ "LONG" \in bits <=> btn_state = 5

Pending == (IF "RIGHT" \in bits THEN 1 ELSE 0) - (IF "LEFT" \in bits THEN 1 ELSE 0)

(* Detents that are read one by one and not during a long press all arrive *)
(* and the ring of LEDs turns with them; only a turn that meets another    *)
(* one unread, or a long press, is lost.                                   *)
NothingMissed ==
  /\ ~hurried => (led + turns - Pending) % Num = 0
  /\ BitsFollowButton

(* A released button does not stay pressed for LVGL, and a button that is  *)
(* held shows, unless the press followed another one closely.  However     *)
(* presses followed each other, the machine of a button that is let go     *)
(* comes to rest, from where the next press can be a long one again.       *)
LongPressShows ==
  /\ <>[](~contact) => <>[](indev = "RELEASED" /\ btn_state = 0)
  /\ <>[]contact => <>[](indev = "PRESSED" \/ btn_state = 3)
=============================================================================
