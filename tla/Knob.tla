-------------------------------- MODULE Knob --------------------------------
(***************************************************************************)
(* The rotary encoder of iot_knob.c: every 3 ms knob_handler samples the   *)
(* contacts a and b, debounces each and decodes their order.  The knob is  *)
(* the world: a quarter turn closes or opens one contact, and a detent is  *)
(* two quarter turns, where the contacts agree.                            *)
(***************************************************************************)
EXTENDS Integers, FiniteSets

CONSTANTS
  DebounceTicks,  \* DEBOUNCE_TICKS
  HighLimit,      \* HIGH_LIMIT
  LowLimit,       \* LOW_LIMIT
  NetBound        \* quarter turns explored in each direction

ASSUME KnobAssumption ==
  /\ DebounceTicks \in Nat \ {0} /\ NetBound \in Nat
  /\ HighLimit \in Nat \ {0} /\ LowLimit \in Int /\ LowLimit < 0

VARIABLES
  pos,     \* quadrature position of the shaft
  level,   \* encoder_a_level, encoder_b_level
  cnt,     \* debounce_a_cnt, debounce_b_cnt
  change,  \* the contacts whose change flag is set
  state,   \* CHECK, READY, or the phase that arrived first
  count,   \* count_value
  net,     \* quarter turns since the last detent before READY (history)
  turns    \* RIGHT less LEFT events so far (history)

knob == <<pos, level, cnt, change, state, count, net, turns>>

Contacts == {"a", "b"}

Position(a, b) == IF a THEN (IF b THEN 2 ELSE 1) ELSE (IF b THEN 3 ELSE 0)
Wire(p) == [c \in Contacts |-> IF c = "a" THEN p \in {1, 2} ELSE p \in {2, 3}]

Settled == level = Wire(pos)

KnobInit ==
  /\ pos \in 0 .. 3
  /\ level = Wire(pos) /\ cnt = [c \in Contacts |-> 0] /\ change = {}
  /\ state = "CHECK" /\ count = 0 /\ net = 0 /\ turns = 0

(* A quarter turn, once the contact of the last one has come to rest.      *)
Turn(d) ==
  /\ Settled
  /\ net + d \in -NetBound .. NetBound
  /\ pos' = (pos + d) % 4
  /\ net' = IF state = "CHECK" /\ pos % 2 = 1 THEN 0 ELSE net + d
  /\ UNCHANGED <<level, cnt, change, state, count, turns>>

-----------------------------------------------------------------------------
(* The first half of knob_handler: what was read, debounced.               *)
Flips(read) == {c \in Contacts : read[c] # level[c] /\ cnt[c] + 1 >= DebounceTicks}

Debounce(read) ==
  /\ level' = [c \in Contacts |-> IF c \in Flips(read) THEN read[c] ELSE level[c]]
  /\ cnt' = [c \in Contacts |->
              IF read[c] = level[c] \/ c \in Flips(read) THEN 0 ELSE cnt[c] + 1]

(* The second half, from the flags it finds; event is what it reports.     *)
Ready(flags, event) ==
  /\ state = "READY" /\ event = "NONE"
  /\ \/ "a" \in flags /\ state' = "PHASE_A" /\ change' = flags \ {"a"}
     \/ flags = {"b"} /\ state' = "PHASE_B" /\ change' = {}
     \/ flags = {} /\ UNCHANGED <<state, change>>
  /\ UNCHANGED count

(* Slip: the limits are passed before they count. *)
RightLate(flags, event) ==
  /\ state = "PHASE_A" /\ "b" \in flags /\ event = "RIGHT"
  /\ count' = IF count >= HighLimit THEN 0 ELSE count + 1
  /\ state' = "READY" /\ change' = flags \ {"b"}

Right(flags, event) ==
  /\ state = "PHASE_A" /\ "b" \in flags /\ event = "RIGHT"
  /\ count' = IF count + 1 >= HighLimit THEN 0 ELSE count + 1
  /\ state' = "READY" /\ change' = flags \ {"b"}

Left(flags, event) ==
  /\ state = "PHASE_B" /\ "a" \in flags /\ event = "LEFT"
  /\ count' = IF count - 1 <= LowLimit THEN 0 ELSE count - 1
  /\ state' = "READY" /\ change' = flags \ {"a"}

(* Slip: a contact that went back is not seen. *)
BackStays(flags, event) ==
  /\ state \in {"PHASE_A", "PHASE_B"} /\ event = "NONE"
  /\ IF state = "PHASE_A" THEN "b" \notin flags ELSE "a" \notin flags
  /\ change' = {}
  /\ UNCHANGED <<state, count>>

(* The contact that arrived first goes back, or nothing happens.           *)
Back(flags, event) ==
  /\ event = "NONE"
  /\ \/ state = "PHASE_A" /\ flags = {"a"} /\ state' = "READY" /\ change' = {}
     \/ state = "PHASE_B" /\ flags = {"b"} /\ state' = "READY" /\ change' = {}
     \/ state \in {"PHASE_A", "PHASE_B"} /\ flags = {} /\ UNCHANGED <<state, change>>
  /\ UNCHANGED count

Check(flags, event) ==
  /\ state = "CHECK" /\ event = "NONE"
  /\ \/ level'["a"] = level'["b"] /\ state' = "READY" /\ change' = {}
     \/ level'["a"] # level'["b"] /\ change' = flags /\ UNCHANGED state
  /\ UNCHANGED count

(* A contact at rest bounces for less than DebounceTicks samples; one that *)
(* has just moved may bounce for as long as it likes.                      *)
Plausible(read) ==
  \A c \in Contacts :
    read[c] # Wire(pos)[c] => level[c] # Wire(pos)[c] \/ cnt[c] + 1 < DebounceTicks

Turned(event) == CASE event = "RIGHT" -> 1 [] event = "LEFT" -> -1 [] OTHER -> 0

KnobHandler(event) ==
  /\ \E read \in [Contacts -> BOOLEAN] :
       /\ Plausible(read)
       /\ Debounce(read)
       /\ LET flags == change \cup Flips(read)
          IN  \/ Check(flags, event) \/ Ready(flags, event)
              \/ Right(flags, event) \/ Left(flags, event) \/ Back(flags, event)
  /\ turns' = turns + Turned(event)
  /\ UNCHANGED <<pos, net>>

-----------------------------------------------------------------------------
KnobTypeOK ==
  /\ pos \in 0 .. 3
  /\ level \in [Contacts -> BOOLEAN]
  /\ cnt \in [Contacts -> 0 .. DebounceTicks - 1]
  /\ change \in SUBSET Contacts
  /\ state \in {"CHECK", "READY", "PHASE_A", "PHASE_B"}
  /\ count \in LowLimit + 1 .. HighLimit - 1
  /\ net \in -NetBound .. NetBound /\ turns \in Int

(* The quarter turn that is decoded and not yet part of an event.          *)
Phase == CASE state = "PHASE_A" -> 1 [] state = "PHASE_B" -> -1 [] OTHER -> 0

(* A shaft that is turned no faster than its contacts are debounced is     *)
(* followed exactly from the first detent on: at rest the events add up to *)
(* the detents passed, whatever bounced and however often it turned back   *)
(* half way.                                                               *)
DetentsCounted ==
  Settled /\ state # "CHECK" => net = 2 * turns + Phase
=============================================================================
