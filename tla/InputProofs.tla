----------------------------- MODULE InputProofs -----------------------------
(***************************************************************************)
(* For any debouncing, limits and timing: the knob's events add up to the  *)
(* detents it passed, the event bits say what the button does, and the     *)
(* ring of LEDs follows the knob as long as no turn is hurried.            *)
(***************************************************************************)
EXTENDS Input, TLAPS

(* Where the decoded levels stand, and how far the shaft is ahead.         *)
At == Position(level["a"], level["b"])
Ahead(d) == pos = (At + d) % 4
Lag == net - (2 * turns + Phase)

(* Before the first detent nothing is counted; after it the shaft is ahead *)
(* by what the events and the phase do not account for, and at most by the *)
(* contact that is still bouncing.                                         *)
Checking ==
  /\ turns = 0
  /\ \E d \in {-1, 0, 1} : Ahead(d)
  /\ level["a"] = level["b"] => net \in {-1, 0, 1} /\ Ahead(net)
  /\ level["a"] # level["b"] /\ pos % 2 = 0 => net = 0

Following ==
  /\ change = {}
  /\ state = "READY" <=> level["a"] = level["b"]
  /\ Lag \in {-1, 0, 1} /\ Ahead(Lag)

KnobInv ==
  /\ KnobTypeOK
  /\ state = "CHECK" => Checking
  /\ state # "CHECK" => Following

(* The ring of LEDs stands where the turns that were read left it, whole   *)
(* rounds apart.                                                           *)
RingFollows ==
  ~hurried => /\ \E k \in Int : led + turns - Pending = Num * k
              /\ ~("LEFT" \in bits /\ "RIGHT" \in bits)

DeviceTypeOK ==
  /\ bits \in SUBSET Masks
  /\ led \in 0 .. Num - 1
  /\ indev \in {"RELEASED", "PRESSED"} /\ hurried \in BOOLEAN

-----------------------------------------------------------------------------
(* Quadrature, position by position. *)
LEMMA Mod4 == \A y \in -1 .. 4 : y % 4 = IF y < 0 THEN y + 4 ELSE IF y < 4 THEN y ELSE y - 4
  OBVIOUS

LEMMA Positions ==
  ASSUME NEW a \in BOOLEAN, NEW b \in BOOLEAN
  PROVE  /\ Position(a, b) \in 0 .. 3
         /\ Position(a, b) = 0 <=> ~a /\ ~b
         /\ Position(a, b) = 1 <=> a /\ ~b
         /\ Position(a, b) = 2 <=> a /\ b
         /\ Position(a, b) = 3 <=> ~a /\ b
  BY DEF Position

LEMMA Wires ==
  ASSUME NEW p \in 0 .. 3
  PROVE  /\ Wire(p)["a"] <=> p = 1 \/ p = 2
         /\ Wire(p)["b"] <=> p = 2 \/ p = 3
  BY DEF Wire, Contacts

LEMMA WireType == ASSUME NEW p \in 0 .. 3 PROVE Wire(p) \in [Contacts -> BOOLEAN]
  BY DEF Wire, Contacts

LEMMA BoolEq == ASSUME NEW a \in BOOLEAN, NEW b \in BOOLEAN PROVE (a = b) <=> (a <=> b)
  BY Zenon

(* Which contact the shaft is ahead by. *)
LEMMA Quadrature ==
  ASSUME NEW a \in BOOLEAN, NEW b \in BOOLEAN, NEW p \in 0 .. 3, NEW d \in {-1, 0, 1},
         p = (Position(a, b) + d) % 4
  PROVE  /\ d = 0 => (a <=> p = 1 \/ p = 2) /\ (b <=> p = 2 \/ p = 3)
         /\ d = 1 /\ (a <=> b) => ~(a <=> p = 1 \/ p = 2) /\ (b <=> p = 2 \/ p = 3)
         /\ d = 1 /\ ~(a <=> b) => (a <=> p = 1 \/ p = 2) /\ ~(b <=> p = 2 \/ p = 3)
         /\ d = -1 /\ (a <=> b) => (a <=> p = 1 \/ p = 2) /\ ~(b <=> p = 2 \/ p = 3)
         /\ d = -1 /\ ~(a <=> b) => ~(a <=> p = 1 \/ p = 2) /\ (b <=> p = 2 \/ p = 3)
  <1> DEFINE x == Position(a, b)
  <1>1. x \in 0 .. 3 /\ x + d \in -1 .. 4
    BY Positions
  <1>2. p = IF x + d < 0 THEN x + d + 4 ELSE IF x + d < 4 THEN x + d ELSE x + d - 4
    BY <1>1, Mod4
  <1> QED BY <1>1, <1>2, Positions

LEMMA Resting ==
  ASSUME NEW a \in BOOLEAN, NEW b \in BOOLEAN, NEW p \in 0 .. 3,
         a <=> p = 1 \/ p = 2, b <=> p = 2 \/ p = 3
  PROVE  Position(a, b) = p /\ ((a <=> b) <=> p % 2 = 0) /\ p = (p + 0) % 4
  BY Positions

-----------------------------------------------------------------------------
(* One sample: a contact flips only to where the shaft has put it.         *)
LEMMA Sampled ==
  ASSUME KnobTypeOK, NEW read \in [Contacts -> BOOLEAN], Plausible(read), Debounce(read)
  PROVE  /\ level' \in [Contacts -> BOOLEAN] /\ cnt' \in [Contacts -> 0 .. DebounceTicks - 1]
         /\ \A c \in Contacts :
              IF c \in Flips(read)
                THEN (level'[c] <=> Wire(pos)[c]) /\ ~(level[c] <=> Wire(pos)[c])
                ELSE level'[c] <=> level[c]
  <1>1. level' \in [Contacts -> BOOLEAN]
    BY DEF KnobTypeOK, Debounce
  <1>2. ASSUME NEW c \in Contacts
        PROVE  (IF read[c] = level[c] \/ c \in Flips(read) THEN 0 ELSE cnt[c] + 1)
                 \in 0 .. DebounceTicks - 1
    BY KnobAssumption DEF KnobTypeOK, Flips
  <1>3. cnt' \in [Contacts -> 0 .. DebounceTicks - 1]
    BY <1>2 DEF Debounce
  <1>4. ASSUME NEW c \in Contacts, c \in Flips(read)
        PROVE  (level'[c] <=> Wire(pos)[c]) /\ ~(level[c] <=> Wire(pos)[c])
    <2>1. /\ read[c] \in BOOLEAN /\ level[c] \in BOOLEAN /\ Wire(pos)[c] \in BOOLEAN
          /\ cnt[c] \in Int
      BY WireType DEF KnobTypeOK
    <2>2. read[c] # level[c] /\ cnt[c] + 1 >= DebounceTicks /\ level'[c] = read[c]
      BY <1>4 DEF Flips, Debounce
    <2>3. read[c] = Wire(pos)[c] \/ level[c] # Wire(pos)[c]
      BY <2>1, <2>2, KnobAssumption DEF Plausible
    <2> QED BY <2>1, <2>2, <2>3, BoolEq
  <1>5. ASSUME NEW c \in Contacts, c \notin Flips(read) PROVE level'[c] <=> level[c]
    BY <1>5 DEF Debounce
  <1> QED BY <1>1, <1>3, <1>4, <1>5

(* What one sample can do to a knob whose shaft is d ahead: nothing, or    *)
(* catch up, by the one contact that was behind.                           *)
CaughtUp ==
  /\ At' = pos
  /\ level'["a"] = level'["b"] <=> pos % 2 = 0
  /\ ~(level'["a"] = level'["b"] <=> level["a"] = level["b"])

LEMMA SampleMoves ==
  ASSUME KnobTypeOK, NEW d \in {-1, 0, 1}, Ahead(d),
         NEW read \in [Contacts -> BOOLEAN], Plausible(read), Debounce(read)
  PROVE  \/ /\ Flips(read) = {} /\ At' = At
            /\ level'["a"] = level'["b"] <=> level["a"] = level["b"]
         \/ /\ Flips(read) = {"a"} /\ CaughtUp
            /\ d = IF level["a"] = level["b"] THEN 1 ELSE -1
         \/ /\ Flips(read) = {"b"} /\ CaughtUp
            /\ d = IF level["a"] = level["b"] THEN -1 ELSE 1
  <1> DEFINE a == level["a"]  b == level["b"]  a1 == level'["a"]  b1 == level'["b"]
             wa == pos = 1 \/ pos = 2  wb == pos = 2 \/ pos = 3
             fa == "a" \in Flips(read)  fb == "b" \in Flips(read)
  <1>1. /\ a \in BOOLEAN /\ b \in BOOLEAN /\ a1 \in BOOLEAN /\ b1 \in BOOLEAN
        /\ pos \in 0 .. 3
    BY Sampled DEF KnobTypeOK, Contacts
  <1>2. /\ IF fa THEN (a1 <=> wa) /\ ~(a <=> wa) ELSE a1 <=> a
        /\ IF fb THEN (b1 <=> wb) /\ ~(b <=> wb) ELSE b1 <=> b
    BY <1>1, Sampled, Wires DEF Contacts
  <1>3. Flips(read) \subseteq {"a", "b"}
    BY DEF Flips, Contacts
  <1>4. pos = (Position(a, b) + d) % 4 /\ At = Position(a, b) /\ At' = Position(a1, b1)
    BY DEF Ahead, At
  <1>5. /\ d = 0 => (a <=> wa) /\ (b <=> wb)
        /\ d = 1 /\ (a <=> b) => ~(a <=> wa) /\ (b <=> wb)
        /\ d = 1 /\ ~(a <=> b) => (a <=> wa) /\ ~(b <=> wb)
        /\ d = -1 /\ (a <=> b) => (a <=> wa) /\ ~(b <=> wb)
        /\ d = -1 /\ ~(a <=> b) => ~(a <=> wa) /\ (b <=> wb)
    BY <1>1, <1>4, Quadrature
  <1>6. (a = b <=> (a <=> b)) /\ (a1 = b1 <=> (a1 <=> b1))
    BY <1>1, BoolEq
  <1>7. (a1 <=> wa) /\ (b1 <=> wb) => Position(a1, b1) = pos /\ ((a1 <=> b1) <=> pos % 2 = 0)
    BY <1>1, Resting
  <1>8. CASE ~fa /\ ~fb
    <2>1. Flips(read) = {}
      BY <1>3, <1>8
    <2>2. (a1 <=> a) /\ (b1 <=> b)
      BY <1>2, <1>8
    <2>3. a1 = a /\ b1 = b
      BY <1>1, <2>2, BoolEq
    <2> QED BY <1>4, <2>1, <2>3
  <1>9. CASE fa
    <2>1. ~fb /\ d = IF a <=> b THEN 1 ELSE -1
      BY <1>2, <1>5, <1>9
    <2>2. Flips(read) = {"a"}
      BY <1>3, <1>9, <2>1
    <2>3. (a1 <=> wa) /\ (b1 <=> wb) /\ ~((a1 <=> b1) <=> (a <=> b))
      BY <1>2, <1>5, <1>9, <2>1
    <2> HIDE DEF a, b, a1, b1, wa, wb, fa, fb
    <2>4. At' = pos /\ (a1 = b1 <=> pos % 2 = 0) /\ ~(a1 = b1 <=> a = b)
      BY <1>4, <1>6, <1>7, <2>3
    <2>5. d = IF a = b THEN 1 ELSE -1
      BY <1>6, <2>1
    <2> QED BY <2>2, <2>4, <2>5 DEF CaughtUp, a, b, a1, b1
  <1>10. CASE fb /\ ~fa
    <2>1. d = IF a <=> b THEN -1 ELSE 1
      BY <1>2, <1>5, <1>10
    <2>2. Flips(read) = {"b"}
      BY <1>3, <1>10
    <2>3. (a1 <=> wa) /\ (b1 <=> wb) /\ ~((a1 <=> b1) <=> (a <=> b))
      BY <1>2, <1>5, <1>10, <2>1
    <2> HIDE DEF a, b, a1, b1, wa, wb, fa, fb
    <2>4. At' = pos /\ (a1 = b1 <=> pos % 2 = 0) /\ ~(a1 = b1 <=> a = b)
      BY <1>4, <1>6, <1>7, <2>3
    <2>5. d = IF a = b THEN -1 ELSE 1
      BY <1>6, <2>1
    <2> QED BY <2>2, <2>4, <2>5 DEF CaughtUp, a, b, a1, b1
  <1> QED BY <1>8, <1>9, <1>10

-----------------------------------------------------------------------------
(* The knob. *)
LEMMA KnobInitInv == ASSUME KnobInit PROVE KnobInv
  <1>1. pos \in 0 .. 3 /\ level = Wire(pos) /\ level \in [Contacts -> BOOLEAN]
    BY WireType DEF KnobInit
  <1>2. /\ state = "CHECK" /\ cnt = [c \in Contacts |-> 0] /\ change = {}
        /\ count = 0 /\ net = 0 /\ turns = 0
    BY DEF KnobInit
  <1>3. KnobTypeOK
    BY <1>1, <1>2, KnobAssumption DEF KnobTypeOK
  <1>4. /\ level["a"] \in BOOLEAN /\ level["b"] \in BOOLEAN
        /\ level["a"] <=> pos = 1 \/ pos = 2
        /\ level["b"] <=> pos = 2 \/ pos = 3
    BY <1>1, Wires DEF Contacts
  <1>5. At = pos /\ Ahead(0)
    BY <1>1, <1>4, Resting DEF At, Ahead
  <1> QED BY <1>2, <1>3, <1>5 DEF KnobInv, Checking

(* At rest the decoded levels are the shaft's, and nothing is outstanding. *)
LEMMA SettledLag ==
  ASSUME KnobTypeOK, Settled
  PROVE  /\ At = pos /\ (level["a"] = level["b"] <=> pos % 2 = 0)
         /\ \A d \in {-1, 0, 1} : Ahead(d) => d = 0
  <1>1. /\ level["a"] \in BOOLEAN /\ level["b"] \in BOOLEAN /\ pos \in 0 .. 3
        /\ level["a"] <=> pos = 1 \/ pos = 2
        /\ level["b"] <=> pos = 2 \/ pos = 3
    BY Wires DEF KnobTypeOK, Settled, Contacts
  <1>2. At = pos /\ (level["a"] = level["b"] <=> pos % 2 = 0)
    BY <1>1, Resting, BoolEq DEF At
  <1>3. ASSUME NEW d \in {-1, 0, 1}, Ahead(d) PROVE d = 0
    BY <1>1, <1>3, Quadrature DEF Ahead, At
  <1> QED BY <1>2, <1>3

LEMMA TurnInv == ASSUME KnobInv, NEW d \in {-1, 1}, Turn(d) PROVE KnobInv'
  <1>1. /\ At = pos /\ (level["a"] = level["b"] <=> pos % 2 = 0)
        /\ \A x \in {-1, 0, 1} : Ahead(x) => x = 0
    BY SettledLag DEF KnobInv, Turn
  <1>2. /\ pos' = (pos + d) % 4 /\ At' = At
        /\ net' = IF state = "CHECK" /\ pos % 2 = 1 THEN 0 ELSE net + d
        /\ UNCHANGED <<level, cnt, change, state, count, turns>>
    BY DEF Turn, At
  <1>3. KnobTypeOK'
    <2>1. pos' \in 0 .. 3
      BY <1>2 DEF KnobInv, KnobTypeOK
    <2>2. net' \in -NetBound .. NetBound
      BY <1>2, KnobAssumption DEF Turn, KnobInv, KnobTypeOK
    <2> QED BY <1>2, <2>1, <2>2 DEF KnobInv, KnobTypeOK
  <1>4. pos' = (At' + d) % 4
    BY <1>1, <1>2
  <1>5. pos \in 0 .. 3 /\ (pos % 2 = 0 \/ pos % 2 = 1) /\ net \in Int /\ turns \in Int
    BY DEF KnobInv, KnobTypeOK
  <1>6. CASE state = "CHECK"
    <2>1. Checking
      BY <1>6 DEF KnobInv
    <2>2. level["a"] = level["b"] => net = 0
      BY <1>1, <2>1 DEF Checking
    <2>3. level["a"] = level["b"] => net' = d
      BY <1>1, <1>2, <1>5, <2>2
    <2>4. level["a"] # level["b"] => net' = 0
      BY <1>1, <1>2, <1>5, <1>6
    <2>5. Checking'
      BY <1>2, <1>4, <2>1, <2>3, <2>4 DEF Checking, Ahead
    <2> QED BY <1>2, <1>3, <1>6, <2>5 DEF KnobInv
  <1>7. CASE state # "CHECK"
    <2>1. Following
      BY <1>7 DEF KnobInv
    <2>2. Lag = 0
      BY <1>1, <2>1 DEF Following
    <2>3. Phase \in {-1, 0, 1} /\ Phase' = Phase
      BY <1>2 DEF Phase
    <2>4. Lag' = d
      BY <1>2, <1>5, <1>7, <2>2, <2>3 DEF Lag
    <2>5. Following'
      BY <1>2, <1>4, <2>1, <2>4 DEF Following, Ahead
    <2> QED BY <1>2, <1>3, <1>7, <2>5 DEF KnobInv
  <1> QED BY <1>6, <1>7

(* What a sample does to the state machine, given the flags it raises.     *)
Steps(flags, event) ==
  \/ Check(flags, event) \/ Ready(flags, event)
  \/ Right(flags, event) \/ Left(flags, event) \/ Back(flags, event)

LEMMA StepsType ==
  ASSUME KnobTypeOK, NEW flags \in SUBSET Contacts, NEW event, Steps(flags, event)
  PROVE  /\ change' \in SUBSET Contacts /\ count' \in LowLimit + 1 .. HighLimit - 1
         /\ state' \in {"CHECK", "READY", "PHASE_A", "PHASE_B"}
  BY KnobAssumption DEF KnobTypeOK, Steps, Check, Ready, Right, Left, Back

LEMMA KnobHandlerInv == ASSUME KnobInv, NEW event, KnobHandler(event) PROVE KnobInv'
  <1>1. PICK read \in [Contacts -> BOOLEAN] :
          Plausible(read) /\ Debounce(read) /\ Steps(change \cup Flips(read), event)
    BY DEF KnobHandler, Steps
  <1>2. turns' = turns + Turned(event) /\ UNCHANGED <<pos, net>>
    BY DEF KnobHandler
  <1>3. KnobTypeOK
    BY DEF KnobInv
  <1>4. /\ pos \in 0 .. 3 /\ net \in Int /\ turns \in Int /\ turns' \in Int
        /\ change \cup Flips(read) \in SUBSET Contacts
    BY <1>2, <1>3 DEF KnobTypeOK, Flips, Turned
  <1>5. KnobTypeOK'
    BY <1>1, <1>2, <1>3, <1>4, Sampled, StepsType DEF KnobTypeOK
  <1>6. pos = (pos + 0) % 4
    BY <1>4
  <1>7. ASSUME CaughtUp PROVE Ahead(0)'
    BY <1>2, <1>6, <1>7 DEF CaughtUp, Ahead
  <1>8. CASE state = "CHECK"
    <2>1. Checking
      BY <1>8 DEF KnobInv
    <2>2. PICK d \in {-1, 0, 1} : Ahead(d)
      BY <2>1 DEF Checking
    <2>3. /\ event = "NONE" /\ turns' = 0
          /\ \/ level'["a"] = level'["b"] /\ state' = "READY" /\ change' = {}
             \/ level'["a"] # level'["b"] /\ state' = "CHECK"
      BY <1>1, <1>2, <1>8, <2>1 DEF Steps, Check, Ready, Right, Left, Back, Checking, Turned
    <2>4. CASE At' = At /\ (level'["a"] = level'["b"] <=> level["a"] = level["b"])
      <3>1. \A x \in {-1, 0, 1} : Ahead(x) => Ahead(x)'
        BY <1>2, <2>4 DEF Ahead
      <3>2. CASE level'["a"] = level'["b"]
        <4>1. net' \in {-1, 0, 1} /\ Ahead(net)
          BY <1>2, <2>1, <2>4, <3>2 DEF Checking
        <4>2. pos' = (At' + net') % 4
          BY <1>2, <2>4, <4>1 DEF Ahead
        <4>3. Phase' = 0
          BY <2>3, <3>2 DEF Phase
        <4>4. Lag' = net'
          BY <1>2, <1>4, <2>3, <4>3 DEF Lag
        <4>5. Following'
          BY <2>3, <3>2, <4>1, <4>2, <4>4 DEF Following, Ahead
        <4> QED BY <1>5, <2>3, <3>2, <4>5 DEF KnobInv
      <3>3. CASE level'["a"] # level'["b"]
        <4>1. Checking'
          BY <1>2, <2>1, <2>2, <2>3, <2>4, <3>1, <3>3 DEF Checking
        <4> QED BY <1>5, <2>3, <3>3, <4>1 DEF KnobInv
      <3> QED BY <3>2, <3>3
    <2>5. CASE CaughtUp
      <3>1. CASE level'["a"] = level'["b"]
        <4>1. net' = 0
          BY <1>2, <2>1, <2>5, <3>1 DEF Checking, CaughtUp
        <4>2. Phase' = 0
          BY <2>3, <3>1 DEF Phase
        <4>3. Lag' = 0
          BY <1>2, <1>4, <2>3, <4>1, <4>2 DEF Lag
        <4>4. Following'
          BY <1>7, <2>3, <2>5, <3>1, <4>3 DEF Following, Ahead
        <4> QED BY <1>5, <2>3, <3>1, <4>4 DEF KnobInv
      <3>2. CASE level'["a"] # level'["b"]
        <4>1. Checking'
          BY <1>2, <1>7, <2>3, <2>5, <3>2 DEF Checking, CaughtUp
        <4> QED BY <1>5, <2>3, <3>2, <4>1 DEF KnobInv
      <3> QED BY <3>1, <3>2
    <2> QED BY <1>1, <1>3, <2>2, <2>4, <2>5, SampleMoves
  <1>9. CASE state # "CHECK"
    <2>1. Following
      BY <1>9 DEF KnobInv
    <2>2. PICK d \in {-1, 0, 1} : d = Lag /\ Ahead(d)
      BY <2>1 DEF Following
    <2>3. state \in {"READY", "PHASE_A", "PHASE_B"} /\ change \cup Flips(read) = Flips(read)
      BY <1>3, <1>9, <2>1 DEF KnobTypeOK, Following
    <2>4. Steps(Flips(read), event)
      BY <1>1, <2>3
    <2>5. CASE /\ Flips(read) = {} /\ At' = At
               /\ level'["a"] = level'["b"] <=> level["a"] = level["b"]
      <3>1. state' = state /\ change' = {} /\ event = "NONE"
        BY <2>1, <2>3, <2>4, <2>5 DEF Steps, Check, Ready, Right, Left, Back, Following
      <3>2. Lag' = Lag
        BY <1>2, <1>4, <3>1 DEF Lag, Phase, Turned
      <3>3. Following'
        BY <1>2, <2>1, <2>5, <3>1, <3>2 DEF Following, Ahead
      <3> QED BY <1>5, <1>9, <3>1, <3>3 DEF KnobInv
    <2>6. CASE CaughtUp /\ Flips(read) # {}
      <3>1. \/ Flips(read) = {"a"} /\ d = (IF state = "READY" THEN 1 ELSE -1)
            \/ Flips(read) = {"b"} /\ d = (IF state = "READY" THEN -1 ELSE 1)
        BY <1>1, <1>3, <2>1, <2>2, <2>6, SampleMoves DEF Following
      <3>2. /\ change' = {} /\ state' # "CHECK"
            /\ (state' = "READY") <=> (state # "READY")
            /\ 2 * Turned(event) + Phase' = Phase + d
        BY <2>3, <2>4, <3>1 DEF Steps, Check, Ready, Right, Left, Back, Turned, Phase
      <3>3. Lag' = 0
        <4>1. Phase \in Int /\ Phase' \in Int /\ Turned(event) \in Int
          BY DEF Phase, Turned
        <4> QED BY <1>2, <1>4, <2>2, <3>2, <4>1 DEF Lag
      <3>4. Following'
        BY <1>7, <2>1, <2>6, <3>2, <3>3 DEF Following, CaughtUp, Ahead
      <3> QED BY <1>5, <3>2, <3>4 DEF KnobInv
    <2> QED BY <1>1, <1>3, <2>2, <2>5, <2>6, SampleMoves
  <1> QED BY <1>8, <1>9

-----------------------------------------------------------------------------
(* The button. *)
LEMMA ButtonEvents ==
  ASSUME ButtonTypeOK, NEW event, ButtonHandler(event)
  PROVE  /\ btn_state' \in {0, 1, 2, 3, 5} /\ ticks' \in 0 .. TickMod - 1
         /\ event = "PRESS_DOWN" => btn_state' \in {1, 3}
         /\ event = "PRESS_UP" => btn_state' \in {0, 2}
         /\ event = "LONG_PRESS_START" => btn_state = 1 /\ btn_state' = 5
         /\ event = "NONE" => \/ btn_state' = btn_state
                              \/ btn_state = 2 /\ btn_state' = 0
         /\ event = "PRESS_DOWN" => btn_state \in {0, 2}
         /\ event \in {"PRESS_DOWN", "PRESS_UP", "LONG_PRESS_START", "NONE"}
  <1>1. Ticked \in 0 .. TickMod - 1 /\ 0 \in 0 .. TickMod - 1
    BY ButtonAssumption DEF ButtonTypeOK, Ticked
  <1>2. btn_state \in {0, 1, 2, 3, 5}
    BY DEF ButtonTypeOK
  <1>3. Idle(event) \/ Pressed(event) \/ Released(event) \/ PressedAgain(event) \/ Held(event)
    BY DEF ButtonHandler
  <1> QED BY <1>1, <1>2, <1>3 DEF Idle, Pressed, Released, PressedAgain, Held

LEMMA DebounceType ==
  ASSUME ButtonTypeOK, DebounceButton
  PROVE  button_level' \in BOOLEAN /\ debounce_cnt' \in 0 .. ButtonDebounce - 1
  <1> DEFINE counted == (debounce_cnt + 1) % 8
             flips == contact # button_level /\ counted >= ButtonDebounce
  <1>1. button_level' = IF flips THEN contact ELSE button_level
    BY DEF DebounceButton
  <1>2. debounce_cnt' = IF contact # button_level /\ ~flips THEN counted ELSE 0
    BY DEF DebounceButton
  <1>3. counted \in Nat /\ 0 \in 0 .. ButtonDebounce - 1
    BY ButtonAssumption DEF ButtonTypeOK
  <1>4. contact # button_level /\ ~flips => counted \in 0 .. ButtonDebounce - 1
    BY <1>3, ButtonAssumption
  <1>5. contact \in BOOLEAN /\ button_level \in BOOLEAN
    BY DEF ButtonTypeOK
  <1> HIDE DEF counted, flips
  <1>6. button_level' \in BOOLEAN
    BY <1>1, <1>5, Zenon
  <1> QED BY <1>2, <1>3, <1>4, <1>6

LEMMA PressCbInv ==
  ASSUME ButtonTypeOK, DeviceTypeOK, BitsFollowButton,
         NEW event, ButtonHandler(event), ButtonPressCb(event)
  PROVE  /\ ButtonTypeOK' /\ DeviceTypeOK' /\ BitsFollowButton'
         /\ UNCHANGED <<led, hurried>> /\ bits' \cap TurnBits = bits \cap TurnBits
  <1>1. /\ event \in {"PRESS_DOWN", "PRESS_UP", "LONG_PRESS_START", "NONE"}
        /\ UNCHANGED <<led, indev, hurried>>
    BY ButtonEvents DEF ButtonPressCb
  <1>2. ButtonTypeOK'
    BY ButtonEvents, DebounceType DEF ButtonHandler, ButtonTypeOK
  <1>3. bits \in SUBSET Masks
    BY DEF DeviceTypeOK
  <1>4. CASE event = "PRESS_DOWN"
    <2>1. bits' = bits \cup {"PRESS"} /\ btn_state' \in {1, 3} /\ btn_state \in {0, 2}
      BY <1>4, ButtonEvents DEF ButtonPressCb
    <2> QED BY <1>1, <1>2, <1>3, <2>1 DEF DeviceTypeOK, BitsFollowButton, Masks, TurnBits
  <1>5. CASE event = "PRESS_UP"
    <2>1. bits' = bits \ {"PRESS", "LONG"} /\ btn_state' \in {0, 2}
      BY <1>5, ButtonEvents DEF ButtonPressCb
    <2> QED BY <1>1, <1>2, <1>3, <2>1 DEF DeviceTypeOK, BitsFollowButton, Masks, TurnBits
  <1>6. CASE event = "LONG_PRESS_START"
    <2>1. bits' = bits \cup {"LONG"} /\ btn_state = 1 /\ btn_state' = 5
      BY <1>6, ButtonEvents DEF ButtonPressCb
    <2> QED BY <1>1, <1>2, <1>3, <2>1 DEF DeviceTypeOK, BitsFollowButton, Masks, TurnBits
  <1>7. CASE event = "NONE"
    <2>1. /\ bits' = bits
          /\ btn_state' = btn_state \/ (btn_state = 2 /\ btn_state' = 0)
      BY <1>7, ButtonEvents DEF ButtonPressCb
    <2> QED BY <1>1, <1>2, <1>3, <2>1 DEF DeviceTypeOK, BitsFollowButton, Masks, TurnBits
  <1> QED BY <1>1, <1>4, <1>5, <1>6, <1>7

-----------------------------------------------------------------------------
(* The bits of the turns and the ring. *)
LEMMA Rounds == ASSUME NEW k \in Int PROVE (Num * k) % Num = 0
  <1>1. \A n \in Nat \ {0} : (n * k + 0) % n = 0
    OBVIOUS
  <1>2. (Num * k + 0) % Num = 0 /\ Num * k \in Int
    BY <1>1, InputAssumption
  <1> QED BY <1>2

LEMMA EncoderCbInv ==
  ASSUME DeviceTypeOK, RingFollows, BitsFollowButton, turns \in Int,
         NEW event \in TurnBits \cup {"NONE"},
         turns' = turns + Turned(event), btn_state' = btn_state, EncoderCb(event)
  PROVE  DeviceTypeOK' /\ RingFollows' /\ BitsFollowButton'
  <1>1. /\ bits' = IF event \in TurnBits THEN bits \cup {event} ELSE bits
        /\ hurried' = (hurried \/ (event \in TurnBits /\ bits \cap TurnBits # {}))
        /\ led' = led /\ indev' = indev
    BY DEF EncoderCb
  <1>2. DeviceTypeOK'
    <2>1. bits' \in SUBSET Masks
      BY <1>1 DEF DeviceTypeOK, Masks, TurnBits
    <2>2. hurried' \in BOOLEAN
      BY <1>1, Zenon
    <2> QED BY <1>1, <2>1, <2>2 DEF DeviceTypeOK
  <1>3. BitsFollowButton'
    BY <1>1 DEF BitsFollowButton, TurnBits
  <1>4. ASSUME ~hurried' PROVE ~hurried /\ (event \in TurnBits => bits \cap TurnBits = {})
    BY <1>1, <1>4, Zenon
  <1>5. ASSUME ~hurried'
        PROVE  /\ \E k \in Int : led' + turns' - Pending' = Num * k
               /\ ~("LEFT" \in bits' /\ "RIGHT" \in bits')
    <2>1. PICK k \in Int : led + turns - Pending = Num * k
      BY <1>4, <1>5 DEF RingFollows
    <2>2. /\ Pending' = Pending + Turned(event)
          /\ Pending \in Int /\ Turned(event) \in Int
          /\ ~("LEFT" \in bits' /\ "RIGHT" \in bits')
      <3>1. CASE event = "NONE"
        <4>1. bits' = bits
          BY <1>1, <3>1 DEF TurnBits
        <4> QED BY <1>4, <1>5, <3>1, <4>1 DEF Pending, Turned, RingFollows
      <3>2. CASE event \in TurnBits
        <4>1. bits' = bits \cup {event} /\ "LEFT" \notin bits /\ "RIGHT" \notin bits
          BY <1>1, <1>4, <1>5, <3>2 DEF TurnBits
        <4> QED BY <3>2, <4>1 DEF Pending, Turned, TurnBits
      <3> QED BY <3>1, <3>2
    <2>3. led' + turns' - Pending' = led + turns - Pending
      BY <1>1, <2>2 DEF DeviceTypeOK
    <2> QED BY <2>1, <2>2, <2>3
  <1> QED BY <1>2, <1>3, <1>5 DEF RingFollows

LEMMA KnobReadInv ==
  ASSUME DeviceTypeOK, RingFollows, BitsFollowButton, turns \in Int, KnobRead
  PROVE  DeviceTypeOK' /\ RingFollows' /\ BitsFollowButton'
  <1>1. /\ bits' = bits \ TurnBits /\ turns' = turns /\ btn_state' = btn_state
        /\ "LEFT" \notin bits' /\ "RIGHT" \notin bits' /\ Pending' = 0
    BY DEF KnobRead, DevKnobRead, knob, button, Pending, TurnBits
  <1>2. /\ bits \in SUBSET Masks /\ led \in 0 .. Num - 1 /\ hurried \in BOOLEAN
        /\ Num \in Nat \ {0}
    BY InputAssumption DEF DeviceTypeOK
  <1>3. BitsFollowButton'
    BY <1>1 DEF BitsFollowButton, TurnBits
  <1>4. led' \in 0 .. Num - 1 /\ indev' \in {"RELEASED", "PRESSED"}
    BY <1>2 DEF KnobRead, ScrollLeft, ScrollRight
  <1>5. hurried' \in BOOLEAN /\ (~hurried' => ~hurried)
    BY <1>2, Zenon DEF KnobRead
  <1>6. DeviceTypeOK'
    BY <1>1, <1>2, <1>4, <1>5 DEF DeviceTypeOK
  <1>7. ASSUME ~hurried' PROVE \E k \in Int : led' + turns = Num * k
    <2>1. /\ ~("LEFT" \in bits /\ "RIGHT" \in bits)
          /\ \E k \in Int : led + turns - Pending = Num * k
      BY <1>5, <1>7 DEF RingFollows
    <2>2. PICK k \in Int : led + turns - Pending = Num * k
      BY <2>1
    <2>3. /\ Num * (k - 1) = Num * k - Num /\ Num * (k + 1) = Num * k + Num
          /\ Num * k \in Int /\ k - 1 \in Int /\ k + 1 \in Int
      BY <1>2
    <2>4. CASE led' = led /\ "LEFT" \notin bits /\ "RIGHT" \notin bits
      <3>1. Pending = 0
        BY <2>4 DEF Pending
      <3> QED BY <1>2, <2>2, <2>4, <3>1
    <2>5. CASE "LEFT" \in bits /\ ScrollLeft
      <3>1. Pending = -1
        BY <2>1, <2>5 DEF Pending
      <3>2. led' + turns = Num * k \/ led' + turns = Num * k - Num
        BY <1>2, <2>2, <2>3, <2>5, <3>1 DEF ScrollLeft
      <3> QED BY <2>3, <3>2
    <2>6. CASE "LEFT" \notin bits /\ "RIGHT" \in bits /\ ScrollRight
      <3>1. Pending = 1
        BY <2>6 DEF Pending
      <3>2. led' + turns = Num * k \/ led' + turns = Num * k + Num
        BY <1>2, <2>2, <2>3, <2>6, <3>1 DEF ScrollRight
      <3> QED BY <2>3, <3>2
    <2>7. \/ led' = led /\ bits \cap TurnBits = {}
          \/ "LEFT" \in bits /\ ScrollLeft
          \/ "LEFT" \notin bits /\ "RIGHT" \in bits /\ ScrollRight
      <3>1. CASE "LONG" \in bits
        <4>1. hurried' = (hurried \/ bits \cap TurnBits # {}) /\ led' = led
          BY <3>1 DEF KnobRead
        <4>2. bits \cap TurnBits = {}
          BY <1>7, <4>1, Zenon
        <4> QED BY <4>1, <4>2
      <3>2. CASE "LONG" \notin bits
        BY <3>2 DEF KnobRead
      <3> QED BY <3>1, <3>2
    <2> QED BY <2>4, <2>5, <2>6, <2>7 DEF TurnBits
  <1>8. led' + turns' - Pending' = led' + turns
    BY <1>1, <1>2, <1>4
  <1> QED BY <1>1, <1>3, <1>6, <1>7, <1>8 DEF RingFollows

-----------------------------------------------------------------------------
(* All together. *)
InputInv ==
  /\ KnobInv /\ ButtonTypeOK /\ DeviceTypeOK
  /\ RingFollows /\ BitsFollowButton

LEMMA InitInv == ASSUME Init PROVE InputInv
  <1>1. KnobInv /\ turns = 0
    BY KnobInitInv DEF Init, KnobInit
  <1>2. ButtonTypeOK /\ btn_state = 0
    <2>1. 0 \in 0 .. ButtonDebounce - 1 /\ 0 \in 0 .. TickMod - 1
      BY ButtonAssumption
    <2>2. /\ contact = FALSE /\ button_level = FALSE
          /\ debounce_cnt = 0 /\ btn_state = 0 /\ ticks = 0
      BY DEF Init, ButtonInit
    <2> QED BY <2>1, <2>2, Zenon DEF ButtonTypeOK
  <1>3. bits = {} /\ led = 0 /\ indev = "RELEASED" /\ hurried = FALSE
    BY DEF Init
  <1>4. DeviceTypeOK /\ BitsFollowButton
    <2>1. 0 \in 0 .. Num - 1 /\ bits \in SUBSET Masks
      BY <1>3, InputAssumption
    <2>2. hurried \in BOOLEAN
      BY <1>3, Zenon
    <2> QED BY <1>2, <1>3, <2>1, <2>2 DEF DeviceTypeOK, BitsFollowButton
  <1>5. "LEFT" \notin bits /\ "RIGHT" \notin bits
    BY <1>3
  <1>6. Pending = 0
    BY <1>5 DEF Pending
  <1>7. led + turns - Pending = Num * 0
    BY <1>1, <1>3, <1>6, InputAssumption
  <1> QED BY <1>1, <1>2, <1>4, <1>5, <1>7 DEF InputInv, RingFollows

LEMMA NextInv == ASSUME InputInv, [Next]_vars PROVE InputInv'
  <1>1. /\ KnobInv /\ ButtonTypeOK /\ DeviceTypeOK
        /\ RingFollows /\ BitsFollowButton /\ turns \in Int
    BY DEF InputInv, KnobInv, KnobTypeOK
  <1>2. CASE Shaft
    <2>1. UNCHANGED <<contact, button_level, debounce_cnt, btn_state, ticks, bits, led, indev, hurried, turns>>
      BY <1>2 DEF Shaft, Turn, button, device
    <2>2. KnobInv'
      BY <1>1, <1>2, TurnInv DEF Shaft
    <2>3. ButtonTypeOK' /\ DeviceTypeOK' /\ BitsFollowButton'
      BY <1>1, <2>1 DEF ButtonTypeOK, DeviceTypeOK, BitsFollowButton
    <2>4. RingFollows'
      BY <1>1, <2>1 DEF RingFollows, Pending
    <2> QED BY <2>2, <2>3, <2>4 DEF InputInv
  <1>3. CASE Finger
    <2>1. UNCHANGED <<button_level, debounce_cnt, btn_state, ticks>> /\ contact' \in BOOLEAN
      BY <1>3, Zenon DEF Finger, ContactMoves
    <2>2. /\ UNCHANGED <<bits, led, indev, hurried>>
          /\ UNCHANGED <<pos, level, cnt, change, state, count, net, turns>>
      BY <1>3 DEF Finger, knob, device
    <2>3. KnobInv'
      BY <1>1, <2>2 DEF KnobInv, KnobTypeOK, Checking, Following, Ahead, At, Lag, Phase
    <2>4. ButtonTypeOK' /\ DeviceTypeOK' /\ BitsFollowButton'
      BY <1>1, <2>1, <2>2 DEF ButtonTypeOK, DeviceTypeOK, BitsFollowButton
    <2>5. RingFollows'
      BY <1>1, <2>2 DEF RingFollows, Pending
    <2> QED BY <2>3, <2>4, <2>5 DEF InputInv
  <1>4. CASE KnobTimer
    <2>1. PICK event \in TurnBits \cup {"NONE"} : KnobHandler(event) /\ EncoderCb(event)
      BY <1>4 DEF KnobTimer
    <2>2. /\ UNCHANGED <<contact, button_level, debounce_cnt, btn_state, ticks>>
          /\ turns' = turns + Turned(event)
      BY <1>4, <2>1 DEF KnobTimer, button, KnobHandler
    <2>3. KnobInv'
      BY <1>1, <2>1, KnobHandlerInv
    <2>4. ButtonTypeOK'
      BY <1>1, <2>2 DEF ButtonTypeOK
    <2>5. DeviceTypeOK' /\ RingFollows' /\ BitsFollowButton'
      BY <1>1, <2>1, <2>2, EncoderCbInv
    <2> QED BY <2>3, <2>4, <2>5 DEF InputInv
  <1>5. CASE ButtonTimer
    <2>1. PICK event : ButtonHandler(event) /\ ButtonPressCb(event)
      BY <1>5 DEF ButtonTimer
    <2>2. UNCHANGED <<pos, level, cnt, change, state, count, net, turns>>
      BY <1>5 DEF ButtonTimer, knob
    <2>3. KnobInv'
      BY <1>1, <2>2 DEF KnobInv, KnobTypeOK, Checking, Following, Ahead, At, Lag, Phase
    <2>4. /\ ButtonTypeOK' /\ DeviceTypeOK' /\ BitsFollowButton'
          /\ UNCHANGED <<led, hurried>> /\ bits' \cap TurnBits = bits \cap TurnBits
      BY <1>1, <2>1, PressCbInv
    <2>5. ("LEFT" \in bits' <=> "LEFT" \in bits) /\ ("RIGHT" \in bits' <=> "RIGHT" \in bits)
      BY <2>4 DEF TurnBits
    <2>6. Pending' = Pending
      BY <2>5 DEF Pending
    <2>7. RingFollows'
      BY <1>1, <2>2, <2>4, <2>5, <2>6 DEF RingFollows
    <2> QED BY <2>3, <2>4, <2>7 DEF InputInv
  <1>6. CASE KnobRead
    <2>1. /\ UNCHANGED <<contact, button_level, debounce_cnt, btn_state, ticks>>
          /\ UNCHANGED <<pos, level, cnt, change, state, count, net, turns>>
      BY <1>6 DEF KnobRead, knob, button
    <2>2. KnobInv'
      BY <1>1, <2>1 DEF KnobInv, KnobTypeOK, Checking, Following, Ahead, At, Lag, Phase
    <2>3. ButtonTypeOK'
      BY <1>1, <2>1 DEF ButtonTypeOK
    <2>4. DeviceTypeOK' /\ RingFollows' /\ BitsFollowButton'
      BY <1>1, <1>6, KnobReadInv
    <2> QED BY <2>2, <2>3, <2>4 DEF InputInv
  <1>7. CASE UNCHANGED vars
    <2>1. /\ UNCHANGED <<contact, button_level, debounce_cnt, btn_state, ticks>>
          /\ UNCHANGED <<pos, level, cnt, change, state, count, net, turns>>
          /\ UNCHANGED <<bits, led, indev, hurried>>
      BY <1>7 DEF vars, knob, button, device
    <2>2. KnobInv'
      BY <1>1, <2>1 DEF KnobInv, KnobTypeOK, Checking, Following, Ahead, At, Lag, Phase
    <2>3. ButtonTypeOK' /\ DeviceTypeOK' /\ BitsFollowButton'
      BY <1>1, <2>1 DEF ButtonTypeOK, DeviceTypeOK, BitsFollowButton
    <2>4. RingFollows'
      BY <1>1, <2>1 DEF RingFollows, Pending
    <2> QED BY <2>2, <2>3, <2>4 DEF InputInv
  <1> QED BY <1>2, <1>3, <1>4, <1>5, <1>6, <1>7 DEF Next

LEMMA InvImplies ==
  ASSUME InputInv
  PROVE  TypeOK /\ DetentsCounted /\ NothingMissed
  <1>1. KnobInv /\ KnobTypeOK /\ RingFollows /\ BitsFollowButton
    BY DEF InputInv, KnobInv
  <1>2. TypeOK
    BY <1>1 DEF InputInv, DeviceTypeOK, TypeOK
  <1>3. ASSUME Settled, state # "CHECK" PROVE net = 2 * turns + Phase
    <2>1. Lag \in {-1, 0, 1} /\ Ahead(Lag)
      BY <1>1, <1>3 DEF KnobInv, Following
    <2>2. Lag = 0
      BY <1>1, <1>3, <2>1, SettledLag
    <2>3. net \in Int /\ turns \in Int /\ Phase \in Int
      BY <1>1 DEF KnobTypeOK, Phase
    <2> QED BY <2>2, <2>3 DEF Lag
  <1>4. ~hurried => (led + turns - Pending) % Num = 0
    BY <1>1, Rounds DEF RingFollows
  <1> QED BY <1>1, <1>2, <1>3, <1>4 DEF DetentsCounted, NothingMissed

LEMMA InputCorrect == Spec => [](TypeOK /\ DetentsCounted /\ NothingMissed)
  <1>1. Init => InputInv
    BY InitInv
  <1>2. InputInv /\ [Next]_vars => InputInv'
    BY NextInv
  <1>3. InputInv => TypeOK /\ DetentsCounted /\ NothingMissed
    BY InvImplies
  <1> QED BY <1>1, <1>2, <1>3, PTL DEF Spec

(* Every counter, level and bit of the input devices stays in its range.   *)
THEOREM InputTypeOK == Spec => []TypeOK
  BY InputCorrect, PTL

(* knob_handler: the events of a knob at rest add up to the detents it has *)
(* passed, for any debouncing and whatever bounced.                        *)
THEOREM InputDetentsCounted == Spec => []DetentsCounted
  BY InputCorrect, PTL

(* The callbacks, dev_knob_read and knob_read: the ring of any number of   *)
(* LEDs follows the knob unless a turn was hurried, and the bits follow    *)
(* the button.                                                             *)
THEOREM InputNothingMissed == Spec => []NothingMissed
  BY InputCorrect, PTL
=============================================================================
