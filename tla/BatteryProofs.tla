---------------------------- MODULE BatteryProofs ----------------------------
(***************************************************************************)
(* For every range of readings, filter and width of the counter: the gauge *)
(* keeps its types, and the level it shows has passed the filter.          *)
(***************************************************************************)
EXTENDS Battery, TLAPS

(* The counter of the code never runs ahead of the readings in a row: it   *)
(* may start over when it wraps, and only lags behind then.                *)
CounterLags ==
  IF stableFactor < BAT_LEVEL_FILTER THEN stableFactor <= streak
                                     ELSE streak = BAT_LEVEL_FILTER

BatteryInv == TypeOK /\ CounterLags

(* volt2percent and the cast of the first reading give a byte.             *)
LEMMA VoltNat == ASSUME NEW r \in Readings PROVE BatVolt(r) \in Int
  <1>1. r \in Int /\ ADC_DIGI_MAX \in Int /\ ADC_DIGI_MAX > 0
    BY BatteryAssumption
  <1>2. r * 3300 * 2 \in Int
    BY <1>1
  <1> QED BY <1>1, <1>2 DEF BatVolt

LEMMA ByteRange == ASSUME NEW x \in Int PROVE x % 256 \in 0 .. 255
  OBVIOUS

LEMMA LevelIsByte == ASSUME NEW r \in Readings PROVE Level(r) \in 0 .. 255
  <1> DEFINE x == ((BatVolt(r) - BAT_MIN_MV) * 100) \div (BAT_MAX_MV - BAT_MIN_MV)
  <1>1. x \in Int
    BY VoltNat DEF BAT_MIN_MV, BAT_MAX_MV
  <1>2. x % 256 \in 0 .. 255
    BY <1>1, ByteRange
  <1>3. Level(r) = IF BatVolt(r) > BAT_MIN_MV THEN x % 256 ELSE 0
    BY DEF Level, Percent
  <1> HIDE DEF x
  <1> QED BY <1>2, <1>3

LEMMA FirstIsByte ==
  ASSUME NEW r \in Readings
  PROVE  ((BatVolt(r) * 100) \div BAT_MAX_MV) % 256 \in 0 .. 255
  <1>1. (BatVolt(r) * 100) \div BAT_MAX_MV \in Int
    BY VoltNat DEF BAT_MAX_MV
  <1> QED BY <1>1, ByteRange

LEMMA InitInv == Init => BatteryInv
  BY BatteryAssumption DEF Init, BatteryInv, TypeOK, CounterLags

(* The filter: a wrapped counter falls behind, any other step keeps pace.  *)
LEMMA FiltersInv ==
  ASSUME BatteryInv, ScanFilters
  PROVE  /\ BatteryInv'
         /\ powerLevel' # powerLevel =>
              streak' = BAT_LEVEL_FILTER /\ powerLevel' = lastNewLevel'
  <1> DEFINE new == Level(read)
  <1>1. new \in 0 .. 255
    BY LevelIsByte DEF ScanFilters
  <1>2. /\ stableFactor' = IF new # lastNewLevel THEN 0 ELSE (stableFactor + 1) % FactorMod
        /\ powerLevel' = IF stableFactor' >= BAT_LEVEL_FILTER THEN new ELSE powerLevel
        /\ streak' = IF new # lastNewLevel THEN 1
                     ELSE IF streak < BAT_LEVEL_FILTER THEN streak + 1 ELSE streak
        /\ lastNewLevel' = new
    BY DEF ScanFilters, Streak
  <1> HIDE DEF new
  <1>3. /\ stableFactor \in 0 .. FactorMod - 1 /\ streak \in 0 .. BAT_LEVEL_FILTER
        /\ powerLevel \in 0 .. 255
    BY DEF BatteryInv, TypeOK
  <1>4. (stableFactor + 1) % FactorMod = IF stableFactor + 1 = FactorMod THEN 0 ELSE stableFactor + 1
    BY <1>3, BatteryAssumption
  <1>5. /\ stableFactor' \in 0 .. FactorMod - 1 /\ streak' \in 0 .. BAT_LEVEL_FILTER
        /\ powerLevel' \in 0 .. 255 /\ lastNewLevel' \in 0 .. 255
    BY <1>1, <1>2, <1>3, <1>4, BatteryAssumption
  <1>6. CounterLags'
    BY <1>2, <1>3, <1>4, BatteryAssumption DEF BatteryInv, CounterLags
  <1>7. TypeOK'
    BY <1>5 DEF BatteryInv, TypeOK, ScanFilters, Ends
  <1> QED BY <1>2, <1>3, <1>5, <1>6, <1>7, BatteryAssumption DEF BatteryInv, CounterLags

LEMMA NextInv == BatteryInv /\ [Next]_vars => BatteryInv'
  <1> SUFFICES ASSUME BatteryInv, [Next]_vars PROVE BatteryInv'
    OBVIOUS
  <1> USE DEF BatteryInv, TypeOK, CounterLags
  <1>1. CASE Changes
    BY <1>1 DEF Changes, filter
  <1>2. CASE Converts
    <2>1. pool' \in Seq(Readings) /\ Len(pool') <= PoolSize
      BY <1>2, BatteryAssumption DEF Converts
    <2> QED BY <2>1, <1>2 DEF Converts, filter
  <1>3. CASE ScanReads
    <2>1. /\ pool' \in Seq(Readings) /\ Len(pool') <= PoolSize
          /\ read' \in Readings \cup {-2, -1}
      BY <1>3, BatteryAssumption DEF ScanReads
    <2> QED BY <2>1, <1>3 DEF ScanReads, filter
  <1>4. CASE ScanWaits
    BY <1>4 DEF ScanWaits, Ends, filter
  <1>5. CASE ScanFirst
    <2>1. powerLevel' \in 0 .. 255
      BY <1>5, FirstIsByte DEF ScanFirst
    <2> QED BY <2>1, <1>5 DEF ScanFirst, Ends
  <1>6. CASE ScanFilters
    BY <1>6, FiltersInv
  <1>7. CASE UNCHANGED vars
    BY <1>7 DEF vars, filter
  <1> QED BY <1>1, <1>2, <1>3, <1>4, <1>5, <1>6, <1>7 DEF Next, Scan

(* Levels are bytes, the counter stays in its range and the pool within    *)
(* its size, for any readings the converter may give.                      *)
THEOREM BatteryTypeOK == Spec => []TypeOK
  <1>1. BatteryInv => TypeOK
    BY DEF BatteryInv
  <1> QED BY <1>1, InitInv, NextInv, PTL DEF Spec

(* After the first reading the level changes only to one that the last     *)
(* BAT_LEVEL_FILTER readings had, for any width of the counter.            *)
THEOREM BatteryLevelFiltered == Spec => LevelFiltered
  <1>1. BatteryInv /\ [Next]_vars =>
          [powerLevel' # powerLevel =>
             \/ firstLoop
             \/ streak' = BAT_LEVEL_FILTER /\ powerLevel' = lastNewLevel']_vars
    <2> SUFFICES ASSUME BatteryInv, Next, powerLevel' # powerLevel, ~firstLoop
                 PROVE  streak' = BAT_LEVEL_FILTER /\ powerLevel' = lastNewLevel'
      OBVIOUS
    <2>1. CASE ScanFilters
      BY <2>1, FiltersInv
    <2>2. CASE ~ScanFilters
      BY <2>2 DEF Next, Scan, Changes, Converts, ScanReads, ScanWaits, ScanFirst, filter
    <2> QED BY <2>1, <2>2
  <1> QED BY <1>1, InitInv, NextInv, PTL DEF Spec, LevelFiltered
=============================================================================
