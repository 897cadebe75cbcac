------------------------------- MODULE Battery -------------------------------
(***************************************************************************)
(* The gauge of battery.c.  The ADC converts on its own, keeps what is not *)
(* read in a pool that drops the newest when it is full, and raises        *)
(* updateADC from its interrupt; bat_adc_scan, a timer callback every      *)
(* 50 ms, reads the oldest, then clears the flag and filters.  The two may *)
(* meet between the read and the store of the flag.                        *)
(***************************************************************************)
EXTENDS Integers, Sequences

CONSTANTS
  Readings,          \* averages of a frame, out of ADC_DIGI_MAX
  ADC_DIGI_MAX,
  BAT_LEVEL_FILTER,
  PoolSize,          \* frames
  FactorMod          \* 2^16, the range of stableFactor

ASSUME BatteryAssumption ==
  /\ ADC_DIGI_MAX \in Nat \ {0} /\ Readings \subseteq 0 .. ADC_DIGI_MAX
  /\ BAT_LEVEL_FILTER \in Nat \ {0} /\ PoolSize \in Nat \ {0}
  /\ FactorMod \in Nat /\ FactorMod > BAT_LEVEL_FILTER

VARIABLES
  reading,       \* what the ADC sees
  pool,          \* converted and not read, oldest first
  updateADC,
  read,          \* what bat_adc_scan has just read: -2 between scans, -1 nothing
  firstLoop, lastNewLevel, stableFactor,
  powerLevel,
  streak         \* readings of one level in a row, up to the filter (history)

filter == <<firstLoop, lastNewLevel, stableFactor, powerLevel, streak>>
vars == <<reading, pool, updateADC, read, filter>>

BAT_MIN_MV == 3200
BAT_MAX_MV == 4200

BatVolt(r) == (r * 3300 * 2) \div ADC_DIGI_MAX

(* volt2percent narrows to a byte: above 5760 mV it starts over at 0.      *)
Percent(volt) ==
  IF volt > BAT_MIN_MV
    THEN (((volt - BAT_MIN_MV) * 100) \div (BAT_MAX_MV - BAT_MIN_MV)) % 256 ELSE 0

Level(r) == Percent(BatVolt(r))

Init ==
  /\ reading \in Readings /\ pool = <<>> /\ updateADC = TRUE /\ read = -2
  /\ firstLoop = TRUE /\ lastNewLevel = 0 /\ stableFactor = 0
  /\ powerLevel = 0 /\ streak = 0

Changes ==
  /\ reading' \in Readings
  /\ UNCHANGED <<pool, updateADC, read, filter>>

(* Slip: only a frame that was stored raises the flag. *)
ConvertsQuietly ==
  /\ Len(pool) < PoolSize
  /\ pool' = Append(pool, reading)
  /\ updateADC' = TRUE
  /\ UNCHANGED <<reading, read, filter>>

(* adc_conv_done_cb and the driver around it, which calls it for every     *)
(* frame, stored or not.                                                   *)
Converts ==
  /\ pool' = IF Len(pool) < PoolSize THEN Append(pool, reading) ELSE pool
  /\ updateADC' = TRUE
  /\ UNCHANGED <<reading, read, filter>>

-----------------------------------------------------------------------------
(* bat_adc_scan, which does nothing without the flag. *)
ScanReads ==
  /\ read = -2 /\ updateADC
  /\ \/ pool # <<>> /\ read' = Head(pool) /\ pool' = Tail(pool)
     \/ pool = <<>> /\ read' = -1 /\ UNCHANGED pool
  /\ UNCHANGED <<reading, updateADC, filter>>

Ends == read' = -2 /\ UNCHANGED <<reading, pool>>

(* Nothing was converted yet. *)
ScanWaits ==
  /\ read = -1
  /\ updateADC' = FALSE
  /\ Ends
  /\ UNCHANGED filter

Streak(level) ==
  streak' = IF level # lastNewLevel THEN 1
            ELSE IF streak < BAT_LEVEL_FILTER THEN streak + 1 ELSE streak

(* The first reading is shown as it is, as a share of BAT_MAX_MV.          *)
ScanFirst ==
  /\ read \in Readings /\ firstLoop
  /\ updateADC' = FALSE /\ firstLoop' = FALSE
  /\ powerLevel' = ((BatVolt(read) * 100) \div BAT_MAX_MV) % 256
  /\ Ends
  /\ UNCHANGED <<lastNewLevel, stableFactor, streak>>

(* Slip: a new level does not start the filter over. *)
FiltersOn ==
  /\ read \in Readings /\ ~firstLoop
  /\ updateADC' = FALSE
  /\ LET newLevel == Level(read)
     IN  /\ stableFactor' = (stableFactor + 1) % FactorMod
         /\ powerLevel' = IF stableFactor' >= BAT_LEVEL_FILTER THEN newLevel ELSE powerLevel
         /\ Streak(newLevel)
         /\ lastNewLevel' = newLevel
  /\ Ends
  /\ UNCHANGED firstLoop

ScanFilters ==
  /\ read \in Readings /\ ~firstLoop
  /\ updateADC' = FALSE
  /\ LET newLevel == Level(read)
     IN  /\ stableFactor' = IF newLevel # lastNewLevel THEN 0 ELSE (stableFactor + 1) % FactorMod
         /\ powerLevel' = IF stableFactor' >= BAT_LEVEL_FILTER THEN newLevel ELSE powerLevel
         /\ Streak(newLevel)
         /\ lastNewLevel' = newLevel
  /\ Ends
  /\ UNCHANGED firstLoop

Scan == ScanReads \/ ScanWaits \/ ScanFirst \/ ScanFilters

Next == Changes \/ Converts \/ Scan

(* The timer and the ADC run. *)
Spec == Init /\ [][Next]_vars /\ WF_vars(Converts) /\ WF_vars(Scan)

-----------------------------------------------------------------------------
TypeOK ==
  /\ reading \in Readings
  /\ pool \in Seq(Readings) /\ Len(pool) <= PoolSize
  /\ updateADC \in BOOLEAN
  /\ read \in Readings \cup {-2, -1}
  /\ firstLoop \in BOOLEAN
  /\ lastNewLevel \in 0 .. 255 /\ powerLevel \in 0 .. 255
  /\ stableFactor \in 0 .. FactorMod - 1
  /\ streak \in 0 .. BAT_LEVEL_FILTER

(* After the first reading the level that is shown changes only to one     *)
(* that BAT_LEVEL_FILTER readings in a row had, even when the counter of   *)
(* readings has wrapped.                                                   *)
LevelFiltered ==
  [][powerLevel' # powerLevel =>
       \/ firstLoop
       \/ streak' = BAT_LEVEL_FILTER /\ powerLevel' = lastNewLevel']_vars

(* A voltage that stays is shown in the end, although the interrupt's flag *)
(* may be lost to the scan and the pool holds old readings.                *)
SteadyShown ==
  \A r \in Readings : <>[](reading = r) => <>[](powerLevel = Level(r))
=============================================================================
