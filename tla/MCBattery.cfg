CONSTANTS
  Readings <- MCReadings
  ADC_DIGI_MAX = 4095
  BAT_LEVEL_FILTER = 3
  PoolSize = 2
  FactorMod = 5
SPECIFICATION Spec
PROPERTIES LevelFiltered SteadyShown
