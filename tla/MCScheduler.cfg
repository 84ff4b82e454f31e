\* A clock of 8 values, so that it wraps all the time; no symmetry, for liveness.
SPECIFICATION Spec
CONSTANTS
  Task = {t1, t2, t3}
  Half = 4
  Tick = 3
  Sleeps = {0, 3, 5}
  MaxBirths = 2
INVARIANTS
  TypeOK
  RunningIsAwake
  SleepersOnTime
PROPERTIES
  EarlyWakeOnlyIfHeadSleeps
  
  SleepEnds
