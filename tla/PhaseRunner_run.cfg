\* Two phases, four plans in two waves, one restart.
SPECIFICATION FairSpec
CONSTANTS
  a = a
  b = b
  c = c
  d = d
  Phases = {1, 2}
  PlanIds = {a, b, c, d}
  PhaseOf <- MCPhaseOf
  WaveOf <- MCWaveOf
  Configs <- MCConfigs
  MaxGapRetries = 1
  MaxRuns = 2
INVARIANTS TypeOK WaveBarrier GapCyclesBounded
PROPERTIES SummarisedNotRerun StopIsFinal ProgressSpec RunEnds
CHECK_DEADLOCK FALSE
