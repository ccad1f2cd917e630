\* Two phases, four plans in two waves, one run.
SPECIFICATION Spec
CONSTANTS
  a = a
  b = b
  c = c
  d = d
  Phases = {1, 2}
  PlanIds = {a, b, c, d}
  PhaseOf <- MCPhaseOf
  WaveOf <- MCWaveOf
  Configs <- MCConfigs
  MaxGapRetries = 1
  MaxRuns = 1
INVARIANTS GapCyclesCapped
CHECK_DEADLOCK FALSE
