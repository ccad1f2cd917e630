\* One approval and two crashes.
SPECIFICATION MCFairSpec
CONSTANTS
  proc1 = proc1
  proc2 = proc2
  Plans = {p1}
  NoPlan = NoPlan
  Procs = {proc1}
  NoProc = NoProc
  Cmds = {c1}
  Home <- MCHome
  UuidPlans = {p1}
  Dispatch = {"handler"}
  MaxJobs = 3
  MaxCmds = 1
  MaxCrashes = 2
  Faults = {}
  MaxFaults = 0
PROPERTIES InterruptedIsRerun
CHECK_DEADLOCK FALSE
