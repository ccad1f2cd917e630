\* One command at a time, no crash.
SPECIFICATION MCSpec
CONSTANTS
  proc1 = proc1
  proc2 = proc2
  Plans = {p1}
  NoPlan = NoPlan
  Procs = {proc1}
  NoProc = NoProc
  Cmds = {c1}
  Home <- MCHome
  UuidPlans = {p1}
  Dispatch = {"handler"}
  MaxJobs = 2
  MaxCmds = 3
  MaxCrashes = 0
  Faults = {}
  MaxFaults = 0
PROPERTIES StopHolds
CHECK_DEADLOCK FALSE
