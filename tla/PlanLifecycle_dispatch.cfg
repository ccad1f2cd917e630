\* One approval of a plan whose events can be saved: no crash, no fault.
SPECIFICATION MCFairSpec
CONSTANTS
  proc1 = proc1
  proc2 = proc2
  Plans = {p1}
  NoPlan = NoPlan
  Procs = {proc1}
  NoProc = NoProc
  Cmds = {c1}
  Home <- MCHome
  UuidPlans = {p1}
  Dispatch = {"missing"}
  MaxJobs = 2
  MaxCmds = 1
  MaxCrashes = 0
  Faults = {}
  MaxFaults = 0
PROPERTIES JobsReachHandler
CHECK_DEADLOCK FALSE
