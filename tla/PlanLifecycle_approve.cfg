\* One approval in a Telegram chat, whose number is not a uuid: no crash, no fault.
SPECIFICATION MCFairSpec
CONSTANTS
  proc1 = proc1
  proc2 = proc2
  Plans = {p1}
  NoPlan = NoPlan
  Procs = {proc1}
  NoProc = NoProc
  Cmds = {c1}
  Home <- MCHome
  UuidPlans = {}
  Dispatch = {"handler"}
  MaxJobs = 3
  MaxCmds = 1
  MaxCrashes = 0
  Faults = {}
  MaxFaults = 0
PROPERTIES ApprovedIsTaken
CHECK_DEADLOCK FALSE
