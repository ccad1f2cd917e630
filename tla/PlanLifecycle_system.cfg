\* Two processes and one command, or one process and two handlers in flight.
SPECIFICATION MCSystemSpec
CONSTANTS
  proc1 = proc1
  proc2 = proc2
  Plans = {p1}
  NoPlan = NoPlan
  Procs = {proc1, proc2}
  NoProc = NoProc
  Cmds = {c1, c2}
  Home <- MCHome
  UuidPlans = {p1}
  Dispatch = {"handler", "missing"}
  MaxJobs = 4
  MaxCmds = 2
  MaxCrashes = 1
  Faults = {"postgres", "redis"}
  MaxFaults = 1
INVARIANTS TypeOK QueuedHasJob ClaimedIsQueued ExecutingIsOwned ClaimExcludes
PROPERTIES PermitSpec OrphanIsRecovered
CHECK_DEADLOCK FALSE
