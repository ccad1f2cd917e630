\* Two events in flight, two gate keys, a crash and a failed call.
SPECIFICATION FairSpec
CONSTANTS
  Keys = {k1, k2}
  NoKey = NoKey
  SaveableKeys = {k1, k2}
  Dispatch = {"handler", "missing"}
  Slots = {s1, s2}
  NoSlot = NoSlot
  MaxCrashes = 1
  Faults = {"postgres", "redis", "telegram"}
  MaxFaults = 1
INVARIANTS TypeOK GateIsWaited PendingHasJob
PROPERTIES EventsSettle
