\* One gate whose key the events table refuses; no crash and no failure, and the user insists.
SPECIFICATION PersistentSpec
CONSTANTS
  Keys = {k1}
  NoKey = NoKey
  SaveableKeys = {}
  Dispatch = {"handler"}
  Slots = {s1, s2}
  NoSlot = NoSlot
  MaxCrashes = 0
  Faults = {}
  MaxFaults = 0
PROPERTIES GateOpens
