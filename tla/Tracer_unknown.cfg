SPECIFICATION Spec
CONSTANTS
  Tids = {1,2,3}
  First = 1
  Calls = {"clone", "fork"}
  Faults = {}
  MaxCalls = 2
  InitSlots = 1
INVARIANTS
  UnknownHasCreator
