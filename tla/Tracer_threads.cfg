SPECIFICATION Spec
CONSTANTS
  Tids = {1,2,3}
  First = 1
  Calls = {"open", "clone", "exit"}
  Faults = {}
  MaxCalls = 3
  InitSlots = 1
INVARIANTS
  UniqueTids
  GroupRefs
  PipesTyped
  
