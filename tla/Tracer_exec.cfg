SPECIFICATION Spec
CONSTANTS
  Tids = {1,2}
  First = 1
  Calls = {"clone", "execve", "exit"}
  Faults = {"db"}
  MaxCalls = 3
  InitSlots = 1
INVARIANTS
  VectorsAligned
  GroupRefs
