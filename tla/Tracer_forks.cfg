SPECIFICATION Spec
CONSTANTS
  Tids = {1,2,3}
  First = 1
  Calls = {"open", "chdir", "fork", "execve"}
  Faults = {}
  MaxCalls = 3
  InitSlots = 1
INVARIANTS
  TypeOK
  StopInHand
  WorkerOwnsSlot
  UnknownHasCreator
  
  AllProcesses

  
