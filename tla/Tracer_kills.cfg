SPECIFICATION FairSpec
CONSTANTS
  Tids = {1,2}
  First = 1
  Calls = {"open", "fork"}
  Faults = {"kill"}
  MaxCalls = 4
  InitSlots = 1
INVARIANTS
  PipesTyped
  StopInHand
  ExitsRecorded
  
PROPERTIES
  EventuallyFinished
