SPECIFICATION Spec
CONSTANTS
  Tids = {1,2}
  First = 1
  Calls = {"open", "chdir", "fork", "execve"}
  Faults = {"error", "efault", "db", "interrupt", "signal"}
  MaxCalls = 3
  InitSlots = 1
INVARIANTS
  CommitComplete
  RecordedPrefix
