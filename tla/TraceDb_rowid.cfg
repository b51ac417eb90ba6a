SPECIFICATION DbSpec
CONSTANTS
  Procs = {p1, p2, p3}
  First = p1
  MaxOpens = 5
INVARIANTS
  FilesOfProcesses
CHECK_DEADLOCK FALSE
