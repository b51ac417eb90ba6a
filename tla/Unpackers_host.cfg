SPECIFICATION Spec
CONSTANTS
  IoFiles = {"data"}
  Origin <- MCOrigin1
  ReadBy <- MCReadBy1
  WrittenBy <- MCWrittenBy1
  NRuns = 1
  LocalFiles = {"mine"}
  UploadArgs = {}
  RunArgs = {}
  Faults = {"mount"}
  MaxImages = 1
  MaxBoxes = 1
  OnHost = {}
  MaxMounts = 1
  MaxStack = 1
INVARIANTS
  HostSafe
CHECK_DEADLOCK FALSE
