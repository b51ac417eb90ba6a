SPECIFICATION Spec
CONSTANTS
  IoFiles = {"data", "result", "lib"}
  Origin <- MCOrigin
  ReadBy <- MCReadBy
  WrittenBy <- MCWrittenBy
  NRuns = 2
  LocalFiles = {"mine"}
  UploadArgs <- MCUploads
  RunArgs <- MCRuns
  Faults = {"tool", "setup", "crash", "mount", "umount", "reboot", "provision", "ssh"}
  MaxImages = 3
  MaxBoxes = 1
  OnHost = {"lib"}
  MaxMounts = 2
  MaxStack = 1
INVARIANTS
  TypeOK
  StatusTold
  InitialImageKept
  CurrentImageExists
  NoImageLost
  HostSafeUnlessTorn
  
PROPERTIES
  ImplementsExperiment
CHECK_DEADLOCK FALSE
