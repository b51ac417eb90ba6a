SPECIFICATION Spec
CONSTANTS
  Files = {"tool", "in", "out", "hid", "cc", "lib"}
  Magic = {}
  System = {"cc", "lib"}
  Hidden = {"hid"}
  Packages = {"gcc", "libc"}
  Claims <- MCClaims
  Programs <- MCPrograms
  Others <- MCOthers
  OnDisk = {"tool", "in", "hid", "cc", "lib"}
  Faults = {"exec", "abort", "crash", "remove", "reboot"}
  MaxRuns = 2
  MaxGone = 1
INVARIANTS
  TypeOK
  RunsConfigured
  FilesOfTheirRuns
  
  
CHECK_DEADLOCK FALSE
