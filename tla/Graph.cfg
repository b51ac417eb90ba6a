SPECIFICATION Spec
CONSTANTS
  Files = {"sh", "tool", "in", "tmp"}
  Binaries = {"sh", "tool"}
  PackageOf <- MCPackageOf
  InOut = {"in"}
  Truncated <- MCTruncated
  Filters <- MCFilters
  MaxProcs = 3
  MaxRows = 6
INVARIANTS
  TypeOK
  
  
  EndpointsDrawn
  
CHECK_DEADLOCK FALSE
