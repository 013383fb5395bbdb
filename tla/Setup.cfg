SPECIFICATION Spec
CONSTANTS
  MaxThreads = 2
  MaxAttempts = 2
  Sockets = {s1, s2, s3}
  Handles = {h1, h2}
  NoHandle = noHandle
  Addresses <- MCAddresses
  SizeMax <- MCSizeMax
  UlongMax <- MCUlongMax
  Refs <- MCRefs
  Sizes <- MCSizes
  Faults = {"oom", "missing", "port", "refused", "spurious"}
INVARIANTS TypeOK NothingLeftBehind OpenUntilClosed PortReports AsleepBecauseMissed AddressesKeepTheirBytes KernelStaysInBuffer DestroyedAtRest
SYMMETRY Symmetry
CHECK_DEADLOCK FALSE
