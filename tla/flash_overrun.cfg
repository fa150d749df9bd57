SPECIFICATION Spec
CONSTANTS
  IOSIZE = 2
  SPM_PAGESIZE = 4
  BLDADDR = 8
  FLASHEND = 11
  E2END = 3
  TIMEOUT = 1
  Watchdog = TRUE
  NumPacketsPerRun = 3
  Sessions <- OneWrite
  FileSizes = {8}
  RingSize = 2
  CutSessions = {}
  HostIsPrompt = TRUE
INVARIANT BootSectionIntact
CHECK_DEADLOCK FALSE
