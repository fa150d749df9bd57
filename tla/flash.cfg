SPECIFICATION FairSpec
CONSTANTS
  IOSIZE = 2
  SPM_PAGESIZE = 4
  BLDADDR = 8
  FLASHEND = 11
  E2END = 3
  TIMEOUT = 1
  Watchdog = TRUE
  NumPacketsPerRun = 3
  Sessions <- TwoSessions
  FileSizes = {5}
  RingSize = 2
  CutSessions = {1}
  HostIsPrompt = TRUE
INVARIANTS ImageBytesInPlace BootSectionIntact  AnswersInTurn HalfImageStaysDown
PROPERTIES BootedIsImage  ListensAgain SessionEnds
CHECK_DEADLOCK FALSE
