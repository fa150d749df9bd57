SPECIFICATION FairSpec
CONSTANTS
  IOSIZE = 1
  SPM_PAGESIZE = 2
  BLDADDR = 2
  FLASHEND = 3
  E2END = 1
  TIMEOUT = 1
  Watchdog = TRUE
  Builds <- AllBuilds
  HostCommands <- AnyCommand
  MaxHeard = 2
  PowerMayFail = TRUE
PROPERTIES PolicyKept TimerBoots
