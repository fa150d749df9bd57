SPECIFICATION Spec
CONSTANTS
  IOSIZE = 1
  SPM_PAGESIZE = 2
  BLDADDR = 2
  FLASHEND = 3
  E2END = 1
  TIMEOUT = 1
  Watchdog = TRUE
  Builds <- ProductionBuilds
  HostCommands <- Conversation
  MaxHeard = 2
  PowerMayFail = FALSE
PROPERTY HeldUntilBoot
CHECK_DEADLOCK FALSE
