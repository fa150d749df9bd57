SPECIFICATION Spec
CONSTANTS
  Files = {"logs/myeasylog.log", "asked", "other", ""}
  kDefaultLogFile = "logs/myeasylog.log"
  CommandLines <- UserTypes
  CreatableFiles = {{"logs/myeasylog.log", "asked", "other"}, {"logs/myeasylog.log"}, {"asked", "other"}}
  Signals = {"SIGINT", "SIGABRT"}
  MaxStatements = 3
  MaxFills = 1
INVARIANTS LinesKept FileHasNoGap 
CHECK_DEADLOCK FALSE
