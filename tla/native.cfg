SPECIFICATION FairSpec
CONSTANTS
  Adaptors = {"vusb-async", "vusb", "spidev"}
  Wanted = "vusb-async"
  MaxFailures = 1
  Completions = {"COMPLETED", "TIMED_OUT"}
INVARIANTS AdaptorsFound MemorySound
 
CHECK_DEADLOCK FALSE
