SPECIFICATION FairSpec
CONSTANTS
  HW_BUFFER_SIZE = 2
  AckModes = {TRUE, FALSE}
  HostKeepsCredit = FALSE
  MaxWrites = 2
  MaxArrivals = 0
  MaxPackets = 2
INVARIANT SlotsInPool
PROPERTIES StreamDrains BulkDrains
CHECK_DEADLOCK FALSE
