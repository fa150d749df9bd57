SPECIFICATION Spec
CONSTANTS
  HW_BUFFER_SIZE = 2
  MaxArrivals = 0
  Menu <- WriteMenu
  MaxTransfers = 3
  Styles = {"execute", "queue"}
  Timeouts = {"execute"}
INVARIANTS NoWriteToFullRing SyncMeansSettled BulkDelivered StreamVerdictTrue
INVARIANTS BuffersOutliveRequests PendingIosExact InOrderOnce
