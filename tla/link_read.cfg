SPECIFICATION FairSpec
CONSTANTS
  HW_BUFFER_SIZE = 2
  MaxArrivals = 2
  Menu <- ReadMenu
  MaxTransfers = 3
  Styles = {"execute"}
  Timeouts = {"execute"}
INVARIANTS RecvInOrder NoPhantomRead NothingThrown
PROPERTY TransferEnds
