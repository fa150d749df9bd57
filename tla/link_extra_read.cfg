SPECIFICATION Spec
CONSTANTS
  HW_BUFFER_SIZE = 2
  MaxArrivals = 3
  Menu <- ReadMenu
  MaxTransfers = 3
  Styles = {"execute"}
  Timeouts = {}
INVARIANT NothingThrown
