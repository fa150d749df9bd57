SPECIFICATION Spec
CONSTANTS
  HW_BUFFER_SIZE = 4
  AckModes = {TRUE}
  HostKeepsCredit = TRUE
  MaxWrites = 2
  MaxArrivals = 3
  MaxPackets = 4
INVARIANTS TypeOK LiveSlotsDisjoint InFlightIsHead PostedCreditSound
PROPERTIES TxFifo RxFifo
