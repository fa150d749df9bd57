SPECIFICATION FairSpec
CONSTANTS
  Programs = {"load", "send", "test", "outlet", "sweep"}
  CommandLines <- UserTypes
  Dongles = {"A", "B"}
  MaxUsbErrors = 1
  MaxReplugs = 1
INVARIANTS  OnlyTheDongleAsked
PROPERTY StartupEnds
