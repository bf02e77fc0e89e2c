SPECIFICATION Spec
CONSTANTS
  ann = "ann"
  bob = "bob"
  s1 = "s1"
  s2 = "s2"
  Users <- MCUsers
  Stations <- MCStations
  Lists <- MCLists
  Paired <- MCPaired
  None = "none"
  MaxPairings = 2
  MaxPolls = 1
INVARIANTS DriveTypeOK ShownCodeIsOpen PairedIsTrue NothingLeftOpen NeverBlank
PROPERTIES BusyEnds PairedIsNoticed
CHECK_DEADLOCK FALSE
