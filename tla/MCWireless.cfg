SPECIFICATION Spec
CONSTANTS
  ann = "ann"
  bob = "bob"
  a1 = "a1"
  a2 = "a2"
  b1 = "b1"
  None = "none"
  Users <- TwoUsers
  Stations = {"s1"}
  Paired <- AnnIsPaired
  MaxPairings = 2
  Keys = {"k1"}
  FixedKey = "k1"
  Orders <- MCOrders
  Devices = {"wifred", "longfred", "fred"}
  Vehicles <- TheirVehicles
  Owner <- TheirOwner
  Addressed <- TheirVehicles
  MaxSlots = 1
  MaxJobs = 2
  MaxFredJobs = 1
  Buffer = 1
  MaxScans = 2
  MaxCalls = 2
INVARIANTS DoneIsTrue OrdersAreOwn FailedCodesAreCancelled
PROPERTY HandsetsAreRegisters
CONSTRAINT OnTime
CHECK_DEADLOCK FALSE
