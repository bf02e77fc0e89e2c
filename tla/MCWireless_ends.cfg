SPECIFICATION Spec
CONSTANTS
  ann = "ann"
  bob = "bob"
  a1 = "a1"
  a2 = "a2"
  b1 = "b1"
  None = "none"
  Users <- OneUser
  Stations = {"s1", "s2"}
  Paired <- NonePaired
  MaxPairings = 1
  Keys = {"k1"}
  FixedKey = "k1"
  Orders <- MCOrders
  Devices = {"wifred", "longfred", "fred"}
  Vehicles <- OnesVehicles
  Owner <- OnesOwner
  Addressed <- OnesAddressed
  MaxSlots = 1
  MaxJobs = 1
  MaxFredJobs = 1
  Buffer = 1
  MaxScans = 2
  MaxCalls = 1
INVARIANTS FredTypeOK
PROPERTIES ProgrammingEnds
CHECK_DEADLOCK FALSE
