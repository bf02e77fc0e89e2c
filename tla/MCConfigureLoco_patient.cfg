SPECIFICATION FairSpec
CONSTANTS
  Users <- MCUsers
  Pool <- MCPool
  Ids = {1, 2}
  Fleets <- MCFleets
  Typed = {4}
  NoUser = NoUser
  Hurried = FALSE
  MaxLoads = 1
INVARIANTS OwnVehicles ProgrammedIsSaved OneVehiclePerAdd PulseRunsTheLoco
PROPERTIES FunctionsKept BusyEnds
CHECK_DEADLOCK FALSE
