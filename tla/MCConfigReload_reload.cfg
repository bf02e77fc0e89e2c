SPECIFICATION FairSpec
CONSTANTS
  z1 = z1
  z2 = z2
  Configs <- MCConfigs
  DefaultConfig <- MCDefault
  Endpoints <- MCEndpoints
  NoEndpoint = NoEndpoint
  Requests = {r1}
  NoRequest = NoRequest
  MaxEdits = 3
INVARIANTS TypeOK NoLostEdit OnlyWhatWasWritten
PROPERTY Converges
CHECK_DEADLOCK FALSE
