SPECIFICATION Spec
CONSTANTS
  z1 = z1
  z2 = z2
  Configs <- MCConfigs
  DefaultConfig <- MCDefault
  Endpoints <- MCEndpoints
  NoEndpoint = NoEndpoint
  Requests = {r1, r2}
  NoRequest = NoRequest
  MaxEdits = 2
PROPERTY TrafficFollowsConfig
CHECK_DEADLOCK FALSE
