SPECIFICATION Spec
CONSTANTS
  None = "none"
  Logins = {"l1"}
  Pins = {"p1", "p2"}
  Configs <- OneConfig
  MaxIdle = 2
  MaxPolls = 2
  MaxLoads = 2
INVARIANTS IdleLogsOut
CHECK_DEADLOCK FALSE
