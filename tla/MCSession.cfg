SPECIFICATION Spec
CONSTANTS
  None = "none"
  Logins = {"l1"}
  Pins = {"p1", "p2"}
  Configs <- SomeConfigs
  MaxIdle = 2
  MaxPolls = 2
  MaxLoads = 2
INVARIANTS AccountAsConfirmed
PROPERTIES IdleOnlyWhenIdle SignInEnds
CHECK_DEADLOCK FALSE
