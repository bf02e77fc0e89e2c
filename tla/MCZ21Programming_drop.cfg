SPECIFICATION Spec
CONSTANTS
  InitDecoders <- MCDecoders
  Commands <- MCNoCommands
  Faults <- MCDropFaults
  MaxQueue = 3
  MaxReplies = 2
  Requests = {r1, r2}
  Jobs <- MCJobs
  NoRequest = NoRequest
PROPERTY WriteIsStored
CHECK_DEADLOCK FALSE
