SPECIFICATION Spec
CONSTANTS
  InitDecoders <- MCDecoders
  Commands <- MCCommands
  Faults <- MCCalmFaults
  MaxQueue = 3
  MaxReplies = 2
  Requests = {r1, r2}
  Jobs <- MCJobs
  NoRequest = NoRequest
INVARIANTS TypeOK RailcomOffFirst NoForeignAddress
PROPERTIES SnapshotRead AddressIsSet WriteIsStored RegisterSpec
CHECK_DEADLOCK FALSE
