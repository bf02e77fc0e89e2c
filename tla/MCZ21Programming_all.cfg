SPECIFICATION FairSpec
CONSTANTS
  InitDecoders <- MCDecoder
  Commands <- MCNoCommands
  Faults <- MCAllFaults
  MaxQueue = 1
  MaxReplies = 1
  Requests = {r1, r2}
  Jobs <- MCFewJobs
  NoRequest = NoRequest
INVARIANTS SingleFlight OnlyChosenBits
PROPERTIES EveryRequestEnds AnswerWasHeld
CHECK_DEADLOCK FALSE
