SPECIFICATION Spec
CONSTANTS
  MaxRequests = 3
  MaxSeq = 3
  MaxFaults = 1
  MaxClicks = 5
  NoStatus = NoStatus
  NoRequest = NoRequest
  NoReply = NoReply
  Failed = Failed
INVARIANTS BusyWhileAsking ShowsTheServer
PROPERTY AnswersInOrder
CHECK_DEADLOCK FALSE
