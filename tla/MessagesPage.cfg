SPECIFICATION FairSpec
CONSTANTS
  Messages <- MCMessages
  Categories <- MCCategories
  Tags <- MCTags
  Found <- MCFound
  Libraries <- MCLibraries
  Links <- MCLinks
  inbox = inbox
  links = links
  later = later
  PageSize = 2
  Any = Any
  Gone = Gone
  NoLoad = NoLoad
  NoOp = NoOp
  NoReply = NoReply
  Failed = Failed
  Conflict = Conflict
  Done = Done
  NoMessage = NoMessage
  MaxPage = 2
  MaxOps = 2
  MaxFaults = 1
  MaxClicks = 3
INVARIANTS ListAnswersUrl ListIsTrue TotalIsTrue
PROPERTIES ComesToRest
CHECK_DEADLOCK FALSE
