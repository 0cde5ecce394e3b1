SPECIFICATION FairSpec
CONSTANTS
  MaxSeq = 3
  MaxJobs = 2
  MaxQueue = 2
  MaxFaults = 1
  MaxClicks = 2
  NoReply = NoReply
  Failed = Failed
INVARIANTS FinishAnnouncedOnce
PROPERTIES RepliesNeverRegress KeepsItsPromises Settles
