SPECIFICATION FairSpec
CONSTANTS
  Tabs = {tab1, tab2}
  Recorded = {work}
  Names = {work, home}
  Fallback = Fallback
  NoRequest = NoRequest
  NoReply = NoReply
  Failed = Failed
  MaxChanges = 2
  MaxEvents = 2
INVARIANTS CategoriesAreTrue TagsAreTrue DeletedStaysDeleted
PROPERTIES Settles
CHECK_DEADLOCK FALSE
