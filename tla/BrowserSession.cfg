SPECIFICATION FairSpec
CONSTANTS
  Tabs = {tab1, tab2}
  Users = {ann, bob}
  Nobody = Nobody
  NoRequest = NoRequest
  NoReply = NoReply
  Failed = Failed
  Unauthorized = Unauthorized
  Done = Done
  MaxFaults = 1
  MaxClicks = 4
INVARIANTS NeverStuck TabsAgree
PROPERTIES ComesToRest
CHECK_DEADLOCK FALSE
