SPECIFICATION FairSpec
CONSTANTS
  Streams = {s1, s2, s3}
  MaxStreams = 1
  Lease = 2
  Heartbeat = 1
  MaxDelay = 1
  Free = Free
INVARIANTS LiveLeaseIsHeld StreamLimit
PROPERTIES LostStreamEnds RevokedStreamEnds
