CONSTANTS
  Handlers = {h1, h2}
  Sids = {s1}
  Lease = 1
  Timeouts = {0}
  MaxTime = 2
  MaxCrashes = 2
  Sweeper = Sweeper
  NoSid = NoSid
  Mirrors = {m1}
  Writers = {w1, w2}
  Shards = {k1, k2}
  Workers = 2

SPECIFICATION MCSpec
CHECK_DEADLOCK FALSE
INVARIANTS MapMatchesFiles StaysDeleted DoomedAreExpired LeaksExplained
PROPERTIES ExpiredSwept ReleasedOrWedged
