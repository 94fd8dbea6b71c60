CONSTANTS
  Clients = {c1, c2}
  Templates = {a, x}
  Broken = {x}
  Sids = {s1, s2}
  Urls = {u1, u2, u3}
  Fallback = u3
  Exposed = TRUE
  NoUrl = NoUrl
  NoSid = NoSid
  Starts = {p1, p2}
  Boxes = {d1, d2, d3}
  Commands = 1
  Restarts = 1
  NoBox = NoBox
  Letters = {"a", "b"}
  MaxText = 4
  Requests = {r1, r2, r3}

SPECIFICATION MCSpec
CHECK_DEADLOCK FALSE
INVARIANTS RoutedHome OrphansExplained StraysExplained HandedReady EditsKept EditsIndependent
PROPERTIES AnsweredOrPaused StartEnds
