CONSTANTS
  Parts = {"sessions", "streams"}
  Handlers = {h1, h2}
  Sessions = {s1}
  Procs = {p1, p2, p3}
  MaxPerSession = 1
  ReaperOn = TRUE
  CgroupOn = TRUE
  Cancellable = TRUE
  Signals = {"SIGINT", "SIGTERM"}
  Reaper = Reaper
  Drainer = Drainer
  NoSession = NoSession
  NoProc = NoProc
  Callers = {h1, h2}
  Cap = 2
  ChunkSize = 2
  MaxBytes = {1}
  MaxSent <- Some
  MaxWrites = 0
  WriteLen = 2
  Droppable = TRUE
  NoHandler = NoHandler
SPECIFICATION MCSpec
SYMMETRY Symmetry
CHECK_DEADLOCK FALSE
INVARIANTS CapBound OneReaper LiveHasDir EofAfterExit
PROPERTIES StreamsAreLossy LosesOnlyOverflow
