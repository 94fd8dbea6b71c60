CONSTANTS
  Parts = {"sessions", "streams", "stdin"}
  Handlers = {h1}
  Sessions = {s1}
  Procs = {p1}
  MaxPerSession = 1
  ReaperOn = TRUE
  CgroupOn = FALSE
  Cancellable = FALSE
  Signals = {"SIGINT"}
  Reaper = Reaper
  Drainer = Drainer
  NoSession = NoSession
  NoProc = NoProc
  Callers = {h1, h2}
  Cap = 2
  ChunkSize = 2
  MaxBytes = {1}
  MaxSent <- None
  MaxWrites = 2
  WriteLen = 2
  Droppable = TRUE
  NoHandler = NoHandler
SPECIFICATION MCFairSpec
CHECK_DEADLOCK FALSE
INVARIANT WritesWhole
PROPERTIES ReapEnds ReapedProcessEnds AbandonedEvicted ShutdownReaps
  WriteEndsWithChild SleeperSeesExit
