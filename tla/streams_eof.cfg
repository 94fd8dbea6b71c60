CONSTANTS
  Parts = {"streams"}
  Handlers = {h1}
  Sessions = {s1}
  Procs = {p1}
  MaxPerSession = 1
  ReaperOn = FALSE
  CgroupOn = FALSE
  Cancellable = FALSE
  Signals = {}
  Reaper = Reaper
  Drainer = Drainer
  NoSession = NoSession
  NoProc = NoProc
  Callers = {h1}
  Cap = 2
  ChunkSize = 2
  MaxBytes = {1}
  MaxSent <- Some
  MaxWrites = 0
  WriteLen = 2
  Droppable = FALSE
  NoHandler = NoHandler
SPECIFICATION MCSpec
PROPERTY EofMeansAll
