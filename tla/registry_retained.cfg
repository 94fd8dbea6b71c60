CONSTANTS
  Tasks = {t1, t2}
  Templates = {a, b, c}
  Configured = {a, b, c}
  Containers = {c1, c2, c3, c4}
  Replicas = 2
  HotLimit = 1
  WarmLimit = 3
  Faulty = FALSE
  Cancellable = FALSE
  NoTemplate = NoTemplate
SPECIFICATION FairSpec
INVARIANTS NoLeak RegisteredExist LruMatchesRuntimes
PROPERTY LoadSettles
