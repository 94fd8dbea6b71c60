CONSTANTS
  Tasks = {t1}
  Templates = {a, b, c, u}
  Configured = {a, b, c}
  Containers = {c1, c2, c3, c4, c5}
  Replicas = 1
  HotLimit = 1
  WarmLimit = 1
  Faulty = FALSE
  Cancellable = FALSE
  NoTemplate = NoTemplate
SPECIFICATION Spec
INVARIANT TiersMatchDocker
PROPERTY FollowsPolicy
