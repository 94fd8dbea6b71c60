CONSTANTS
  Tasks = {t1, t2}
  Templates = {a, b, c}
  Configured = {a, b, c}
  Containers = {c1, c2, c3}
  Replicas = 1
  HotLimit = 1
  WarmLimit = 1
  Faulty = TRUE
  Cancellable = TRUE
  NoTemplate = NoTemplate
SPECIFICATION Spec
SYMMETRY SafetySymmetry
INVARIANT HotBound
PROPERTY ServesOneTemplate
