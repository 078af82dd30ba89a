SPECIFICATION Spec
CONSTANTS
  Tasks = {1, 2}
  Unsupported = {}
  Workers = {w1}
  Cancellers = {c1}
  Retriers = {}
  Results = {x}
  NoResult = NoResult
  BatchSize = 2
  MaxRetries = 0
  MayAbort = FALSE
CHECK_DEADLOCK FALSE
PROPERTIES DocumentedLifecycle
