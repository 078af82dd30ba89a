SPECIFICATION Spec
CONSTANTS
  Tasks = {1, 2, 3}
  Unsupported = {3}
  Workers = {w1}
  Cancellers = {}
  Retriers = {r1}
  Results = {x}
  NoResult = NoResult
  BatchSize = 2
  MaxRetries = 2
  MayAbort = TRUE
CHECK_DEADLOCK FALSE
INVARIANTS RowMatchesStatus
PROPERTIES DocumentedLifecycle
