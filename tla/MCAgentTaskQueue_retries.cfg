SPECIFICATION Spec
CONSTANTS
  Tasks = {1}
  Unsupported = {}
  Workers = {w1}
  Cancellers = {}
  Retriers = {r1, r2}
  Results = {x}
  NoResult = NoResult
  BatchSize = 1
  MaxRetries = 2
  MayAbort = FALSE
SYMMETRY Symm
CHECK_DEADLOCK FALSE
INVARIANTS PendingHasNoOutput
