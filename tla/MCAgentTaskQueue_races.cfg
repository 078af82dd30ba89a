SPECIFICATION FairSpec
CONSTANTS
  Tasks = {1}
  Unsupported = {}
  Workers = {w1, w2}
  Cancellers = {c1}
  Retriers = {r1}
  Results = {x}
  NoResult = NoResult
  BatchSize = 1
  MaxRetries = 2
  MayAbort = FALSE
CHECK_DEADLOCK FALSE
INVARIANTS TypeOK EndIsStamped CompletedHasOutput RunningIsStarted
PROPERTIES Settles
