SPECIFICATION FairSpec
CONSTANTS
  Candidates = {c1, c2}
  Jobs = {j1}
  MaxApps = 2
  Targets = {"rejected"}
  Requests = {r1, r2}
  None = None
INVARIANTS TypeOK CountExactUnlessRaced OnePerPairUnlessRaced AnnouncedBeforeVisible
PROPERTIES EveryRequestEnds BoardInOneStep
CHECK_DEADLOCK FALSE
