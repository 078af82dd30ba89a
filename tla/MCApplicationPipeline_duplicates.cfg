SPECIFICATION Spec
CONSTANTS
  Candidates = {c1}
  Jobs = {j1}
  MaxApps = 2
  Targets = {"rejected"}
  Requests = {r1, r2}
  None = None
INVARIANTS OnePerPair
SYMMETRY Symm
CHECK_DEADLOCK FALSE
