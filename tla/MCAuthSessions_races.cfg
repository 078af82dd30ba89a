SPECIFICATION Spec
CONSTANTS
    Requests = {r1, r2, r3}
    MaxFailed = 2
    MaxSessions = 4
    MaxStarts = 5
SYMMETRY Symm
INVARIANT TypeOK
INVARIANT RevokedUnlessRaced
INVARIANT InactiveUnlessRaced
INVARIANT OneSuccessorUnlessForked
INVARIANT AttemptsAddUpUnlessMixed
CHECK_DEADLOCK FALSE
