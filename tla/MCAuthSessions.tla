--------------------------- MODULE MCAuthSessions ---------------------------
EXTENDS AuthSessions, TLC

Symm == Permutations(Requests)
=============================================================================
