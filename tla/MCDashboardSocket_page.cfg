SPECIFICATION FairSpec
CONSTANTS
  s1 = s1
  s2 = s2
  s3 = s3
  s4 = s4
  None = None
  Sockets = {s1, s2, s3, s4}
  MaxReconnectAttempts = 2
  MaxConsumers = 2
INVARIANT TypeOK
INVARIANT HoldsEveryLiveSocket
INVARIANT OpenIsWatched
PROPERTY OpensOnlyForConsumers
PROPERTY ConnectingIsDecided
PROPERTY SilenceIsNoticed
