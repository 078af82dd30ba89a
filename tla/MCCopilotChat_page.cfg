SPECIFICATION FairSpec
CONSTANTS
    MaxSends = 3
    MaxConvs = 2
    MaxClicks = 3
INVARIANT TypeOK
INVARIANT OneStreamUnlessOvertaken
INVARIANT PendingIsLive
INVARIANT SelectedIsListed
PROPERTY StoppedStays
PROPERTY AnswersDecidedOnce
PROPERTY PendingIsDecided
CHECK_DEADLOCK FALSE
