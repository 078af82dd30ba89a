SPECIFICATION ServedSpec
CONSTANTS
    MaxSends = 1
    MaxConvs = 2
    MaxClicks = 1
PROPERTY AskedIsShown
CHECK_DEADLOCK FALSE
