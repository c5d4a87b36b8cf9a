SPECIFICATION LiveFairSpec
CONSTANTS
    RunPulses = 2
    BacklogLimit = 2
    MaxItems = 2
    MaxCuts = 2
INVARIANTS StoppedShowsAll
PROPERTIES ShownNeverShrinks EndIsSeen
CHECK_DEADLOCK FALSE
