SPECIFICATION FairSpec
CONSTANTS
    MaxRuns = 2
    MaxBoots = 1
INVARIANTS
    RunningIsOwned
    PausedIsQuiet
    CommittedIsVisible
PROPERTIES
    LateResultIsFlagged
    RunsEnd
CHECK_DEADLOCK FALSE
