SPECIFICATION FairSpec
CONSTANTS
    Valves = {1, 12}
    Keyed = {1}
    Last = 12
    Initial <- MCInitial
    EGs <- MCEGs
    Tables <- MCTables
    Manual = 7
    MaxKeys = 3
    MaxFail = 1
CHECK_DEADLOCK FALSE
INVARIANTS TypeOK TimerJustified
PROPERTIES DelayAfterLast SequenceCompletes ManualFollows
