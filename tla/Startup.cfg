CONSTANTS
    Homes <- TwoHomes
    ConfigHomes <- ConfigHomeOrNone
    Required <- TwoRequired
    DiskConfigs <- HandWritten
    FlagSets <- CommandLines
    Answers <- UserAnswers
    MaxStarts = 2
    None = None
SPECIFICATION Spec
\* The bound on starts.
CHECK_DEADLOCK FALSE
INVARIANTS
    TypeOK
    SavedIsUsedAgain
    NotAskedAgain
    FlagsWin
    NamedInputAsksNothing
PROPERTIES
    UnattendedNeverWrites
