SPECIFICATION FilesSpec
CONSTANTS
    Limits = {0, 2}
    DefaultMax = 3
    Lengths = {1, 2}
    Missing = Missing
    NoLimit = NoLimit
    MaxTokens = 2
    MaxRuns = 2
    MaxEdits = 2
    MaxLines = 3
    MaxFaults = 2
INVARIANTS
    UserSettingsKept
PROPERTIES
    LogLinesSurvive
    LogBounded
CHECK_DEADLOCK FALSE
