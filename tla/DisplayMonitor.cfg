SPECIFICATION FairSpec
CONSTANTS
    States = {A, B, NoPrimary}
    NoPrimary = NoPrimary
    Clients = {c1, c2}
    Nothing = Nothing
    MaxChanges = 1
    MaxFailures = 1
    MaxThrows = 1
INVARIANTS
    NoLostWakeup
    NobodyForgotten
PROPERTIES
    ChangesPushed
