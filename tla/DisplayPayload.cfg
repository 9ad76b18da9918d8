SPECIFICATION FairSpec
CONSTANTS
    States = {A, B, NoPrimary}
    NoPrimary = NoPrimary
    Clients = {c1}
    Nothing = Nothing
    MaxChanges = 0
    MaxFailures = 0
    MaxThrows = 0
PROPERTY NewClientTold
