SPECIFICATION OneStartSpec
CONSTANTS
    d1 = d1
    low = low
    Devices = {d1, d2}
    Levels = {low, high}
    Clients = {c1, c2}
    Nothing = Nothing
    MaxChanges = 1
    MaxFailures = 1
    MaxThrows = 1
INVARIANTS
    NoLostWakeup
    NoHalfSwitchSeen
PROPERTY ClientsLearn
