SPECIFICATION FairSpec
CONSTANTS
    Clients = {c1, c2}
    Handles = {1, 2}
    NoHandle = 0
    Sizes = {1, 2}
    Tiers = {1, 2}
    DefaultTier = 1
    HashOf <- MCHashOf
    NoImage = NoImage
    FirstImage <- MCFirstImage
    MaxChanges = 2
    MaxJoins = 2
    MaxFaults = 1
INVARIANTS
    RememberedIsShown
PROPERTIES
    CursorShown
CHECK_DEADLOCK FALSE
