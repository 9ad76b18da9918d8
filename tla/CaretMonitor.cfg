SPECIFICATION FairSpec
CONSTANTS
    Clients = {c1, c2}
    Places = {"top", "mid", "next", "last"}
    NoPlace = "none"
    Layouts = {"one", "two"}
    StateOf <- MCStateOf
    Threshold = 1
    NotTold = NotTold
    MaxMoves = 3
    MaxJoins = 2
    MaxFaults = 1
INVARIANTS
    ClientWithinThreshold
PROPERTIES
    VanishTold
    ClickTells
