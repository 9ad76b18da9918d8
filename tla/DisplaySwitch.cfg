SPECIFICATION SwitchSpec
CONSTANTS
    Displays <- MCDisplays
    Gdi <- MCGdi
    Target <- MCTarget
    Values = {"v1", "v2"}
    NoScale = "v1"
    Defaults <- MCDefaults
    None = None
    MaxOps = 3
    MaxFaults = 2
INVARIANTS
    OkIsActive
    RefusedUntouched
    ComesBack
    ModeTakesEffect
CHECK_DEADLOCK FALSE
