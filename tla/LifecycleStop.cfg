SPECIFICATION FairSpec
INVARIANTS
    EngineOutlivesThreads
    ModulesOutliveServer
    NothingLeft
PROPERTIES
    StopEnds
CHECK_DEADLOCK FALSE
