SPECIFICATION LiveSpec
CONSTANTS
    c1 = c1
    c2 = c2
    Controllers = {c1}
    LogSize = 2
    PoolSize = 1
    MaxInFlight = 1
    StartLog <- TwoChanges
    StartIndex <- Together
    MaxEntries = 3
    Faults = {"disconnect", "controller restarts", "router restarts", "restore",
              "send fails", "subscription expires", "renewal", "fix"}
    MaxFaults = 1
INVARIANTS
    DataModelTypeOK
    SenderNeverAhead
PROPERTIES
    ViewSpec
    CatchesUp
