SPECIFICATION Spec
CONSTANTS
    c1 = c1
    c2 = c2
    Controllers = {c1, c2}
    LogSize = 2
    PoolSize = 1
    MaxInFlight = 1
    StartLog <- ThreeChanges
    StartIndex <- Later
    MaxEntries = 4
    Faults = {"renewal"}
    MaxFaults = 1
INVARIANTS
    ReplayIsComplete
    SenderNeverAhead
PROPERTY
    ViewSpec
