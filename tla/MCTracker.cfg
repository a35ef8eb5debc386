SPECIFICATION LiveSpec
CONSTANTS
    w1 = w1
    w2 = w2
    w3 = w3
    Work = {w1, w2, w3}
    NoWork = NoWork
    MaxInt32 = 7
    MinSize = 1
    MaxSize = 2
    increaseCheckInterval = 2
    decreaseCheckInterval = 2
    Grown <- MCGrown
    Shrunk <- MCShrunk
INVARIANTS
    TrackerTypeOK
    SlotsAreCounted
    WindowBoundsWork
PROPERTIES
    SlotsComeBack
    OpensAgain
