SPECIFICATION LiveSpec
CONSTANTS
    p1 = p1
    p2 = p2
    l1 = l1
    l2 = l2
    Peer = {p1, p2}
    Listeners = {l1}
    Subject = Subject
    MaxChanges = 3
    MaxSends = 2
    MaxDispatching = 2
    NoEntry = NoEntry
INVARIANTS
    PeerTypeOK
    InProgressHasSend
    QuietMeansKnown
PROPERTIES
    ForgottenOnlyWhenSent
    EventuallyKnown
CHECK_DEADLOCK FALSE
