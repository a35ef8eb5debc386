CONSTANTS
  o1 = o1
  o2 = o2
  Obj = {o1}
  MaxAddr = 2
  MaxEvents = 2
  MaxCopies = 2
  NoObj = NoObj
SPECIFICATION DialerFairSpec
CHECK_DEADLOCK FALSE
INVARIANTS
  DialerTypeOK
  DialingHasDial
  TrackedIsScheduled
PROPERTY RedialedUnlessRaced
