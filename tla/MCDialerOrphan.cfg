CONSTANTS
  o1 = o1
  o2 = o2
  Obj = {o1, o2}
  MaxAddr = 1
  MaxEvents = 2
  MaxCopies = 1
  NoObj = NoObj
SPECIFICATION DialerSpec
CHECK_DEADLOCK FALSE
SYMMETRY Symmetric
INVARIANTS
  
  TrackedIsScheduled
