CONSTANTS
  a = a
  b = b
  a1 = a1
  a2 = a2
  b1 = b1
  b2 = b2
  sa = sa
  sb = sb
  cleaner = cleaner
  Router = {a, b}
  Conn = {a1, b1, b2}
  Stripe = {sa, sb}
  RouterOf <- DstEnds
  StripeOf <- Stripes
  ChurnLimited = FALSE
  NoConn = NoConn
  NoThread = NoThread
  Established = {a1}
  SrcId = a
  DstId = b
  Remover = {cleaner}
  Cleaner = cleaner
  MaxIteration = 1
  MaxLink = 1
  NoLink = NoLink
SPECIFICATION LinkSpec
CHECK_DEADLOCK FALSE
SYMMETRY DstSymmetry
INVARIANTS
  NoLinkFromDisconnected
  IndexComplete
