CONSTANTS
  a = a
  b = b
  a1 = a1
  a2 = a2
  b1 = b1
  b2 = b2
  sa = sa
  sb = sb
  cleaner = cleaner
  Router = {a, b}
  Conn = {a1, a2}
  Stripe = {sa, sb}
  RouterOf <- SrcEnds
  StripeOf <- Stripes
  ChurnLimited = FALSE
  NoConn = NoConn
  NoThread = NoThread
  Established = {a1}
  SrcId = a
  DstId = b
  Remover = {cleaner}
  Cleaner = cleaner
  MaxIteration = 2
  MaxLink = 2
  NoLink = NoLink
SPECIFICATION LinkSpec
CHECK_DEADLOCK FALSE
INVARIANTS
  LinkTypeOK
  NoLinkFromDisconnected
  IndexComplete
PROPERTY AddNeverOverwrites
