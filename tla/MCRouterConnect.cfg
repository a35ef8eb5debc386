CONSTANTS
  r1 = r1
  c1 = c1
  c2 = c2
  s1 = s1
  Router = {r1}
  Conn = {c1, c2}
  Stripe = {s1}
  RouterOf <- PairRouterOf
  StripeOf <- OneStripe
  ChurnLimited = TRUE
  NoConn = NoConn
  NoThread = NoThread
SPECIFICATION FairSpec
INVARIANTS
  TypeOK
  RegistrationAgrees
  AcceptedOpenIsRegistered
  PublishOnlyWhileCurrent
PROPERTIES
  OnlyClosedLeaveSlot
  NoWedgedSlot
