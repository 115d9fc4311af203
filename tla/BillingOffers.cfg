\* Two fair threads while the administrator changes prices; requests
\* die anywhere, attempts are declined; no symmetry (liveness).
CONSTANTS
  o1 = o1
  p1 = p1
  h1 = h1
  h2 = h2
  None = None
  Orgs = {o1}
  Payments = {p1}
  Handlers = {h1, h2}
  Free = "free"
  Plans = {"free", "pro"}
  Cycles = {"monthly"}
  Monthly = "monthly"
  Offers <- PriceOffer
  Unreliable = {p1}
  Demo = FALSE
  AbortPoints <- AllPoints
SPECIFICATION FairSpec
PROPERTIES ImplementsLedger CapturedIsServed
