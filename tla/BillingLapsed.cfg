\* One request at a time, none dying, while the administrator changes prices: a
\* Subscription that was canceled still makes the limits the yearly ones.
CONSTANTS
  o1 = o1
  p1 = p1
  h1 = h1
  None = None
  Orgs = {o1}
  Payments = {p1}
  Handlers = {h1}
  Free = "free"
  Plans = {"free", "pro"}
  Cycles = {"monthly", "yearly"}
  Monthly = "monthly"
  Offers <- AnyOffer
  Unreliable = {}
  Demo = FALSE
  AbortPoints = {}
SPECIFICATION Spec
INVARIANT LimitsAreLive
