\* Two threads, two payments of one organization; requests die anywhere.
CONSTANTS
  o1 = o1
  p1 = p1
  p2 = p2
  h1 = h1
  h2 = h2
  None = None
  Orgs = {o1}
  Payments = {p1, p2}
  Handlers = {h1, h2}
  Free = "free"
  Plans = {"free", "pro"}
  Cycles = {"monthly", "yearly"}
  Monthly = "monthly"
  Offers = {}
  Unreliable = {}
  Demo = FALSE
  AbortPoints <- AllPoints
SPECIFICATION Spec
SYMMETRY Interchangeable
INVARIANTS TypeOK PaidPlanHasSubscription PlanIsEarned PaidIsServed BooksAgree LimitsAreBought
