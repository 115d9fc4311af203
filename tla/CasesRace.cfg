\* Two threads, limits of one or two cases, four keys; status is not told apart; no symmetry (liveness).
CONSTANTS
  i1 = i1
  i2 = i2
  i3 = i3
  i4 = i4
  h1 = h1
  h2 = h2
  None = None
  Ids = {i1, i2, i3, i4}
  Handlers = {h1, h2}
  PlanRows <- TwoPlans
  Ceiling = 2
  Statuses = {"open"}
SPECIFICATION Spec
INVARIANTS TypeOK CaseBound
PROPERTY FreeTierFreezes
