SPECIFICATION Spec
CONSTANTS
  None = None
  o1 = o1
  o2 = o2
  h1 = h1
  h2 = h2
  Orgs = {o1, o2}
  Members <- MCMembers
  Cases = {c1}
  Items = {i1}
  Handlers = {h1, h2}
  Plans <- MCPlans
  MaxRequests = 2
SYMMETRY MCSymmetry
INVARIANTS
  TypeOK
  EveryDeedIsRecorded
  EntriesAreEarned
  DeedsAreEntitled
  TrailIsWhole
PROPERTY TrailKeeps
