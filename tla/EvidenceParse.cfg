\* Two threads on one item of any kind; requests die anywhere; no symmetry (liveness).
CONSTANTS
  i1 = i1
  c1 = c1
  h1 = h1
  h2 = h2
  None = None
  Ids = {i1}
  CaseIds = {c1}
  Handlers = {h1, h2}
  Kinds = {"history", "table", "direct", "other"}
  Limits = {0}
  Ceiling = 0
  DemoSize = 1
  AbortPoints <- AllPoints
SPECIFICATION FairSpec
INVARIANTS TypeOK CountIsTrue FilledOnce
PROPERTY ParseSettles
