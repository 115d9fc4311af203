\* Documented: a parse clears the rows of any previous one.
CONSTANTS
  i1 = i1
  c1 = c1
  h1 = h1
  h2 = h2
  None = None
  Ids = {i1}
  CaseIds = {c1}
  Handlers = {h1, h2}
  Kinds = {"direct"}
  Limits = {0}
  Ceiling = 0
  DemoSize = 1
  AbortPoints <- NoPoints
SPECIFICATION Spec
INVARIANT NoRowTwice
