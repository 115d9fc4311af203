\* Two threads, three items of one case, a limit of one; requests die between file and row.
CONSTANTS
  i1 = i1
  i2 = i2
  i3 = i3
  c1 = c1
  h1 = h1
  h2 = h2
  None = None
  Ids = {i1, i2, i3}
  CaseIds = {c1}
  Handlers = {h1, h2}
  Kinds = {"direct", "other"}
  Limits = {1}
  Ceiling = 1
  DemoSize = 1
  AbortPoints <- DiskPoints
SPECIFICATION Spec
SYMMETRY Interchangeable
INVARIANTS StoredFilesAreApart RowsAreLinked BytesAreKept EvidenceBound
