\* Two copies that start and end at any moment, one user name, two requests at a time.
CONSTANTS
  c1 = c1
  c2 = c2
  k1 = k1
  k2 = k2
  p1 = p1
  p2 = p2
  n1 = n1
  o1 = o1
  o2 = o2
  t1 = t1
  t2 = t2
  None = None
  Copies = {c1, c2}
  Secrets = {k1, k2}
  Ports = {p1, p2}
  Preferred = p1
  KillPoints <- FirstKills
  Names = {n1}
  OrgIds = {o1, o2}
  Threads = {t1, t2}
  Changes = 1
  CutPoints <- MakeCuts
SPECIFICATION Spec
SYMMETRY Interchangeable
INVARIANTS TypeOK FreshInstallWorks WindowIsServed AccountsAreWhole OneOrgEach PasswordStands SessionsSurvive PlansByStanding
