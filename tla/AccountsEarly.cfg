\* One copy, no signup cut off; a user may log in before the signup is answered.
CONSTANTS
  c1 = c1
  k1 = k1
  k2 = k2
  p1 = p1
  p2 = p2
  n1 = n1
  o1 = o1
  o2 = o2
  o3 = o3
  t1 = t1
  t2 = t2
  None = None
  Copies = {c1}
  Secrets = {k1, k2}
  Ports = {p1, p2}
  Preferred = p1
  KillPoints <- FirstKills
  Names = {n1}
  OrgIds = {o1, o2, o3}
  Threads = {t1, t2}
  Changes = 1
  CutPoints = {}
SPECIFICATION Spec
SYMMETRY Interchangeable
INVARIANT EveryUserHasOrg
