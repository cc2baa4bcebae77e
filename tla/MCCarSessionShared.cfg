SPECIFICATION Spec
CONSTANTS
  m1 = m1
  m2 = m2
  m3 = m3
  w1 = w1
  w2 = w2
  None = None
  Invs = {m1, m2}
  Rids = {m1}
  RidOf <- SharedRid
  Deadlined = {m1, m2}
  Workers = {w1, w2}
INVARIANT SessionPerInvocation
CHECK_DEADLOCK FALSE
