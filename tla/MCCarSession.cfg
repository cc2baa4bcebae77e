SPECIFICATION FairSpec
CONSTANTS
  m1 = m1
  m2 = m2
  m3 = m3
  w1 = w1
  w2 = w2
  None = None
  Invs = {m1, m2, m3}
  Rids = {m1, m2, m3}
  RidOf <- OwnRid
  Deadlined = {m1, m2}
  Workers = {w1, w2}
INVARIANTS TypeOK RunningIsTracked FinishedIsReplied
PROPERTIES ImplementsInvocations SessionsEnd
CHECK_DEADLOCK FALSE
