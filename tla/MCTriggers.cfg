SPECIFICATION Spec
CONSTANTS
  g1 = g1
  g2 = g2
  g3 = g3
  k1 = k1
  k2 = k2
  r1 = r1
  None = None
  Gone = Gone
  NoCron = NoCron
  CronCalls = {g3}
  HttpCalls = {g1, g2}
  Requests = {r1}
  Keys = {k1, k2}
  Crons = {"often", "once"}
  Confs = {"c1", "c2"}
  Funcs = {"f1", "f2"}
  Due <- MCDue
  MaxTime = 3
  MaxLate = 0
  CronChanges = 1
  HttpChanges = 2
  CronStarts <- MCCronStarts
  HttpStarts <- MCHttpStarts
  MaxRetries = 2
  MaxLines = 2
INVARIANTS Sound LiveTasksAreStored AnswersHaveResults StoreDrains TimerIsEarliest EndpointsAreRouted InvokeReturnsResult
SYMMETRY CallsAreAlike
CHECK_DEADLOCK FALSE
