SPECIFICATION Spec
CONSTANTS
  i1 = i1
  i2 = i2
  p1 = p1
  p2 = p2
  w1 = w1
  w2 = w2
  None = None
  Gone = Gone
  Env = "x"
  Func = "f"
  Specs <- MCSpecs
  Insts = {i1, i2}
  Names = {p1, p2}
  Workers = {w1, w2}
  MaxReplicas = 2
  MaxSyncs = 1
  XenvEvents = 3
  MaxBacklog = 2
  PodEvents = 1
  MaxFaults = 3
  MaxRequests = 2
  MaxLines = 2
  MaxFrames = 1
INVARIANTS Sound PoolFollowsXenv LoadedForItsLabel ExecutorPodHasReplicaSet RunningPodGetsReady CodeIsComplete InitedPodRuns PipesAreRead LogsNeverGoBack
SYMMETRY AreAlike
CHECK_DEADLOCK FALSE
