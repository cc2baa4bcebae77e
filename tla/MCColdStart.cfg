SPECIFICATION FairSpec
CONSTANTS
  Requests = {r1, r2}
  Endpoints = {e1}
  Crier = crier
  None = none
  MaxExits = 1
INVARIANTS
  TypeOK
  GenuineWakeIsHeard
  ReadyPodWakes
PROPERTIES
  ColdRequestWakes
CHECK_DEADLOCK FALSE
