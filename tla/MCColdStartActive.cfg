SPECIFICATION Spec
CONSTANTS
  Requests = {r1, r2}
  Endpoints = {e1}
  Crier = crier
  None = none
  MaxExits = 0
INVARIANT ActiveHasBackend
CHECK_DEADLOCK FALSE
