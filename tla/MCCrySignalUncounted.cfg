SPECIFICATION Spec
CONSTANTS
  Requests = {r1, r2}
  Endpoints = {e1}
  Crier = crier
  None = none
INVARIANT ClosedUncriedHasNoWaiter
CHECK_DEADLOCK FALSE
