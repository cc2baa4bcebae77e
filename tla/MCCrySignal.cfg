SPECIFICATION FairSpec
CONSTANTS
  Requests = {r1, r2, r3}
  Endpoints = {e1}
  Crier = crier
  None = none
INVARIANTS
  TypeOK
  MappedSignalsAreOpen
  NoStrandedWaiter
  MappedSignalsHaveOwner
PROPERTIES
  OnlyLastLeaverCloses
  UnmappedSignalWakes
CHECK_DEADLOCK FALSE
