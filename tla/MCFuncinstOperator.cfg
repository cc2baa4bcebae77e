SPECIFICATION Spec
CONSTANTS
  i1 = i1
  i2 = i2
  r1 = r1
  auto = auto
  k1 = k1
  None = None
  Gone = Gone
  Insts = {i1, i2}
  Triggers = {auto}
  Generated = auto
  EndpointOf <- MCEndpointOf
  AliasOf <- MCAliasOf
  Requests = {r1}
  Provisioned = TRUE
  MaxEvents = 1
  MaxCalls = 2
  MaxBacklog = 2
  Keys = {k1}
  Config = "cm"
INVARIANTS Sound ProvisionedIsReplaced FunctionsAreRouted SyncedCredsAreExact ConfigIsVerified
CHECK_DEADLOCK FALSE
