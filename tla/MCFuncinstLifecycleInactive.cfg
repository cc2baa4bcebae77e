SPECIFICATION Spec
CONSTANTS
  f1 = f1
  None = None
  Insts = {f1}
  Timeout = 1
  IdleDuration = 1
  MinReplicas = 0
  MaxReplicas = 1
  MaxRetries = 1
  MaxEvents = 1
PROPERTY InactiveIsTerminal
CHECK_DEADLOCK FALSE
