SPECIFICATION Spec
CONSTANTS
  Service = {s1}
  User = {u1}
  MaxRPCs = 1
CHECK_DEADLOCK FALSE
INVARIANT
  StopMeansDeregistered
