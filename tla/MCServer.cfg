SPECIFICATION FairSpec
CONSTANTS
  Service = {s1, s2}
  User = {u1, u2}
  MaxRPCs = 1
\* A stopped server does nothing more.
CHECK_DEADLOCK FALSE
INVARIANTS
  TypeOK
  ClosedMeansDeregistered
  FailedMeansDeregistered
PROPERTIES
  ServingMeansRegistered
  ImplementsRegistration
  StopReturns
  ServeReturns
