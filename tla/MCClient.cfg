SPECIFICATION FairClientSpec
CONSTANTS
  Addr = {a1, a2}
  SubConn = {s1, s2}
  LBConfig = {}
  NIL = NIL
  MaxNotices = 1
  MaxVersion = 2
INVARIANTS
  RoutedAsShown
  WaitsForNews
PROPERTIES
  SentToInstanceInUse
  EventuallyRouted
  ShutDownForgotten
  RpcSent
