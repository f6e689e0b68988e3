SPECIFICATION Spec
CONSTANTS
  Dial = {d1, d2}
  Server = {}
  Limiter = {}
  Context = {c1, c2}
  UserContext = {}
  NIL = NIL
CHECK_DEADLOCK FALSE
PROPERTY
  BuiltResolverResolves
