SPECIFICATION Spec
CONSTANTS
  Dial = {d1, d2}
  Server = {s1}
  Limiter = {l1}
  Context = {c1, c2, u1}
  UserContext = {u1}
  NIL = NIL
SYMMETRY Symmetry
\* All endpoints come to their end.
CHECK_DEADLOCK FALSE
INVARIANTS
  TypeOK
  GlobalIsAlive
  SharedIsAlive
  DefaultsComplete
  NoLeak
PROPERTY
  ImplementsSharedContext
