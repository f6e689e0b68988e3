SPECIFICATION Spec
CONSTANTS
  Addr = {a1, a2}
  SubConn = {s1, s2}
  LBConfig = {}
  NIL = NIL
  MaxNotices = 1
INVARIANT
  ErrPickerHasCause
