SPECIFICATION ChannelSpec
CONSTANTS
  Addr = {a1, a2}
  SubConn = {s1, s2}
  LBConfig = {}
  NIL = NIL
  MaxNotices = 1
  MaxVersion = 2
  Notifier = {n1}
SYMMETRY Symmetry
ACTION_CONSTRAINT RpcBeginsLate
\* A closed channel comes to its end.
CHECK_DEADLOCK FALSE
INVARIANT
  QuietMeansRouted
