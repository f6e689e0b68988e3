SPECIFICATION Spec
CONSTANTS
  Addr = {a1, a2}
  SubConn = {s1, s2, s3}
  LBConfig = {cfg}
  NIL = NIL
  MaxNotices = 2
SYMMETRY Symmetry
INVARIANTS
  TypeOK
  EvaluatorCounts
  SubConnsInUse
  PickerServesReady
  NoNilDereference
  PublishedIsCurrent
  StateLag
  NobodyLeftIdle
PROPERTY
  AllDownStaysDown
