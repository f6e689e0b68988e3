SPECIFICATION Spec
CONSTANTS
  Addr = {a1, a2}
  NIL = NIL
SYMMETRY Symmetry
\* The RPC ends.
CHECK_DEADLOCK FALSE
INVARIANTS
  TypeOK
  CountedOnce
  AnswerIsTrue
  CallerIsCounted
