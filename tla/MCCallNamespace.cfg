SPECIFICATION Spec
CONSTANTS
  Addr = {a1}
  NIL = NIL
\* The RPC ends.
CHECK_DEADLOCK FALSE
INVARIANT
  NamespaceDefaulted
