SPECIFICATION Spec
CONSTANTS
  Notifier = {n1}
  MaxVersion = 1
INVARIANT
  NeverPanics
