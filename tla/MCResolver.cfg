SPECIFICATION FairSpec
CONSTANTS
  Notifier = {n1, n2}
  MaxVersion = 4
INVARIANTS
  TypeOK
  QuietMeansCurrent
  ResolveNowIsSafe
PROPERTIES
  ImplementsView
  EventuallyCurrent
  CloseEnds
  NotifierReturns
