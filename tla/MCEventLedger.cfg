SPECIFICATION Spec
CONSTANTS
  None = None
  c1 = c1
  c2 = c2
  u1 = u1
  u2 = u2
  p1 = p1
  p2 = p2
  fair = fair
  Requests <- MCRequests
  Kind <- MCKind
  Title <- MCTitle
  Target <- MCTarget
  MaxFailures = 1
INVARIANTS TypeOK RowIsItsHistory HistoryIsAChain
PROPERTY ImplementsBook
