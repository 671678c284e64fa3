SPECIFICATION Spec
CONSTANTS
  p1 = p1
  p2 = p2
  g1 = g1
  g2 = g2
  Proc <- MCProc
  Page <- MCPage
  MaxStatement = 3
  Environments <- StopOrPower
  EntrySynced = TRUE
SYMMETRY Symmetry
INVARIANTS
  TypeOK
  ReadsAreWhole
  Recoverable
PROPERTIES
  ImplementsDurableStore
  StatementsSeeOneFile
