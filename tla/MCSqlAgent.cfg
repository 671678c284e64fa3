CONSTANTS
  Modules = {"A", "B"}
  Default = "DEFAULT"
  Names = {"N"}
  Cursors <- MCCursors
  Statements <- MCStatements
  Home <- MCHome
  CursorName <- MCCursorName
  Holdable <- MCHoldable
  StatementOf <- MCStatementOf
  Query <- MCQuery
  Queries = {"q"}
  Changes = {"insert"}
  None = "none"
  Orphan = "orphan"
SPECIFICATION Spec
INVARIANTS
  TypeOK
  ActiveIsCurrent
  AtRest
  NoOrphan
  ClosedInTurn
PROPERTIES
  PublishedOnRequest
  ReportedEnds
  CursorsStayOpen
  OpenCursorsKeepTheirStatement
  ConnectionsAreSeparate
