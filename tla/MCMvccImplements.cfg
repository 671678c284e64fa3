SPECIFICATION CleanSpec
CONSTANTS
  c1 = c1
  c2 = c2
  v1 = v1
  v2 = v2
  NoRow = NoRow
  Untouched = Untouched
  Conn <- MCConn
  Key <- MCKey
  Value <- MCValue
  Slots = 2
  MaxTid = 5
  MaxPage = 2
SYMMETRY Symmetry
PROPERTY ImplementsReadCommitted
