SPECIFICATION Spec
CONSTANTS
  c1 = c1
  c2 = c2
  v1 = v1
  v2 = v2
  Conn <- MCConn
  Key <- MCKey
  Value <- MCValue
  Slots = 2
  MaxTid = 5
  MaxPage = 1
SYMMETRY Symmetry
PROPERTY ConflictMeansContention
