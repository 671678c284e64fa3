SPECIFICATION FairSpec
CONSTANTS
  Conn = {c1, c2}
  Key = {k1}
  Value = {v1}
  Unique <- MCUnique
  Initial <- MCInitial
  Indexed = {0}
  Slots = 2
  Timeout = 2
  MaxTid = 5
  MaxIndex = 2
INVARIANT OneIndex
PROPERTY CreateIndexEnds
