SPECIFICATION Spec
CONSTANTS
  Conn = {c1, c2}
  Key = {k1, k2}
  Value = {v1, v2}
  Unique <- MCUnique
  Initial <- MCInitial
  Indexed = {0, 1}
  Slots = 2
  Timeout = 0
  MaxTid = 5
  MaxIndex = 1
SYMMETRY Symmetry
VIEW View
INVARIANTS
  TypeOK
  IndexIsExact
  CacheIsFresh
  UniqueHolds
