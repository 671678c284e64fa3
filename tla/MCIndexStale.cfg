SPECIFICATION Spec
CONSTANTS
  Conn = {c1, c2}
  Key = {k1}
  Value = {v1, v2}
  Unique <- MCUnique
  Initial <- MCInitial
  Indexed = {0}
  Slots = 2
  Timeout = 1
  MaxTid = 6
  MaxIndex = 1
SYMMETRY Symmetry
INVARIANT EveryIndexMatches
