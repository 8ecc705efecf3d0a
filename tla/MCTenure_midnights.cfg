SPECIFICATION Spec
CONSTANTS
  Workers = {w1, w2}
  Readers = {r1}
  Employees = {e1}
  Cafes = {c1, c2}
  NoCafe = NoCafe
  Null = Null
  DayLength = 4
  Ttl = 2
  ReadTime = 1
  MaxTime = 12
  MaxMoves = 3
SYMMETRY Symmetry
INVARIANTS TypeOK ChecksFailOnlyAfterStepBack TenuresAreDisjoint ListIsRecent
CHECK_DEADLOCK FALSE
