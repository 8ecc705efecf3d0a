SPECIFICATION MovedLockSpec
CONSTANTS
  Workers = {w1, w2}
  Employees = {e1, e2, e3}
  Cafes = {c1, c2}
  Values = {1, 2, 3}
  Submitted <- MCSubmitted
  Names = {n1}
  Ops = {"create_employee", "update_employee", "delete_employee", "delete_cafe"}
  NoRow = NoRow
  NoCafe = NoCafe
  NoRequest = NoRequest
  InitialEmployees = {e1, e2}
  InitialCafes = {c1, c2}
  InitialHistory = {c1, c2}
  KeyOrders = {"oldest_first"}
  MaxRequests = 2
  DatabaseMayFail = TRUE
SYMMETRY Symmetry
CHECK_DEADLOCK FALSE
INVARIANTS MutualWaitsAreKnown
PROPERTIES FlushesAreAtomic
