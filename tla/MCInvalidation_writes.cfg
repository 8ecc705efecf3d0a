SPECIFICATION SeededCacheSpec
CONSTANTS
  Workers = {w1, w2}
  Employees = {e1, e2}
  Cafes = {c1, c2}
  Values = {1, 2}
  Submitted <- MCSubmitted
  Names = {n1, n2}
  Ops = {"create_employee", "update_employee", "delete_employee", "create_cafe", "update_cafe", "delete_cafe"}
  NoRow = NoRow
  NoCafe = NoCafe
  NoRequest = NoRequest
  InitialEmployees = {e1}
  InitialCafes = {c1}
  InitialHistory = {}
  MaxRequests = 3
  DatabaseMayFail = FALSE
SYMMETRY Symmetry
CHECK_DEADLOCK FALSE
INVARIANTS TypeOK CacheTypeOK Integrity OnlyRacesMissBumps
PROPERTIES HistoryIsAppendOnly SameCafeKeepsRow PutsAreWhole RaceAnswersNeedARace
