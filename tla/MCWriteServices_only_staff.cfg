SPECIFICATION Spec
CONSTANTS
  Workers = {w1, w2}
  Employees = {e1, e2}
  Cafes = {c1, c2}
  Values = {m1, m2}
  Submitted <- MCSubmitted
  Names = {n1}
  Ops = {"create_employee", "update_employee", "delete_employee", "create_cafe", "update_cafe", "delete_cafe"}
  NoRow = NoRow
  NoCafe = NoCafe
  NoRequest = NoRequest
  InitialEmployees = {e1}
  InitialCafes = {c1, c2}
  InitialHistory = {}
  MaxRequests = 2
  DatabaseMayFail = FALSE
CHECK_DEADLOCK FALSE
PROPERTY DeleteTakesOnlyStaff
