SPECIFICATION Spec
CONSTANTS
  m1 = m1
  m2 = m2
  f1 = f1
  f2 = f2
  bugis = bugis
  orchard = orchard
  day1 = day1
  day2 = day2
  CafeIds = {c1, c2, c3, c4}
  EmployeeIds = {1, 2, 3, 4}
  JobIds = {1, 2, 3, 4, 5, 6}
  Names = {bugis, orchard, mine}
  Emails = {m1, m2, m3}
  Phones = {f1, f2, f3}
  Dates = {day1, day2, today}
  NoDate = NoDate
  Today = today
  CafeSeeds = {bugis, orchard}
  EmployeeSeeds <- MCEmployeeSeeds
  AssignmentSeeds <- MCAssignmentSeeds
  MaxWrites = 2
SYMMETRY Symmetry
INVARIANTS TypeOK SeedsArePresent
PROPERTIES SeedingAgainChangesNothing SeedingKeepsUserRows StartsFailForAReason
