SPECIFICATION Spec
CONSTANTS
  Readers = {r1, r2}
  Writers = {w1}
  Filters = {none, blank, all, bugis}
  NoFilter = none
  Blank = blank
  AllText = all
  Deletable = FALSE
  CacheEnabled = TRUE
  Ttl = 2
  MaxAttempts = 2
  MaxCommits = 1
  Faults = {}
INVARIANT HitsFitTheFilter
