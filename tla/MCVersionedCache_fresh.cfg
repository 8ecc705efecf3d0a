SPECIFICATION Spec
CONSTANTS
  Readers = {r1, r2}
  Writers = {w1, w2}
  Filters = {none}
  NoFilter = none
  Blank = blank
  AllText = all
  Deletable = TRUE
  CacheEnabled = TRUE
  Ttl = 1
  MaxAttempts = 2
  MaxCommits = 2
  Faults = {"get", "set", "lost_reply", "database", "crash"}
SYMMETRY Symmetry
INVARIANTS TypeOK CacheInv
PROPERTY ImplementsRegularReads
