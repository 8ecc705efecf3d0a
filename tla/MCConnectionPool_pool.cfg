SPECIFICATION Spec
CONSTANTS
  Workers = {w1, w2}
  PoolSize = 1
  PoolTimeout = 1
  TransactionTimeout = 1
  AttemptTimeout = 1
  MaxAttempts = 2
  Staff = 1
SYMMETRY Threads
INVARIANTS TypeOK AnsweredInTime ConnectionsComeBack FailsOpen AnswersFitTheCause
