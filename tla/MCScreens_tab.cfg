SPECIFICATION FairSpec
CONSTANTS
  Values = {u, v}
  Stored = u
  Gone = Gone
  NoForm = NoForm
  Empty = Empty
  Pages = {"all", "edit", "create", "away"}
  Unreliable = {"detail"}
  MaxMoves = 2
  MaxSaves = 1
  MaxCommits = 2
  MaxRetries = 1
INVARIANTS TypeOK OnlyRunningFetchesHideSaves UnsavedEditsAreAskedFor SavedFormsAreNotHeldBack
PROPERTY SavesEnd
CHECK_DEADLOCK FALSE
