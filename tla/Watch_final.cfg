\* tail --final-message sees the result before the row says how it ended.
SPECIFICATION WatchSpec
CONSTANTS
  Runs <- TwoRuns
  Streams <- OneLong
  Calls <- Observers
CHECK_DEADLOCK FALSE
INVARIANT ExitTellsErrors
