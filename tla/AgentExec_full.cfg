\* Two lines of any kind, pipe and channel that hold one, every way to end, descendants;
\* two runs under `tail` or `top`.
SPECIFICATION RunSpec
CONSTANTS
  HasTimeout = TRUE
  NeedsArtifact = TRUE
  Lines <- AnyLine
  MaxLines = 2
  PipeCap = 1
  ChanCap = 1
  ParentCancels <- BothSignals
  Hosts <- BothHosts
  Holdings <- AnyPipes
  Crashes = TRUE
  Runs <- TwoRuns
  Streams <- OneLong
  Calls <- Observers
INVARIANTS SuccessIsClean NothingLeftBehind BlamedRightly ShownWhatWasWritten
PROPERTIES ImplementsExecRow Ends WatchersSettle
