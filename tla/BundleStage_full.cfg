\* Two bundles with actions, panics, a stage that Verify may refuse and a
\* dispatch that may stop, every mode.
SPECIFICATION FairSpec
CONSTANTS
  N = 2
  Label <- Distinct
  Modes <- AnyMode
  PreFlows <- AnyFlow
  PostFlows <- AnyFlow
  MayRefuse = TRUE
  MayPanic = TRUE
  Unresolvable <- Either
INVARIANTS AlwaysPaired TalliesAgree GoodIsRecorded NoOrphanRow ExitTellsAll
PROPERTIES CommandEnds
