\* Four steps, two slots, a cap one run reaches, own skips and panics; or the
\* same steps in a dry run.
SPECIFICATION PoolSpec
CONSTANTS
  N = 4
  Workers = 2
  DryRun = FALSE
  Capped = TRUE
  Cap = 2
  Costs <- FreeOrTwo
  Yields <- NoErrors
INVARIANTS WorkerBound SpendBounded
PROPERTIES ImplementsFanOut AllSettle
