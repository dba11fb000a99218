\* A prompt that Verify cannot resolve.
SPECIFICATION Spec
CONSTANTS
  N = 1
  Label <- Distinct
  Modes <- OnTerminal
  PreFlows <- NoActions
  PostFlows <- NoActions
  MayRefuse = FALSE
  MayPanic = FALSE
  Unresolvable <- Either
INVARIANT UnstartedExitsNonZero
