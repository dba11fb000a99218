\* A dialog that Enter does not close keeps the start timeout from being read.
SPECIFICATION FairSpec
CONSTANTS
  MaxDialogs = 1
  MaxRounds = 0
  MaxSteps = 0
  Gap = 1
  Work = 1
  Lag = 2
  Window = 2
  EnterDrops = FALSE
  KillFails = FALSE
PROPERTY Ends
