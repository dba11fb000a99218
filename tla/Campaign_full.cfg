\* Two roles, two coding sub-runs, every kind of call.
SPECIFICATION Spec
CONSTANTS
  Roles <- TwoRoles
  Subs = {s1, s2}
  Options <- AllCalls
INVARIANTS InputsOfThisRound VerifyAfterCleanBatch
PROPERTIES ImplementsChain CampaignEnds
CHECK_DEADLOCK FALSE
