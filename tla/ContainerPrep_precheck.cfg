\* A container that is not running, and a precheck that would start it.
SPECIFICATION BoxSpec
CONSTANTS
  Tasks <- Roles
  Cases <- Configured
INVARIANT PrecheckBringsItUp
CHECK_DEADLOCK FALSE
