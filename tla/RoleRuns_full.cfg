\* Two commands on two roles, the second maybe a rerun of the first's round;
\* pids that come back, stopped dispatches, a guard that does not ask, and one
\* kill, panic or row that nobody closes.
SPECIFICATION Spec
CONSTANTS
  r1 = r1
  r2 = r2
  p1 = p1
  p2 = p2
  Cmds <- TwoCmds
  Roles <- TwoRoles
  Lists <- BothThenOne
  Pids <- TwoPids
  Reruns <- OnlyTwo
  Unguarded <- OnlyTwo
  MayStop = TRUE
  MayReuse = TRUE
  MaxParallel = 1
  MaxFaults = 1
  LastTick = 2
SYMMETRY AnyPid
CHECK_DEADLOCK FALSE
INVARIANT DoubledOnlyInWindow
PROPERTY RerunMatchesVerdicts
