---------------------------- MODULE MCRoleRuns -----------------------------
(* Instances of RoleRuns for TLC. *)
EXTENDS RoleRuns, TLC

CONSTANTS r1, r2, p1, p2

TwoRoles == {r1, r2}
TwoCmds == {1, 2}
TwoPids == {p1, p2}
AnyPid == Permutations(Pids)
BothThenOne == [c \in Cmds |-> IF c = 1 THEN {Roles} ELSE {{r1}}]
OnlyTwo == {2}
=============================================================================
