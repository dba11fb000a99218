------------------------------ MODULE ExecRow -------------------------------
(***************************************************************************)
(* The life of one agent_execs row, as everything that reads the table     *)
(* takes it to be (ateam ps, resume, the concurrency guard, the budget):   *)
(* inserted once, perhaps given a process id while nobody has closed it,   *)
(* and closed at most once, with a verdict that stays.                     *)
(***************************************************************************)

VARIABLE row   \* "none", "open" (no pid), "live" (pid recorded), "ok", "failed"

RowStates == {"none", "open", "live", "ok", "failed"}
Closed == {"ok", "failed"}

Init == row = "none"

Insert == row = "none" /\ row' = "open"
RecordPid == row = "open" /\ row' = "live"
CloseOk == row \in {"open", "live"} /\ row' = "ok"
CloseFailed == row \in {"open", "live"} /\ row' = "failed"

Next == Insert \/ RecordPid \/ CloseOk \/ CloseFailed

Spec == Init /\ [][Next]_row
=============================================================================
