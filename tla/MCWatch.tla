------------------------------ MODULE MCWatch -------------------------------
(* An instance of Watch for TLC. *)
EXTENDS Watch

TwoRuns == {1, 2}
OneLong == <<<<"tool", "result">>, <<"result">>>>
Observers == {[how |-> "ids", final |-> TRUE], [how |-> "batch", final |-> TRUE],
              [how |-> "running", final |-> FALSE], [how |-> "top", final |-> FALSE]}
=============================================================================
