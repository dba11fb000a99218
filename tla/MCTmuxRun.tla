----------------------------- MODULE MCTmuxRun ------------------------------
(* Instances of TmuxRun for TLC. *)
EXTENDS TmuxRun
=============================================================================
