---------------------------- MODULE MCAgentExec -----------------------------
(***************************************************************************)
(* Instances of AgentExec and of Watch for TLC: a run, with everything it  *)
(* does inside; or two runs as the commands see them that watch them.  The *)
(* part that is not looked at rests: the watching process has no run of    *)
(* its own, the run has no observer.                                       *)
(***************************************************************************)
EXTENDS AgentExec, Watch

VARIABLE part   \* "run" or "watch"

AnyLine == {"text", "ok", "failed", "huge"}
BothSignals == {"interrupt", "terminate"}
BothHosts == BOOLEAN
AnyPipes == {{"out", "err"}, {"out"}, {"err"}}

TwoRuns == {1, 2}
OneLong == <<<<"tool", "result">>, <<"result">>>>
Observers == {[how |-> "ids", final |-> TRUE], [how |-> "batch", final |-> TRUE],
              [how |-> "running", final |-> FALSE], [how |-> "top", final |-> FALSE]}

NoRun == /\ rpc = "done" /\ source = "ateam_internal" /\ row = "none"
         /\ hosted = TRUE /\ held = {} /\ signal = "none"
         /\ apc = "off" /\ proc = "unborn" /\ exit = "0" /\ line = "text" /\ printed = 0
         /\ pipe = <<>> /\ chan = <<>> /\ ctx = "live" /\ res = NoResult
         /\ artifact = FALSE /\ promoted = FALSE /\ said = "none"

NoObserver == /\ rows = <<"none", "none">> /\ procs = rows /\ size = <<0, 0>>
              /\ call = [how |-> "ids", final |-> FALSE] /\ pc = "cut" /\ quiet = FALSE
              /\ src = [i \in Runs |-> NoSource] /\ top = [i \in Runs |-> NoTopRow]

PartInit == \/ part = "run" /\ Init /\ NoObserver
            \/ part = "watch" /\ WatchInit /\ NoRun

PartNext == \/ part = "run" /\ Next /\ UNCHANGED <<part, watchVars>>
            \/ part = "watch" /\ WatchNext /\ UNCHANGED <<part, vars>>

RunSpec == PartInit /\ [][PartNext]_<<part, vars, watchVars>> /\ Fairness /\ WatchFairness
=============================================================================
