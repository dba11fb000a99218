--------------------------- MODULE MCFlowParallel ---------------------------
(***************************************************************************)
(* Instances of FlowParallel for TLC: a concurrent stage, with panics and  *)
(* a budget, or a dry run of the same steps, which takes the sequential    *)
(* path and leaves it with a panic.                                        *)
(***************************************************************************)
EXTENDS FlowParallel

VARIABLE dry   \* which of the two

FreeOrTwo == {0, 2}
NoErrors == {"continue", "skip"}     \* errors come from panics
AllFlows == NoErrors \cup {"error"}

Dry == INSTANCE FlowParallel WITH DryRun <- TRUE, Workers <- 0, Yields <- AllFlows

PoolInit == Init /\ dry \in BOOLEAN

PoolNext == \/ ~dry /\ Next /\ UNCHANGED dry
            \/ dry /\ Dry!Next /\ UNCHANGED dry

PoolSpec ==
  /\ PoolInit /\ [][PoolNext]_<<vars, dry>>
  /\ WF_vars(IF dry THEN Dry!Dispatcher ELSE Dispatcher)
  /\ \A s \in Steps : WF_vars(IF dry THEN Dry!WorkerStep(s) ELSE WorkerStep(s))
=============================================================================
