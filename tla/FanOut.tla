------------------------------- MODULE FanOut -------------------------------
(***************************************************************************)
(* What a caller of ateam's worker pools may rely on, with no pool in      *)
(* sight: the steps are taken in declaration order, each one is either     *)
(* started or refused, once a step is refused every later one is refused   *)
(* too, a started step settles exactly once, and the call returns only     *)
(* when every step has settled.  FlowParallel and RunPool implement it.    *)
(***************************************************************************)
EXTENDS Naturals

CONSTANT N                      \* how many steps the caller passed

VARIABLES
  fate,                         \* fate[s]: what became of step s
  returned                      \* the call has handed its results back

fanVars == <<fate, returned>>

Steps == 1..N

Init == /\ fate = [s \in Steps |-> "pending"]
        /\ returned = FALSE

\* A step is only reached once all the steps before it were decided.
InOrder(s) == /\ fate[s] = "pending"
              /\ \A t \in Steps : t < s => fate[t] # "pending"

Start(s) == /\ ~returned
            /\ InOrder(s)
            /\ \A t \in Steps : fate[t] # "refused"
            /\ fate' = [fate EXCEPT ![s] = "started"]
            /\ UNCHANGED returned

Refuse(s) == /\ ~returned
             /\ InOrder(s)
             /\ fate' = [fate EXCEPT ![s] = "refused"]
             /\ UNCHANGED returned

Settle(s) == /\ ~returned
             /\ fate[s] = "started"
             /\ fate' = [fate EXCEPT ![s] = "settled"]
             /\ UNCHANGED returned

Return == /\ ~returned
          /\ \A s \in Steps : fate[s] \in {"settled", "refused"}
          /\ returned' = TRUE
          /\ UNCHANGED fate

Next == Return \/ \E s \in Steps : Start(s) \/ Refuse(s) \/ Settle(s)

Spec == Init /\ [][Next]_fanVars
=============================================================================
