-------------------------------- MODULE Chain --------------------------------
(***************************************************************************)
(* What a user of a chain of phases relies on: phases begin in order, one  *)
(* at a time, each only after all the ones before it ended well; a phase   *)
(* may find that there is nothing left to do; the chain ends well exactly  *)
(* when no phase went wrong.  Campaign implements it.                      *)
(***************************************************************************)
EXTENDS Naturals

CONSTANT K                      \* how many phases there are

VARIABLES
  outcome,                      \* outcome[i]: what became of phase i
  over                          \* what the chain returned

chainVars == <<outcome, over>>

Phases == 1..K

Init == /\ outcome = [i \in Phases |-> "pending"]
        /\ over = "no"

\* A phase begins, or is refused on its first checks.
Begin(i) == /\ over = "no"
            /\ outcome[i] = "pending"
            /\ \A j \in Phases : j < i => outcome[j] = "good"
            /\ \E o \in {"running", "bad"} : outcome' = [outcome EXCEPT ![i] = o]
            /\ UNCHANGED over

End(i) == /\ outcome[i] = "running"
          /\ \E o \in {"good", "bad", "enough"} : outcome' = [outcome EXCEPT ![i] = o]
          /\ UNCHANGED over

Succeed == /\ over = "no"
           /\ \/ \A i \in Phases : outcome[i] = "good"
              \/ \E i \in Phases : outcome[i] = "enough"
           /\ over' = "ok"
           /\ UNCHANGED outcome

Fail == /\ over = "no"
        /\ \E i \in Phases : outcome[i] = "bad"
        /\ over' = "failed"
        /\ UNCHANGED outcome

Next == Succeed \/ Fail \/ \E i \in Phases : Begin(i) \/ End(i)

Spec == Init /\ [][Next]_chainVars
=============================================================================
