------------------------ MODULE FlowParallel_proofs -------------------------
(***************************************************************************)
(* Proofs about FlowParallel, for every number of steps and workers, every *)
(* cap and every set of costs.  IInv is inductive; the safety properties   *)
(* follow from it.                                                         *)
(***************************************************************************)
EXTENDS FlowParallel, FiniteSetTheorems, TLAPS

ResultType == [step : Steps, way : Ways, flow : Flows]

\* Sets of steps are finite, so the counters count something.
LEMMA StepSetsFinite ==
  ASSUME NEW S \in SUBSET Steps
  PROVE  IsFiniteSet(S) /\ Cardinality(S) \in Nat
<1>1. IsFiniteSet(Steps)
  BY ParallelAssumption, FS_Interval DEF Steps
<1>2. IsFiniteSet(S)
  BY <1>1, FS_Subset
<1> QED
  BY <1>2, FS_CardinalityType

\* Appending an entry for s changes the account of s and of no other step.
LEMMA AppendAccounts ==
  ASSUME results \in Seq(ResultType),
         NEW s \in Steps, NEW w \in Ways, NEW f \in Flows,
         results' = Append(results, Entry(s, w, f))
  PROVE  /\ results' \in Seq(ResultType)
         /\ \A t \in Steps : Accounted(t)' <=> Accounted(t) \/ t = s
         /\ \A t \in Steps :
              Skipped(t)' <=> Skipped(t) \/ (t = s /\ w = "skipped")
         /\ AccountedOnce /\ ~Accounted(s) => AccountedOnce'
<1> DEFINE n == Len(results)
           e == Entry(s, w, f)
<1>1. e \in ResultType /\ e.step = s /\ e.way = w
  BY DEF Entry, ResultType
<1>2. n \in Nat /\ DOMAIN results = 1..n
  OBVIOUS
<1>3. /\ results' \in Seq(ResultType)
      /\ DOMAIN results' = 1..(n + 1)
      /\ \A i \in 1..n : results'[i] = results[i]
      /\ results'[n + 1] = e
  BY <1>1, <1>2
<1> HIDE DEF n, e
<1>4. ASSUME NEW t \in Steps PROVE Accounted(t)' <=> Accounted(t) \/ t = s
  BY <1>1, <1>2, <1>3 DEF Accounted
<1>5. ASSUME NEW t \in Steps
      PROVE  Skipped(t)' <=> Skipped(t) \/ (t = s /\ w = "skipped")
  BY <1>1, <1>2, <1>3 DEF Skipped
<1>6. ASSUME AccountedOnce, ~Accounted(s) PROVE AccountedOnce'
  <2> SUFFICES ASSUME NEW i \in 1..(n + 1), NEW j \in 1..(n + 1),
                      results'[i].step = results'[j].step
               PROVE  i = j
    BY <1>3 DEF AccountedOnce
  <2>1. \A k \in 1..n : results[k].step # s
    BY <1>6, <1>2 DEF Accounted
  <2>2. CASE i \in 1..n /\ j \in 1..n
    BY <2>2, <1>2, <1>3, <1>6 DEF AccountedOnce
  <2>3. CASE i = n + 1 \/ j = n + 1
    BY <2>1, <2>3, <1>1, <1>2, <1>3
  <2> QED
    BY <2>2, <2>3, <1>2
<1> QED
  BY <1>3, <1>4, <1>5, <1>6

\* A step that leaves the results alone leaves the accounts alone.
LEMMA SameAccounts ==
  ASSUME UNCHANGED results
  PROVE  /\ \A t \in Steps : (Accounted(t)' <=> Accounted(t))
                             /\ (Skipped(t)' <=> Skipped(t))
         /\ AccountedOnce' <=> AccountedOnce
BY DEF Accounted, Skipped, AccountedOnce

\* How the counted sets follow one goroutine's move from here to there.
Holds(pc) == pc \in {"running", "finalized", "panicked", "emitted"}
Lives(pc) == pc \notin {"idle", "exited"}

LEMMA WorkerMoves ==
  ASSUME worker \in [Steps -> WorkerPCs], NEW s \in Steps, NEW pc \in WorkerPCs,
         worker' = [worker EXCEPT ![s] = pc]
  PROVE  /\ worker' \in [Steps -> WorkerPCs]
         /\ Cardinality(Holding') =
              Cardinality(Holding) + (IF Holds(pc) THEN 1 ELSE 0)
                                   - (IF Holds(worker[s]) THEN 1 ELSE 0)
         /\ Cardinality(Live') =
              Cardinality(Live) + (IF Lives(pc) THEN 1 ELSE 0)
                                - (IF Lives(worker[s]) THEN 1 ELSE 0)
<1>1. /\ IsFiniteSet(Holding) /\ Cardinality(Holding) \in Nat
      /\ IsFiniteSet(Live) /\ Cardinality(Live) \in Nat
  BY StepSetsFinite DEF Holding, Live
<1>2. /\ s \in Holding <=> Holds(worker[s])
      /\ s \in Live <=> Lives(worker[s])
  BY DEF Holding, Live, Holds, Lives
<1>3. Holding' = IF Holds(pc) THEN Holding \cup {s} ELSE Holding \ {s}
  BY DEF Holding, Holds
<1>4. Live' = IF Lives(pc) THEN Live \cup {s} ELSE Live \ {s}
  BY DEF Live, Lives
<1>5. /\ Cardinality(Holding \cup {s}) =
           IF s \in Holding THEN Cardinality(Holding) ELSE Cardinality(Holding) + 1
      /\ Cardinality(Holding \ {s}) =
           IF s \in Holding THEN Cardinality(Holding) - 1 ELSE Cardinality(Holding)
  BY <1>1, FS_AddElement, FS_RemoveElement
<1>6. /\ Cardinality(Live \cup {s}) =
           IF s \in Live THEN Cardinality(Live) ELSE Cardinality(Live) + 1
      /\ Cardinality(Live \ {s}) =
           IF s \in Live THEN Cardinality(Live) - 1 ELSE Cardinality(Live)
  BY <1>1, FS_AddElement, FS_RemoveElement
<1>7. Cardinality(Holding') =
        Cardinality(Holding) + (IF Holds(pc) THEN 1 ELSE 0)
                             - (IF Holds(worker[s]) THEN 1 ELSE 0)
  <2>1. CASE Holds(pc)
    BY <2>1, <1>1, <1>2, <1>3, <1>5
  <2>2. CASE ~Holds(pc)
    BY <2>2, <1>1, <1>2, <1>3, <1>5
  <2> QED
    BY <2>1, <2>2
<1>8. Cardinality(Live') =
        Cardinality(Live) + (IF Lives(pc) THEN 1 ELSE 0)
                          - (IF Lives(worker[s]) THEN 1 ELSE 0)
  <2>1. CASE Lives(pc)
    BY <2>1, <1>1, <1>2, <1>4, <1>6
  <2>2. CASE ~Lives(pc)
    BY <2>2, <1>1, <1>2, <1>4, <1>6
  <2> QED
    BY <2>1, <2>2
<1> QED
  BY <1>7, <1>8

LEMMA InitIInv == Init => IInv
<1> SUFFICES ASSUME Init PROVE IInv
  OBVIOUS
<1>1. Holding = {} /\ Live = {}
  BY DEF Init, Holding, Live
<1>2. TypeOK
  BY ParallelAssumption
     DEF Init, TypeOK, DispatcherPCs, WorkerPCs, NoOutcome, Steps
<1>3. CountersInv
  BY <1>1, FS_EmptySet, ParallelAssumption DEF Init, CountersInv, SlotCount, Sequential
<1>4. LoopInv
  BY DEF Init, LoopInv, Steps
<1>5. ResultsInv
  BY DEF Init, ResultsInv, AccountedOnce, Accounted, Skipped
<1> QED
  BY <1>2, <1>3, <1>4, <1>5 DEF IInv

\* A step that moves no goroutine leaves the counted sets alone.
LEMMA SameWorkers ==
  ASSUME UNCHANGED worker
  PROVE  Holding' = Holding /\ Live' = Live
BY DEF Holding, Live

LEMMA CountsAreNat ==
  /\ Cardinality(Holding) \in Nat
  /\ Cardinality(Live) \in Nat
  /\ Cardinality(Live) = 0 => Live = {}
<1>1. IsFiniteSet(Live) /\ Cardinality(Live) \in Nat /\ Cardinality(Holding) \in Nat
  BY StepSetsFinite DEF Holding, Live
<1> QED
  BY <1>1, FS_EmptySet

LEMMA StageStartIInv == IInv /\ StageStart => IInv'
<1> SUFFICES ASSUME IInv, StageStart PROVE IInv'
  OBVIOUS
<1> USE SameWorkers, SameAccounts DEF IInv, StageStart
<1>1. TypeOK'
  BY DEF TypeOK, DispatcherPCs
<1>2. CountersInv'
  BY DEF CountersInv
<1>3. LoopInv'
  BY DEF LoopInv
<1>4. ResultsInv'
  BY DEF ResultsInv
<1> QED
  BY <1>1, <1>2, <1>3, <1>4

LEMMA LoopEndsIInv == IInv /\ LoopEnds => IInv'
<1> SUFFICES ASSUME IInv, LoopEnds PROVE IInv'
  OBVIOUS
<1> USE SameWorkers, SameAccounts, ParallelAssumption DEF IInv, LoopEnds
<1>1. TypeOK'
  BY DEF TypeOK, DispatcherPCs
<1>2. CountersInv'
  BY DEF CountersInv
<1>3. LoopInv'
  BY DEF LoopInv, TypeOK, Steps
<1>4. ResultsInv'
  BY DEF ResultsInv, LoopInv
<1> QED
  BY <1>1, <1>2, <1>3, <1>4

LEMMA StopDispatchIInv == IInv /\ StopDispatch => IInv'
<1> SUFFICES ASSUME IInv, StopDispatch PROVE IInv'
  OBVIOUS
<1> USE SameWorkers, SameAccounts DEF IInv, StopDispatch
<1>1. TypeOK'
  BY DEF TypeOK, DispatcherPCs
<1>2. CountersInv'
  BY DEF CountersInv
<1>3. LoopInv'
  BY DEF LoopInv
<1>4. ResultsInv'
  BY DEF ResultsInv
<1> QED
  BY <1>1, <1>2, <1>3, <1>4

LEMMA AdmitIInv == IInv /\ Admit => IInv'
<1> SUFFICES ASSUME IInv, Admit PROVE IInv'
  OBVIOUS
<1> USE SameAccounts, ParallelAssumption DEF IInv, Admit
<1>0. next \in Steps /\ worker \in [Steps -> WorkerPCs] /\ worker[next] = "idle"
  BY DEF TypeOK, Steps, LoopInv
<1>1. TypeOK'
  BY <1>0 DEF TypeOK, DispatcherPCs, WorkerPCs
<1>2. CountersInv'
  <2>1. CASE Sequential
    BY <2>1 DEF CountersInv, Sequential
  <2>2. CASE ~Sequential
    BY <2>2, SameWorkers, CountsAreNat DEF CountersInv, Sequential, SlotCount
  <2> QED
    BY <2>1, <2>2
<1>3. LoopInv'
  <2>1. CASE Sequential
    <3>1. \A t \in Steps : worker'[t] = IF t = next THEN "running" ELSE worker[t]
      BY <2>1, <1>0
    <3>2. /\ dpc = "check" /\ dpc' = "inline" /\ next' = next /\ next \in Nat
          /\ Sequential' /\ \A t \in Steps : (Skipped(t)' <=> Skipped(t)) /\ t \in Nat
      BY <2>1 DEF TypeOK, Steps, Sequential
    <3> QED
      BY ONLY <2>1, <1>0, <3>1, <3>2, LoopInv, next <= N DEF LoopInv
  <2>2. CASE ~Sequential
    BY <2>2, <1>0, SameWorkers DEF LoopInv, Sequential
  <2> QED
    BY <2>1, <2>2
<1>4. ResultsInv'
  BY <1>0 DEF ResultsInv, LoopInv
<1> QED
  BY <1>1, <1>2, <1>3, <1>4

LEMMA RefuseIInv == IInv /\ Refuse => IInv'
<1> SUFFICES ASSUME IInv, Refuse PROVE IInv'
  OBVIOUS
<1> USE ParallelAssumption, SameWorkers DEF IInv, Refuse
<1>1. CASE next <= N
  <2>0. next \in Steps /\ worker[next] = "idle"
    BY <1>1 DEF TypeOK, Steps, LoopInv
  <2>1. /\ results' \in Seq(ResultType)
        /\ \A t \in Steps : Accounted(t)' <=> Accounted(t) \/ t = next
        /\ \A t \in Steps : Skipped(t)' <=> Skipped(t) \/ t = next
        /\ AccountedOnce /\ ~Accounted(next) => AccountedOnce'
    BY <1>1, <2>0, AppendAccounts DEF TypeOK, ResultType, Ways, Flows
  <2>2. ~Accounted(next)
    BY <2>0, <1>1 DEF ResultsInv, TypeOK
  <2>3. TypeOK'
    BY <1>1, <2>1 DEF TypeOK, ResultType
  <2>4. CountersInv'
    BY <1>1 DEF CountersInv
  <2>5. LoopInv'
    BY <1>1, <2>0, <2>1 DEF LoopInv, TypeOK, Steps
  <2>6. ResultsInv'
    <3>1. AccountedOnce'
      BY <2>1, <2>2 DEF ResultsInv
    <3>2. \A s \in Steps :
            /\ worker'[s] \in {"emitted", "released", "exited"} => Accounted(s)'
            /\ Accounted(s)' => \/ worker'[s] \in {"emitted", "released", "exited"}
                                \/ worker'[s] = "idle" /\ Skipped(s)'
            /\ Skipped(s)' => worker'[s] = "idle" /\ s < next'
                              /\ dpc' \in {"refuse", "wait", "returned"}
      BY <1>1, <2>0, <2>1 DEF ResultsInv, TypeOK, Steps
    <3>3. \A s, t \in Steps : Skipped(s)' /\ s <= t /\ t < next' => Skipped(t)'
      BY <1>1, <2>0, <2>1 DEF ResultsInv, TypeOK, Steps
    <3> QED
      BY <3>1, <3>2, <3>3 DEF ResultsInv
  <2> QED
    BY <2>3, <2>4, <2>5, <2>6
<1>2. CASE ~(next <= N)
  <2>1. TypeOK'
    BY <1>2 DEF TypeOK, DispatcherPCs
  <2>2. CountersInv'
    BY <1>2 DEF CountersInv
  <2>3. LoopInv'
    BY <1>2, SameAccounts DEF LoopInv, TypeOK, Steps
  <2>4. ResultsInv'
    BY <1>2, SameAccounts DEF ResultsInv
  <2> QED
    BY <2>1, <2>2, <2>3, <2>4
<1> QED
  BY <1>1, <1>2

LEMMA AcquireIInv == IInv /\ Acquire => IInv'
<1> SUFFICES ASSUME IInv, Acquire PROVE IInv'
  OBVIOUS
<1> USE SameAccounts, ParallelAssumption DEF IInv, Acquire
<1>0. /\ next \in Steps /\ worker \in [Steps -> WorkerPCs]
      /\ worker[next] = "idle" /\ ~Sequential
  BY DEF TypeOK, Steps, LoopInv
<1>1. TypeOK'
  BY <1>0 DEF TypeOK, DispatcherPCs, WorkerPCs, Steps
<1>2. CountersInv'
  <2>1. /\ Cardinality(Holding') = Cardinality(Holding) + 1
        /\ Cardinality(Live') = Cardinality(Live) + 1
    <3>1. "running" \in WorkerPCs /\ worker' = [worker EXCEPT ![next] = "running"]
      BY DEF WorkerPCs
    <3>2. /\ Cardinality(Holding') =
               Cardinality(Holding) + (IF Holds("running") THEN 1 ELSE 0)
                                    - (IF Holds(worker[next]) THEN 1 ELSE 0)
          /\ Cardinality(Live') =
               Cardinality(Live) + (IF Lives("running") THEN 1 ELSE 0)
                                 - (IF Lives(worker[next]) THEN 1 ELSE 0)
      BY <1>0, <3>1, WorkerMoves
    <3> QED
      BY <1>0, <3>2, CountsAreNat DEF Holds, Lives
  <2>2. SlotCount \in Nat
    BY DEF SlotCount
  <2> QED
    BY <1>0, <2>1, <2>2, CountsAreNat DEF CountersInv, Sequential, SlotCount
<1>3. LoopInv'
  BY <1>0 DEF LoopInv, Sequential, Live, TypeOK, Steps
<1>4. ResultsInv'
  BY <1>0 DEF ResultsInv, LoopInv
<1> QED
  BY <1>1, <1>2, <1>3, <1>4

\* What every step of a goroutine has in common: the dispatcher stays where it
\* is, and the goroutine was alive.
LEMMA WorkerKeepsLoop ==
  ASSUME TypeOK, LoopInv,
         NEW s \in Steps, NEW pc \in WorkerPCs \ {"idle"},
         s \in Live,
         worker' = [worker EXCEPT ![s] = pc],
         UNCHANGED <<dpc, next>>,
         \A t \in Steps : Skipped(t)' <=> Skipped(t),
         Sequential => worker[s] = "running" /\ pc = "finalized"
  PROVE  LoopInv'
<1>1. worker \in [Steps -> WorkerPCs] /\ dpc # "returned" /\ worker[s] # "idle"
  BY DEF TypeOK, LoopInv, Live
<1>2. Sequential => s = next
  BY <1>1 DEF LoopInv, Live
<1>3. \A t \in Steps : worker'[t] = IF t = s THEN pc ELSE worker[t]
  BY <1>1
<1> QED
  BY <1>1, <1>2, <1>3, ParallelAssumption DEF LoopInv, Sequential, TypeOK, Steps

\* A move that settles nothing and appends nothing keeps the accounts.
LEMMA WorkerKeepsResults ==
  ASSUME TypeOK, ResultsInv,
         NEW s \in Steps, NEW pc \in WorkerPCs \ {"idle"},
         s \in Live,
         worker' = [worker EXCEPT ![s] = pc],
         UNCHANGED <<dpc, next, results>>,
         pc \in {"emitted", "released", "exited"}
           <=> worker[s] \in {"emitted", "released", "exited"}
  PROVE  ResultsInv'
<1>1. worker \in [Steps -> WorkerPCs] /\ worker[s] # "idle"
  BY DEF TypeOK, Live
<1>2. \A t \in Steps : worker'[t] = IF t = s THEN pc ELSE worker[t]
  BY <1>1
<1> QED
  BY <1>1, <1>2, SameAccounts DEF ResultsInv

\* A move that appends the step's one result.
LEMMA WorkerSettles ==
  ASSUME TypeOK, ResultsInv,
         NEW s \in Steps, NEW pc \in {"emitted", "released", "exited"},
         NEW w \in Ways \ {"skipped"}, NEW f \in Flows,
         s \in Live, worker[s] \notin {"emitted", "released", "exited"},
         worker' = [worker EXCEPT ![s] = pc],
         results' = Append(results, Entry(s, w, f)),
         dpc' \in {"refuse", "wait", "returned"} <=> dpc \in {"refuse", "wait", "returned"},
         dpc \in {"refuse", "wait", "returned"} => next' = next,
         next' \in Int, next' >= next
  PROVE  /\ ResultsInv'
         /\ results' \in Seq(ResultType)
         /\ \A t \in Steps : Skipped(t)' <=> Skipped(t)
<1>1. worker \in [Steps -> WorkerPCs] /\ worker[s] # "idle" /\ next \in Int
  BY ParallelAssumption DEF TypeOK, Live
<1>2. \A t \in Steps : worker'[t] = IF t = s THEN pc ELSE worker[t]
  BY <1>1
<1>3. /\ results' \in Seq(ResultType)
      /\ \A t \in Steps : Accounted(t)' <=> Accounted(t) \/ t = s
      /\ \A t \in Steps : Skipped(t)' <=> Skipped(t)
      /\ AccountedOnce /\ ~Accounted(s) => AccountedOnce'
  <2>1. results \in Seq(ResultType) /\ w \in Ways /\ w # "skipped"
    BY DEF TypeOK, ResultType
  <2> QED
    BY <2>1, AppendAccounts
<1>4. ~Accounted(s)
  BY <1>1 DEF ResultsInv
<1>5. ResultsInv'
  <2>1. AccountedOnce'
    BY <1>3, <1>4 DEF ResultsInv
  <2>2. ASSUME NEW t \in Steps
        PROVE  /\ worker'[t] \in {"emitted", "released", "exited"} => Accounted(t)'
               /\ Accounted(t)' => \/ worker'[t] \in {"emitted", "released", "exited"}
                                   \/ worker'[t] = "idle" /\ Skipped(t)'
               /\ Skipped(t)' => worker'[t] = "idle" /\ t < next'
                                 /\ dpc' \in {"refuse", "wait", "returned"}
    BY <1>1, <1>2, <1>3 DEF ResultsInv, Steps
  <2>3. dpc' \in {"refuse", "wait", "returned"} =>
          \A t, u \in Steps : Skipped(t)' /\ t <= u /\ u < next' => Skipped(u)'
    BY <1>3 DEF ResultsInv
  <2> QED
    BY <2>1, <2>2, <2>3 DEF ResultsInv
<1> QED
  BY <1>3, <1>5

LEMMA FinalizeRowIInv == \A s \in Steps : IInv /\ FinalizeRow(s) => IInv'
<1> SUFFICES ASSUME NEW s \in Steps, IInv, FinalizeRow(s) PROVE IInv'
  OBVIOUS
<1> DEFINE pc == "finalized"
<1>0. /\ TypeOK /\ CountersInv /\ LoopInv /\ ResultsInv
      /\ worker \in [Steps -> WorkerPCs] /\ s \in Live
      /\ pc \in WorkerPCs \ {"idle"}
      /\ worker[s] = "running" /\ worker' = [worker EXCEPT ![s] = pc]
  BY DEF IInv, TypeOK, FinalizeRow, Live, WorkerPCs
<1>1. TypeOK'
  BY <1>0, ParallelAssumption DEF TypeOK, FinalizeRow
<1>2. CountersInv'
  <2>1. /\ Cardinality(Holding') = Cardinality(Holding)
        /\ Cardinality(Live') = Cardinality(Live)
    <3>1. /\ Cardinality(Holding') =
               Cardinality(Holding) + (IF Holds(pc) THEN 1 ELSE 0)
                                    - (IF Holds(worker[s]) THEN 1 ELSE 0)
          /\ Cardinality(Live') =
               Cardinality(Live) + (IF Lives(pc) THEN 1 ELSE 0)
                                 - (IF Lives(worker[s]) THEN 1 ELSE 0)
      BY <1>0, WorkerMoves
    <3> QED
      BY <1>0, <3>1, CountsAreNat DEF Holds, Lives
  <2> QED
    BY <1>0, <2>1 DEF CountersInv, FinalizeRow, SlotCount, Sequential
<1>3. LoopInv'
  BY <1>0, WorkerKeepsLoop, SameAccounts DEF FinalizeRow
<1>4. ResultsInv'
  BY <1>0, WorkerKeepsResults DEF FinalizeRow
<1> QED
  BY <1>1, <1>2, <1>3, <1>4 DEF IInv

LEMMA PanicIInv == \A s \in Steps : IInv /\ Panic(s) => IInv'
<1> SUFFICES ASSUME NEW s \in Steps, IInv, Panic(s) PROVE IInv'
  OBVIOUS
<1> DEFINE pc == "panicked"
<1>0. /\ TypeOK /\ CountersInv /\ LoopInv /\ ResultsInv
      /\ worker \in [Steps -> WorkerPCs] /\ s \in Live
      /\ pc \in WorkerPCs \ {"idle"}
      /\ worker[s] \in {"running", "finalized"} /\ worker' = [worker EXCEPT ![s] = pc]
  BY DEF IInv, TypeOK, Panic, Live, WorkerPCs
<1>1. TypeOK'
  BY <1>0 DEF TypeOK, Panic
<1>2. CountersInv'
  <2>1. /\ Cardinality(Holding') = Cardinality(Holding)
        /\ Cardinality(Live') = Cardinality(Live)
    <3>1. /\ Cardinality(Holding') =
               Cardinality(Holding) + (IF Holds(pc) THEN 1 ELSE 0)
                                    - (IF Holds(worker[s]) THEN 1 ELSE 0)
          /\ Cardinality(Live') =
               Cardinality(Live) + (IF Lives(pc) THEN 1 ELSE 0)
                                 - (IF Lives(worker[s]) THEN 1 ELSE 0)
      BY <1>0, WorkerMoves
    <3> QED
      BY <1>0, <3>1, CountsAreNat DEF Holds, Lives
  <2> QED
    BY <1>0, <2>1 DEF CountersInv, Panic, SlotCount, Sequential
<1>3. LoopInv'
  BY <1>0, WorkerKeepsLoop, SameAccounts DEF Panic
<1>4. ResultsInv'
  BY <1>0, WorkerKeepsResults DEF Panic
<1> QED
  BY <1>1, <1>2, <1>3, <1>4 DEF IInv

LEMMA ReleaseIInv == \A s \in Steps : IInv /\ Release(s) => IInv'
<1> SUFFICES ASSUME NEW s \in Steps, IInv, Release(s) PROVE IInv'
  OBVIOUS
<1> DEFINE pc == "released"
<1>0. /\ TypeOK /\ CountersInv /\ LoopInv /\ ResultsInv
      /\ worker \in [Steps -> WorkerPCs] /\ s \in Live
      /\ pc \in WorkerPCs \ {"idle"} /\ ~Sequential
      /\ worker[s] = "emitted" /\ worker' = [worker EXCEPT ![s] = pc]
  BY DEF IInv, TypeOK, Release, Live, WorkerPCs, LoopInv
<1>1. TypeOK'
  BY <1>0 DEF TypeOK, Release
<1>2. CountersInv'
  <2>1. /\ Cardinality(Holding') = Cardinality(Holding) - 1
        /\ Cardinality(Live') = Cardinality(Live)
    <3>1. /\ Cardinality(Holding') =
               Cardinality(Holding) + (IF Holds(pc) THEN 1 ELSE 0)
                                    - (IF Holds(worker[s]) THEN 1 ELSE 0)
          /\ Cardinality(Live') =
               Cardinality(Live) + (IF Lives(pc) THEN 1 ELSE 0)
                                 - (IF Lives(worker[s]) THEN 1 ELSE 0)
      BY <1>0, WorkerMoves
    <3> QED
      BY <1>0, <3>1, CountsAreNat DEF Holds, Lives
  <2>2. SlotCount \in Nat
    BY ParallelAssumption DEF SlotCount
  <2> QED
    BY <1>0, <2>1, <2>2, CountsAreNat DEF CountersInv, Release, SlotCount, Sequential
<1>3. LoopInv'
  BY <1>0, WorkerKeepsLoop, SameAccounts DEF Release
<1>4. ResultsInv'
  BY <1>0, WorkerKeepsResults DEF Release
<1> QED
  BY <1>1, <1>2, <1>3, <1>4 DEF IInv

LEMMA ExitIInv == \A s \in Steps : IInv /\ Exit(s) => IInv'
<1> SUFFICES ASSUME NEW s \in Steps, IInv, Exit(s) PROVE IInv'
  OBVIOUS
<1> DEFINE pc == "exited"
<1>0. /\ TypeOK /\ CountersInv /\ LoopInv /\ ResultsInv
      /\ worker \in [Steps -> WorkerPCs] /\ s \in Live
      /\ pc \in WorkerPCs \ {"idle"} /\ ~Sequential
      /\ worker[s] = "released" /\ worker' = [worker EXCEPT ![s] = pc]
  BY DEF IInv, TypeOK, Exit, Live, WorkerPCs, LoopInv
<1>1. TypeOK'
  BY <1>0 DEF TypeOK, Exit
<1>2. CountersInv'
  <2>1. /\ Cardinality(Holding') = Cardinality(Holding)
        /\ Cardinality(Live') = Cardinality(Live) - 1
    <3>1. /\ Cardinality(Holding') =
               Cardinality(Holding) + (IF Holds(pc) THEN 1 ELSE 0)
                                    - (IF Holds(worker[s]) THEN 1 ELSE 0)
          /\ Cardinality(Live') =
               Cardinality(Live) + (IF Lives(pc) THEN 1 ELSE 0)
                                 - (IF Lives(worker[s]) THEN 1 ELSE 0)
      BY <1>0, WorkerMoves
    <3> QED
      BY <1>0, <3>1, CountsAreNat DEF Holds, Lives
  <2> QED
    BY <1>0, <2>1, CountsAreNat DEF CountersInv, Exit, SlotCount, Sequential
<1>3. LoopInv'
  BY <1>0, WorkerKeepsLoop, SameAccounts DEF Exit
<1>4. ResultsInv'
  BY <1>0, WorkerKeepsResults DEF Exit
<1> QED
  BY <1>1, <1>2, <1>3, <1>4 DEF IInv

LEMMA EmitIInv == \A s \in Steps : IInv /\ Emit(s) => IInv'
<1> SUFFICES ASSUME NEW s \in Steps, IInv, Emit(s) PROVE IInv'
  OBVIOUS
<1> DEFINE pc == "emitted"
<1>0. /\ TypeOK /\ CountersInv /\ LoopInv /\ ResultsInv
      /\ worker \in [Steps -> WorkerPCs] /\ s \in Live
      /\ pc \in WorkerPCs \ {"idle"} /\ ~Sequential
      /\ worker[s] = "finalized" /\ worker' = [worker EXCEPT ![s] = pc]
  BY DEF IInv, TypeOK, Emit, Live, WorkerPCs
<1>1. /\ ResultsInv'
      /\ results' \in Seq(ResultType)
      /\ \A t \in Steps : Skipped(t)' <=> Skipped(t)
  <2>1. PICK f \in Yields : results' = Append(results, Entry(s, "ran", f))
    BY DEF Emit
  <2>2. f \in Flows /\ "ran" \in Ways \ {"skipped"}
    BY ParallelAssumption DEF Flows, Ways
  <2>3. next' = next /\ dpc' = dpc /\ next \in Int
    BY <1>0, ParallelAssumption DEF Emit, TypeOK
  <2>4. /\ s \in Live /\ worker[s] \notin {"emitted", "released", "exited"}
        /\ pc \in {"emitted", "released", "exited"}
        /\ dpc' \in {"refuse", "wait", "returned"} <=> dpc \in {"refuse", "wait", "returned"}
        /\ dpc \in {"refuse", "wait", "returned"} => next' = next
        /\ next' \in Int /\ next' >= next
    BY <1>0, <2>3
  <2> QED
    BY <1>0, <2>1, <2>2, <2>4, WorkerSettles
<1>2. TypeOK'
  BY <1>0, <1>1 DEF TypeOK, Emit, ResultType
<1>3. CountersInv'
  <2>1. /\ Cardinality(Holding') = Cardinality(Holding)
        /\ Cardinality(Live') = Cardinality(Live)
    <3>1. /\ Cardinality(Holding') =
               Cardinality(Holding) + (IF Holds(pc) THEN 1 ELSE 0)
                                    - (IF Holds(worker[s]) THEN 1 ELSE 0)
          /\ Cardinality(Live') =
               Cardinality(Live) + (IF Lives(pc) THEN 1 ELSE 0)
                                 - (IF Lives(worker[s]) THEN 1 ELSE 0)
      BY <1>0, WorkerMoves
    <3> QED
      BY <1>0, <3>1, CountsAreNat DEF Holds, Lives
  <2> QED
    BY <1>0, <2>1 DEF CountersInv, Emit, SlotCount, Sequential
<1>4. LoopInv'
  BY <1>0, <1>1, WorkerKeepsLoop DEF Emit
<1> QED
  BY <1>1, <1>2, <1>3, <1>4 DEF IInv

LEMMA RecoverIInv == \A s \in Steps : IInv /\ Recover(s) => IInv'
<1> SUFFICES ASSUME NEW s \in Steps, IInv, Recover(s) PROVE IInv'
  OBVIOUS
<1> DEFINE pc == "emitted"
<1>0. /\ TypeOK /\ CountersInv /\ LoopInv /\ ResultsInv
      /\ worker \in [Steps -> WorkerPCs] /\ s \in Live
      /\ pc \in WorkerPCs \ {"idle"} /\ ~Sequential
      /\ worker[s] = "panicked" /\ worker' = [worker EXCEPT ![s] = pc]
  BY DEF IInv, TypeOK, Recover, Live, WorkerPCs
<1>1. /\ ResultsInv'
      /\ results' \in Seq(ResultType)
      /\ \A t \in Steps : Skipped(t)' <=> Skipped(t)
  <2>1. PICK f \in Flows : results' = Append(results, Entry(s, "panicked", f))
    BY DEF Recover, Flows
  <2>2. "panicked" \in Ways \ {"skipped"}
    BY DEF Ways
  <2>3. next' = next /\ dpc' = dpc /\ next \in Int
    BY <1>0, ParallelAssumption DEF Recover, TypeOK
  <2>4. /\ s \in Live /\ worker[s] \notin {"emitted", "released", "exited"}
        /\ pc \in {"emitted", "released", "exited"}
        /\ dpc' \in {"refuse", "wait", "returned"} <=> dpc \in {"refuse", "wait", "returned"}
        /\ dpc \in {"refuse", "wait", "returned"} => next' = next
        /\ next' \in Int /\ next' >= next
    BY <1>0, <2>3
  <2> QED
    BY <1>0, <2>1, <2>2, <2>4, WorkerSettles
<1>2. TypeOK'
  BY <1>0, <1>1 DEF TypeOK, Recover, ResultType
<1>3. CountersInv'
  <2>1. /\ Cardinality(Holding') = Cardinality(Holding)
        /\ Cardinality(Live') = Cardinality(Live)
    <3>1. /\ Cardinality(Holding') =
               Cardinality(Holding) + (IF Holds(pc) THEN 1 ELSE 0)
                                    - (IF Holds(worker[s]) THEN 1 ELSE 0)
          /\ Cardinality(Live') =
               Cardinality(Live) + (IF Lives(pc) THEN 1 ELSE 0)
                                 - (IF Lives(worker[s]) THEN 1 ELSE 0)
      BY <1>0, WorkerMoves
    <3> QED
      BY <1>0, <3>1, CountsAreNat DEF Holds, Lives
  <2> QED
    BY <1>0, <2>1 DEF CountersInv, Recover, SlotCount, Sequential
<1>4. LoopInv'
  BY <1>0, <1>1, WorkerKeepsLoop DEF Recover
<1> QED
  BY <1>1, <1>2, <1>3, <1>4 DEF IInv

LEMMA InlineReturnsIInv == IInv /\ InlineReturns => IInv'
<1> SUFFICES ASSUME IInv, InlineReturns PROVE IInv'
  OBVIOUS
<1> DEFINE s == next
           pc == "exited"
<1>0. /\ TypeOK /\ CountersInv /\ LoopInv /\ ResultsInv
      /\ worker \in [Steps -> WorkerPCs] /\ s \in Steps /\ s \in Live
      /\ pc \in WorkerPCs \ {"idle"} /\ Sequential
      /\ worker[s] = "finalized" /\ worker' = [worker EXCEPT ![s] = pc]
  BY ParallelAssumption DEF IInv, TypeOK, InlineReturns, Live, WorkerPCs, LoopInv, Steps
<1>1. /\ ResultsInv'
      /\ results' \in Seq(ResultType)
      /\ \A t \in Steps : Skipped(t)' <=> Skipped(t)
  <2>1. PICK f \in Yields : results' = Append(results, Entry(s, "ran", f))
    BY DEF InlineReturns
  <2>2. f \in Flows /\ "ran" \in Ways \ {"skipped"}
    BY ParallelAssumption DEF Flows, Ways
  <2>3. /\ next' \in Int /\ next' >= next
        /\ dpc' \in {"refuse", "wait", "returned"} <=> dpc \in {"refuse", "wait", "returned"}
        /\ dpc \in {"refuse", "wait", "returned"} => next' = next
    BY <1>0, ParallelAssumption DEF InlineReturns, TypeOK
  <2>4. pc \in {"emitted", "released", "exited"}
        /\ worker[s] \notin {"emitted", "released", "exited"}
    BY <1>0
  <2> QED
    BY <1>0, <2>1, <2>2, <2>3, <2>4, WorkerSettles
<1>2. TypeOK'
  BY <1>0, <1>1, ParallelAssumption DEF TypeOK, InlineReturns, ResultType, DispatcherPCs, Steps
<1>3. CountersInv'
  BY <1>0 DEF CountersInv, InlineReturns, Sequential
<1>4. LoopInv'
  <2>1. \A t \in Steps : worker'[t] = IF t = s THEN pc ELSE worker[t]
    BY <1>0
  <2> QED
    BY <1>0, <1>1, <2>1, ParallelAssumption DEF LoopInv, InlineReturns, Sequential, TypeOK, Steps
<1> QED
  BY <1>1, <1>2, <1>3, <1>4 DEF IInv

LEMMA InlinePanicsIInv == IInv /\ InlinePanics => IInv'
<1> SUFFICES ASSUME IInv, InlinePanics PROVE IInv'
  OBVIOUS
<1>0. /\ TypeOK /\ CountersInv /\ LoopInv /\ ResultsInv
      /\ worker \in [Steps -> WorkerPCs] /\ next \in Steps /\ Sequential
      /\ worker[next] \in {"running", "finalized"}
      /\ worker' = [worker EXCEPT ![next] = "panicked"]
  BY ParallelAssumption DEF IInv, TypeOK, InlinePanics, LoopInv, Steps
<1>1. \A t \in Steps : worker'[t] = IF t = next THEN "panicked" ELSE worker[t]
  BY <1>0
<1>2. TypeOK'
  BY <1>0 DEF TypeOK, InlinePanics, DispatcherPCs, WorkerPCs
<1>3. CountersInv'
  BY <1>0 DEF CountersInv, InlinePanics, Sequential
<1>4. LoopInv'
  BY <1>0, <1>1, SameAccounts, ParallelAssumption
     DEF LoopInv, InlinePanics, Sequential, TypeOK, Steps
<1>5. ResultsInv'
  BY <1>0, <1>1, SameAccounts DEF ResultsInv, InlinePanics
<1> QED
  BY <1>2, <1>3, <1>4, <1>5 DEF IInv

LEMMA StageEndIInv == IInv /\ StageEnd => IInv'
<1> SUFFICES ASSUME IInv, StageEnd PROVE IInv'
  OBVIOUS
<1> USE SameWorkers, SameAccounts DEF IInv, StageEnd
<1>1. TypeOK'
  <2>1. DOMAIN results = 1..Len(results) /\ Len(results) \in Nat
    BY DEF TypeOK
  <2>2. \A fl : Count(results, fl) \in Nat
    <3> TAKE fl
    <3>1. IsFiniteSet(1..Len(results))
      BY <2>1, FS_Interval
    <3>2. {i \in DOMAIN results : results[i].flow = fl} \subseteq 1..Len(results)
      BY <2>1
    <3> QED
      BY <3>1, <3>2, FS_Subset, FS_CardinalityType DEF Count
  <2>3. outcome' \in [succeeded : Nat, skipped : Nat, failed : Nat]
    BY <2>2 DEF Tally
  <2> QED
    BY <2>3 DEF TypeOK, DispatcherPCs
<1>2. CountersInv'
  BY DEF CountersInv
<1>3. LoopInv'
  <2>1. CASE Sequential
    <3>1. Live = {}
      BY <2>1 DEF LoopInv, Live, TypeOK, Steps
    <3> QED
      BY <2>1, <3>1 DEF LoopInv
  <2>2. CASE ~Sequential
    <3>1. Live = {}
      BY <2>2, CountsAreNat DEF CountersInv
    <3> QED
      BY <2>2, <3>1 DEF LoopInv
  <2> QED
    BY <2>1, <2>2
<1>4. ResultsInv'
  BY DEF ResultsInv
<1> QED
  BY <1>1, <1>2, <1>3, <1>4

-----------------------------------------------------------------------------
LEMMA NextIInv == IInv /\ [Next]_vars => IInv'
<1> SUFFICES ASSUME IInv, [Next]_vars PROVE IInv'
  OBVIOUS
<1>1. CASE Dispatcher
  BY <1>1, StageStartIInv, LoopEndsIInv, AdmitIInv, StopDispatchIInv, RefuseIInv,
     AcquireIInv, InlineReturnsIInv, InlinePanicsIInv, StageEndIInv
     DEF Dispatcher
<1>2. ASSUME NEW s \in Steps, WorkerStep(s) PROVE IInv'
  BY <1>2, FinalizeRowIInv, EmitIInv, PanicIInv, RecoverIInv, ReleaseIInv, ExitIInv
     DEF WorkerStep
<1>3. CASE UNCHANGED vars
  <2>1. TypeOK'
    BY <1>3 DEF IInv, TypeOK, vars
  <2>2. CountersInv'
    BY <1>3, SameWorkers DEF IInv, CountersInv, vars
  <2>3. LoopInv'
    BY <1>3, SameWorkers, SameAccounts DEF IInv, LoopInv, vars
  <2>4. ResultsInv'
    BY <1>3, SameAccounts DEF IInv, ResultsInv, vars
  <2> QED
    BY <2>1, <2>2, <2>3, <2>4 DEF IInv
<1> QED
  BY <1>1, <1>2, <1>3 DEF Next, Finished

\* The invariant holds in every reachable state.
THEOREM Invariant == Spec => []IInv
<1> QED
  BY InitIInv, NextIInv, PTL DEF Spec

\* Every variable keeps its type (flow.go:883-921).
THEOREM TypeCorrect == Spec => []TypeOK
<1>1. IInv => TypeOK
  BY DEF IInv
<1> QED
  BY <1>1, Invariant, PTL

\* However many steps and slots: never more agents at once than slots.
THEOREM WorkerBoundHolds == Spec => []WorkerBound
<1>1. IInv => WorkerBound
  BY DEF IInv, CountersInv, WorkerBound
<1> QED
  BY <1>1, Invariant, PTL

\* No step is reported twice, whatever panics (flow.go:908-917).
THEOREM AccountedOnceHolds == Spec => []AccountedOnce
<1>1. IInv => AccountedOnce
  BY DEF IInv, ResultsInv
<1> QED
  BY <1>1, Invariant, PTL

\* A refusal is final (flow.go:897-904).
THEOREM SkipsAreFinalHolds == Spec => []SkipsAreFinal
<1>1. IInv => SkipsAreFinal
  <2> SUFFICES ASSUME IInv, NEW s \in Steps, NEW t \in Steps, Skipped(s), t >= s
               PROVE  worker[t] = "idle"
    BY DEF SkipsAreFinal
  <2>1. dpc \in {"refuse", "wait", "returned"} /\ next \in Int
    BY ParallelAssumption DEF IInv, ResultsInv, TypeOK
  <2>2. CASE t < next
    BY <2>1, <2>2 DEF IInv, ResultsInv
  <2>3. CASE t >= next
    BY <2>1, <2>3 DEF IInv, LoopInv, Steps
  <2> QED
    BY <2>1, <2>2, <2>3 DEF Steps
<1> QED
  BY <1>1, Invariant, PTL

\* When the call returns every step has a result and no goroutine is left.
THEOREM CompleteOnReturnHolds == Spec => []CompleteOnReturn
<1>1. IInv => CompleteOnReturn
  <2> SUFFICES ASSUME IInv, dpc = "returned"
               PROVE  (\A s \in Steps : Accounted(s)) /\ Live = {}
    BY DEF CompleteOnReturn
  <2>1. Live = {} /\ next = N + 1
    BY DEF IInv, LoopInv
  <2>2. ASSUME NEW s \in Steps PROVE Accounted(s)
    <3>1. worker[s] \in {"idle", "exited"} /\ s < next
      BY <2>1, ParallelAssumption DEF Live, Steps
    <3>2. worker[s] = "idle" => Skipped(s)
      BY <3>1 DEF IInv, LoopInv
    <3>3. Skipped(s) => Accounted(s)
      BY DEF Skipped, Accounted
    <3> QED
      BY <3>1, <3>2, <3>3 DEF IInv, ResultsInv
  <2> QED
    BY <2>1, <2>2
<1> QED
  BY <1>1, Invariant, PTL

-----------------------------------------------------------------------------
\* The budget.  A run that goes on may cost MaxCost yet, and so may the step
\* that is past the check and waits for a slot; with these the batch is within
\* the bound at every moment, since the check passed when nothing but they was
\* to come.
Running == {s \in Steps : worker[s] = "running"}
ToCome == Cardinality(Running) + IF dpc = "acquire" THEN 1 ELSE 0
Limit == (Cap - 1) + (SlotCount + 1) * MaxCost
Budget == Capped /\ Cap > 0 => spent + ToCome * MaxCost <= Limit

LEMMA MaxCostBounds == MaxCost \in Nat /\ \A c \in Costs : c <= MaxCost
<1>1. MaxCost \in Costs /\ \A c \in Costs : c <= MaxCost
  BY CostsBounded DEF MaxCost
<1> QED
  BY <1>1, ParallelAssumption

LEMMA Times ==
  ASSUME NEW m \in Nat, NEW a \in Nat, NEW b \in Nat
  PROVE  /\ a * m \in Nat
         /\ (a + 1) * m = a * m + m
         /\ a <= b => a * m <= b * m
<1>1. a * m \in Nat /\ (a + 1) * m = a * m + m
  OBVIOUS
<1>2. ASSUME a <= b PROVE a * m <= b * m
  <2>1. b - a \in Nat
    BY <1>2
  <2>2. (b - a) * m >= 0
    BY <2>1
  <2>3. b * m = a * m + (b - a) * m
    OBVIOUS
  <2>4. b * m \in Nat /\ a * m \in Nat /\ (b - a) * m \in Int
    OBVIOUS
  <2> QED
    BY <2>2, <2>3, <2>4
<1> QED
  BY <1>1, <1>2

LEMMA RunningCounts ==
  /\ IsFiniteSet(Running) /\ Cardinality(Running) \in Nat
  /\ Cardinality(Running) <= Cardinality(Holding)
<1>1. IsFiniteSet(Holding) /\ Running \subseteq Holding
  BY StepSetsFinite DEF Holding, Running
<1> QED
  BY <1>1, FS_Subset, FS_CardinalityType

\* The check passes below the cap, and no more than the slots and one more can
\* be on their way.
LEMMA AdmitBudget == ASSUME IInv, Admit, Capped, Cap > 0 PROVE Budget'
<1>1. spent' = spent /\ spent <= Cap - 1 /\ spent \in Nat /\ Cap \in Nat
  BY ParallelAssumption DEF Admit, IInv, TypeOK
<1>2. SlotCount \in Nat
  BY ParallelAssumption DEF SlotCount
<1>3. ToCome' \in Nat /\ ToCome' <= SlotCount + 1
  <2>1. CASE Sequential
    <3>1. Running' \subseteq {next}
      BY <2>1 DEF Running, Admit, IInv, TypeOK, LoopInv, WorkerPCs
    <3>2. IsFiniteSet({next}) /\ Cardinality({next}) = 1
      BY FS_Singleton
    <3>3. Cardinality(Running') \in Nat /\ Cardinality(Running') <= 1
      BY <3>1, <3>2, FS_Subset, FS_CardinalityType
    <3> QED
      BY <1>2, <2>1, <3>3 DEF ToCome, Admit
  <2>2. CASE ~Sequential
    <3>1. Running' = Running /\ dpc' = "acquire"
      BY <2>2 DEF Admit, Running
    <3>2. Cardinality(Holding) <= SlotCount /\ Cardinality(Holding) \in Nat
      BY <2>2, CountsAreNat DEF IInv, CountersInv
    <3> QED
      BY <1>2, <3>1, <3>2, RunningCounts DEF ToCome
  <2> QED
    BY <2>1, <2>2
<1>4. ToCome' * MaxCost <= (SlotCount + 1) * MaxCost /\ ToCome' * MaxCost \in Nat
        /\ (SlotCount + 1) * MaxCost \in Nat
  <2>1. \A k, n \in Nat : k <= n => k * MaxCost <= n * MaxCost /\ k * MaxCost \in Nat
                                    /\ n * MaxCost \in Nat
    BY Times, MaxCostBounds
  <2>2. SlotCount + 1 \in Nat
    BY <1>2
  <2> QED
    BY <1>3, <2>1, <2>2
<1>5. Limit' = Limit /\ MaxCost' = MaxCost
  BY DEF Limit, MaxCost, SlotCount
<1> QED
  BY <1>1, <1>4, <1>5 DEF Budget, Limit

\* Whatever else happens takes from what is to come what it adds to what is spent.
LEMMA NextBudget == ASSUME IInv, Budget, [Next]_vars PROVE Budget'
<1> SUFFICES ASSUME Capped, Cap > 0 PROVE Budget'
  BY DEF Budget
<1>1. /\ worker \in [Steps -> WorkerPCs] /\ spent \in Nat /\ Cap \in Nat
      /\ spent + ToCome * MaxCost <= Limit
  BY ParallelAssumption DEF IInv, TypeOK, Budget
<1>2. Cardinality(Running) \in Nat /\ IsFiniteSet(Running) /\ ToCome \in Nat
  BY RunningCounts DEF ToCome
<1>3. MaxCost \in Nat /\ \A c \in Costs : c \in Nat /\ c <= MaxCost
  BY MaxCostBounds, ParallelAssumption
<1>4. Limit \in Int /\ Limit' = Limit /\ MaxCost' = MaxCost
  <2>1. SlotCount + 1 \in Nat
    BY ParallelAssumption DEF SlotCount
  <2>2. (SlotCount + 1) * MaxCost \in Nat
    BY <1>3, <2>1, Times
  <2> QED
    BY <1>1, <2>2 DEF Limit, MaxCost, SlotCount
<1>5. ASSUME spent' = spent, ToCome' \in Nat, ToCome' <= ToCome PROVE Budget'
  <2>1. ToCome' * MaxCost <= ToCome * MaxCost /\ ToCome' * MaxCost \in Nat
          /\ ToCome * MaxCost \in Nat
    BY <1>2, <1>3, <1>5, Times
  <2> QED
    BY <1>1, <1>4, <1>5, <2>1 DEF Budget
<1>6. ASSUME spent' = spent, Running' \subseteq Running, dpc' # "acquire" \/ dpc' = dpc
      PROVE Budget'
  <2>1. Cardinality(Running') \in Nat /\ Cardinality(Running') <= Cardinality(Running)
    BY <1>2, <1>6, FS_Subset, FS_CardinalityType
  <2> QED
    BY <1>2, <1>5, <1>6, <2>1 DEF ToCome
<1>7. CASE Admit
  BY <1>7, AdmitBudget
<1>8. CASE Acquire
  <2>1. next \in Steps /\ worker[next] = "idle" /\ dpc = "acquire" /\ dpc' = "check"
          /\ spent' = spent /\ worker' = [worker EXCEPT ![next] = "running"]
    BY <1>8, ParallelAssumption DEF Acquire, IInv, TypeOK, LoopInv, Steps
  <2>2. Running' = Running \cup {next} /\ next \notin Running
    BY <1>1, <2>1 DEF Running
  <2>3. Cardinality(Running') = Cardinality(Running) + 1
    BY <1>2, <2>2, FS_AddElement
  <2> QED
    BY <1>2, <1>5, <2>1, <2>3 DEF ToCome
<1>9. ASSUME NEW s \in Steps, FinalizeRow(s) PROVE Budget'
  <2>1. PICK c \in Costs : spent' = spent + c
    BY <1>9, ParallelAssumption DEF FinalizeRow
  <2>2. Running' = Running \ {s} /\ s \in Running /\ dpc' = dpc
    BY <1>1, <1>9 DEF FinalizeRow, Running
  <2>3. Cardinality(Running') = Cardinality(Running) - 1 /\ Cardinality(Running') \in Nat
    BY <1>2, <2>2, FS_RemoveElement, FS_CardinalityType
  <2>4. ToCome = ToCome' + 1 /\ ToCome' \in Nat
    BY <1>2, <2>2, <2>3 DEF ToCome
  <2>5. ToCome * MaxCost = ToCome' * MaxCost + MaxCost /\ ToCome' * MaxCost \in Nat
    BY <1>3, <2>4, Times
  <2> QED
    BY <1>1, <1>3, <1>4, <2>1, <2>5 DEF Budget
<1>10. CASE \/ StageStart \/ LoopEnds \/ StopDispatch \/ Refuse \/ InlineReturns
            \/ InlinePanics \/ StageEnd \/ UNCHANGED vars
  <2>1. spent' = spent /\ (dpc' # "acquire" \/ dpc' = dpc)
    BY <1>10 DEF StageStart, LoopEnds, StopDispatch, Refuse, InlineReturns, InlinePanics,
       StageEnd, vars
  <2>2. Running' \subseteq Running
    BY <1>1, <1>10 DEF Running, StageStart, LoopEnds, StopDispatch, Refuse, InlineReturns,
       InlinePanics, StageEnd, vars
  <2> QED
    BY <1>6, <2>1, <2>2
<1>11. ASSUME NEW s \in Steps, Emit(s) \/ Panic(s) \/ Recover(s) \/ Release(s) \/ Exit(s)
       PROVE Budget'
  <2>1. spent' = spent /\ dpc' = dpc /\ Running' \subseteq Running
    BY <1>1, <1>11 DEF Running, Emit, Panic, Recover, Release, Exit
  <2> QED
    BY <1>6, <2>1
<1> QED
  BY <1>7, <1>8, <1>9, <1>10, <1>11 DEF Next, Dispatcher, WorkerStep, Finished

LEMMA InitBudget == ASSUME Init PROVE Budget
<1>1. Running = {} /\ dpc = "start" /\ spent = 0
  BY DEF Init, Running
<1>2. ToCome = 0
  BY <1>1, FS_EmptySet DEF ToCome
<1>3. SlotCount + 1 \in Nat
  BY ParallelAssumption DEF SlotCount
<1>4. (SlotCount + 1) * MaxCost \in Nat /\ 0 * MaxCost = 0
  BY <1>3, Times, MaxCostBounds
<1> QED
  BY <1>1, <1>2, <1>4, ParallelAssumption DEF Budget, Limit

\* How far a batch can pass its cap, for every number of slots and every cost
\* (table.go, BatchCostUSD): by what was in flight when the check last passed,
\* and the step that passed it.
THEOREM SpendBoundedHolds == Spec => []SpendBounded
<1>1. Init => Budget
  BY InitBudget
<1>2. IInv /\ Budget /\ [Next]_vars => Budget'
  BY NextBudget
<1>3. TypeOK /\ Budget => SpendBounded
  <2> SUFFICES ASSUME spent \in Nat, Budget, Capped, Cap > 0 PROVE spent <= Limit
    BY ParallelAssumption DEF TypeOK, SpendBounded, Limit
  <2>1. ToCome * MaxCost \in Nat
    BY RunningCounts, MaxCostBounds, Times DEF ToCome
  <2>2. (SlotCount + 1) * MaxCost \in Nat
    <3>1. SlotCount + 1 \in Nat
      BY ParallelAssumption DEF SlotCount
    <3> QED
      BY <3>1, Times, MaxCostBounds
  <2>3. Limit \in Int
    BY <2>2, ParallelAssumption DEF Limit
  <2> QED
    BY <2>1, <2>3 DEF Budget
<1>4. IInv => TypeOK
  BY DEF IInv
<1> QED
  BY <1>1, <1>2, <1>3, <1>4, Invariant, PTL DEF Spec

-----------------------------------------------------------------------------
\* The refinement of FanOut: every step of the pool decides or settles one
\* step of the contract, returns, or changes nothing the contract sees.
LEMMA FatePending ==
  ASSUME IInv, NEW s \in Steps
  PROVE  /\ Fate(s) = "pending" <=> worker[s] = "idle" /\ ~Skipped(s)
         /\ Fate(s) = "refused" <=> Skipped(s)
         /\ Fate(s) = "settled" <=> worker[s] \in {"emitted", "released", "exited"}
         /\ Fate(s) = "started" <=> worker[s] \in {"running", "finalized", "panicked"}
<1>1. worker[s] \in WorkerPCs /\ (Skipped(s) => worker[s] = "idle")
  BY DEF IInv, TypeOK, ResultsInv
<1> QED
  BY <1>1 DEF Fate, WorkerPCs

LEMMA FateMoves ==
  ASSUME IInv, NEW s \in Steps,
         \A t \in Steps \ {s} : worker'[t] = worker[t] /\ (Skipped(t)' <=> Skipped(t))
  PROVE  [t \in Steps |-> Fate(t)]' = [[t \in Steps |-> Fate(t)] EXCEPT ![s] = Fate(s)']
<1>1. \A t \in Steps \ {s} : Fate(t)' = Fate(t)
  BY DEF Fate
<1> QED
  BY <1>1

\* What the dispatcher knows when it decides the step it is at.
LEMMA DecidedInOrder ==
  ASSUME IInv, next \in Steps, worker[next] = "idle", ~Skipped(next)
  PROVE  Contract!InOrder(next)
<1>1. \A t \in Steps : t < next => ~(worker[t] = "idle" /\ ~Skipped(t))
  BY DEF IInv, LoopInv
<1> QED
  BY <1>1, FatePending DEF Contract!InOrder, Contract!Steps, Steps

LEMMA InitContract == Init => Contract!Init
BY DEF Init, Contract!Init, Contract!Steps, Steps, Fate, Skipped

LEMMA StepContract ==
  IInv /\ IInv' /\ [Next]_vars => [Contract!Next]_(Contract!fanVars)
<1> SUFFICES ASSUME IInv, IInv', [Next]_vars
             PROVE  Contract!Next \/ UNCHANGED Contract!fanVars
  OBVIOUS
<1> DEFINE F == [t \in Steps |-> Fate(t)]
<1>0. /\ worker \in [Steps -> WorkerPCs]
      /\ worker' \in [Steps -> WorkerPCs]
      /\ F \in [Steps -> {"pending", "started", "settled", "refused"}]
  BY DEF IInv, TypeOK, Fate
<1>s. ASSUME UNCHANGED worker, UNCHANGED results,
             dpc' = "returned" <=> dpc = "returned"
      PROVE  UNCHANGED Contract!fanVars
  BY <1>s DEF Contract!fanVars, Fate, Skipped
<1>1. CASE StageStart \/ LoopEnds \/ StopDispatch \/ UNCHANGED vars
  BY <1>1, <1>s DEF StageStart, LoopEnds, StopDispatch, vars
<1>2. CASE Admit /\ ~Sequential
  BY <1>2, <1>s DEF Admit
<1>3. CASE (Admit /\ Sequential) \/ Acquire
  <2>1. /\ next \in Steps /\ worker[next] = "idle" /\ UNCHANGED results
        /\ worker' = [worker EXCEPT ![next] = "running"]
        /\ dpc \notin {"refuse", "wait", "returned"} /\ dpc' # "returned"
    BY <1>3, ParallelAssumption DEF Admit, Acquire, IInv, TypeOK, Steps, LoopInv
  <2>2. \A t \in Steps : ~Skipped(t) /\ ~Skipped(t)'
    BY <2>1, SameAccounts DEF IInv, ResultsInv
  <2>3. PICK s \in Steps : s = next
    BY <2>1
  <2>4. F' = [F EXCEPT ![next] = "started"]
    <3>1. Fate(s)' = "started"
      BY <2>1, <2>2, <2>3, <1>0 DEF Fate
    <3> QED
      BY <2>1, <2>2, <2>3, <3>1, <1>0, FateMoves
  <2>5. Contract!InOrder(next)
    BY <2>1, <2>2, DecidedInOrder
  <2>6. \A t \in Steps : F[t] # "refused"
    BY <2>2, FatePending
  <2>7. Contract!Start(next)
    BY <2>1, <2>4, <2>5, <2>6 DEF Contract!Start, Contract!Steps, Steps
  <2> QED
    BY <2>1, <2>7 DEF Contract!Next, Contract!Steps, Steps
<1>4. CASE Refuse
  <2>1. CASE next <= N
    <3>1. /\ next \in Steps /\ worker[next] = "idle" /\ UNCHANGED worker
          /\ ~Skipped(next) /\ dpc = "refuse" /\ dpc' = dpc
      BY <1>4, <2>1, ParallelAssumption DEF Refuse, IInv, TypeOK, Steps, LoopInv, ResultsInv
    <3>2. \A t \in Steps : Skipped(t)' <=> Skipped(t) \/ t = next
      BY <1>4, <2>1, <3>1, AppendAccounts
         DEF Refuse, IInv, TypeOK, ResultType, Ways, Flows
    <3>3. F' = [F EXCEPT ![next] = "refused"]
      <4>1. PICK s \in Steps : s = next
        BY <3>1
      <4>2. Fate(s)' = "refused"
        BY <3>1, <3>2, <4>1 DEF Fate
      <4> QED
        BY <4>1, <4>2, <3>1, <3>2, FateMoves
    <3>4. Contract!Refuse(next)
      BY <3>1, <3>3, DecidedInOrder DEF Contract!Refuse
    <3> QED
      BY <3>1, <3>4 DEF Contract!Next, Contract!Steps, Steps
  <2>2. CASE ~(next <= N)
    BY <1>4, <2>2, <1>s DEF Refuse
  <2> QED
    BY <2>1, <2>2
<1>5. ASSUME NEW s \in Steps,
             worker[s] \in {"running", "finalized", "panicked"},
             worker' = [worker EXCEPT ![s] = "emitted"]
               \/ worker' = [worker EXCEPT ![s] = "exited"],
             \A t \in Steps : Skipped(t)' <=> Skipped(t),
             dpc # "returned", dpc' # "returned"
      PROVE  Contract!Next
  <2>1. F[s] = "started"
    BY <1>5, FatePending
  <2>2. Fate(s)' = "settled"
    BY <1>0, <1>5 DEF Fate, IInv, ResultsInv
  <2>3. F' = [F EXCEPT ![s] = "settled"]
    BY <1>0, <1>5, <2>2, FateMoves
  <2>4. Contract!Settle(s)
    BY <1>5, <2>1, <2>3 DEF Contract!Settle
  <2> QED
    BY <2>4 DEF Contract!Next, Contract!Steps, Steps
<1>6. CASE InlineReturns
  <2>1. /\ next \in Steps /\ worker[next] = "finalized"
        /\ worker' = [worker EXCEPT ![next] = "exited"]
        /\ dpc # "returned" /\ dpc' # "returned"
    BY <1>6, ParallelAssumption DEF InlineReturns, IInv, TypeOK, Steps, LoopInv
  <2>2. PICK f \in Flows : results' = Append(results, Entry(next, "ran", f))
    BY <1>6, ParallelAssumption DEF InlineReturns, Flows
  <2>3. \A t \in Steps : Skipped(t)' <=> Skipped(t)
    BY <2>1, <2>2, AppendAccounts DEF IInv, TypeOK, ResultType, Ways
  <2> QED
    BY <2>1, <2>3, <1>5
<1>7. CASE StageEnd
  <2>1. /\ dpc = "wait" /\ dpc' = "returned" /\ UNCHANGED <<worker, results>>
        /\ F' = F
    BY <1>7 DEF StageEnd, Fate, Skipped
  <2>2. \A t \in Steps : F[t] \in {"settled", "refused"}
    <3> TAKE t \in Steps
    <3>1. worker[t] \in {"idle", "exited"} /\ (worker[t] = "idle" => Skipped(t))
      <4>1. Live' = {} /\ next = N + 1
        BY <2>1 DEF IInv, LoopInv
      <4> QED
        BY <4>1, <2>1, <1>0, ParallelAssumption DEF Live, IInv, LoopInv, Steps
    <3> QED
      BY <3>1, FatePending
  <2>3. Contract!Return
    BY <2>1, <2>2 DEF Contract!Return, Contract!Steps, Steps
  <2> QED
    BY <2>3 DEF Contract!Next
<1>8. CASE InlinePanics
  <2>1. /\ next \in Steps /\ worker[next] \in {"running", "finalized"}
        /\ worker' = [worker EXCEPT ![next] = "panicked"] /\ UNCHANGED results
        /\ dpc # "returned" /\ dpc' # "returned"
    BY <1>8, ParallelAssumption DEF InlinePanics, IInv, TypeOK, Steps, LoopInv
  <2>2. \A t \in Steps : Fate(t)' = Fate(t)
    BY <2>1, <1>0, SameAccounts DEF Fate
  <2> QED
    BY <2>1, <2>2 DEF Contract!fanVars
<1>9. ASSUME NEW s \in Steps, WorkerStep(s)
      PROVE  Contract!Next \/ UNCHANGED Contract!fanVars
  <2>0. dpc # "returned" /\ dpc' = dpc
    BY <1>9 DEF WorkerStep, FinalizeRow, Emit, Panic, Recover, Release, Exit,
                IInv, LoopInv, Live
  <2>1. CASE FinalizeRow(s) \/ Panic(s) \/ Release(s) \/ Exit(s)
    <3>1. \A t \in Steps : Fate(t)' = Fate(t)
      BY <2>1, <1>0, SameAccounts DEF FinalizeRow, Panic, Release, Exit, Fate
    <3> QED
      BY <3>1, <2>0 DEF Contract!fanVars
  <2>2. CASE Emit(s) \/ Recover(s)
    <3>1. PICK w \in Ways \ {"skipped"}, f \in Flows :
            results' = Append(results, Entry(s, w, f))
      BY <2>2, ParallelAssumption DEF Emit, Recover, Ways, Flows
    <3>2. \A t \in Steps : Skipped(t)' <=> Skipped(t)
      BY <3>1, AppendAccounts DEF IInv, TypeOK, ResultType
    <3>3. /\ worker[s] \in {"running", "finalized", "panicked"}
          /\ worker' = [worker EXCEPT ![s] = "emitted"]
      BY <2>2 DEF Emit, Recover
    <3> QED
      BY <2>0, <3>2, <3>3, <1>5
  <2> QED
    BY <1>9, <2>1, <2>2 DEF WorkerStep
<1> QED
  BY <1>1, <1>2, <1>3, <1>4, <1>6, <1>7, <1>8, <1>9 DEF Next, Dispatcher, Finished

\* The pool implements the contract its callers rely on.
THEOREM Refinement == Spec => ImplementsFanOut
<1>1. Spec => []IInv
  BY Invariant
<1> QED
  BY <1>1, InitContract, StepContract, PTL DEF Spec, ImplementsFanOut, Contract!Spec
=============================================================================
