---------------------------- MODULE FlowParallel ----------------------------
(***************************************************************************)
(* flow.Parallel (internal/flow/flow.go): a dispatcher walks the steps in  *)
(* order, asks PreDispatch before each one, takes a slot of a semaphore    *)
(* and starts a goroutine per step; the goroutine appends its result under *)
(* a mutex, recovers a panic into an Error result, gives the slot back and *)
(* leaves the WaitGroup the dispatcher waits for.  Dry runs and one-step   *)
(* stages run on the caller's goroutine, without the recovery.             *)
(*                                                                         *)
(* Every step is a PromptBundle, as in the two commands that build a       *)
(* Parallel, and yields one result.  The budget PreDispatch closes over    *)
(* (cmd/table.go) is part of the model: `spent` is what BatchCostUSD sums, *)
(* the cost of the rows already finalized.  Money is in whole units.       *)
(***************************************************************************)
EXTENDS Integers, Sequences, FiniteSets

CONSTANTS
  N,            \* number of steps
  Workers,      \* Parallel.Workers; 0 asks for the default
  DryRun,       \* RuntimeEnv.DryRun
  Capped,       \* --max-budget-usd-batch given, so PreDispatch is not nil
  Cap,          \* its value
  Costs,        \* what one agent run may cost
  Yields        \* the Flow states a bundle's own result may have

ASSUME ParallelAssumption ==
  /\ N \in Nat
  /\ Workers \in Nat
  /\ DryRun \in BOOLEAN
  /\ Capped \in BOOLEAN
  /\ Cap \in Nat
  /\ Costs \subseteq Nat
  /\ 0 \in Costs
  /\ Yields \subseteq {"continue", "skip", "error"}

\* There is a most that one run can cost (a float64 has a largest value).
ASSUME CostsBounded == \E c \in Costs : \A d \in Costs : d <= c

VARIABLES
  dpc,          \* where the dispatcher is
  next,         \* the step the loop is at
  worker,       \* worker[s]: where the goroutine of step s is
  slots,        \* tokens in the semaphore channel
  wg,           \* WaitGroup counter
  results,      \* the results slice, in completion order
  spent,        \* cost recorded in the batch's rows
  outcome       \* StageOutcome given to Reporter.StageEnd

vars == <<dpc, next, worker, slots, wg, results, spent, outcome>>

Steps == 1..N
Flows == {"continue", "skip", "error"}
Ways  == {"ran", "panicked", "skipped"}

DispatcherPCs == {"start", "check", "refuse", "acquire", "inline", "wait",
                  "returned", "crashed"}
WorkerPCs == {"idle", "running", "finalized", "panicked", "emitted",
              "released", "exited"}

Entry(s, way, flow) == [step |-> s, way |-> way, flow |-> flow]

Sequential == DryRun \/ N <= 1

SlotCount == IF Workers > 0 THEN Workers ELSE IF N < 5 THEN N ELSE 5

NoOutcome == [succeeded |-> 0, skipped |-> 0, failed |-> 0]

Count(rs, flow) == Cardinality({i \in DOMAIN rs : rs[i].flow = flow})

Tally(rs) == [succeeded |-> Count(rs, "continue"),
              skipped   |-> Count(rs, "skip"),
              failed    |-> Count(rs, "error")]

-----------------------------------------------------------------------------
Init == /\ dpc = "start"
        /\ next = 1
        /\ worker = [s \in Steps |-> "idle"]
        /\ slots = 0
        /\ wg = 0
        /\ results = <<>>
        /\ spent = 0
        /\ outcome = NoOutcome

\* execute: announce the stage, choose how to run it.
StageStart == /\ dpc = "start"
              /\ dpc' = "check"
              /\ UNCHANGED <<next, worker, slots, wg, results, spent, outcome>>

\* The loop is over; runConcurrently goes on to wg.Wait.
LoopEnds == /\ dpc = "check"
            /\ next > N
            /\ dpc' = "wait"
            /\ UNCHANGED <<next, worker, slots, wg, results, spent, outcome>>

\* PreDispatch is nil or says go.  The concurrent path has wg.Add(1) here,
\* before it blocks for a slot; the sequential one calls the step itself.
Admit == /\ dpc = "check"
         /\ next <= N
         /\ ~Capped \/ spent < Cap
         /\ dpc' = IF Sequential THEN "inline" ELSE "acquire"
         /\ wg' = IF Sequential THEN wg ELSE wg + 1
         /\ worker' = IF Sequential THEN [worker EXCEPT ![next] = "running"]
                                    ELSE worker
         /\ UNCHANGED <<next, slots, results, spent, outcome>>

\* PreDispatch fails: the cap is reached, or the cost cannot be read.
StopDispatch == /\ dpc = "check"
                /\ next <= N
                /\ Capped
                /\ dpc' = "refuse"
                /\ UNCHANGED <<next, worker, slots, wg, results, spent, outcome>>

RefuseOnlyCurrent ==
  /\ dpc = "refuse"
  /\ results' = Append(results, Entry(next, "skipped", "skip"))
  /\ next' = next + 1
  /\ dpc' = "check"
  /\ UNCHANGED <<worker, slots, wg, spent, outcome>>

\* One skipped result per remaining step, the current one included.
Refuse ==
  /\ dpc = "refuse"
  /\ IF next <= N
     THEN /\ results' = Append(results, Entry(next, "skipped", "skip"))
          /\ next' = next + 1
          /\ UNCHANGED dpc
     ELSE /\ dpc' = "wait"
          /\ UNCHANGED <<next, results>>
  /\ UNCHANGED <<worker, slots, wg, spent, outcome>>

AcquireUnbounded ==
  /\ dpc = "acquire"
  /\ slots' = slots + 1
  /\ worker' = [worker EXCEPT ![next] = "running"]
  /\ next' = next + 1
  /\ dpc' = "check"
  /\ UNCHANGED <<wg, results, spent, outcome>>

\* `sem <- struct{}{}` goes through and the goroutine starts.
Acquire ==
  /\ dpc = "acquire"
  /\ slots < SlotCount
  /\ slots' = slots + 1
  /\ worker' = [worker EXCEPT ![next] = "running"]
  /\ next' = next + 1
  /\ dpc' = "check"
  /\ UNCHANGED <<wg, results, spent, outcome>>

-----------------------------------------------------------------------------
\* The agent of step s ends and finalizeCall records what it cost; a dry run
\* has no agent.
FinalizeRow(s) ==
  /\ worker[s] = "running"
  /\ \E c \in IF DryRun THEN {0} ELSE Costs : spent' = spent + c
  /\ worker' = [worker EXCEPT ![s] = "finalized"]
  /\ UNCHANGED <<dpc, next, slots, wg, results, outcome>>

\* The goroutine appends what s.execute returned, under the mutex.
Emit(s) ==
  /\ worker[s] = "finalized"
  /\ ~Sequential
  /\ \E f \in Yields : results' = Append(results, Entry(s, "ran", f))
  /\ worker' = [worker EXCEPT ![s] = "emitted"]
  /\ UNCHANGED <<dpc, next, slots, wg, spent, outcome>>

\* A panic leaves s.execute: the deferred calls of the goroutine run.
Panic(s) ==
  /\ worker[s] \in {"running", "finalized"}
  /\ ~Sequential
  /\ worker' = [worker EXCEPT ![s] = "panicked"]
  /\ UNCHANGED <<dpc, next, slots, wg, results, spent, outcome>>

RecoverLosesSlot(s) ==
  /\ worker[s] = "panicked"
  /\ ~Sequential
  /\ results' = Append(results, Entry(s, "panicked", "error"))
  /\ worker' = [worker EXCEPT ![s] = "released"]
  /\ UNCHANGED <<dpc, next, slots, wg, spent, outcome>>

\* The innermost defer recovers and emits the synthetic Error result.
Recover(s) ==
  /\ worker[s] = "panicked"
  /\ ~Sequential
  /\ results' = Append(results, Entry(s, "panicked", "error"))
  /\ worker' = [worker EXCEPT ![s] = "emitted"]
  /\ UNCHANGED <<dpc, next, slots, wg, spent, outcome>>

Release(s) ==
  /\ worker[s] = "emitted"
  /\ slots' = slots - 1
  /\ worker' = [worker EXCEPT ![s] = "released"]
  /\ UNCHANGED <<dpc, next, wg, results, spent, outcome>>

Exit(s) ==
  /\ worker[s] = "released"
  /\ wg' = wg - 1
  /\ worker' = [worker EXCEPT ![s] = "exited"]
  /\ UNCHANGED <<dpc, next, slots, results, spent, outcome>>

\* runSequential: the step returns to the loop.
InlineReturns ==
  /\ dpc = "inline"
  /\ worker[next] = "finalized"
  /\ \E f \in Yields : results' = Append(results, Entry(next, "ran", f))
  /\ worker' = [worker EXCEPT ![next] = "exited"]
  /\ next' = next + 1
  /\ dpc' = "check"
  /\ UNCHANGED <<slots, wg, spent, outcome>>

\* runSequential has no recover of its own: the panic leaves the call.
InlinePanics ==
  /\ dpc = "inline"
  /\ worker' = [worker EXCEPT ![next] = "panicked"]
  /\ dpc' = "crashed"
  /\ UNCHANGED <<next, slots, wg, results, spent, outcome>>

\* wg.Wait falls through; the stage is tallied and reported.
StageEnd ==
  /\ dpc = "wait"
  /\ wg = 0
  /\ outcome' = Tally(results)
  /\ dpc' = "returned"
  /\ UNCHANGED <<next, worker, slots, wg, results, spent>>

\* Not code: the call is over.
Finished == dpc \in {"returned", "crashed"} /\ UNCHANGED vars

Dispatcher == \/ StageStart \/ LoopEnds \/ Admit \/ StopDispatch \/ Refuse
              \/ Acquire \/ InlineReturns \/ InlinePanics \/ StageEnd

WorkerStep(s) == \/ FinalizeRow(s) \/ Emit(s) \/ Panic(s) \/ Recover(s)
                 \/ Release(s) \/ Exit(s)

Next == Dispatcher \/ Finished \/ \E s \in Steps : WorkerStep(s)

\* Goroutines are scheduled fairly; an agent ends because its context has a
\* deadline and the process group is killed WaitDelay after it
\* (internal/agent/cancel.go).
Fairness == WF_vars(Dispatcher) /\ \A s \in Steps : WF_vars(WorkerStep(s))

Spec == Init /\ [][Next]_vars
FairSpec == Spec /\ Fairness

-----------------------------------------------------------------------------
Accounted(s) == \E i \in DOMAIN results : results[i].step = s
Skipped(s) == \E i \in DOMAIN results :
                /\ results[i].step = s
                /\ results[i].way = "skipped"

\* Steps whose goroutine is inside s.execute or has yet to give its slot back.
Holding == {s \in Steps : worker[s] \in {"running", "finalized", "panicked", "emitted"}}
Live == {s \in Steps : worker[s] \notin {"idle", "exited"}}

TypeOK ==
  /\ dpc \in DispatcherPCs
  /\ next \in 1..(N + 1)
  /\ worker \in [Steps -> WorkerPCs]
  /\ slots \in Int
  /\ wg \in Int
  /\ results \in Seq([step : Steps, way : Ways, flow : Flows])
  /\ spent \in Nat
  /\ outcome \in [succeeded : Nat, skipped : Nat, failed : Nat]

\* No more agents run at once than --parallel allows, whatever mix of
\* returns and panics came before (flow.go:895-917; a panic that kept its
\* slot or gave it back twice would show here or in AllSettle).
WorkerBound == ~Sequential => Cardinality(Holding) <= SlotCount

\* No step is reported twice: neither ran and panicked, nor ran and skipped
\* (flow.go:899-916; the counts a command prints are sums over the results).
AccountedOnce ==
  \A i, j \in DOMAIN results : results[i].step = results[j].step => i = j

\* Once a step is refused no later step runs (flow.go:897-904).
SkipsAreFinal == \A s, t \in Steps : Skipped(s) /\ t >= s => worker[t] = "idle"

\* When the call returns every step has its result, and no goroutine is left
\* that could still append one (flow.go:906-920).
CompleteOnReturn ==
  dpc = "returned" => /\ \A s \in Steps : Accounted(s)
                      /\ Live = {}

MaxCost == CHOOSE c \in Costs : \A d \in Costs : d <= c

\* How far a batch can go past its cap: what was in flight, or past the check
\* and waiting for a slot, when the check last passed.
SpendBounded ==
  Capped => spent <= (Cap - 1) + (SlotCount + 1) * MaxCost \/ Cap = 0

\* Every call returns, and no slot is lost on the way (flow.go:906-919).
AllSettle == <>(dpc \in {"returned", "crashed"})

-----------------------------------------------------------------------------
\* The inductive invariant behind the safety properties: what the counters
\* count, and how far the loop is.
CountersInv ==
  /\ slots = IF Sequential THEN 0 ELSE Cardinality(Holding)
  /\ wg = IF Sequential THEN 0
          ELSE Cardinality(Live) + IF dpc = "acquire" THEN 1 ELSE 0
  /\ ~Sequential => slots <= SlotCount

LoopInv ==
  /\ dpc \in {"acquire", "inline", "crashed"} => next <= N
  /\ dpc = "inline" => Sequential /\ worker[next] \in {"running", "finalized"}
  /\ dpc = "crashed" => Sequential /\ worker[next] = "panicked"
  /\ dpc = "acquire" => ~Sequential
  /\ dpc \in {"wait", "returned"} => next = N + 1
  /\ dpc = "returned" => Live = {}
  /\ \A s \in Steps :
       /\ s > next => worker[s] = "idle"
       /\ s = next /\ dpc \notin {"inline", "crashed"} => worker[s] = "idle"
       /\ s < next /\ worker[s] = "idle" => Skipped(s)
       /\ Sequential /\ s # next => worker[s] \in {"idle", "exited"}
       /\ Sequential => worker[s] \notin {"emitted", "released"}

ResultsInv ==
  /\ AccountedOnce
  /\ \A s \in Steps :
       /\ worker[s] \in {"emitted", "released", "exited"} => Accounted(s)
       /\ Accounted(s) => \/ worker[s] \in {"emitted", "released", "exited"}
                          \/ worker[s] = "idle" /\ Skipped(s)
       /\ Skipped(s) => worker[s] = "idle" /\ s < next
                         /\ dpc \in {"refuse", "wait", "returned"}
       /\ dpc \in {"refuse", "wait", "returned"} =>
            \A t \in Steps : Skipped(s) /\ s <= t /\ t < next => Skipped(t)

IInv == TypeOK /\ CountersInv /\ LoopInv /\ ResultsInv

-----------------------------------------------------------------------------
Fate(s) == CASE Skipped(s) -> "refused"
             [] worker[s] \in {"emitted", "released", "exited"} -> "settled"
             [] worker[s] \in {"running", "finalized", "panicked"} -> "started"
             [] OTHER -> "pending"

\* The pool keeps the contract of FanOut.
Contract == INSTANCE FanOut WITH fate <- [s \in Steps |-> Fate(s)],
                                 returned <- (dpc = "returned")
ImplementsFanOut == Contract!Spec
=============================================================================
