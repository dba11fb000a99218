----------------------------- MODULE BundleStage -----------------------------
(***************************************************************************)
(* What a command such as `ateam parallel` or `ateam report` makes of a    *)
(* stage: PromptBundle.execute (internal/flow/flow.go) for every bundle,   *)
(* each with its row in agent_execs, under the live table of               *)
(* cmd/table_reporter.go, whose counts decide how the command ends.        *)
(*                                                                         *)
(* The pool is only its contract, FanOut: FlowParallel shows that          *)
(* flow.Parallel keeps it.  What ExecutePrepared does to the row is what   *)
(* AgentExec shows.  Prompts are resolvable or not; a bundle's result is   *)
(* its Flow state with the Reason the code gives it.                       *)
(***************************************************************************)
EXTENDS Naturals, FiniteSets

CONSTANTS
  N,             \* bundles of the stage
  Label,         \* Label[b]: PromptBundle.Name, a number
  Modes,         \* the ways the command may have been called
  PreFlows,      \* what a PreExec action may return
  PostFlows,     \* what a PostExec action may return
  MayRefuse,     \* PreDispatch may stop the dispatch
  MayPanic,      \* the code under execute may panic
  Unresolvable   \* what Verify may find: a subset of BOOLEAN

Bundles == 1..N

ASSUME BundleStageAssumption ==
  /\ N \in Nat
  /\ Label \in [Bundles -> Nat]
  /\ Modes \subseteq [live : BOOLEAN, dry : BOOLEAN, review : BOOLEAN]
  /\ {MayRefuse, MayPanic} \subseteq BOOLEAN
  /\ {PreFlows, PostFlows} \subseteq SUBSET {"continue", "skip", "error"}
  /\ Unresolvable \subseteq BOOLEAN

VARIABLES
  mode,            \* the table is on a terminal, a dry run, --review
  fate, returned,  \* the pool, as FanOut has it
  phase,           \* phase[b]: where execute is
  verdict,         \* verdict[b]: the Flow of its Result
  row,             \* row[b]: its row in agent_execs
  lost,            \* bundles whose row nobody closed: the write failed
  started, ended,  \* calls of Reporter.BundleStart and BundleEnd for b
  shown,           \* shown[i]: State of row i of the table
  count,           \* the reporter's succeeded, failed and skipped
  cmd              \* where the command is

pool  == <<fate, returned>>
exec  == <<phase, verdict, row>>
calls == <<started, ended>>
table == <<shown, count>>
vars == <<mode, fate, returned, phase, verdict, row, lost, started, ended, shown, count,
          cmd>>

Pool == INSTANCE FanOut
Row(b) == INSTANCE ExecRow WITH row <- row[b]

Phases == {"idle", "pre", "opts", "resolve", "start", "loop", "post", "emit", "over"}
Flows == {"continue", "skip", "error"}
Reasons == {"none", "action", "dry-run", "prepare failed", "render failed",
            "failed early", "agent", "panic"}
Flow(state, reason) == [state |-> state, reason |-> reason]
Undecided == Flow("continue", "none")

\* labelIndex: a later row of the same label overwrites an earlier one.
RowOf(l) == CHOOSE i \in Bundles :
              Label[i] = l /\ \A j \in Bundles : Label[j] = l => j <= i

Init ==
  /\ mode \in Modes
  /\ Pool!Init
  /\ phase = [b \in Bundles |-> "idle"]
  /\ verdict = [b \in Bundles |-> Undecided]
  /\ row = [b \in Bundles |-> "none"]
  /\ lost = {}
  /\ started = [b \in Bundles |-> 0]
  /\ ended = [b \in Bundles |-> 0]
  /\ shown = [i \in Bundles |-> "queued"]
  /\ count = [f \in Flows |-> 0]
  /\ cmd = "verify"

-----------------------------------------------------------------------------
(* PromptBundle.execute. *)

Goto(b, p) == phase' = [phase EXCEPT ![b] = p]
Decide(b, flow) == verdict' = [verdict EXCEPT ![b] = flow] /\ Goto(b, "emit")
SetRow(b, r) == row' = [row EXCEPT ![b] = r]

\* The last write of a row; when it fails the code warns, or says nothing.
CloseRow(b, r) == \/ SetRow(b, r) /\ UNCHANGED lost
                  \/ lost' = lost \cup {b} /\ UNCHANGED row

Show(b, state) == shown' = [shown EXCEPT ![RowOf(Label[b])] = state]

\* The pool calls execute, which announces the bundle.
BundleStart(b) ==
  /\ cmd = "stage"
  /\ Pool!Start(b)
  /\ Goto(b, "pre")
  /\ started' = [started EXCEPT ![b] = @ + 1]
  /\ UNCHANGED <<verdict, row, ended, table, cmd, lost, mode>>

\* The loop over PreExec: the first result that is not continue ends it.
RunPreExec(b) ==
  /\ phase[b] = "pre"
  /\ \E f \in PreFlows \cup {"continue"} :
       IF f = "continue"
       THEN Goto(b, "opts") /\ UNCHANGED verdict
       ELSE Decide(b, Flow(f, "action"))
  /\ UNCHANGED <<pool, row, calls, table, cmd, lost, mode>>

\* A dry run resolves the prompt and stops there.
Preview(b) ==
  /\ phase[b] = "opts"
  /\ mode.dry
  /\ \E f \in {Flow("continue", "dry-run"), Flow("error", "render failed")} : Decide(b, f)
  /\ UNCHANGED <<pool, row, calls, table, cmd, lost, mode>>

Prepare(b) ==
  /\ phase[b] = "opts"
  /\ ~mode.dry
  /\ \/ SetRow(b, "open") /\ Goto(b, "resolve") /\ UNCHANGED verdict
     \/ Decide(b, Flow("error", "prepare failed")) /\ UNCHANGED row
  /\ UNCHANGED <<pool, calls, table, cmd, lost, mode>>

ResolveFailsLeavesRow(b) ==
  /\ phase[b] = "resolve"
  /\ Decide(b, Flow("error", "render failed"))
  /\ UNCHANGED <<pool, row, calls, table, cmd, lost, mode>>

\* resolvePrompt fails: MarkExecFailed closes the row that Prepare opened.
ResolveFails(b) ==
  /\ phase[b] = "resolve"
  /\ CloseRow(b, "failed")
  /\ Decide(b, Flow("error", "render failed"))
  /\ UNCHANGED <<pool, calls, table, cmd, mode>>

\* resolvePrompt succeeds and AgentExecStart is reported; the live table
\* waits for the first event instead.
Resolve(b) ==
  /\ phase[b] = "resolve"
  /\ Goto(b, "start")
  /\ IF mode.live THEN UNCHANGED shown ELSE Show(b, "running")
  /\ UNCHANGED <<pool, verdict, row, calls, count, cmd, lost, mode>>

\* ExecutePrepared returns before the launch; nobody writes the row.
FailEarly(b) ==
  /\ phase[b] = "start"
  /\ Decide(b, Flow("error", "failed early"))
  /\ UNCHANGED <<pool, row, calls, table, cmd, lost, mode>>

Launch(b) ==
  /\ phase[b] = "start"
  /\ Goto(b, "loop")
  /\ UNCHANGED <<pool, verdict, row, calls, table, cmd, lost, mode>>

\* The process start event: SetPID, no progress event.  SetPID may fail, and
\* the run goes on, so a run may end without this step.
RecordPid(b) ==
  /\ phase[b] = "loop"
  /\ row[b] = "open"
  /\ SetRow(b, "live")
  /\ UNCHANGED <<pool, phase, verdict, calls, table, cmd, lost, mode>>

\* A progress event of the run reaches the table; a row whose agent said it
\* was over keeps that state.
AgentEvent(b) ==
  /\ phase[b] = "loop"
  /\ \E s \in {"running", "done", "error"} :
       Show(b, IF shown[RowOf(Label[b])] \in {"done", "error"}
               THEN shown[RowOf(Label[b])] ELSE s)
  /\ UNCHANGED <<pool, exec, calls, count, cmd, lost, mode>>

ExecEndsUnchecked(b) ==
  /\ phase[b] = "loop"
  /\ CloseRow(b, "ok") \/ CloseRow(b, "failed")
  /\ Goto(b, "post")
  /\ UNCHANGED <<pool, verdict, calls, table, cmd, mode>>

\* ExecutePrepared returns what the run came to and UpdateCall wrote, or
\* failed to write, in the row.
ExecEnds(b) ==
  /\ phase[b] = "loop"
  /\ \/ CloseRow(b, "ok") /\ Goto(b, "post") /\ UNCHANGED verdict
     \/ CloseRow(b, "failed") /\ Decide(b, Flow("error", "agent"))
  /\ UNCHANGED <<pool, calls, table, cmd, mode>>

\* The loop over PostExec: all of them run, the first error counts.
RunPostExec(b) ==
  /\ phase[b] = "post"
  /\ \E f \in PostFlows \cup {"continue"} :
       Decide(b, IF f = "error" THEN Flow("error", "action") ELSE verdict[b])
  /\ UNCHANGED <<pool, row, calls, table, cmd, lost, mode>>

RecoverSilently(b) ==
  /\ MayPanic
  /\ phase[b] \in {"pre", "opts", "resolve", "start", "loop", "post"}
  /\ verdict' = [verdict EXCEPT ![b] = Flow("error", "panic")]
  /\ Goto(b, "over")
  /\ UNCHANGED <<pool, row, calls, table, cmd, lost, mode>>

PanicEscapes(b) ==
  /\ MayPanic
  /\ phase[b] \in {"pre", "opts", "resolve", "start", "loop", "post"}
  /\ Goto(b, "idle")
  /\ UNCHANGED <<pool, verdict, row, calls, table, cmd, lost, mode>>

\* A panic below execute: the deferred recover goes to emit.
Panic(b) ==
  /\ MayPanic
  /\ phase[b] \in {"pre", "opts", "resolve", "start", "loop", "post"}
  /\ Decide(b, Flow("error", "panic"))
  /\ UNCHANGED <<pool, row, calls, table, cmd, lost, mode>>

Final(state) == CASE state = "continue" -> "done"
                  [] state = "skip" -> "skipped"
                  [] OTHER -> "error"

EmitKeepsTerminal(b) ==
  /\ phase[b] = "emit"
  /\ ended' = [ended EXCEPT ![b] = @ + 1]
  /\ Show(b, IF shown[RowOf(Label[b])] \in {"done", "error"}
             THEN shown[RowOf(Label[b])] ELSE Final(verdict[b].state))
  /\ count' = [count EXCEPT ![verdict[b].state] = @ + 1]
  /\ Goto(b, "over")
  /\ UNCHANGED <<pool, verdict, row, started, cmd, lost, mode>>

\* emit: BundleEnd moves the table's row to its last state and counts it.
Emit(b) ==
  /\ phase[b] = "emit"
  /\ ended' = [ended EXCEPT ![b] = @ + 1]
  /\ Show(b, Final(verdict[b].state))
  /\ count' = [count EXCEPT ![verdict[b].state] = @ + 1]
  /\ Goto(b, "over")
  /\ UNCHANGED <<pool, verdict, row, started, cmd, lost, mode>>

\* execute returns to the pool.
Return(b) ==
  /\ phase[b] = "over"
  /\ Pool!Settle(b)
  /\ UNCHANGED <<exec, calls, table, cmd, lost, mode>>

-----------------------------------------------------------------------------
(* The stage and the command around it. *)

\* The pool skips a bundle: a Skip result, and no call to execute.
Refuse(b) ==
  /\ cmd = "stage"
  /\ MayRefuse
  /\ Pool!Refuse(b)
  /\ verdict' = [verdict EXCEPT ![b] = Flow("skip", "none")]
  /\ UNCHANGED <<phase, row, calls, table, cmd, lost, mode>>

\* flow.Run: Verify previews every prompt before the stage.  When one cannot
\* be resolved Run returns failedWithVerifyErrors, which both commands drop.
Verify ==
  /\ cmd = "verify"
  /\ \E bad \in Unresolvable : cmd' = IF bad THEN "close" ELSE "stage"
  /\ UNCHANGED <<pool, exec, calls, table, lost, mode>>

\* The pool returns and StageEnd turns the rows still queued to skipped.
StageEnd ==
  /\ cmd = "stage"
  /\ Pool!Return
  /\ cmd' = "close"
  /\ LET late == {i \in Bundles : shown[i] = "queued"}
     IN  /\ shown' = [i \in Bundles |-> IF i \in late THEN "skipped" ELSE shown[i]]
         /\ count' = [count EXCEPT !["skip"] = @ + Cardinality(late)]
  /\ UNCHANGED <<exec, calls, lost, mode>>

CloseIgnoresSkips ==
  /\ cmd = "close"
  /\ cmd' = IF mode.review /\ count["error"] = 0 THEN "review"
            ELSE IF count["error"] > 0 THEN "failed" ELSE "ok"
  /\ UNCHANGED <<pool, exec, calls, table, lost, mode>>

\* tr.Close gives an error when its counts hold a failure or a skip; the
\* automatic review asks for a success besides.
Close ==
  /\ cmd = "close"
  /\ LET clean == count["error"] = 0 /\ count["skip"] = 0
     IN  cmd' = IF mode.review /\ clean /\ count["continue"] > 0 THEN "review"
                ELSE IF clean THEN "ok" ELSE "failed"
  /\ UNCHANGED <<pool, exec, calls, table, lost, mode>>

\* Not code: the command is over.
Finished == cmd \in {"review", "ok", "failed"} /\ UNCHANGED vars

Execute(b) ==
  \/ RunPreExec(b) \/ Preview(b) \/ Prepare(b) \/ ResolveFails(b) \/ Resolve(b)
  \/ FailEarly(b) \/ Launch(b) \/ RecordPid(b) \/ AgentEvent(b) \/ ExecEnds(b)
  \/ RunPostExec(b) \/ Panic(b) \/ Emit(b) \/ Return(b)

Command == Verify \/ StageEnd \/ Close

Next == \/ Command
        \/ Finished
        \/ \E b \in Bundles : BundleStart(b) \/ Refuse(b) \/ Execute(b)

\* The dispatcher and the command's goroutine run on; a bundle's goroutine
\* does, and its agent ends (AgentExec!Ends).
Fairness ==
  /\ WF_vars(Command)
  /\ WF_vars(\E b \in Bundles : BundleStart(b) \/ Refuse(b))
  /\ \A b \in Bundles :
       /\ WF_vars(Execute(b) /\ phase'[b] # phase[b])
       /\ WF_vars(Return(b))

Spec == Init /\ [][Next]_vars
FairSpec == Spec /\ Fairness

-----------------------------------------------------------------------------
Over == cmd \in {"review", "ok", "failed"}
WithVerdict(f) == Cardinality({b \in Bundles : verdict[b].state = f})

TypeOK ==
  /\ mode \in Modes
  /\ fate \in [Bundles -> {"pending", "started", "refused", "settled"}]
  /\ returned \in BOOLEAN
  /\ phase \in [Bundles -> Phases]
  /\ verdict \in [Bundles -> [state : Flows, reason : Reasons]]
  /\ row \in [Bundles -> {"none", "open", "live", "ok", "failed"}]
  /\ lost \in SUBSET Bundles
  /\ started \in [Bundles -> Nat]
  /\ ended \in [Bundles -> Nat]
  /\ shown \in [Bundles -> {"queued", "running", "done", "error", "skipped"}]
  /\ count \in [Flows -> Nat]
  /\ cmd \in {"verify", "stage", "close", "review", "ok", "failed"}

\* "BundleStart is always paired with BundleEnd" (flow.go:625), on every way
\* out of execute, a panic included, and never twice: the per-bundle log is
\* closed and the counts are bumped by BundleEnd.
AlwaysPaired ==
  \A b \in Bundles :
    /\ ended[b] <= started[b] /\ started[b] <= 1
    /\ fate[b] = "settled" => ended[b] = 1
    /\ fate[b] \in {"pending", "refused"} => started[b] = 0

\* The summary line, the table and the results the flow returned are three
\* tallies kept apart (table_reporter.go:143-201, flow.go:979-1008); when the
\* stage is over they say the same, whatever the agents announced on the way
\* and whichever bundles were never dispatched.
TalliesAgree ==
  returned =>
    /\ \A f \in Flows : count[f] = WithVerdict(f)
    /\ \A b \in Bundles : shown[b] = Final(verdict[b].state)

\* A result the flow calls good is one the database knows as a success
\* (flow.go:715-719), unless the last write of its row failed: the review,
\* `ateam cost` and --rerun-failed read the row, the command the result.
GoodIsRecorded ==
  \A b \in Bundles :
    fate[b] = "settled" /\ verdict[b].state = "continue" =>
      row[b] = (IF mode.dry THEN "none" ELSE "ok") \/ b \in lost

\* A bundle that is over leaves its row open only when it panicked, failed
\* before the launch, or could not write it (flow.go:699-707,
\* runner.go:1043-1066): every other row a reader finds open has somebody at
\* work on it.
NoOrphanRow ==
  \A b \in Bundles :
    fate[b] = "settled" /\ row[b] \in {"open", "live"} =>
      verdict[b].reason \in {"panic", "failed early"} \/ b \in lost

\* A command whose stage ran succeeds exactly when every bundle did, and the
\* review is started only then (table_reporter.go:278-288, report.go:418-420).
\* A command whose stage Verify refused succeeds with no bundle started.
ExitTellsAll ==
  Over => IF returned
          THEN cmd = "failed" <=> \E b \in Bundles : verdict[b].state # "continue"
          ELSE cmd = "ok" /\ \A b \in Bundles : started[b] = 0

\* Every row lives as ExecRow says, MarkExecFailed included.
RowsLiveRight == [][\A b \in Bundles : Row(b)!Next \/ row'[b] = row[b]]_row

\* The command ends, whatever its bundles do: a bundle whose goroutine never
\* came back would keep the pool, and so the reporter's StageEnd, waiting.
CommandEnds == <>Over

-----------------------------------------------------------------------------
\* The inductive invariant behind AlwaysPaired, GoodIsRecorded, NoOrphanRow and
\* RowsLiveRight: what holds at each place of execute.
PoolInv(b) ==
  /\ fate[b] \in {"pending", "refused"} =>
       phase[b] = "idle" /\ started[b] = 0 /\ ended[b] = 0 /\ row[b] = "none"
  /\ fate[b] = "pending" => verdict[b] = Undecided
  /\ fate[b] = "started" =>
       /\ phase[b] # "idle" /\ started[b] = 1
       /\ ended[b] = IF phase[b] = "over" THEN 1 ELSE 0
  /\ fate[b] = "settled" => phase[b] = "over" /\ started[b] = 1 /\ ended[b] = 1

PhaseInv(b) ==
  /\ phase[b] \in {"pre", "opts"} => row[b] = "none"
  /\ phase[b] \in {"resolve", "start"} => row[b] = "open" /\ ~mode.dry
  /\ phase[b] = "loop" => row[b] \in {"open", "live"} /\ ~mode.dry
  /\ phase[b] = "post" => (row[b] = "ok" \/ b \in lost) /\ ~mode.dry
  /\ phase[b] \in {"pre", "opts", "resolve", "start", "loop", "post"} =>
       verdict[b] = Undecided
  /\ phase[b] \in {"emit", "over"} =>
       /\ verdict[b].state = "continue" =>
            row[b] = (IF mode.dry THEN "none" ELSE "ok") \/ b \in lost
       /\ row[b] \in {"open", "live"} =>
            verdict[b].reason \in {"panic", "failed early"} \/ b \in lost

IInv == TypeOK /\ \A b \in Bundles : PoolInv(b) /\ PhaseInv(b)

-----------------------------------------------------------------------------
\* table_reporter.go:181-186: a row that was never started makes "the cmd
\* [exit] non-zero".
UnstartedExitsNonZero ==
  cmd \in {"review", "ok"} => \A b \in Bundles : started[b] = 1
=============================================================================
