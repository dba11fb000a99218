# ateam in TLA+

A verification development for [ateam](../src/README.md): a Go program that runs coding agents
(claude, codex, codex in a tmux pane) over a project, several at once, keeps a row for every run in
an SQLite table and their files in a state directory, and turns what they did into tables, exit
codes and the input of the next phase.

TLC model-checks the modules on small instances, TLAPS proves theorems about fifteen of them for
every value of the constants: every safety property that a passing run checks of those fifteen, three refinements, and
the lemmas they rest on. `PROJECT.json` lists components, runs, mutants, the source lines of
every definition, findings, hazards and theorems.

Contents: [1 the system](#1-the-system), [2 the modules](#2-the-modules), [3 the runs](#3-the-runs),
[4 bounds](#4-bounds), [5 fairness](#5-fairness), [6 the proofs](#6-the-proofs),
[7 where the code and its docs disagree](#7-where-the-code-and-its-docs-disagree),
[8 what is not modelled](#8-what-is-not-modelled), [9 the plan](#9-the-plan).

## 1 The system

### Components

| component | source | state it keeps | operations | what makes it correct |
|---|---|---|---|---|
| Parallel stages | `internal/flow/flow.go` (Parallel) | dispatcher position, slots, WaitGroup, results | dispatch, refuse, run, panic and recover, tally | every step has one result; never more agents than slots; nothing runs after a refusal; the call returns; the budget is overrun by no more than what was in flight |
| Bundles and the table | `flow.go` (PromptBundle), `cmd/table_reporter.go`, `cmd/pool_status.go` | phase and verdict of a bundle, its row, the counts | pre-actions, prepare, resolve, run, post-actions, panic, BundleStart and BundleEnd, exit status | one end per start; the three tallies agree; good result = row recorded as a success |
| Agent execution | `internal/runner/runner.go`, `internal/agent/{claude,codex,agent,cancel}.go` | row, event channel, last result, process, context | prepare, launch, receive, promote, close; start, scan, wait; kill | success only of a clean exit after a clean result; nothing left running; the blame is right |
| Report rounds and the guard | `cmd/report.go`, `cmd/db.go`, `internal/calldb/queries.go`, `flow/actions` | rows of all commands, processes of the machine | choose roles, check for concurrent runs, insert, record pid, close, rerun the failed ones | two agents on one role only in the window the guard leaves open; a closed row has no agent; a rerun takes what failed |
| codex-tmux: the TUI | `internal/codex/adapter.go`, `internal/tmuxctl` | tmux server, socket, script, the counters of waitIdle | start, wait, dismiss dialogs, send, echo, submit, wait for idle, follow up, capture, kill | a wait does not end while codex works; a success was delivered; nothing is left behind; it returns |
| codex-tmux: the stream | `internal/agent/codex_tmux.go`, `internal/codex/sessionlog*.go` | rollout files, tailer position, `agent.jsonl`, stats | find, verify, tail, translate, stop, join, write the result | the stream has one rollout's records once and in order; it is our rollout; one writer at a time |
| State directory migrations | `internal/migrate/v1_layout.go`, `internal/root/migrate_logs.go` | files of an older layout, rows that name them, a sentinel | move, put aside, copy, clean up; move a row's files, update the row | no text is lost; any interleaving or rerun ends as one pass does; rows find their files |
| Schema of `state.sqlite` | `internal/calldb/calldb.go` (Open, migrate, backfillWorkDir) | tables, columns, rows of older versions | look, create, rename, add columns, backfill | whoever opened it finds it current and whole; no row is lost; nobody is refused for good |
| Pipelines and phases | `cmd/{all,report,review,code,verify,auto_roles}.go`, `prompts.go` (ReviewSelector) | outcome of each phase, report and review files, rows of coding sub-runs | run a phase, skip the rest, check the batch | phases in order, none after a failure; review reads this round's reports; verify follows a clean batch |
| Observers | `internal/runner/tailer.go`, `cmd/{tail,top}.go` | offsets, sources done, rows on the screen | discover, poll, check rows, emit finals, refresh | what was written is shown; a watcher ends when its runs did |
| Prompt assembly | `internal/prompts/**`, `cmd/prompt.go` | none (pure) | anchors, slots, walks, includes, render, list | every framing file once, in its place, from the most specific anchor; every surface shows what is run |
| Configuration | `internal/{root,runtime,config}`, `cmd/{table,exec_bundle,runner_overrides,resolve_env}.go` | none (pure) | discover, load, inherit, choose a profile, override | the nearest word wins in any order of the agents; flags speak last; the same from every directory |
| Resume | `cmd/resume.go` | none; reads rows, `cmd.md`, streams | find the session and its config directory | a session is looked for where it was written |
| Secrets, credentials | `internal/secret`, `cmd/secret.go`, `agent.go`, `container/*.go` (env) | key files, keychain, environment | set, delete, resolve, isolate, launch | one credential, the best there is, the stored one |
| Containers | `internal/container`, `cmd/table.go` (buildContainer) | images, containers, prepare guards, mounts | resolve a name, copy, precheck, build, run | prepared once and before an agent is in it; its files are where it is told |
| RunPool | `internal/runner/pool.go` | as Parallel | as Parallel | the contract of FanOut |
| Reporters | `internal/flow/reporters_*.go`, `cmd/std_redirect.go` | log files, redirected streams | one call per event | events of a bundle go to its log |
| Web, display, set-up | `internal/{web,display}`, `runner/format*.go`, `root/init.go` ... | none, or files written once | render | no behaviour over time |

### How they interact

A command resolves its environment (which runs the layout migration), opens the database (which runs
the log migration), checks for concurrent runs, and hands a stage of bundles to `flow.Run`. The
stage calls `execute` of each bundle in a goroutine; `execute` asks the executor to *prepare* (insert
the row) and to *execute* (start the agent, consume its events, judge the run, close the row). The
executor calls the reporter for the row and for progress, `execute` calls it for the start and the
end of the bundle, the stage for its own. The command reads the results *and* the reporter's counts
to print a summary, to choose its exit code and to decide on the next phase. Other commands,
in other processes, share only the database, the state directory and the process table.

### Where it is hard

- *Interleaving*: workers of a stage, the runner against the agent goroutine and the process, the
  tailer against codex and the agent, two commands on one table or one directory.
- *Check then act*: the guard and the pid, the budget and the slot, a capture of the pane and
  the key that answers it, `Lstat` and `Rename`.
- *Failure halfway*: panics, a kill of ateam or of an agent, a row that was inserted and not closed,
  a file that was moved and not recorded, a tmux server nobody stops.
- *Time*: timeouts against late results, idle detection by polling, batches named by the second.
- *Two records of one fact*: result, row, table and count; stream file and rollout; row and file.

`PROJECT.json` gives the line of each hazard and the properties that stand over it.

## 2 The modules

```
FanOut <---- FlowParallel          ExecRow <---- AgentExec          Chain <---- Campaign
   ^              ^                   ^
   +-- BundleStage -------------------+        RoleRuns   TmuxRun   SessionTail   Watch

set-up:   StateDir   Schema   PromptAssembly   Credentials
          ProjectRoot <== RuntimeConfig <== Resume
                      <== ContainerPrep            (<== is EXTENDS)
```
`<----` is a refinement that is checked. BundleStage is composed with the two abstract
specifications instead of the modules that implement them: the pool is `FanOut` (FlowParallel
shows that `flow.Parallel` keeps it), a row is `ExecRow` (AgentExec shows that the executor does).

- **FanOut**: what a caller of a worker pool may rely on: steps decided in order, a refusal is
  final, each started step settles once, return only when all are settled.
- **FlowParallel**: `Parallel.execute`. `dpc` and `next` are the dispatcher, `worker[s]` the
  goroutine of a step, `slots` the semaphore channel, `wg` the WaitGroup, `results` the slice
  behind the mutex, `spent` what `BatchCostUSD` sums. `Admit` is `PreDispatch` passing and
  `wg.Add`, `Acquire` the send on the semaphore and `go`, `FinalizeRow` the end of the agent, `Emit`
  the append, `Panic` and `Recover` the deferred calls, `Release` and `Exit` the two deferred
  counters. `InlineReturns` and `InlinePanics` are the sequential path of dry runs and one-step stages.
- **ExecRow**: the life of a row of `agent_execs` as its readers take it to be.
- **AgentExec**: one run. `rpc` is `Execute` (prepare, launch, event loop, finalize), `apc` the
  agent goroutine, `proc` the process with its `pipe`, `chan` the event channel, `ctx` the context.
  claude.go and codex.go share this control; the scanner, `cmd.Wait`, SIGTERM to the group (`Terminate`) and
  the end of WaitDelay (`KillLeader`: the process alone, and the pipes if somebody still holds stderr) are steps of
  their own. `held` is what descendants hold of stdout and stderr, `signal` how far os/exec went,
  `hosted` whether `configureProcessLifecycle` applies (a command of a CmdFactory has none). `SetPID` and
  `UpdateCall` may fail. `said` is a history variable.
- **BundleStage**: a stage under the table reporter. `phase[b]` is where `PromptBundle.execute`
  is, `verdict[b]` its Result, `row[b]` its row, `started` and `ended` count reporter calls,
  `shown` and `count` are the table's state, `cmd` is the command around it (Verify, stage, close,
  `--review`, exit code), `lost` the rows whose last write failed.
- **RoleRuns**: several `ateam report` processes on one project. `execs` is the table, `os` the
  process table, `seen` (history) what a command had to see when it passed the guard, `run[i]` where the run of row
  `i` is in its command, `lost` the rows nobody closed. `Close` is the runner writing the row, `Judge` the reporter
  hearing of it later; a kill, a panic or another command may come between. `Unasked` is the guard that is skipped or
  whose query fails.
- **TmuxRun**: `RunTmux` against a codex TUI. `pc` is the driver, the `idle` variables are those
  of `waitIdle`, `look` is what the predicates of adapter.go make of a capture, `tui` what is really
  in the pane. The TUI is external and modelled from what adapter.go expects of it.
- **SessionTail**: `CodexTmuxAgent.run` and `TailSessionLog` over two rollouts that two codex
  processes write in halves of records. Two tests decide on the marker: `sent` is that of `preparePrompt`, which also
  the driver's search goes by, `asked` that of the tailer.
- **StateDir**: both migrations in several commands. The three sources share one target, in the
  order the code tries them: `roles/R/report.md`, `shared/report/R/R.md`,
  `shared/report/R/report.md`, all for `shared/report/R.md`. `stream[r]` is where a row's file is,
  `entry[r]` where the row says it is. Every system call is a step.
- **Schema**: `calldb.Open` in several commands. `db` is the database, `snap[p]` what the
  transaction of a command reads (SQLite refuses its first write when somebody has committed
  since), `updates[p]` the backfill it has listed. `LookOld` and `LookNew` are two queries, `LookAgain`
  the one `migrate` makes before its transaction.
- **Chain**: what a chain of phases promises. **Campaign**: `ateam all` and `report --review`. `pc` is
  the command, `role[r]` a report, `sub[s]` a coding sub-run, which other processes write and which may outlive
  the supervisor. Files are old or new; what each phase reads is recorded when it reads it.
- **Watch**: `ateam tail` (by ids, batch, running; lines or final messages) and `ateam top` over runs they did not start.
  A pass of the tailer is discovery, one poll of every source, one look at the rows, as in its loop.
- **PromptAssembly**: pure operators, one request per behaviour. `AllSections` is `Assemble`, `Trace` and the
  preview are the other walks; a text is the sequence of the files it comes from. A `Wire` is what a surface renders with,
  its variables included: `AssemblerVars` is what all have, `RunVars` and `PreviewVars` what a run or a preview puts in the
  place of `exec.*`, `ReportBundle` adds `args.*`, `WebWire` has no configuration and another directory for git.
- **ProjectRoot**: discovery of `.ateamorg/`, `.ateam/` and the work directory over paths as
  sequences of components. **RuntimeConfig**: levels of `runtime.hcl`, inheritance in map order (one action per agent
  resolved), profile, flags, up to the runner of every command. **Resume**: config directory of a run, and of
  its resume after `runtime.hcl` was edited.
- **Credentials**: `file` and `chain` are the stores, `job` what an `ateam secret` does
  (read, truncate, write: three steps), `run` the launch (look in scopes, look in the environment, isolate, launch).
- **ContainerPrep**: `guard` is the keyed prepare guard with `sync.Once`, `tpc[t]` a
  worker, `inside` what has been done to each container as it is now, `image` what the project's tag names, `ran[t]` the image
  a worker's agent got, `effects` (history) what was done for which guard, `lost` (history) what of it went with a container
  that its owner made anew. The owner may stop, start and recreate containers at any time. Mounts and path translation are operators.

MC modules give instances; `_proofs` modules extend what they are about (`SetUp_proofs` StateDir,
Schema, Credentials and ContainerPrep; `AgentExec_proofs` AgentExec and Watch; `CodexTmux_proofs` TmuxRun and
SessionTail; `RuntimeConfig_proofs` ProjectRoot, RuntimeConfig and Resume). `MCSetUp`, `MCCodexTmux`, `MCAgentExec` and `MCFlowParallel` put parts that
share nothing into one run: the part that is looked at steps, the others rest, and a property says
which part it is about.

Definitions that stand directly before another and change it in one respect (`Refuse` and
`RefuseOnlyCurrent`) are the bugs against which a property is tested: TLC finds the property
violated when the one takes the other's place. They are not part of `Next`.

## 3 The runs

| run | states | shows |
|---|---|---|
| `parallel_pool` | 419 529 | a concurrent stage with panics, skips and a budget, or a dry run: `WorkerBound`, `SpendBounded`, `ImplementsFanOut`, `AllSettle` |
| `exec_full` | 395 507 | one run with every kind of output, descendants on its pipes, timeouts, both signals, writes that fail and a crash: `SuccessIsClean` (with promotion), `NothingLeftBehind`, `BlamedRightly`, `ImplementsExecRow`, `Ends`; two runs under `tail` and `top`: `ShownWhatWasWritten`, `WatchersSettle` |
| `stage_full` | 31 697 | a stage in every mode, which Verify may refuse, with rows that cannot be written: `AlwaysPaired`, `TalliesAgree`, `GoodIsRecorded`, `NoOrphanRow`, `ExitTellsAll`, `CommandEnds` |
| `stage_verify` | violation | a stage that never starts exits with 0 |
| `roles_full` | 3 302 486 | two report commands, the second perhaps a rerun or let past the guard, kills, panics, rows nobody closes, pids that come back: `DoubledOnlyInWindow`, `RerunMatchesVerdicts` |
| `campaign_full` | 636 658 | every kind of `ateam all` and `report --review`: `InputsOfThisRound`, `VerifyAfterCleanBatch`, `ImplementsChain`, `CampaignEnds` |
| `watch_final` | violation | `tail --final-message` exits with 0 although a run errs |
| `codex_full` | 1 580 988 | a codex with dialogs, gaps, lost keys, crashes, cancellation: `IdleIsRest`, `SuccessIsDelivered`, `NothingLeftBehind`; two rollouts, with a marker, with none, and with one the tailer does not look for: `StreamIsRollout`, `OnlyOurSession`; `BothEnd` |
| `tmux_dialog` | violation | the start timeout is not read while a dialog shows |
| `setup_full` | 1 703 250 | an old state directory under two commands: `NothingLost`, `SameAsOnePass`, `StreamFound`; an old database: `OpensWhole`; prompts: `EveryFileInItsPlace`, `SameOnEverySurface`; runners: `SetUpAsSaid`, `ResumesWhereItRan`; credentials: `RightCredential`; containers that come and go: `PreparedBeforeUse` |
| `state_prompts` | violation | archived prompts are destroyed |
| `box_precheck` | violation | a precheck cannot bring the container up |

The deepest properties, one each: `SpendBounded` (how far a batch can pass its cap: what was in
flight, and one step between the check and its slot), `BlamedRightly` (late signals against
late results), `TalliesAgree` (three counts kept by three parties), `DoubledOnlyInWindow` (exactly
how much the guard gives where it is asked), `RerunMatchesVerdicts` (the table read by a rerun against what the command
printed, or will), `IdleIsRest` (idle detection against gaps as long as the code's own comment has them), `StreamIsRollout` (reads between half-written
records), `SameAsOnePass` (every interleaving and every retry of the migration is one pass),
`OpensWhole` (queries outside the transaction they decide about), `InputsOfThisRound` (reports of earlier rounds
in the directory that review reads), `RightCredential` (isolation against a store that changes),
`PreparedBeforeUse` (one guard for workers whose containers have other names and come and go, one tag for images of several Dockerfiles),
`EveryFileInItsPlace` (the two merges of the assembler against an order told from the names alone).

Deadlock is checked where the system does not stop; `roles_full`, `campaign_full`, `setup_full` and
the violations among their modules turn it off, because their commands end and their clocks and restarts are bounded. The other modules end in a step that
changes nothing (`Finished`, `Done`, `Over`).

## 4 Bounds

- FlowParallel: `N` steps and `Workers` slots. `SpendBounded` needs `N >= Workers + 2` to be tight
  (one step before the cap is known, one waiting for a slot); 4 and 2 are the least such.
- AgentExec: `MaxLines` = 2 lines, `PipeCap` = `ChanCap` = 1: both can be full at once, a result may be
  followed by another or by text. Descendants hold stdout, stderr or both (`Holdings`), of a command of either kind (`Hosts`).
- BundleStage: two bundles, every mode and every Flow an action may return, a stage that Verify refuses or not; the counts are
  sums over bundles, and two show every mixture.
- RoleRuns: two commands, two roles, two pids (taken up to renaming), two seconds (`LastTick`), one run at a time in a command
  (`MaxParallel` = 1: that the runs of one command do not disturb one another is FlowParallel's matter), one kill, panic
  or row that nobody closes (`MaxFaults` = 1); a third command could only
  wait for the same window. The second command may rerun the first one's round, or be let past the guard. A process that is not ours
  takes a pid that is on record while some command has yet to ask about it: nobody looks at one later.
- TmuxRun counts time in polls (250 ms): `Gap` = 2 polls of prompt between two tools, the 500 ms of adapter.go:31-34;
  `Work` = 1 poll of busy before a gap; `Lag` = 3 polls before codex reacts to Enter, the most that `Window` = 2 allows. At this
  `Gap` a wait *does* end in the middle of a turn, when two polls fall into one gap: `IdleIsRest` excepts that case and no
  other, and TLC finds it violated when the exception is taken away. `Lag` and `Work` are tight too: with a reaction later than
  `Window` + 1, or no poll of busy, it is violated. They are the hypothesis `Timing` of its theorem, which no longer bounds the gap;
  adapter.go:20-36 argues about the same numbers. One dialog, two rounds of work
  (`MaxRounds`) and one follow-up line (`MaxSteps`).
- SessionTail: five records, each in two halves: one turn with its meta, prompt, text, usage, end.
- StateDir: two commands, one kill (`Crashes`), one restart (`Restarts`), two rows of which either
  may have lost its stream, contents that agree, differ, or find the `.legacy` place taken.
  One device or two, with a target of every kind. Money (`Costs`, `Cap`) is in whole units.
- Schema: two commands, one kill, one restart, three rows (`MaxRows`): two from before and one inserted, of agents that
  worked in two directories (`WorkDirs`). `pid` stands
  for eight columns that are added alike, `peak` for the two that `CREATE TABLE` lacks.
- Campaign: two roles, each on, off or unlisted, with old files or none; two coding sub-runs.
- Watch: two runs, one of a tool and a result, one of a result; four observers.
- PromptAssembly: three anchors (one more for an external prompt), files of every kind of name, include depth 2; one
  variable to a body, of one of nine kinds (`Keys`): of those of a namespace one stands for all that every surface treats alike.
- RuntimeConfig: three projects of which two are nested, one tree with an organisation inside a project, lines of agents with a
  chain, a cycle and an unknown base, two levels of files. The edits of Resume are: none, all agents gone, another `config_dir` for all.
- The two commands of `StateDir`, `Schema` and `Credentials` are alike, and their states are taken up to a
  renaming of the commands (`Alike`); these parts have safety properties only.
- Credentials: two alternatives (more would only lengthen one loop), two `ateam secret`, of five kinds of job.
- ContainerPrep: two roles, one of which may have a runner of its own; one container, two of which one's name is part of the
  other's, or one for each role; their owner may stop, start or recreate each at any time. Binary, precheck and script come in the
  combinations of `Supplied` and `Scripted`, which have each work of a guard present and absent.

## 5 Fairness

Goroutines are scheduled, timers fire, signals are delivered: `WF` on the dispatcher, the workers, the
runner, the agent goroutine, the driver of tmux, the tailer. Nobody assumes that an agent
process ends by itself or that codex finishes a turn. Hence

- `AgentExec!Ends` is stated for `HasTimeout = TRUE`. Without one, a process that prints a line
  above the scanner's 1 MiB buffer may stay blocked on a pipe that nobody reads. No descendant is assumed to give up
  a pipe: `Ends` excepts the runs that are `Stranded` for ever (section 7).
- FlowParallel and BundleStage assume that a started step returns; AgentExec is where that is shown.
- TmuxRun's `ObligingSpec` adds that codex leaves a dialog that was answered. `tmux_dialog` is
  what happens otherwise.
- Campaign: the command and the reports it started go on; sub-runs of the supervisor need not.
- Watch: the poll loop and the refresh of top; `SF` on polling and on checking rows, since a signal or a
  query that fails may come between two of them but not always. Runs need not end: `WatchersSettle`
  is about those that did.
- `BothEnd` in `codex_full` is TmuxRun's end under `ObligingSpec` and the tailer's under its own fairness.
- `StateDir`, `RoleRuns`, and the other parts of `setup_full` have safety properties only: users start commands when they like.

## 6 The proofs

Every constant is arbitrary within the named assumption of its module. None of the safety properties
is inductive by itself; each component has an inductive invariant, a conjunction of named parts, of
which TLC checked every part on the run's instance before it was proved, one lemma per action (or per
group of actions that disturb the same parts), and a theorem `Invariant` (`SchemaInvariant`) from which
the properties follow. The argument of each:

*FlowParallel.* `WorkerBound` speaks of goroutines while the code counts tokens. `CountersInv` ties them
(tokens are the workers that hold one, the WaitGroup is the goroutines plus the one being admitted), `LoopInv`
says what the position of the loop means for each worker, `ResultsInv` which workers have a result and that
refusals are a suffix. From it `TypeCorrect`, `WorkerBoundHolds`, `AccountedOnceHolds`, `SkipsAreFinalHolds`,
`CompleteOnReturnHolds`. `Refinement` maps worker states to the fates of FanOut: every step is a step of FanOut or a stutter.
`SpendBoundedHolds` rests on one more invariant, `Budget`: what is spent and what is to come (one cost for every agent that runs
and for the step between its check and its slot) stay within the limit; `ToCome` grows only in `Admit`, where the cap was
just checked, and then there are at most `Workers` agents and that step. It needs `CostsBounded`: there is a most that one agent can cost.

*BundleStage.* `PoolInv` relates the pool's fate of a bundle to its phase and its reporter calls,
`PhaseInv` gives row and verdict at every place of `execute`. From it `AlwaysPairedHolds`,
`GoodIsRecordedHolds`, `NoOrphanRowHolds`; `RowsLiveRightHolds` is an action property: every step
moves at most one row, as ExecRow allows. `TalliesAgreeHolds` and `ExitTellsAllHolds` rest on `TallyInv`: until the stage ends each count is the
number of bundles that reported that flow (`CountsInv`), a row shows what became of its bundle (`RowInv`), and what is left in
the queue at the end is what was refused. `ExitTellsAll` has two cases, for a stage that ran and for one that Verify refused. They assume `OneRowEach`, that no two bundles share a label: without it they are false
(pool_status.go:42, section 7). The hypothesis is met by the commands that make one bundle per role.

*AgentExec.* Four parties share a run. `Said` locates the last result line the process printed (in the
pipe, else in the channel, else in the event loop); `ErrorsLast` and `CleanOrTold` say that the goroutine
closes the channel at a clean end, with nobody left on the pipes, or with an error in it, after which nothing comes; `Life` that only a context that is done gets a
process killed; `RowKept` that the row is open or live until
it is closed, whichever writes fail; `Judged` what
`finalizeCall` concluded and how much of that a later cancellation changes. Then `SuccessIsCleanHolds`,
`NothingLeftBehindHolds`, `BlamedRightlyHolds`, and `ImplementsExecRowHolds`: every step of the run is a
step of ExecRow or leaves the row alone.

*RoleRuns.* `RowLife` (a row has an agent only while its run is under way, or broke; one, and none but the pid on
record), `RowOwned` (no command gives a role two rows), `SeenGone`: a row that had a pid when the guard let a
command pass and shares a role with it had no agent then and gets none. That one is
the contrapositive of `DoubledOnlyInWindowHolds`; of a command that was let pass unasked it says nothing. `RerunMatchesVerdictsHolds`,
an action property, follows from `Agreed`: of a run that came back and whose row was written, row and outcome agree from `Close` on, and the
terminal with both once the reporter was told.

*Campaign.* `Chart` gives the steps of each phase, `Rounded` that the idle roles are those not selected, `Renewed`
that a new report is that of a role whose run wrote it, `Settled` that no role of the round is unsettled past it.
Then `InputsOfThisRoundHolds`, `VerifyAfterCleanBatchHolds` and the refinement `ImplementsChainHolds`. The attempt to prove
the first without a bound on the roles found a case the instance did not have: `--roles all,a` (section 7). The instance has it now, and
the property says what holds of it.

*TmuxRun* (in CodexTmux_proofs). `Run`, `Kept` and `Sent` carry `SuccessIsDeliveredHolds` and `NothingLeftBehindHolds`.
`IdleIsRestHolds` assumes `Timing` (section 4) and rests on `Counting`: how far the counters of `waitIdle` can be while codex
owes a reaction, works, or shows a prompt between two tools, in terms of the polls that state has lasted. While codex owes or works they stay below
`Matches`; in a gap they are no more than the polls the gap has lasted, so a wait that ends there has seen it `Matches` = 2 times.
With polls of 250 ms and `Window` = 2 the hypothesis reads: a turn begins within 750 ms of Enter, and shows busy for one poll. A gap may be of any length.

*SessionTail* (in CodexTmux_proofs). `Translating` gives the number `n` of records the tailer has taken: it has read `2n` halves and perhaps one more
(`Took(n)`), and the file is `tmux.start`, the lines of these records in order, and then only lines of the agent itself
(`Wrote(n)`). `Rank(n)`, the number of lines of the first `n` records, is a cardinality; `RankStep` is the lemma about it.
`OnlyOurs` says that nothing but our rollout is ever opened by a tailer that looks for the marker, nor found where it was sent and is on file. Then `StreamIsRolloutHolds` and
`OnlyOurSessionHolds`, for any non-empty `Records` (`RecordsAssumption`: codex begins a rollout with its meta record).

*StateDir* (in SetUp_proofs). `StillSo(c)`: what a command has found out still holds when it acts on it, *or the
source it looked at is gone*, in which case its next call fails or does nothing; that disjunction is what makes the
races of check and rename harmless. `PassBegun`: each source is as it began or as one pass would leave it.
`Passed(c)`: what a command has left behind it is in that state for good. Then `NothingLostHolds`, `SameAsOnePassHolds`.
For the logs, `Ahead`: a row to be moved is on the list of everyone who moves rows, and ahead of it; then `StreamFoundHolds`.

*Schema* (in SetUp_proofs). `Opening(p)` has what the place of a command says of the database whatever
others do (the database goes one way: `Onward`), and `Alone(p)` what it says as long as nobody else commits: what it has seen is so, and
the version its transaction reads is the current one. A commit by one command keeps the first and cancels the
second for all others (`Bystander`). `OpensWholeHolds` says with the first that a database that was opened is current and whole,
with the second that a refusal needs another commit. `DatabasesAssumption`: table and column have one name at a
time, since each renaming is one transaction.

*Watch* (in AgentExec_proofs). `InStep`: a reader is within what is written, keeps a first half exactly when it stopped in
the middle of a line, and has seen the lines before that. `Frozen`: a stream whose row is closed has no writer any more, so that a
source that was read to the end when its row was closed is at the end for good (`TailTrue`, `TopTrue`). Then
`ShownWhatWasWrittenHolds`, for any number of runs and any streams.

*Credentials* (in SetUp_proofs). `CredentialsInv` has three parties. A writer can do what it is about (`Able`). Of the stores: no
key is in a file twice if none was to begin with (`AllTidy`), and with nobody at work and nobody killed (`clean`) what was written last is
what is read (`Stored`). Of the run: what it knows of each name it has asked about is so, whatever happens meanwhile to the
places it is past (`FoundSoFar`), and with nobody at work it is what there is (`FindsWhatIs`). Then `RightCredentialHolds`, for any
list of alternatives, any requirement and any files. `TidyFound` is a hypothesis of one of its parts, and has to be: of two lines with one key `Set` changes the
first and `Get` reads the last. `CredentialsAssumption` says what kind of values the stores hold. `WithSetDoes` and `WithDeleteDoes`
say what the two edits do to a file of any length.

*ContainerPrep* (in SetUp_proofs). `BoxInv`: who works under a guard is the one that took it and does what has not been
done (`AtGuard`); a guard that says "ok" has everything done that the runner of its key needs; what was done was done under a
guard that was taken; what was done is in the container or went with one that was made anew (`LeftInv`), and the image is that of the last
build. `PreparedOnce` and `ImageOfABuild` follow from it. `SeesItsFiles` is about paths alone, and does not depend on the steps: `TranslateIs` says that a path
is below a root of the container or left as it is, `RootOver` that a mount below one root is over nothing below the other,
`MountOver` that whatever is mounted over a path has at that place the file the path means, and so the innermost mount has it
(`BehindRoot`), however project, organisation and repository are nested. `ContainerAssumption`: paths are finite
sequences of names, a work directory is in its repository (`TopLevel` of ProjectRoot). The proof showed
what the instance could not: with a directory that is called "..something" on the way, `relativeUnder` (docker.go:292-301, a test on the first two letters)
takes what is below the mount for something above it, and the property is false. It says `Plain` of its paths now. Together `PreparedBeforeUseHolds`.

*RuntimeConfig* and *Resume* (in RuntimeConfig_proofs). The agents come in the order of a map, so nothing may depend on it.
`RuntimeInv` says what the depth-first search keeps in every order. `UnderWay`: the names on the path are different, not yet resolved, and
each is the base of the one before. `AsWritten`: what is not resolved is as the files have it, and no agent's base changes. `Memo`: the line of a
resolved agent ends within as many steps as there are resolved names, and the agent says of each field what the nearest of its line
says. The bound is what makes `Grounded` follow for all lines once all names are resolved, since `Lineage` goes no further than there are agents.
A cycle, or a name that is nowhere, is a line that does not end: the path reaches it again (`DescendKeeps`). From this `InheritsFromNearest`.
`FlagsSpeakLast` follows from what each flag makes the answer silent about (`ConfigurationIsSilent`, `RoleIsSilent`).
`SameFromEverywhere` is about paths alone: `FoundIs` says that what is found has none of its name above it, `FoundAgain` that it is found again from its
own directory, `SameOrganisation` that two directories of a project share every `.ateamorg` above it, and `AlikeEverywhere` puts them together, for any tree.
Then `SetUpAsSaidHolds`. `ResumesWhereItRanHolds` rests on `AgentTold` (the profile of a row names one agent) and on
`SpecifiedIs` (what cmd.md keeps is where the run was). `CommandsAssumption` gives the shape of a command and of the files; its two parts
that are more than shape are that `"a:"` before a name can be taken off again and that no project is in the root directory of the file system (section 8).
Three cases came out of this proof that the instance did not have: an organisation inside a project, which the property now excepts and the
instance has (`Divided`), a profile whose name begins with `a:`, and an agent without a name (section 7).

*Data of any length.* The induction theorems of the library take an operator as a parameter, which these provers cannot instantiate.
Where a proof needs an induction over data (`WithDeleteDoes`, `CleanIs`, the longest common prefix, the innermost mount), it
takes the set of the numbers for which a statement holds and applies the least-element principle (`LeastElement`, `Induct`,
`GreatestElement`, `GreatestOf`; the steps of a line and the components of a path too), which follows from the library's theorem that `<` is well-founded.

Typing is proved for AgentExec, Campaign, TmuxRun, SessionTail, StateDir (`Typed`), FlowParallel (`TypeCorrect`), and inside the
invariants of the others.

Proving changed the model in a few places, none of them its meaning: sets of records instead of
operators that a prover cannot type, CASE with disjoint arms in RuntimeConfig, the least
index instead of a recursion in SessionTail, `Append` for an inserted row in Schema, a recursive function instead of a fold
in the `Clean` of ContainerPrep, the last of several files instead of a fold in RuntimeConfig. Credentials and ContainerPrep renamed what StateDir and Schema also define, so that one module extends all four; RuntimeConfig likewise for MCSetUp.

Model-checked only:

- for good, liveness (`AllSettle`, `CommandEnds`, `Ends`, `BothEnd`, `CampaignEnds`, `WatchersSettle`): the
  prover has no ENABLED and no fairness;
- `EveryFileInItsPlace`, `SameOnEverySurface`: the assembler's merge of three sorted directory walks is compared with an order told
  from the names alone, on bounded inputs. A proof would be an induction over sorted sequences and nested includes, whose sorting
  (`SetToSortSeq` of the library) is a CHOOSE over permutations and whose text is a `FlattenSeq` over folds, both opaque to the provers.

No module declares a RECURSIVE operator.

## 7 Where the code and its docs disagree

With a run:

1. `stage_verify` (`UnstartedExitsNonZero`): `flow.Run` returns before any reporter call when Verify
   finds an unresolvable prompt; the exit code comes from the reporter alone and is 0.
2. `tmux_dialog` (`Ends`): `waitReady` skips its deadline on every poll that answered a dialog.
3. `state_prompts` (`PromptsKept`): the layout migration removes `history/` before the log
   migration looks there for the prompts that it promises to move or to leave.
4. `watch_final` (`ExitTellsErrors`): `tail --final-message` reports a source at its result line, when the row may be open
   still, and the error that the row has later is never looked at.
5. `box_precheck` (`PrecheckBringsItUp`): docker-exec looks the container up before the precheck that is to start it.

Met while modelling, without a run:

- calldb.go:20 says a NULL `ended_at` means running or crashed; a run that fails before the launch
  leaves its row open too (`failEarly`), and so does an `UpdateCall` or a `MarkExecFailed` that fails. `NoOrphanRow` and RoleRuns have it.
- `SetPID` and `UpdateCall` only warn when they fail (runner.go:668-670, 1064-1066): a row may close as a success and never have had a pid,
  so that no guard ever saw its agent, or stay open when the command says that the run succeeded. ExecRow allows the first,
  and SuccessIsClean, GoodIsRecorded and RoleRuns (`lost`) have the second. `--rerun-failed` does not take a row that is open, whatever
  its command said of it.
- cancel.go:17-20 and 30-33 say that WaitDelay bounds how long pipes that subagents inherit hold `cmd.Wait`. The scanner reads stdout to
  its end before `cmd.Wait` is called (claude.go:155 and 285; codex.go likewise): a descendant that ignores SIGTERM and holds stdout keeps
  the run past its timeout, unless stderr is held as well, when os/exec closes both. A command of a CmdFactory has
  neither the group's SIGTERM nor a WaitDelay. `Ends` excepts just these (`Stranded`). And a process that exits with 0
  after a good result is a failed run when a descendant holds stderr for longer than WaitDelay.
- db.go:70-71 and actions.go:27 speak of one agent per role; the guard checks pids that other commands have yet to
  record. The guard of `ateam report` lets the command pass when its query fails (db.go:77-79), and `--force` skips it (report.go:297);
  actions.go:70-75, which says that it mirrors it, refuses. `DoubledOnlyInWindow` says exactly when two may run.
- A panic after `UpdateCall` leaves a row that is a success and a table that shows a failure: `--rerun-failed` does not take that role.
  `RerunMatchesVerdicts` is of runs that came back.
- COMMANDS.md:136 on the batch budget reads as if the cap stopped the batch; steps in flight and the one
  past the check still run (`SpendBounded` says how much).
- COMMANDS.md:138: `--rerun-failed` goes by `is_error` alone, so a role without a verdict is not rerun.
- pool_status.go:42: two bundles with one label share a row of the table. The other row stays queued and
  `StageEnd` counts it as skipped, which table_reporter.go:181 reserves for rows that were never
  started: the command fails although every bundle succeeded. `stage_full` has distinct labels.
- adapter.go:764: a slash command that codex never took counts as run when the pane has any line
  below the banner. `SuccessIsDelivered` is what does hold. A codex that exits in the middle of a turn is
  a success as well (adapter.go:867: only `waitReady` looks for the exit marker).
- adapter.go:31-34 asks for two matches in a row because codex shows a prompt for "~500ms" between two tools; at 250 ms a poll that is two
  polls, and a wait may end in the middle of a turn: a follow-up key goes into it, or the kill cuts it short. `IdleIsRest`
  excepts just this.
- A prompt whose first line is blank and whose second begins with "/" is sent with a marker (adapter.go:177-204), which the driver looks for
  and the tailer does not (codex_tmux.go:174, under a comment that says they go together): its stream may be another run's, and
  so may the session that is resumed. `OnlyOurSession` excepts just this.
- v1_layout.go:7 "picks up where it left off" does not hold for a copy to another device that was cut short:
  the half stays the target and the source is put aside. `SameAsOnePass` leaves that case
  out, `NothingLost` does not.
- migrate_logs.go:126-149: a crash, or a refused update, between the rename and `UpdateStreamFile`
  leaves a row whose stream is never found again; a refused rename leaves one that names a file that is not
  there. `StreamFound` excepts just these (`hurt`).

Phases and observers:

- prompts.go:299-300 says the default of an unlisted role is that of config.go, whose `IsRoleEnabled` (config.go:142-145)
  it then restates differently; COMMANDS.md:153 does not mention unlisted roles. `--roles all` is a
  role name for review and run-all.
- `report --roles all,a` runs the enabled roles, since `ResolveRoleList` (embed.go:173-189) expands as soon as it meets `all`; the
  review of that round takes the names as they stand (prompts.go:268-280), and so reads an old report of `a` when `a` is disabled
  and passes by what the others wrote. `InputsOfThisRound` excepts just these.
- `report --auto-roles --review` with nothing to do (report.go:404-414) reviews the old reports; a review supervisor that
  ends without a file leaves the old `review.md` for code. `InputsOfThisRound` excepts just these.
- exec.go:283 exits with the code of the agent, which may be 0 after an error; table.go:64 says that an `ExitError` is non-zero.
- `ateam tail ID` never asks whether its rows ended (tailer.go:96, tail.go:36); a row that top showed as canceled stays so; a
  final message whose query fails is not tried again.

Prompts:

- A file that several anchors have stands where the most general one has it (assembler.go:133-135), and where the most
  specific one has it according to the comment on the type (assembler.go:94-96). `ValidateRoleName` (validate.go:15)
  has no caller: a role with an inner `.pre.` is a fragment as well. Included files keep their frontmatter (template.go:337).
- `ateam prompt --no-project-info` fails with "unknown dynamic" (cmd/prompt.go:67) and is ignored for the supervisor's prompts;
  `ateam prompt @PATH` says that it mirrors `ateam exec @PATH` (cmd/prompt.go:42-45) and differs from it in its project info when the label
  does, and in `prompt.*`, which is "exec" in the one (exec_bundle.go:147) and the file in the other (cmd/prompt.go:177,207).
- Surfaces have different variables. The web page renders without a configuration and a work directory (handlers.go:485-490):
  `roles.enabled` and `git.repo` are empty there, the other `git.*` those of the directory of the server; `args.*` is an unknown key (only
  report_factory.go:68-74 fills it), for which the page shows nothing of the prompt (handlers.go:539-543, template.go:122-125); `exec.*`
  stand as they are written, also those that a run refuses (resolve.go:204-231 against runtime.go:258-264), and dynamics too. A
  preview shows a sentinel for `exec.*` except for a batch it was given. `SameOnEverySurface` says where they do agree.

Configuration, credentials, containers, resume, schema:

- A profile may have the name of an agent inside a project (table.go:120-128) and not without one (table.go:368-403). CONFIG.md:153:
  `supervisor.default_profile` is used for report and exec as well. `code_profile` does not reach the sub-runs (code.go:164).
- A name in `docker_container` beats the stored one (ISOLATION.md:164; table.go:214). A container without a type panics
  (table.go:184). `a_/b` and `a/_b` have one project id (projectid.go:25). `--project` takes the organisation above
  the project, discovery the one above the current directory; with an `.ateamorg` inside a project they differ, and so do two
  directories of that project. `SameFromEverywhere` excepts just these (`NoOrgBelow`).
- ISOLATION.md:329-341: runs without a project never isolate credentials, and names that `[container-extra]` or an agent's
  `env` sets survive isolation. An empty value counts as found. `Set` changes the first of two equal keys, `Get` reads
  the last. Two `ateam secret` at a time may undo one another; one that is killed leaves an empty file.
- ISOLATION.md:100 mounts the source `ro` for report and review; `setSourceWritable` (table.go:1023) is called for every
  command. Prechecks and copies are said to happen before each exec (ISOLATION.md:187,469) and happen once per name
  and pool, and again for a role with a runner of its own while others are in the container. One image tag stands for all
  Dockerfiles of a project (table.go:550-569): the agent of a role may run in an image that another runner built since. A container
  that its owner makes anew after the guard said "ok" is entered without its copy and precheck (docker_exec.go:287-290).
  `PreparedBeforeUse` excepts just these. With `--work-dir` in a nested repository `.ateam/` is outside the mount. A
  panic of a guard's function leaves no error for those who wait, and who waits cannot be cancelled.
- Resume without `cmd.md` leaves `{{ROLE}}` in `config_dir` (resume.go:489-505 says "Match runner.buildRequest"), does not
  read an agent's own `CLAUDE_CONFIG_DIR`, and an agent that unsets it is resumed with the shell's.
  A profile called `a:NAME` is taken for a run by `--agent`, and one whose agent is called `""` for one without (resume.go:478-488).
  `ResumesWhereItRan` excepts just these (`ToldApart`).
- An `Open` that races a migration, or another first `Open`, may be refused and must be tried again. A kill between `CREATE TABLE` and its indexes
  leaves them missing. An older ateam that creates `agent_calls` after the migration makes every `Open` fail
  (not among the databases of the model).

## 8 What is not modelled

Within modelled components: what descendants of an agent print; whether codex survives the end of its tmux session
(adapter.go:292-295 says it may); other ateam commands that build the same image tag, or prepare the same container, at a time; panics of reporters
inside `BundleEnd`; token accounting, templates and the settings file of a run; the arguments of codex and the
trace file; prices, directories by date and compressed rollouts; directory moves, junk files and the
smaller log files of a migration; roles dropped because their prompt does not preview
(report.go); labels that two bundles share. In the newer modules: the text of prompts and messages, HCL and
TOML syntax, symbolic links, a project at the root of the file system, docker's build contexts, the OAuth copies of `agent_config.go`, the columns of top. `RuntimeEnv.DryRun` of flow is reached by library callers only. RoleRuns lets time and
pid reuse happen only where somebody can see them.

Components not modelled: the web server and the display code
(they read and render), set-up commands (files written once, before anything runs), the reporters that format events
which BundleStage has as calls, RunPool beyond its contract (only its tests call it).

## 9 The plan

The modules of the plan are written, and the safety properties of fifteen of them are proved. What is left:

1. the references of PromptAssembly (`EveryFileInItsPlace`, `SameOnEverySurface`) for any files: an induction over the
   anchors and over the sorted names of a directory;
2. labels that two bundles share, in the table (section 7), if ateam comes to allow them.

`TypeOK` of AgentExec, RoleRuns, SessionTail (`StreamTypeOK`), StateDir and Schema (`SchemaTypeOK`) is stated for the proofs and in no run.
