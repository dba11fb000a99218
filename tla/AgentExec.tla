----------------------------- MODULE AgentExec ------------------------------
(***************************************************************************)
(* One agent run: AgentExecutor.Execute in internal/runner/runner.go       *)
(* against the goroutine of internal/agent/claude.go and codex.go (they    *)
(* have the same control), the agent's process with its stdout pipe, the   *)
(* context of the run, and its row in agent_execs.                         *)
(*                                                                         *)
(* The process prints lines, the scanner of the agent goroutine turns them *)
(* into events on a bounded channel, the event loop of the runner consumes *)
(* them, and finalizeCall judges the run from the last result event, the   *)
(* exit code and the context.  Texts, tokens and tool events are one line  *)
(* "text"; a "huge" line is one above the scanner's buffer.  Descendants   *)
(* of the process may hold its stdout and stderr, but print nothing.       *)
(***************************************************************************)
EXTENDS Naturals, Sequences

CONSTANTS
  HasTimeout,     \* RunOpts.TimeoutMin > 0
  NeedsArtifact,  \* RunOpts.RequireOutputFile
  Lines,          \* kinds of lines the process may print
  MaxLines,       \* bound: lines one process prints
  PipeCap,        \* lines the stdout pipe holds
  ChanCap,        \* events the channel holds
  ParentCancels,  \* how the parent context may be cancelled
  Hosts,          \* FALSE: the command comes from a CmdFactory (docker)
  Holdings,       \* what descendants may hold of "out" and "err"
  Crashes         \* may ateam itself be killed

LineKinds == {"text", "ok", "failed", "huge"}

ASSUME AgentExecAssumption ==
  /\ {HasTimeout, NeedsArtifact, Crashes} \subseteq BOOLEAN
  /\ Lines \subseteq LineKinds
  /\ MaxLines \in Nat
  /\ {PipeCap, ChanCap} \subseteq Nat \ {0}
  /\ ParentCancels \subseteq {"interrupt", "terminate"}
  /\ Hosts \subseteq BOOLEAN
  /\ Holdings \subseteq SUBSET {"out", "err"}

VARIABLES
  rpc,       \* where Execute is
  apc,       \* where the agent goroutine is
  hosted,    \* configureProcessLifecycle applies to the command
  held,      \* the pipes that descendants of the process hold
  signal,    \* how far os/exec went: none, term, kill, or cut (pipes closed)
  proc,      \* the process: unborn, running, writing (in a write), dead
  exit,      \* its exit code; "sig" for a signal
  line,      \* the line a writing process is at
  printed,   \* lines printed so far
  pipe,      \* stdout, not yet scanned
  chan,      \* the event channel
  ctx,       \* "live", or why it is done
  res,       \* resultEv: its kind and exit code
  row,       \* the agent_execs row
  source,    \* RunSummary.ErrorSource; "" for a success
  artifact,  \* the required output file was written
  promoted,  \* runtime files were copied to their canonical place
  said       \* history: the last result line the process printed

runnerVars == <<rpc, res, row, source, promoted>>
agentVars  == <<apc, chan>>
groupVars  == <<hosted, held, signal>>
procVars   == <<proc, exit, line, printed, artifact, said, hosted, held, signal>>
vars == <<rpc, apc, hosted, held, signal, proc, exit, line, printed, pipe, chan, ctx, res, row,
          source, artifact, promoted, said>>

Results == {"ok", "failed"}
Codes == {"0", "1", "sig", "-1"}
ResultsHeld == [kind : Results \cup {"none", "error"}, exit : Codes]
NoResult == [kind |-> "none", exit |-> "0"]
Result(kind) == [kind |-> kind, exit |-> "0"]
ErrorResult(code) == [kind |-> "error", exit |-> code]

\* ErrorSource; "missing_artifact" is the end of a run that is clean but for it.
Sources == {"", "ateam_internal", "ateam_timeout", "parent_terminated",
            "user_canceled", "agent_process", "agent_api", "missing_artifact"}

\* Events: a pid, a text, a result, or an error with its exit code.
Ev(type, code) == [type |-> type, code |-> code]
Events == {Ev("pid", "0"), Ev("text", "0"), Ev("ok", "0"), Ev("failed", "0")}
            \cup {Ev("error", c) : c \in Codes}

Returned == rpc \in {"done", "crashed"}
Room == Len(chan) < ChanCap
Send(ev) == Room /\ chan' = Append(chan, ev)

Init ==
  /\ rpc = "idle" /\ apc = "off"
  /\ hosted \in Hosts /\ held = {} /\ signal = "none"
  /\ proc = "unborn" /\ exit = "0" /\ line = "text" /\ printed = 0
  /\ pipe = <<>> /\ chan = <<>>
  /\ ctx = "live" /\ res = NoResult /\ row = "none" /\ source = ""
  /\ artifact = FALSE /\ promoted = FALSE /\ said = "none"

-----------------------------------------------------------------------------
(* The runner. *)

\* Prepare: the row is inserted before anything else exists.
Prepare ==
  /\ rpc = "idle"
  /\ rpc' = "prepared"
  /\ row' = "open"
  /\ UNCHANGED <<res, source, promoted, agentVars, procVars, pipe, ctx>>

\* No state directory, or the insert fails: there is no row.
PrepareFails ==
  /\ rpc = "idle"
  /\ rpc' = "done"
  /\ source' = "ateam_internal"
  /\ UNCHANGED <<res, row, promoted, agentVars, procVars, pipe, ctx>>

\* failEarly: a directory, the settings file, the request or the container
\* cannot be prepared.  The summary is an error; the row is not written.
FailEarly ==
  /\ rpc = "prepared"
  /\ rpc' = "done"
  /\ source' = "ateam_internal"
  /\ UNCHANGED <<res, row, promoted, agentVars, procVars, pipe, ctx>>

\* runAgent.Run: the goroutine starts, the event loop begins.
Launch ==
  /\ rpc = "prepared"
  /\ rpc' = "loop"
  /\ apc' = "start"
  /\ UNCHANGED <<res, row, source, promoted, chan, procVars, pipe, ctx>>

\* reconcileErrorEvent: an earlier result only inherits the exit code.
Reconcile(prev, code) ==
  IF prev.kind \in Results
  THEN [prev EXCEPT !.exit = IF prev.exit = "0" THEN code ELSE prev.exit]
  ELSE ErrorResult(code)

ReceiveClosesOnResult ==
  /\ rpc = "loop"
  /\ chan # <<>>
  /\ chan' = Tail(chan)
  /\ LET ev == Head(chan) IN
       /\ row' = IF ev.type \in Results THEN ev.type ELSE row
       /\ res' = CASE ev.type \in Results -> Result(ev.type)
                   [] ev.type = "error"   -> Reconcile(res, ev.code)
                   [] OTHER               -> res
  /\ UNCHANGED <<rpc, apc, source, promoted, procVars, pipe, ctx>>

\* The event loop takes one event and processEvent handles it.  When SetPID
\* fails there is a warning, and no pid.  The stall timer only warns, and
\* re-arms itself.
Receive ==
  /\ rpc = "loop"
  /\ chan # <<>>
  /\ chan' = Tail(chan)
  /\ LET ev == Head(chan) IN
       /\ row' \in {row} \cup IF ev.type = "pid" THEN {"live"} ELSE {}
       /\ res' = CASE ev.type \in Results -> Result(ev.type)
                   [] ev.type = "error"   -> Reconcile(res, ev.code)
                   [] OTHER               -> res
  /\ UNCHANGED <<rpc, apc, source, promoted, procVars, pipe, ctx>>

LeaveOnResult ==
  /\ rpc = "loop"
  /\ res.kind \in Results \/ (chan = <<>> /\ apc = "closed")
  /\ rpc' = "ended"
  /\ UNCHANGED <<res, row, source, promoted, agentVars, procVars, pipe, ctx>>

LeaveNeedsResult ==
  /\ rpc = "loop"
  /\ chan = <<>> /\ apc = "closed" /\ res.kind # "none"
  /\ rpc' = "ended"
  /\ UNCHANGED <<res, row, source, promoted, agentVars, procVars, pipe, ctx>>

\* The channel is closed and drained.
LeaveLoop ==
  /\ rpc = "loop"
  /\ chan = <<>> /\ apc = "closed"
  /\ rpc' = "ended"
  /\ UNCHANGED <<res, row, source, promoted, agentVars, procVars, pipe, ctx>>

CleanIgnoresExit == res.kind = "ok"

\* success in finalizeCall, before it looks for the artifact.
Clean == res.kind = "ok" /\ res.exit = "0"

\* Whose doing a failure is by the context that is done, and by the last result.
SourceOfContext(c) ==
  CASE c = "deadline"  -> "ateam_timeout"
    [] c = "terminate" -> "parent_terminated"
    [] c = "interrupt" -> "user_canceled"

SourceOfResult ==
  CASE res.kind = "error"  -> "agent_process"
    [] res.kind = "failed" -> "agent_api"
    [] OTHER               -> "ateam_internal"

SourceFromEventFirst ==
  IF res.kind \in {"error", "failed"} \/ ctx = "live" THEN SourceOfResult
                                                    ELSE SourceOfContext(ctx)

\* classifyFailure: the context is asked first.
FailureSource == IF ctx # "live" THEN SourceOfContext(ctx) ELSE SourceOfResult

\* finalizeCall up to the promotion of the runtime files.
Promote ==
  /\ rpc = "ended"
  /\ rpc' = "closing"
  /\ LET success == Clean /\ (NeedsArtifact => artifact) IN
       /\ promoted' = success
       /\ source' = IF success THEN ""
                    ELSE IF Clean THEN "missing_artifact" ELSE FailureSource
  /\ UNCHANGED <<res, row, agentVars, procVars, pipe, ctx>>

\* UpdateCall closes the row; when it fails there is a warning, and the
\* summary stands.
CloseRow ==
  /\ rpc = "closing"
  /\ rpc' = "done"
  /\ row' \in {row, IF source = "" THEN "ok" ELSE "failed"}
  /\ UNCHANGED <<res, source, promoted, agentVars, procVars, pipe, ctx>>

\* ateam is killed: its goroutines are gone, the process group is not.
Crash ==
  /\ Crashes
  /\ rpc \in {"prepared", "loop", "ended", "closing"}
  /\ rpc' = "crashed"
  /\ apc' = "closed"
  /\ UNCHANGED <<res, row, source, promoted, chan, procVars, pipe, ctx>>

-----------------------------------------------------------------------------
(* The agent goroutine. *)

\* cmd.Start and what precedes it fails; so it does when the context is done.
StartFails ==
  /\ apc = "start"
  /\ Send(Ev("error", "-1"))
  /\ apc' = "closed"
  /\ UNCHANGED <<runnerVars, procVars, pipe, ctx>>

Start ==
  /\ apc = "start"
  /\ proc' = "running"
  /\ apc' = "announce"
  /\ UNCHANGED <<runnerVars, groupVars, exit, line, printed, artifact, said, pipe,
                 chan, ctx>>

\* The event that carries the pid, ahead of anything the process printed.
Announce ==
  /\ apc = "announce"
  /\ Send(Ev("pid", "0"))
  /\ apc' = "scan"
  /\ UNCHANGED <<runnerVars, procVars, pipe, ctx>>

Scan ==
  /\ apc = "scan"
  /\ pipe # <<>> /\ Head(pipe) # "huge"
  /\ Send(Ev(Head(pipe), "0"))
  /\ pipe' = Tail(pipe)
  /\ UNCHANGED <<runnerVars, apc, procVars, ctx>>

\* scanner.Err: nothing reads the pipe any more.
Truncate ==
  /\ apc = "scan"
  /\ pipe # <<>> /\ Head(pipe) = "huge"
  /\ Send(Ev("error", "-1"))
  /\ apc' = "wait"
  /\ UNCHANGED <<runnerVars, procVars, pipe, ctx>>

\* os/exec closed the pipe under the scanner: what is in it is lost.
ScanCut ==
  /\ apc = "scan"
  /\ signal = "cut"
  /\ Send(Ev("error", "-1"))
  /\ apc' = "wait"
  /\ UNCHANGED <<runnerVars, procVars, pipe, ctx>>

\* End of file: every holder of stdout is gone.
ScanEnds ==
  /\ apc = "scan"
  /\ pipe = <<>> /\ proc = "dead" /\ "out" \notin held
  /\ apc' = "wait"
  /\ UNCHANGED <<runnerVars, procVars, pipe, chan, ctx>>

\* cmd.Wait is nil; the channel is closed.  A context that is done makes Wait
\* fail for a process that exits with 0, unless Wait was quicker; so does a
\* holder of stderr, which Wait gives WaitDelay when there is one.
WaitOk ==
  /\ apc = "wait"
  /\ proc = "dead" /\ exit = "0" /\ "err" \notin held
  /\ apc' = "closed"
  /\ UNCHANGED <<runnerVars, procVars, pipe, chan, ctx>>

WaitFails ==
  /\ apc = "wait"
  /\ proc = "dead"
  /\ hosted \/ "err" \notin held
  /\ exit # "0" \/ ctx # "live" \/ "err" \in held
  /\ Send(Ev("error", IF exit = "0" THEN "-1" ELSE exit))
  /\ apc' = "closed"
  /\ UNCHANGED <<runnerVars, procVars, pipe, ctx>>

-----------------------------------------------------------------------------
(* The process and the context: not code of the repository. *)

\* The process starts to write a line, and is held while the pipe is full.
Write(l) ==
  /\ proc = "running" /\ printed < MaxLines
  /\ proc' = "writing"
  /\ line' = l
  /\ printed' = printed + 1
  /\ UNCHANGED <<runnerVars, agentVars, groupVars, exit, artifact, said, pipe, ctx>>

Written ==
  /\ proc = "writing" /\ Len(pipe) < PipeCap
  /\ proc' = "running"
  /\ pipe' = Append(pipe, line)
  /\ said' = IF line \in Results THEN line ELSE said
  /\ UNCHANGED <<runnerVars, agentVars, groupVars, exit, line, printed, artifact, ctx>>

WriteArtifact ==
  /\ proc = "running" /\ ~artifact
  /\ artifact' = TRUE
  /\ UNCHANGED <<runnerVars, agentVars, groupVars, proc, exit, line, printed, said,
                 pipe, ctx>>

Quit(code) ==
  /\ proc = "running"
  /\ proc' = "dead"
  /\ exit' = code
  /\ UNCHANGED <<runnerVars, agentVars, groupVars, line, printed, artifact, said, pipe, ctx>>

\* A subagent or a shell that inherits some of the pipes; and the end of it.
Fork(pipes) ==
  /\ proc = "running" /\ held = {}
  /\ held' = pipes
  /\ UNCHANGED <<runnerVars, agentVars, hosted, signal, proc, exit, line, printed,
                 artifact, said, pipe, ctx>>

Release ==
  /\ held # {}
  /\ held' = {}
  /\ UNCHANGED <<runnerVars, agentVars, hosted, signal, proc, exit, line, printed,
                 artifact, said, pipe, ctx>>

ProcLives == proc \in {"running", "writing"}
Watching == apc \in {"announce", "scan", "wait"}

\* The process dies of a signal, if it is alive; or it goes on.
Dies == /\ proc' = "dead"
        /\ exit' = IF ProcLives THEN "sig" ELSE exit
Survives == UNCHANGED <<proc, exit>>

\* The context is done.  Cancel sends SIGTERM to the group, of which every
\* member may heed it or not; without configureProcessLifecycle os/exec kills the
\* process and does no more.
Terminate ==
  /\ Watching /\ signal = "none" /\ ctx # "live"
  /\ IF hosted THEN /\ signal' = "term"
                    /\ Dies \/ Survives
                    /\ held' \in {held, {}}
               ELSE signal' = "kill" /\ Dies /\ UNCHANGED held
  /\ UNCHANGED <<runnerVars, agentVars, hosted, line, printed, artifact, said, pipe, ctx>>

\* WaitDelay is over: the process alone is killed.  Unless the copying of
\* stderr has ended, all pipes are closed too, the scanner's among them.
KillLeader ==
  /\ Watching /\ signal = "term"
  /\ Dies
  /\ signal' \in (IF "err" \in held THEN {} ELSE {"kill"})
                 \cup (IF ProcLives \/ "err" \in held THEN {"cut"} ELSE {})
  /\ UNCHANGED <<runnerVars, agentVars, hosted, held, line, printed, artifact, said,
                 pipe, ctx>>

Deadline ==
  /\ HasTimeout /\ ctx = "live" /\ rpc \in {"loop", "ended", "closing"}
  /\ ctx' = "deadline"
  /\ UNCHANGED <<runnerVars, agentVars, procVars, pipe>>

Cancel(why) ==
  /\ ctx = "live" /\ ~Returned
  /\ ctx' = why
  /\ UNCHANGED <<runnerVars, agentVars, procVars, pipe>>

\* Not code: the run is over.
Finished == Returned /\ UNCHANGED vars

Runner == Prepare \/ PrepareFails \/ FailEarly \/ Launch \/ Receive \/ LeaveLoop
            \/ Promote \/ CloseRow
Goroutine == StartFails \/ Start \/ Announce \/ Scan \/ Truncate \/ ScanCut
               \/ ScanEnds \/ WaitOk \/ WaitFails
Process == \/ \E l \in Lines : Write(l)
           \/ Written \/ WriteArtifact
           \/ \E code \in {"0", "1"} : Quit(code)
           \/ \E pipes \in Holdings : Fork(pipes)
           \/ Release
Kill == Terminate \/ KillLeader

Next == Runner \/ Goroutine \/ Process \/ Kill \/ Deadline \/ Crash \/ Finished
          \/ \E why \in ParentCancels : Cancel(why)

\* Goroutines are scheduled, timers fire and signals are delivered; what the
\* process and its descendants do is their own affair.
Fairness == /\ WF_vars(Runner) /\ WF_vars(Goroutine) /\ WF_vars(Written)
            /\ WF_vars(Deadline) /\ WF_vars(Kill)

Spec == Init /\ [][Next]_vars
FairSpec == Spec /\ Fairness

-----------------------------------------------------------------------------
\* The row as those who read it take it to live.
Readers == INSTANCE ExecRow

GroupTypeOK ==
  /\ hosted \in BOOLEAN
  /\ held \subseteq {"out", "err"}
  /\ signal \in {"none", "term", "kill", "cut"}

RunTypeOK ==
  /\ rpc \in {"idle", "prepared", "loop", "ended", "closing", "done", "crashed"}
  /\ apc \in {"off", "start", "announce", "scan", "wait", "closed"}
  /\ proc \in {"unborn", "running", "writing", "dead"}
  /\ exit \in {"0", "1", "sig"}
  /\ line \in LineKinds
  /\ printed \in 0..MaxLines
  /\ pipe \in Seq(LineKinds) /\ Len(pipe) <= PipeCap
  /\ chan \in Seq(Events) /\ Len(chan) <= ChanCap
  /\ ctx \in {"live", "deadline", "interrupt", "terminate"}
  /\ res \in ResultsHeld
  /\ row \in {"none", "open", "live", "ok", "failed"}
  /\ source \in Sources
  /\ artifact \in BOOLEAN /\ promoted \in BOOLEAN
  /\ said \in Results \cup {"none"}

TypeOK == GroupTypeOK /\ RunTypeOK

\* A run recorded as a success is one whose process ended by itself with 0,
\* after a last result that was no error, with all of its output read and no
\* descendant left on its pipes (runner.go:979, claude.go:281-304).  The
\* canonical files only ever come from such a run, artifact included, though
\* after a crash or a failed UpdateCall the row does not say so
\* (runner.go:1000-1066).
SuccessIsClean ==
  /\ row = "ok" => proc = "dead" /\ exit = "0" /\ said = "ok" /\ pipe = <<>> /\ held = {}
  /\ promoted => Clean /\ (NeedsArtifact => artifact)
  /\ rpc = "done" /\ row \in Readers!Closed => (promoted <=> row = "ok")

\* Execute does not return before its agent process is gone: the slot and the
\* working tree the next run gets are free of it (runner.go:732-738).
NothingLeftBehind ==
  rpc = "done" => proc \in {"unborn", "dead"} /\ apc \in {"off", "closed"} /\ chan = <<>>

\* Every failed run is blamed on whoever failed it.  What the agent said of its
\* own failure outranks the exit code that follows, unless its output was cut
\* short (runner.go:860-875); and an agent that ateam killed is not blamed for
\* its death, however late the signal came and whatever it had printed
\* (runner.go:1192-1223).
BlamedRightly ==
  rpc = "done" =>
    /\ ctx = "live" /\ said = "failed" /\ pipe = <<>> => source = "agent_api"
    /\ exit = "sig" => source \in {"ateam_timeout", "parent_terminated", "user_canceled"}

\* Whichever writes of the row fail, it is closed once and for all: a late
\* event of the same run never changes a verdict (runner.go:732-772).
ImplementsExecRow == Readers!Spec

\* A descendant that outlived the signals holds what the goroutine waits for:
\* stdout but not stderr, or, of a command of a CmdFactory, either.
Stranded ==
  /\ signal = "kill"
  /\ \/ apc = "scan" /\ "out" \in held
     \/ apc = "wait" /\ "err" \in held /\ ~hosted

\* With a timeout every run ends, whatever the process does, unless such a
\* descendant stays for ever (cancel.go:10-33, claude.go:155).
Ends == <>[]Stranded \/ ((rpc = "loop") ~> Returned)
=============================================================================
