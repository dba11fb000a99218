-------------------------- MODULE AgentExec_proofs --------------------------
(***************************************************************************)
(* Proofs about AgentExec, for every capacity of the pipe and the channel, *)
(* every number of lines and every way a run may be cut: a success is a    *)
(* clean end, nothing is left behind, whoever failed is blamed, and the    *)
(* row lives as ExecRow says.  And about Watch, for any runs and streams:  *)
(* those who watch a run are shown what it wrote, all of it in the end.    *)
(***************************************************************************)
EXTENDS AgentExec, Watch, SequenceTheorems, TLAPS

-----------------------------------------------------------------------------
(* The inductive invariant, one part per question. *)

\* Where the goroutine can be while Execute is at a given place.
Places ==
  /\ rpc \in {"idle", "prepared"} => apc = "off" /\ chan = <<>>
  /\ rpc = "loop" => apc # "off"
  /\ rpc \in {"ended", "closing"} => apc = "closed" /\ chan = <<>>
  /\ rpc = "crashed" => apc = "closed"
  /\ rpc = "done" => apc \in {"off", "closed"} /\ chan = <<>>

\* What has become of the process: none before it is started, and only a dead
\* one once the goroutine closed the channel by itself.  Only a context that
\* is done gets a process killed.
Life ==
  /\ apc \in {"off", "start"} => proc = "unborn"
  /\ proc = "unborn" => exit = "0"
  /\ apc = "closed" /\ rpc # "crashed" => proc \in {"unborn", "dead"}
  /\ exit = "sig" => proc = "dead" /\ ctx # "live"
  /\ signal # "none" => ctx # "live"

\* The last result line the process printed is the last one in the pipe, else
\* the last one in the channel, else the one the event loop holds.
SilentPipe == \A i \in 1..Len(pipe) : pipe[i] \notin Results
SilentChan == \A i \in 1..Len(chan) : chan[i].type \notin Results
LastInPipe == \E i \in 1..Len(pipe) :
                /\ pipe[i] = said /\ said \in Results
                /\ \A j \in 1..Len(pipe) : j > i => pipe[j] \notin Results
LastInChan == \E i \in 1..Len(chan) :
                /\ chan[i].type = said /\ said \in Results
                /\ \A j \in 1..Len(chan) : j > i => chan[j].type \notin Results
Said ==
  \/ LastInPipe
  \/ SilentPipe /\ LastInChan
  \/ /\ SilentPipe /\ SilentChan
     /\ said = IF res.kind \in Results THEN res.kind ELSE "none"

\* Errors come last, and once one is seen it stays seen.
Erroneous == res.kind = "error" \/ res.exit # "0"
ErrorSent == \E i \in 1..Len(chan) : chan[i].type = "error"
ErrorsLast ==
  /\ \A i \in 1..Len(chan) : chan[i].type = "error" <=> chan[i].code # "0"
  /\ \A i, j \in 1..Len(chan) : i < j /\ chan[i].type = "error" => chan[j].type = "error"
  /\ Erroneous => \A i \in 1..Len(chan) : chan[i].type = "error"
  /\ Erroneous \/ ErrorSent => apc \in {"wait", "closed"}

\* The goroutine stops reading, and closes the channel, at the clean end of
\* the process or with an error for the event loop to see.
CleanOrTold ==
  /\ apc = "wait" =>
       (proc = "dead" /\ pipe = <<>> /\ "out" \notin held) \/ Erroneous \/ ErrorSent
  /\ apc = "closed" /\ rpc # "crashed" =>
       (proc = "dead" /\ pipe = <<>> /\ exit = "0" /\ held = {}) \/ Erroneous \/ ErrorSent

\* What finalizeCall decided, as far as a later cancellation leaves it known.
Closing == rpc = "closing" \/ (rpc = "done" /\ apc = "closed")
FailureUnder(c) == IF c # "live" THEN SourceOfContext(c) ELSE SourceOfResult
Judged ==
  /\ promoted => rpc \in {"closing", "done", "crashed"}
  /\ promoted => Clean /\ (NeedsArtifact => artifact)
  /\ rpc = "done" /\ row \in {"ok", "failed"} => (promoted <=> row = "ok")
  /\ Closing =>
       /\ promoted <=> source = ""
       /\ Clean => source \in {"", "missing_artifact"}
       /\ ~Clean => \/ source = FailureUnder(ctx)
                    \/ source = FailureUnder("live") /\ exit # "sig"
       /\ apc = "closed"

\* The row is open, with a pid or without, until the runner has closed it; and
\* nothing is heard of an agent that was not launched.
RowKept ==
  /\ apc = "off" => res = NoResult
  /\ rpc = "idle" => row = "none"
  /\ rpc = "prepared" => row = "open"
  /\ rpc \in {"loop", "ended", "closing"} => row \in {"open", "live"}
  /\ row \in {"ok", "failed"} => rpc = "done" /\ apc = "closed"

IInv == /\ TypeOK /\ Places /\ Life /\ Said /\ ErrorsLast /\ CleanOrTold
        /\ Judged /\ RowKept

-----------------------------------------------------------------------------
(* The channel and the pipe as sequences. *)

LEMMA Sent ==
  ASSUME TypeOK, NEW ev \in Events, Send(ev)
  PROVE  /\ chan' \in Seq(Events) /\ Len(chan') <= ChanCap
         /\ Len(chan) \in Nat /\ Len(chan') = Len(chan) + 1 /\ chan' # <<>>
         /\ \A i \in 1..Len(chan) : chan'[i] = chan[i]
         /\ chan'[Len(chan) + 1] = ev
<1>1. chan \in Seq(Events) /\ Len(chan) \in Nat /\ ChanCap \in Nat
  BY LenProperties, AgentExecAssumption DEF TypeOK, RunTypeOK
<1>2. chan' = Append(chan, ev) /\ Len(chan) < ChanCap
  BY DEF Send, Room
<1> QED
  BY <1>1, <1>2, AppendProperties

LEMMA Taken ==
  ASSUME TypeOK, chan # <<>>, chan' = Tail(chan)
  PROVE  /\ chan' \in Seq(Events) /\ Len(chan') <= ChanCap
         /\ Len(chan) \in Nat \ {0} /\ Len(chan') = Len(chan) - 1
         /\ Head(chan) = chan[1] /\ chan[1] \in Events
         /\ \A i \in 1..Len(chan') : chan'[i] = chan[i + 1]
<1>1. chan \in Seq(Events) /\ Len(chan) \in Nat \ {0} /\ Len(chan) <= ChanCap /\ ChanCap \in Nat
  BY LenProperties, EmptySeq, AgentExecAssumption DEF TypeOK, RunTypeOK
<1>2. Head(chan) = chan[1] /\ chan[1] \in Events
  BY <1>1, ElementOfSeq
<1> QED
  BY <1>1, <1>2, HeadTailProperties

LEMMA Filled ==
  ASSUME TypeOK, Written
  PROVE  /\ pipe' \in Seq(LineKinds) /\ Len(pipe') <= PipeCap
         /\ Len(pipe) \in Nat /\ Len(pipe') = Len(pipe) + 1
         /\ \A i \in 1..Len(pipe) : pipe'[i] = pipe[i]
         /\ pipe'[Len(pipe) + 1] = line
<1>1. pipe \in Seq(LineKinds) /\ Len(pipe) \in Nat /\ PipeCap \in Nat /\ line \in LineKinds
  BY LenProperties, AgentExecAssumption DEF TypeOK, RunTypeOK, LineKinds
<1>2. pipe' = Append(pipe, line) /\ Len(pipe) < PipeCap
  BY DEF Written
<1> QED
  BY <1>1, <1>2, AppendProperties

\* What Scan moves is an event, and never an error.
LEMMA Drained ==
  ASSUME TypeOK, Scan
  PROVE  /\ pipe' \in Seq(LineKinds) /\ Len(pipe') <= PipeCap
         /\ Len(pipe) \in Nat \ {0} /\ Len(pipe') = Len(pipe) - 1
         /\ \A i \in 1..Len(pipe') : pipe'[i] = pipe[i + 1]
         /\ pipe[1] \in {"text", "ok", "failed"}
         /\ Ev(pipe[1], "0") \in Events /\ Send(Ev(pipe[1], "0"))
<1>1. /\ pipe \in Seq(LineKinds) /\ Len(pipe) \in Nat \ {0}
      /\ Len(pipe) <= PipeCap /\ PipeCap \in Nat
  BY LenProperties, EmptySeq, AgentExecAssumption DEF TypeOK, RunTypeOK, LineKinds, Scan
<1>2. pipe # <<>> /\ pipe' = Tail(pipe) /\ Head(pipe) # "huge" /\ Send(Ev(Head(pipe), "0"))
  BY DEF Scan
<1>3. Head(pipe) = pipe[1] /\ pipe[1] \in LineKinds
  BY <1>1, ElementOfSeq
<1>4. pipe[1] \in {"text", "ok", "failed"}
  BY <1>2, <1>3 DEF LineKinds
<1>5. Ev(pipe[1], "0") \in Events
  BY <1>4 DEF Ev, Events
<1> QED
  BY <1>1, <1>2, <1>3, <1>4, <1>5, HeadTailProperties

LEMMA EventsTyped ==
  ASSUME NEW ev \in Events
  PROVE  /\ ev.type \in {"pid", "text", "ok", "failed", "error"}
         /\ ev.code \in Codes
         /\ ev.type # "error" => ev.code = "0"
BY DEF Events, Ev, Codes

LEMMA ErrorEvents ==
  ASSUME NEW c \in Codes
  PROVE  Ev("error", c) \in Events /\ Ev("error", c).type = "error" /\ Ev("error", c).code = c
BY DEF Events, Ev
-----------------------------------------------------------------------------
(* Typing. *)

\* The failure classifyFailure finds is never the empty source.
LEMMA FailureNamed ==
  ASSUME TypeOK
  PROVE  /\ FailureSource = FailureUnder(ctx)
         /\ FailureUnder(ctx) \in Sources \ {""}
<1>1. SourceOfResult \in Sources \ {""}
  BY DEF SourceOfResult, Sources
<1>2. ctx # "live" => SourceOfContext(ctx) \in Sources \ {""}
  BY DEF SourceOfContext, Sources, TypeOK, RunTypeOK
<1> QED
  BY <1>1, <1>2 DEF FailureSource, FailureUnder

LEMMA RunInitTyped == Init => RunTypeOK
<1> SUFFICES ASSUME Init PROVE RunTypeOK
  OBVIOUS
<1>1. Len(<<>>) = 0 /\ <<>> \in Seq(Events) /\ <<>> \in Seq(LineKinds)
  BY EmptySeq
<1>2. NoResult \in ResultsHeld /\ "" \in Sources /\ "text" \in LineKinds
  BY DEF NoResult, ResultsHeld, Results, Codes, Sources, LineKinds
<1>c. PipeCap \in Nat /\ ChanCap \in Nat /\ MaxLines \in Nat
  BY AgentExecAssumption
<1>i. said = "none" /\ printed = 0 /\ pipe = <<>> /\ chan = <<>>
  BY DEF Init
<1>3. pipe \in Seq(LineKinds) /\ Len(pipe) <= PipeCap /\ chan \in Seq(Events) /\ Len(chan) <= ChanCap
  BY <1>1, <1>c, <1>i
<1>4. said \in Results \cup {"none"} /\ printed \in 0..MaxLines
  BY <1>c, <1>i
<1> QED
  BY <1>2, <1>3, <1>4 DEF Init, TypeOK, RunTypeOK

LEMMA ReceiveTyped ==
  ASSUME TypeOK, Receive
  PROVE  RunTypeOK'
<1>1. chan # <<>> /\ chan' = Tail(chan)
  BY DEF Receive
<1>2. /\ chan' \in Seq(Events) /\ Len(chan') <= ChanCap
      /\ Head(chan).type \in {"pid", "text", "ok", "failed", "error"}
      /\ Head(chan).code \in Codes
  BY <1>1, Taken, EventsTyped
<1>3. res' \in ResultsHeld
  BY <1>2 DEF Receive, TypeOK, RunTypeOK, ResultsHeld, Reconcile, Result, ErrorResult,
              Results, Codes
<1>4. row' \in {"none", "open", "live", "ok", "failed"}
  BY DEF Receive, TypeOK, RunTypeOK
<1> QED
  BY <1>2, <1>3, <1>4 DEF Receive, TypeOK, RunTypeOK, procVars

LEMMA RunnerTyped ==
  ASSUME TypeOK, Runner \/ Crash
  PROVE  RunTypeOK'
<1>1. CASE Receive
  BY <1>1, ReceiveTyped
<1>2. CASE Promote
  <2>1. FailureSource \in Sources /\ {"", "missing_artifact"} \subseteq Sources
    BY FailureNamed DEF Sources
  <2>2. Clean \in BOOLEAN /\ NeedsArtifact \in BOOLEAN
    BY AgentExecAssumption DEF Clean
  <2>3. promoted' \in BOOLEAN /\ source' \in Sources
    BY <1>2, <2>1, <2>2 DEF Promote, TypeOK, RunTypeOK
  <2>4. rpc' = "closing" /\ UNCHANGED <<res, row, agentVars, procVars, pipe, ctx>>
    BY <1>2 DEF Promote
  <2> QED
    BY <2>3, <2>4 DEF TypeOK, RunTypeOK, procVars, agentVars
<1>3. CASE Prepare \/ PrepareFails \/ FailEarly \/ Launch
  <2>1. "ateam_internal" \in Sources
    BY DEF Sources
  <2> QED
    BY <1>3, <2>1 DEF Prepare, PrepareFails, FailEarly, Launch, TypeOK, RunTypeOK, procVars,
                      agentVars
<1>4. CASE LeaveLoop \/ CloseRow \/ Crash
  BY <1>4 DEF LeaveLoop, CloseRow, Crash, TypeOK, RunTypeOK, procVars, agentVars
<1> QED
  BY <1>1, <1>2, <1>3, <1>4 DEF Runner

LEMMA GoroutineTyped ==
  ASSUME TypeOK, Goroutine
  PROVE  RunTypeOK'
<1>1. CASE StartFails \/ Truncate \/ ScanCut
  <2>1. Ev("error", "-1") \in Events
    BY ErrorEvents DEF Codes
  <2> QED
    BY <1>1, <2>1, Sent
       DEF StartFails, Truncate, ScanCut, TypeOK, RunTypeOK, runnerVars, procVars
<1>2. CASE WaitFails
  <2>1. PICK ev \in Events : Send(ev)
    BY <1>2, ErrorEvents DEF WaitFails, TypeOK, RunTypeOK, Codes
  <2> QED
    BY <1>2, <2>1, Sent DEF WaitFails, TypeOK, RunTypeOK, runnerVars, procVars
<1>3. CASE Announce
  <2>1. Ev("pid", "0") \in Events
    BY DEF Events
  <2> QED
    BY <1>3, <2>1, Sent DEF Announce, TypeOK, RunTypeOK, runnerVars, procVars
<1>4. CASE Scan
  BY <1>4, Drained, Sent DEF Scan, TypeOK, RunTypeOK, runnerVars, procVars
<1>5. CASE Start \/ ScanEnds \/ WaitOk
  BY <1>5 DEF Start, ScanEnds, WaitOk, TypeOK, RunTypeOK, runnerVars, procVars
<1> QED
  BY <1>1, <1>2, <1>3, <1>4, <1>5 DEF Goroutine

LEMMA ProcessTyped ==
  ASSUME TypeOK, Process \/ Kill \/ Deadline \/ Finished
                   \/ \E why \in ParentCancels : Cancel(why)
  PROVE  RunTypeOK'
<1>1. ASSUME NEW l \in Lines, Write(l)
      PROVE  RunTypeOK'
  BY <1>1, AgentExecAssumption DEF Write, TypeOK, RunTypeOK, runnerVars, agentVars
<1>2. CASE Written
  BY <1>2, Filled DEF Written, TypeOK, RunTypeOK, runnerVars, agentVars, Results
<1>3. CASE WriteArtifact \/ (\E code \in {"0", "1"} : Quit(code))
  BY <1>3 DEF WriteArtifact, Quit, TypeOK, RunTypeOK, runnerVars, agentVars
<1>6. ASSUME NEW pipes \in Holdings, Fork(pipes)
      PROVE  RunTypeOK'
  BY <1>6, AgentExecAssumption DEF Fork, TypeOK, RunTypeOK, runnerVars, agentVars
<1>7. CASE Release
  BY <1>7 DEF Release, TypeOK, RunTypeOK, runnerVars, agentVars
<1>8. CASE Kill
  <2>1. /\ proc' \in {"unborn", "running", "writing", "dead"}
        /\ exit' \in {"0", "1", "sig"}
    BY <1>8 DEF Kill, Terminate, KillLeader, Dies, Survives, ProcLives, Watching, TypeOK, RunTypeOK
  <2>2. UNCHANGED <<runnerVars, agentVars, hosted, line, printed, artifact, said, pipe, ctx>>
    BY <1>8 DEF Kill, Terminate, KillLeader
  <2> QED
    BY <2>1, <2>2 DEF TypeOK, RunTypeOK, runnerVars, agentVars
<1>4. CASE Deadline \/ (\E why \in ParentCancels : Cancel(why))
  BY <1>4, AgentExecAssumption
     DEF Deadline, Cancel, TypeOK, RunTypeOK, runnerVars, agentVars, procVars
<1>5. CASE Finished
  BY <1>5 DEF Finished, vars, TypeOK, RunTypeOK
<1> QED
  BY <1>1, <1>2, <1>3, <1>4, <1>5, <1>6, <1>7, <1>8 DEF Process

LEMMA GroupTyped ==
  ASSUME GroupTypeOK, [Next]_vars
  PROVE  GroupTypeOK'
<1>1. CASE Runner \/ Crash
  <2>1. UNCHANGED procVars
    BY <1>1 DEF Runner, Prepare, PrepareFails, FailEarly, Launch, Receive, LeaveLoop,
                Promote, CloseRow, Crash
  <2> QED
    BY <2>1 DEF procVars, GroupTypeOK
<1>2. CASE Goroutine
  <2>1. UNCHANGED <<hosted, held, signal>>
    BY <1>2 DEF Goroutine, StartFails, Start, Announce, Scan, Truncate, ScanCut, ScanEnds,
                WaitOk, WaitFails, procVars, groupVars
  <2> QED
    BY <2>1 DEF GroupTypeOK
<1>3. CASE (\E l \in Lines : Write(l)) \/ Written \/ WriteArtifact
             \/ (\E code \in {"0", "1"} : Quit(code))
  <2>1. UNCHANGED <<hosted, held, signal>>
    BY <1>3 DEF Write, Written, WriteArtifact, Quit, groupVars
  <2> QED
    BY <2>1 DEF GroupTypeOK
<1>4. ASSUME NEW pipes \in Holdings, Fork(pipes)
      PROVE  GroupTypeOK'
  BY <1>4, AgentExecAssumption DEF Fork, GroupTypeOK
<1>5. CASE Release
  BY <1>5 DEF Release, GroupTypeOK
<1>6. CASE Terminate
  BY <1>6 DEF Terminate, GroupTypeOK
<1>7. CASE KillLeader
  BY <1>7 DEF KillLeader, GroupTypeOK
<1>8. CASE Deadline \/ Finished \/ (\E why \in ParentCancels : Cancel(why)) \/ UNCHANGED vars
  <2>1. UNCHANGED <<hosted, held, signal>>
    BY <1>8 DEF Deadline, Finished, Cancel, procVars, vars
  <2> QED
    BY <2>1 DEF GroupTypeOK
<1> QED
  BY <1>1, <1>2, <1>3, <1>4, <1>5, <1>6, <1>7, <1>8 DEF Next, Process, Kill

LEMMA InitTyped == Init => TypeOK
<1>1. Init => GroupTypeOK
  BY AgentExecAssumption DEF Init, GroupTypeOK
<1> QED
  BY <1>1, RunInitTyped DEF TypeOK

LEMMA StepTyped ==
  ASSUME TypeOK, [Next]_vars
  PROVE  TypeOK'
<1>1. RunTypeOK'
  <2>1. CASE UNCHANGED vars
    BY <2>1 DEF vars, TypeOK, RunTypeOK
  <2> QED
    BY <2>1, RunnerTyped, GoroutineTyped, ProcessTyped DEF Next
<1>2. GroupTypeOK'
  BY GroupTyped DEF TypeOK
<1> QED
  BY <1>1, <1>2 DEF TypeOK

-----------------------------------------------------------------------------
(* Where the runner, the goroutine and the process are. *)

\* One equation per action that moves the runner; every other action leaves it.
LEMMA RunnerMoves ==
  ASSUME [Next]_vars
  PROVE  /\ \/ Prepare \/ PrepareFails \/ FailEarly \/ Launch \/ LeaveLoop
            \/ Promote \/ CloseRow \/ Crash
            \/ /\ UNCHANGED <<rpc, source, promoted>>
               /\ Receive \/ UNCHANGED <<res, row>>
         /\ Receive \/ UNCHANGED res
<1>1. CASE Goroutine
  BY <1>1 DEF Goroutine, StartFails, Start, Announce, Scan, Truncate, ScanCut, ScanEnds,
              WaitOk, WaitFails, runnerVars
<1>2. CASE Process \/ Kill
  BY <1>2 DEF Process, Write, Written, WriteArtifact, Quit, Fork, Release, Kill, Terminate,
              KillLeader, runnerVars
<1>3. CASE Deadline \/ Finished \/ (\E why \in ParentCancels : Cancel(why)) \/ UNCHANGED vars
  BY <1>3 DEF Deadline, Finished, Cancel, runnerVars, vars
<1>4. CASE Receive
  BY <1>4 DEF Receive
<1>5. CASE Prepare \/ PrepareFails \/ FailEarly \/ Launch \/ LeaveLoop \/ Promote
             \/ CloseRow \/ Crash
  <2>1. UNCHANGED res
    BY <1>5 DEF Prepare, PrepareFails, FailEarly, Launch, LeaveLoop, Promote, CloseRow, Crash
  <2> QED
    BY <1>5, <2>1
<1> QED
  BY <1>1, <1>2, <1>3, <1>4, <1>5 DEF Next, Runner

\* The same for the goroutine and its channel.
LEMMA GoroutineMoves ==
  ASSUME [Next]_vars
  PROVE  \/ Launch \/ Crash \/ Receive
         \/ StartFails \/ Start \/ Announce \/ Scan \/ Truncate \/ ScanCut \/ ScanEnds
         \/ WaitOk \/ WaitFails
         \/ UNCHANGED <<apc, chan>>
<1>1. CASE Prepare \/ PrepareFails \/ FailEarly \/ LeaveLoop \/ Promote \/ CloseRow
  BY <1>1 DEF Prepare, PrepareFails, FailEarly, LeaveLoop, Promote, CloseRow, agentVars
<1>2. CASE Process \/ Kill
  BY <1>2 DEF Process, Write, Written, WriteArtifact, Quit, Fork, Release, Kill, Terminate,
              KillLeader, agentVars
<1>3. CASE Deadline \/ Finished \/ (\E why \in ParentCancels : Cancel(why)) \/ UNCHANGED vars
  BY <1>3 DEF Deadline, Finished, Cancel, agentVars, vars
<1> QED
  BY <1>1, <1>2, <1>3 DEF Next, Runner, Goroutine

\* The same for the process, its end, its pipe and the context.
LEMMA ProcessMoves ==
  ASSUME [Next]_vars
  PROVE  /\ \/ Start \/ Written \/ Kill \/ (\E l \in Lines : Write(l))
            \/ (\E code \in {"0", "1"} : Quit(code))
            \/ UNCHANGED <<proc, exit>>
         /\ Kill \/ UNCHANGED signal
         /\ proc = "dead" => held' \subseteq held
         /\ Written \/ Scan \/ UNCHANGED <<pipe, said>>
         /\ ctx # "live" => ctx' = ctx
         /\ artifact => artifact'
<1>1. CASE Runner \/ Crash
  <2>1. UNCHANGED <<procVars, pipe, ctx>>
    BY <1>1 DEF Runner, Prepare, PrepareFails, FailEarly, Launch, Receive, LeaveLoop,
                Promote, CloseRow, Crash
  <2> QED
    BY <2>1 DEF procVars
<1>2. CASE Goroutine
  BY <1>2 DEF Goroutine, StartFails, Start, Announce, Scan, Truncate, ScanCut, ScanEnds,
              WaitOk, WaitFails, procVars, groupVars
<1>3. CASE Process \/ Kill
  BY <1>3 DEF Process, Write, Written, WriteArtifact, Quit, Fork, Release,
              Kill, Terminate, KillLeader, Dies, Survives, ProcLives, Watching,
              groupVars
<1>4. CASE Deadline \/ Finished \/ (\E why \in ParentCancels : Cancel(why)) \/ UNCHANGED vars
  BY <1>4 DEF Deadline, Finished, Cancel, procVars, vars
<1> QED
  BY <1>1, <1>2, <1>3, <1>4 DEF Next

LEMMA PlacesHold ==
  ASSUME TypeOK, Places, [Next]_vars
  PROVE  Places'
<1>1. CASE Goroutine
  BY <1>1 DEF Goroutine, StartFails, Start, Announce, Scan, Truncate, ScanCut, ScanEnds,
              WaitOk, WaitFails, runnerVars, TypeOK, RunTypeOK, Places
<1>2. CASE Runner \/ Crash
  BY <1>2 DEF Runner, Prepare, PrepareFails, FailEarly, Launch, Receive, LeaveLoop,
              Promote, CloseRow, Crash, agentVars, TypeOK, RunTypeOK, Places
<1>3. CASE ~(Runner \/ Crash \/ Goroutine)
  <2>1. UNCHANGED <<rpc, apc, chan>>
    BY <1>3, RunnerMoves, GoroutineMoves DEF Runner, Goroutine
  <2> QED
    BY <2>1 DEF Places
<1> QED
  BY <1>1, <1>2, <1>3

LEMMA LifeHolds ==
  ASSUME TypeOK, Places, Life, [Next]_vars
  PROVE  Life'
<1>1. CASE Start \/ Written \/ Kill \/ (\E l \in Lines : Write(l))
             \/ (\E code \in {"0", "1"} : Quit(code))
  BY <1>1 DEF Start, Written, Write, Quit, Kill, Terminate, KillLeader, Dies, Survives,
              ProcLives, Watching,
              runnerVars, agentVars, groupVars, TypeOK, RunTypeOK, Places, Life
<1>2. CASE UNCHANGED <<proc, exit>> /\ ~Kill
  <2>0. UNCHANGED signal
    BY <1>2, ProcessMoves
  <2>1. ctx # "live" => ctx' = ctx
    BY ProcessMoves
  <2>2. /\ apc' \in {"off", "start"} => apc \in {"off", "start"} 
        /\ apc' = "closed" /\ rpc' # "crashed" =>
             (apc = "closed" /\ rpc # "crashed") \/ proc \in {"unborn", "dead"}
    <3>1. CASE UNCHANGED <<apc, chan>>
      <4>1. rpc' # "crashed" => rpc # "crashed"
        BY RunnerMoves DEF Prepare, PrepareFails, FailEarly, Launch, LeaveLoop, Promote,
                           CloseRow, Crash
      <4> QED
        BY <3>1, <4>1
    <3>2. CASE ~UNCHANGED <<apc, chan>>
      BY <3>2, GoroutineMoves
         DEF Launch, Crash, Receive, StartFails, Start, Announce, Scan, Truncate, ScanCut, ScanEnds,
             WaitOk, WaitFails, runnerVars, Places, Life
    <3> QED
      BY <3>1, <3>2
  <2> QED
    BY <1>2, <2>0, <2>1, <2>2 DEF Life
<1> QED
  BY <1>1, <1>2, ProcessMoves

-----------------------------------------------------------------------------
(* What the event loop knows of the process. *)

\* processEvent on the event at the head of the channel.
LEMMA Received ==
  ASSUME TypeOK, Receive, chan[1].type = "error" <=> chan[1].code # "0"
  PROVE  /\ chan[1].type = "error" =>
              /\ Erroneous'
              /\ res'.kind = IF res.kind \in Results THEN res.kind ELSE "error"
         /\ chan[1].type \in Results =>
              /\ ~Erroneous'
              /\ res'.kind = chan[1].type
         /\ chan[1].type \notin {"error"} \cup Results => res' = res
<1>1. Head(chan) = chan[1] /\ chan[1] \in Events
  BY Taken DEF Receive
<1>2. res' = CASE chan[1].type \in Results -> Result(chan[1].type)
               [] chan[1].type = "error"   -> Reconcile(res, chan[1].code)
               [] OTHER                    -> res
  BY <1>1 DEF Receive
<1>3. res.kind \in {"ok", "failed", "none", "error"} /\ res = [kind |-> res.kind, exit |-> res.exit]
  BY DEF TypeOK, RunTypeOK, ResultsHeld, Results
<1>4. CASE chan[1].type = "error"
  <2>1. res' = Reconcile(res, chan[1].code) /\ chan[1].code # "0"
    BY <1>2, <1>4 DEF Results
  <2>2. CASE res.kind \in Results
    BY <2>1, <2>2, <1>3, <1>4 DEF Reconcile, Erroneous, Results
  <2>3. CASE res.kind \notin Results
    BY <2>1, <2>3, <1>4 DEF Reconcile, ErrorResult, Erroneous, Results
  <2> QED
    BY <2>2, <2>3
<1>5. CASE chan[1].type \in Results
  <2>1. res' = [kind |-> chan[1].type, exit |-> "0"]
    BY <1>2, <1>5 DEF Result, Results
  <2> QED
    BY <2>1, <1>5 DEF Results, Erroneous
<1> QED
  BY <1>2, <1>4, <1>5

\* The goroutine adds an error as its last act, anything else before it.
LEMMA ErrorsLastOnSend ==
  ASSUME TypeOK, ErrorsLast, UNCHANGED res,
         NEW ev \in Events, Send(ev),
         ev.type = "error" <=> ev.code # "0",
         IF ev.type = "error" THEN apc' \in {"wait", "closed"} ELSE apc \notin {"wait", "closed"}
  PROVE  ErrorsLast'
<1> USE DEF ErrorsLast, Erroneous, ErrorSent
<1>1. /\ Len(chan) \in Nat /\ Len(chan') = Len(chan) + 1
      /\ \A i \in 1..Len(chan) : chan'[i] = chan[i]
      /\ chan'[Len(chan) + 1] = ev
  BY Sent
<1>2. CASE ev.type = "error"
  BY <1>1, <1>2
<1>3. CASE ev.type # "error"
  <2>1. ~Erroneous /\ \A i \in 1..Len(chan) : chan[i].type # "error"
    BY <1>3
  <2>2. \A i \in 1..Len(chan') : chan'[i].type # "error" /\ chan'[i].code = "0"
    BY <1>1, <1>3, <2>1
  <2> QED
    BY <2>1, <2>2
<1> QED
  BY <1>2, <1>3

LEMMA ErrorsLastHolds ==
  ASSUME TypeOK, Places, ErrorsLast, [Next]_vars
  PROVE  ErrorsLast'
<1>1. CASE Receive
  <2>1. /\ Len(chan) \in Nat \ {0} /\ Len(chan') = Len(chan) - 1
        /\ \A i \in 1..Len(chan') : chan'[i] = chan[i + 1]
        /\ apc' = apc
    BY <1>1, Taken DEF Receive
  <2>2. \A i \in 1..Len(chan') : i + 1 \in 1..Len(chan)
    BY <2>1
  <2>3. 1 \in 1..Len(chan)
    BY <2>1
  <2>4. chan[1].type = "error" <=> chan[1].code # "0"
    BY <2>3 DEF ErrorsLast
  <2>5. Erroneous' => Erroneous \/ chan[1].type = "error"
    BY <1>1, <2>4, Received DEF Erroneous
  <2>6. \A i \in 1..Len(chan') : chan'[i].type = "error" <=> chan'[i].code # "0"
    BY <2>1, <2>2 DEF ErrorsLast
  <2>7. \A i, j \in 1..Len(chan') :
          i < j /\ chan'[i].type = "error" => chan'[j].type = "error"
    <3> SUFFICES ASSUME NEW i \in 1..Len(chan'), NEW j \in 1..Len(chan'),
                        i < j, chan'[i].type = "error"
                 PROVE  chan'[j].type = "error"
      OBVIOUS
    <3>1. i + 1 \in 1..Len(chan) /\ j + 1 \in 1..Len(chan) /\ i + 1 < j + 1
      BY <2>2
    <3>2. chan[i + 1].type = "error" => chan[j + 1].type = "error"
      BY <3>1 DEF ErrorsLast
    <3> QED
      BY <2>1, <3>2
  <2>8. Erroneous' => \A i \in 1..Len(chan') : chan'[i].type = "error"
    BY <2>1, <2>2, <2>3, <2>5 DEF ErrorsLast
  <2>9. Erroneous' \/ ErrorSent' => Erroneous \/ ErrorSent
    BY <2>1, <2>2, <2>3, <2>5 DEF ErrorSent
  <2> QED
    BY <2>1, <2>6, <2>7, <2>8, <2>9 DEF ErrorsLast
<1>2. CASE StartFails \/ Truncate \/ ScanCut \/ WaitFails
  <2>1. PICK c \in Codes \ {"0"} : Send(Ev("error", c))
    BY <1>2 DEF StartFails, Truncate, ScanCut, WaitFails, Codes, TypeOK, RunTypeOK
  <2>2. /\ Ev("error", c) \in Events /\ Ev("error", c).type = "error"
        /\ Ev("error", c).code # "0"
    BY ErrorEvents
  <2>3. apc' \in {"wait", "closed"} /\ UNCHANGED res
    BY <1>2 DEF StartFails, Truncate, ScanCut, WaitFails, runnerVars
  <2> QED
    BY <2>1, <2>2, <2>3, ErrorsLastOnSend
<1>3. CASE Announce \/ Scan
  <2>1. PICK ev \in Events : Send(ev) /\ ev.type # "error"
    BY <1>3, Drained DEF Announce, Events, Ev
  <2>2. apc \notin {"wait", "closed"} /\ UNCHANGED res
    BY <1>3 DEF Announce, Scan, runnerVars
  <2>3. ev.code = "0"
    BY <2>1, EventsTyped
  <2> QED
    BY <2>1, <2>2, <2>3, ErrorsLastOnSend
<1>4. CASE Launch \/ Crash \/ Start \/ ScanEnds \/ WaitOk
  <2>1. UNCHANGED <<res, chan>>
    BY <1>4 DEF Launch, Crash, Start, ScanEnds, WaitOk, runnerVars
  <2>2. apc' \in {"wait", "closed"} \/ apc \notin {"wait", "closed"}
    BY <1>4 DEF Launch, Crash, Start, ScanEnds, WaitOk, Places
  <2> QED
    BY <2>1, <2>2 DEF ErrorsLast, Erroneous, ErrorSent
<1>5. CASE UNCHANGED <<apc, chan, res>>
  BY <1>5 DEF ErrorsLast, Erroneous, ErrorSent
<1> QED
  BY <1>1, <1>2, <1>3, <1>4, <1>5, GoroutineMoves, RunnerMoves

\* CleanOrTold is kept by whoever changes what it speaks of, the event loop
\* included: an error it takes from the channel it remembers.
LEMMA ToldForGood ==
  ASSUME TypeOK, ErrorsLast, [Next]_vars, Erroneous \/ ErrorSent
  PROVE  (Erroneous \/ ErrorSent)'
<1>1. CASE Receive
  <2>1. /\ Len(chan) \in Nat \ {0} /\ Len(chan') = Len(chan) - 1
        /\ \A i \in 1..Len(chan') : chan'[i] = chan[i + 1]
        /\ chan[1].type = "error" <=> chan[1].code # "0"
    BY <1>1, Taken DEF Receive, ErrorsLast
  <2>2. CASE chan[1].type = "error"
    BY <1>1, <2>1, <2>2, Received
  <2>3. CASE chan[1].type # "error"
    <3>1. ~Erroneous
      BY <2>1, <2>3 DEF ErrorsLast
    <3>2. PICK i \in 1..Len(chan) : chan[i].type = "error"
      BY <3>1 DEF ErrorSent
    <3>3. i # 1 /\ i - 1 \in 1..Len(chan') /\ chan'[i - 1] = chan[i]
      BY <2>1, <2>3, <3>2
    <3> QED
      BY <3>2, <3>3 DEF ErrorSent
  <2> QED
    BY <2>2, <2>3
<1>2. CASE UNCHANGED <<res, chan>>
  BY <1>2 DEF Erroneous, ErrorSent
<1>3. CASE UNCHANGED res /\ \E ev \in Events : Send(ev)
  <2>1. PICK ev \in Events : Send(ev)
    BY <1>3
  <2>2. /\ Len(chan) \in Nat /\ Len(chan') = Len(chan) + 1
        /\ \A i \in 1..Len(chan) : chan'[i] = chan[i]
    BY <2>1, Sent
  <2>3. Erroneous => Erroneous'
    BY <1>3 DEF Erroneous
  <2>4. ErrorSent => ErrorSent'
    BY <2>2 DEF ErrorSent
  <2> QED
    BY <2>3, <2>4
<1>4. StartFails \/ Announce \/ Scan \/ Truncate \/ ScanCut \/ WaitFails => \E ev \in Events : Send(ev)
  BY ErrorEvents, Drained DEF StartFails, Announce, Scan, Truncate, ScanCut, WaitFails, Codes,
                              TypeOK, RunTypeOK,
                              Events, Ev
<1>5. Launch \/ Crash \/ Start \/ ScanEnds \/ WaitOk => UNCHANGED chan
  BY DEF Launch, Crash, Start, ScanEnds, WaitOk, agentVars
<1> QED
  BY <1>1, <1>2, <1>3, <1>4, <1>5, GoroutineMoves, RunnerMoves

LEMMA CleanOrToldHolds ==
  ASSUME TypeOK, Places, Life, ErrorsLast, CleanOrTold, [Next]_vars
  PROVE  CleanOrTold'
<1>1. CASE Erroneous \/ ErrorSent
  BY <1>1, ToldForGood DEF CleanOrTold
<1>2. CASE ~(Erroneous \/ ErrorSent)
  <2>1. CASE StartFails \/ Truncate \/ ScanCut \/ WaitFails
    <3>1. PICK c \in Codes : Send(Ev("error", c))
      BY <2>1 DEF StartFails, Truncate, ScanCut, WaitFails, Codes, TypeOK, RunTypeOK
    <3>2. Ev("error", c) \in Events /\ Ev("error", c).type = "error"
      BY ErrorEvents
    <3>3. Len(chan) + 1 \in 1..Len(chan') /\ chan'[Len(chan) + 1].type = "error"
      BY <3>1, <3>2, Sent
    <3> QED
      BY <3>3 DEF ErrorSent, CleanOrTold
  <2>2. CASE ScanEnds \/ WaitOk
    <3>1. UNCHANGED <<proc, exit, pipe, held>> /\ held \subseteq {"out", "err"}
      BY <2>2 DEF ScanEnds, WaitOk, procVars, TypeOK, GroupTypeOK
    <3>2. CASE ScanEnds
      BY <3>1, <3>2 DEF ScanEnds, CleanOrTold
    <3>3. CASE WaitOk
      <4>1. "out" \notin held
        BY <1>2, <3>3 DEF WaitOk, CleanOrTold
      <4>2. held = {} /\ proc = "dead" /\ exit = "0" /\ pipe = <<>> /\ apc' = "closed"
        BY <1>2, <3>1, <3>3, <4>1 DEF WaitOk, CleanOrTold
      <4> QED
        BY <3>1, <4>2 DEF CleanOrTold
    <3> QED
      BY <2>2, <3>2, <3>3
  <2>3. CASE ~(StartFails \/ Truncate \/ ScanCut \/ WaitFails \/ ScanEnds \/ WaitOk)
    <3>1. /\ apc' = "wait" => apc = "wait"
          /\ apc' = "closed" /\ rpc' # "crashed" => apc = "closed" /\ rpc # "crashed"
      <4>1. apc' = "wait" => apc = "wait"
        BY <2>3, GoroutineMoves
           DEF Launch, Crash, Receive, Start, Announce, Scan
      <4>2. apc' = "closed" /\ rpc' # "crashed" => apc = "closed"
        BY <2>3, GoroutineMoves
           DEF Launch, Crash, Receive, Start, Announce, Scan
      <4>3. rpc' # "crashed" => rpc # "crashed"
        BY RunnerMoves DEF Prepare, PrepareFails, FailEarly, Launch, LeaveLoop, Promote,
                           CloseRow, Crash
      <4> QED
        BY <4>1, <4>2, <4>3
    <3>2. apc' \in {"wait", "closed"} /\ proc = "dead" /\ pipe = <<>> =>
            UNCHANGED <<proc, exit, pipe>> /\ held' \subseteq held
      <4>1. Kill /\ proc = "dead" => UNCHANGED <<proc, exit>>
        <5>1. Kill => Dies \/ Survives
          BY DEF Kill, Terminate, KillLeader
        <5>2. proc = "dead" => ~ProcLives
          BY DEF ProcLives
        <5>3. proc = "dead" /\ Dies => proc' = proc /\ exit' = exit
          BY <5>2, Zenon DEF Dies
        <5> QED
          BY <5>1, <5>3 DEF Survives
      <4>2. Kill => UNCHANGED pipe
        BY DEF Kill, Terminate, KillLeader
      <4>3. apc' \in {"wait", "closed"} => ~Start
        BY DEF Start
      <4> QED
        BY <4>1, <4>2, <4>3, ProcessMoves DEF Written, Write, Quit, Scan
    <3> QED
      BY <1>2, <3>1, <3>2 DEF CleanOrTold
  <2> QED
    BY <2>1, <2>2, <2>3
<1> QED
  BY <1>1, <1>2

-----------------------------------------------------------------------------
(* The last result line, wherever it is on its way. *)

\* Written: the line becomes the last of the pipe, and the last said if it is
\* a result.
LEMMA SaidWhenWritten ==
  ASSUME TypeOK, Said, Written
  PROVE  Said'
<1>1. /\ Len(pipe) \in Nat /\ Len(pipe') = Len(pipe) + 1
      /\ \A i \in 1..Len(pipe) : pipe'[i] = pipe[i]
      /\ pipe'[Len(pipe) + 1] = line
  BY Filled
<1>2. UNCHANGED <<chan, res>> /\ said' = IF line \in Results THEN line ELSE said
  BY DEF Written, agentVars, runnerVars
<1>3. CASE line \in Results
  BY <1>1, <1>2, <1>3 DEF Said, LastInPipe
<1>4. CASE line \notin Results
  <2>1. LastInPipe => LastInPipe'
    BY <1>1, <1>2, <1>4 DEF LastInPipe
  <2>2. SilentPipe => SilentPipe'
    BY <1>1, <1>4 DEF SilentPipe
  <2>3. UNCHANGED <<chan, res, said>>
    BY <1>2, <1>4
  <2> QED
    BY <2>1, <2>2, <2>3 DEF Said, SilentChan, LastInChan
<1> QED
  BY <1>3, <1>4

\* Scan: the first line of the pipe becomes the last event of the channel.
LEMMA SaidWhenScanned ==
  ASSUME TypeOK, Said, Scan
  PROVE  Said'
<1>1. /\ Len(pipe) \in Nat \ {0} /\ Len(pipe') = Len(pipe) - 1
      /\ \A i \in 1..Len(pipe') : pipe'[i] = pipe[i + 1]
      /\ Ev(pipe[1], "0") \in Events /\ Send(Ev(pipe[1], "0"))
  BY Drained
<1>2. /\ Len(chan) \in Nat /\ Len(chan') = Len(chan) + 1
      /\ \A i \in 1..Len(chan) : chan'[i] = chan[i]
      /\ chan'[Len(chan) + 1].type = pipe[1]
  BY <1>1, Sent DEF Ev
<1>3. UNCHANGED <<said, res>>
  BY DEF Scan, runnerVars, procVars
<1>4. CASE LastInPipe
  <2>1. PICK i \in 1..Len(pipe) :
          /\ pipe[i] = said /\ said \in Results
          /\ \A j \in 1..Len(pipe) : j > i => pipe[j] \notin Results
    BY <1>4 DEF LastInPipe
  <2>2. CASE i = 1
    <3>1. SilentPipe'
      BY <1>1, <2>1, <2>2 DEF SilentPipe
    <3>2. LastInChan'
      BY <1>2, <1>3, <2>1, <2>2 DEF LastInChan
    <3> QED
      BY <3>1, <3>2 DEF Said
  <2>3. CASE i # 1
    <3>1. i - 1 \in 1..Len(pipe') /\ pipe'[i - 1] = said'
      BY <1>1, <1>3, <2>1, <2>3
    <3>2. \A j \in 1..Len(pipe') : j > i - 1 => pipe'[j] \notin Results
      BY <1>1, <2>1
    <3> QED
      BY <1>3, <2>1, <3>1, <3>2 DEF Said, LastInPipe
  <2> QED
    BY <2>2, <2>3
<1>5. CASE SilentPipe
  <2>1. pipe[1] \notin Results /\ SilentPipe'
    BY <1>1, <1>5 DEF SilentPipe
  <2>2. LastInChan => LastInChan'
    BY <1>2, <1>3, <2>1 DEF LastInChan
  <2>3. SilentChan => SilentChan'
    BY <1>2, <2>1 DEF SilentChan
  <2> QED
    BY <1>3, <1>5, <2>1, <2>2, <2>3 DEF Said, LastInPipe, SilentPipe
<1> QED
  BY <1>4, <1>5 DEF Said

\* Receive: the first event of the channel becomes what the loop holds.
LEMMA SaidWhenReceived ==
  ASSUME TypeOK, ErrorsLast, Said, Receive
  PROVE  Said'
<1>1. /\ Len(chan) \in Nat \ {0} /\ Len(chan') = Len(chan) - 1
      /\ \A i \in 1..Len(chan') : chan'[i] = chan[i + 1]
      /\ chan[1].type = "error" <=> chan[1].code # "0"
  BY Taken DEF Receive, ErrorsLast
<1>2. UNCHANGED <<pipe, said>>
  BY DEF Receive, procVars
<1>3. CASE LastInPipe
  BY <1>2, <1>3 DEF Said, LastInPipe
<1>4. CASE SilentPipe /\ LastInChan
  <2>1. PICK i \in 1..Len(chan) :
          /\ chan[i].type = said /\ said \in Results
          /\ \A j \in 1..Len(chan) : j > i => chan[j].type \notin Results
    BY <1>4 DEF LastInChan
  <2>2. CASE i = 1
    <3>1. SilentChan'
      BY <1>1, <2>1, <2>2 DEF SilentChan
    <3>2. res'.kind = said' /\ res'.kind \in Results
      BY <1>1, <1>2, <2>1, <2>2, Received
    <3> QED
      BY <1>2, <1>4, <3>1, <3>2 DEF Said, SilentPipe
  <2>3. CASE i # 1
    <3>1. i - 1 \in 1..Len(chan') /\ chan'[i - 1].type = said'
      BY <1>1, <1>2, <2>1, <2>3
    <3>2. \A j \in 1..Len(chan') : j > i - 1 => chan'[j].type \notin Results
      BY <1>1, <2>1
    <3>3. LastInChan'
      BY <1>2, <2>1, <3>1, <3>2 DEF LastInChan
    <3> QED
      BY <1>2, <1>4, <3>3 DEF Said, SilentPipe
  <2> QED
    BY <2>2, <2>3
<1>5. CASE /\ SilentPipe /\ SilentChan
           /\ said = IF res.kind \in Results THEN res.kind ELSE "none"
  <2>1. chan[1].type \notin Results /\ SilentChan'
    BY <1>1, <1>5 DEF SilentChan
  <2>2. \/ res'.kind = res.kind
        \/ res'.kind = "error" /\ res.kind \notin Results
    BY <1>1, <2>1, Received
  <2>3. said' = IF res'.kind \in Results THEN res'.kind ELSE "none"
    BY <1>2, <1>5, <2>2 DEF Results
  <2> QED
    BY <1>2, <1>5, <2>1, <2>3 DEF Said, SilentPipe
<1> QED
  BY <1>3, <1>4, <1>5 DEF Said

LEMMA SaidHolds ==
  ASSUME TypeOK, ErrorsLast, Said, [Next]_vars
  PROVE  Said'
<1>1. CASE Written \/ Scan \/ Receive
  BY <1>1, SaidWhenWritten, SaidWhenScanned, SaidWhenReceived
<1>2. CASE ~(Written \/ Scan \/ Receive)
  <2>1. UNCHANGED <<pipe, said, res>>
    BY <1>2, ProcessMoves, RunnerMoves
  <2>2. CASE UNCHANGED chan
    BY <2>1, <2>2 DEF Said, LastInPipe, SilentPipe, LastInChan, SilentChan
  <2>3. CASE \E ev \in Events : Send(ev) /\ ev.type \notin Results
    <3>1. PICK ev \in Events : Send(ev) /\ ev.type \notin Results
      BY <2>3
    <3>2. /\ Len(chan) \in Nat /\ Len(chan') = Len(chan) + 1
          /\ \A i \in 1..Len(chan) : chan'[i] = chan[i]
          /\ chan'[Len(chan) + 1].type \notin Results
      BY <3>1, Sent
    <3>3. LastInChan => LastInChan'
      BY <2>1, <3>2 DEF LastInChan
    <3>4. SilentChan => SilentChan'
      BY <3>2 DEF SilentChan
    <3> QED
      BY <2>1, <3>3, <3>4 DEF Said, LastInPipe, SilentPipe
  <2>4. StartFails \/ Announce \/ Truncate \/ ScanCut \/ WaitFails =>
          \E ev \in Events : Send(ev) /\ ev.type \notin Results
    BY ErrorEvents DEF StartFails, Announce, Truncate, ScanCut, WaitFails, Codes,
                       TypeOK, RunTypeOK, Events, Ev, Results
  <2>5. Launch \/ Crash \/ Start \/ ScanEnds \/ WaitOk => UNCHANGED chan
    BY DEF Launch, Crash, Start, ScanEnds, WaitOk, agentVars
  <2> QED
    BY <1>2, <2>2, <2>3, <2>4, <2>5, GoroutineMoves
<1> QED
  BY <1>1, <1>2

-----------------------------------------------------------------------------
(* The row, and the verdict. *)

LEMMA RowKeptHolds ==
  ASSUME TypeOK, Places, RowKept, [Next]_vars
  PROVE  RowKept'
<1>1. CASE Receive
  BY <1>1 DEF Receive, RowKept, Places
<1>2. CASE Prepare \/ PrepareFails \/ FailEarly \/ Launch
  BY <1>2 DEF Prepare, PrepareFails, FailEarly, Launch, agentVars, RowKept
<1>3. CASE LeaveLoop \/ Promote \/ Crash
  BY <1>3 DEF LeaveLoop, Promote, Crash, agentVars, RowKept, Places
<1>4. CASE CloseRow
  BY <1>4 DEF CloseRow, agentVars, RowKept, Places
<1>5. CASE UNCHANGED <<rpc, row, res>>
  <2>1. /\ apc = "closed" /\ rpc = "done" => apc' = "closed"
        /\ apc' = "off" => apc = "off"
    BY <1>5, GoroutineMoves
       DEF Launch, Crash, Receive, StartFails, Start, Announce, Scan, Truncate, ScanCut,
           ScanEnds, WaitOk, WaitFails
  <2> QED
    BY <1>5, <2>1 DEF RowKept
<1> QED
  BY <1>1, <1>2, <1>3, <1>4, <1>5, RunnerMoves

LEMMA JudgedHolds ==
  ASSUME TypeOK, Places, Life, Judged, RowKept, [Next]_vars
  PROVE  Judged'
<1>1. CASE Promote
  <2>1. rpc' = "closing" /\ apc' = "closed" /\ UNCHANGED <<res, ctx, artifact, row>>
    BY <1>1 DEF Promote, Places, agentVars, procVars
  <2>2. DEFINE success == Clean /\ (NeedsArtifact => artifact)
  <2>3. promoted' = success /\ success \in BOOLEAN
    BY <1>1 DEF Promote, Clean
  <2>4. source' = IF success THEN "" ELSE IF Clean THEN "missing_artifact" ELSE FailureUnder(ctx)
    BY <1>1, FailureNamed DEF Promote
  <2>5. Clean' = Clean /\ FailureUnder(ctx)' = FailureUnder(ctx)
    <3>1. Clean' = Clean /\ SourceOfResult' = SourceOfResult
      BY <2>1 DEF Clean, SourceOfResult
    <3> QED
      BY <2>1, <3>1 DEF FailureUnder
  <2>6. promoted' <=> source' = ""
    BY <2>3, <2>4, FailureNamed
  <2>7. Clean => source' \in {"", "missing_artifact"}
    BY <2>4
  <2>8. ~Clean => source' = FailureUnder(ctx)
    BY <2>4
  <2>9. promoted' => Clean /\ (NeedsArtifact => artifact)
    BY <2>3
  <2> HIDE DEF success
  <2> QED
    BY <2>1, <2>5, <2>6, <2>7, <2>8, <2>9 DEF Judged
<1>2. CASE CloseRow
  <2>1. /\ rpc = "closing" /\ rpc' = "done"
        /\ row' \in {row, IF source = "" THEN "ok" ELSE "failed"}
        /\ row \in {"open", "live"}
        /\ UNCHANGED <<res, source, promoted, apc, exit, artifact, ctx>>
    BY <1>2 DEF CloseRow, agentVars, procVars, RowKept
  <2>2. Clean' = Clean /\ FailureUnder(ctx)' = FailureUnder(ctx) /\ FailureUnder("live")' = FailureUnder("live")
    <3>1. Clean' = Clean /\ SourceOfResult' = SourceOfResult
      BY <2>1 DEF Clean, SourceOfResult
    <3> QED
      BY <2>1, <3>1 DEF FailureUnder
  <2> QED
    BY <2>1, <2>2 DEF Judged, Closing
<1>3. CASE Prepare \/ PrepareFails \/ FailEarly \/ Launch \/ LeaveLoop
  <2>1. rpc \in {"idle", "prepared", "loop"} /\ UNCHANGED promoted
    BY <1>3 DEF Prepare, PrepareFails, FailEarly, Launch, LeaveLoop
  <2>2. ~promoted /\ promoted' = FALSE
    BY <2>1 DEF Judged, TypeOK, RunTypeOK
  <2>3. /\ rpc' # "closing"
        /\ rpc' = "done" => row' \in {"none", "open"} /\ apc' # "closed"
    BY <1>3 DEF Prepare, PrepareFails, FailEarly, Launch, LeaveLoop, RowKept, Places, agentVars
  <2> QED
    BY <2>2, <2>3 DEF Judged, Closing
<1>4. CASE Crash
  <2>1. rpc' = "crashed" /\ UNCHANGED <<res, promoted, artifact>>
    BY <1>4 DEF Crash, procVars
  <2> QED
    BY <2>1 DEF Judged, Closing, Clean
<1>5. CASE UNCHANGED <<rpc, source, promoted>> /\ (Receive \/ UNCHANGED <<res, row>>)
  <2>1. CASE Receive
    <3>1. rpc = "loop" /\ rpc' = "loop"
      BY <2>1 DEF Receive
    <3> QED
      BY <1>5, <3>1 DEF Judged, Closing
  <2>2. CASE UNCHANGED <<res, row>>
    <3>1. artifact => artifact'
      BY ProcessMoves
    <3>7. Closing' = Closing
      <4>1. rpc = "done" => (apc = "closed" <=> apc' = "closed")
        BY GoroutineMoves
           DEF Launch, Crash, Receive, StartFails, Start, Announce, Scan, Truncate, ScanCut,
               ScanEnds, WaitOk, WaitFails, Places
      <4> QED
        BY <1>5, <4>1 DEF Closing
    <3>2. Clean' = Clean /\ Closing' = Closing /\ \A c : FailureUnder(c)' = FailureUnder(c)
      BY <1>5, <2>2, <3>7 DEF Clean, FailureUnder, SourceOfContext, SourceOfResult
    <3>3. ASSUME Closing
          PROVE  /\ apc' = "closed" /\ exit' = exit
                 /\ ctx' = ctx \/ (ctx = "live" /\ exit # "sig")
      <4>1. apc = "closed" /\ rpc \notin {"prepared", "loop", "crashed"}
        BY <3>3 DEF Judged, Closing
      <4>2. apc' = "closed"
        BY <4>1, GoroutineMoves DEF Launch, Crash, Receive, StartFails, Start, Announce, Scan,
                                    Truncate, ScanCut, ScanEnds, WaitOk, WaitFails
      <4>3. proc \in {"unborn", "dead"}
        BY <4>1 DEF Life
      <4>4. exit' = exit
        BY <4>1, <4>3, ProcessMoves
           DEF Start, Written, Write, Quit, Kill, Terminate, KillLeader, Watching
      <4> QED
        BY <4>2, <4>4, ProcessMoves DEF Life
    <3>4. FailureUnder(ctx)' = FailureUnder(ctx')
      BY <2>2 DEF FailureUnder, SourceOfResult
    <3>5. FailureUnder("live")' = FailureUnder("live")
      BY <3>2
    <3>6. ASSUME Closing, ~Clean
          PROVE  \/ source = FailureUnder(ctx')
                 \/ source = FailureUnder("live") /\ exit' # "sig"
      BY <3>3, <3>6 DEF Judged
    <3> QED
      BY <1>5, <2>2, <3>1, <3>2, <3>3, <3>4, <3>5, <3>6 DEF Judged
  <2> QED
    BY <1>5, <2>1, <2>2
<1> QED
  BY <1>1, <1>2, <1>3, <1>4, <1>5, RunnerMoves

-----------------------------------------------------------------------------
(* The theorems. *)

LEMMA InitHolds == Init => IInv
<1> SUFFICES ASSUME Init PROVE IInv
  OBVIOUS
<1>1. /\ rpc = "idle" /\ apc = "off" /\ proc = "unborn" /\ exit = "0" /\ signal = "none"
      /\ pipe = <<>> /\ chan = <<>> /\ res = NoResult /\ row = "none"
      /\ promoted = FALSE /\ said = "none"
  BY DEF Init
<1>2. 1..Len(<<>>) = {}
  BY EmptySeq
<1>3. NoResult.kind = "none" /\ NoResult.exit = "0"
  BY DEF NoResult
<1>4. ~Erroneous /\ ~ErrorSent
  BY <1>1, <1>2, <1>3 DEF Erroneous, ErrorSent
<1>5. Said
  BY <1>1, <1>2, <1>3 DEF Said, SilentPipe, SilentChan, Results
<1>6. ErrorsLast /\ CleanOrTold
  BY <1>1, <1>2, <1>4 DEF ErrorsLast, CleanOrTold
<1>7. Places /\ Life /\ RowKept
  BY <1>1, <1>2 DEF Places, Life, RowKept
<1>8. Judged
  BY <1>1 DEF Judged, Closing
<1> QED
  BY <1>5, <1>6, <1>7, <1>8, InitTyped DEF IInv

LEMMA StepHolds == IInv /\ [Next]_vars => IInv'
BY StepTyped, PlacesHold, LifeHolds, SaidHolds, ErrorsLastHolds, CleanOrToldHolds, JudgedHolds,
   RowKeptHolds DEF IInv

\* Everything the other theorems rest on: where the runner, the goroutine and
\* the process are, what of the process's output is still on its way, and what
\* the runner has concluded from the rest.
THEOREM Invariant == Spec => []IInv
<1>1. Init => IInv
  BY InitHolds
<1>2. IInv /\ [Next]_vars => IInv'
  BY StepHolds
<1> QED
  BY <1>1, <1>2, PTL DEF Spec

\* Every variable keeps its type, and neither the pipe nor the channel ever
\* holds more than it can.
THEOREM Typed == Spec => []TypeOK
<1>1. IInv => TypeOK
  BY DEF IInv
<1> QED
  BY <1>1, Invariant, PTL

\* The loop is left with an empty channel: what the process said last and is
\* not in the pipe is what the runner holds.
LEMMA AllHeard ==
  ASSUME IInv, chan = <<>>, pipe = <<>>
  PROVE  said = IF res.kind \in Results THEN res.kind ELSE "none"
<1>1. 1..Len(<<>>) = {}
  BY EmptySeq
<1> QED
  BY <1>1 DEF IInv, Said, LastInPipe, LastInChan

\* A channel closed by the goroutine and drained, and nothing erroneous held:
\* the process ended by itself with 0 and everything it printed was read.
LEMMA CleanEnd ==
  ASSUME IInv, rpc # "crashed", apc = "closed", chan = <<>>, ~Erroneous
  PROVE  proc = "dead" /\ exit = "0" /\ pipe = <<>> /\ held = {}
<1>1. ~ErrorSent
  BY EmptySeq DEF ErrorSent
<1> QED
  BY <1>1 DEF IInv, CleanOrTold

\* Success is clean (runner.go:979, claude.go:281-304): a row is closed as a
\* success, and files are promoted, only for a process that ended by itself
\* with 0 after a last result that was no error.
THEOREM SuccessIsCleanHolds == Spec => []SuccessIsClean
<1>1. ASSUME IInv PROVE SuccessIsClean
  <2> USE <1>1
  <2>1. ASSUME row = "ok"
        PROVE  proc = "dead" /\ exit = "0" /\ said = "ok" /\ pipe = <<>> /\ held = {}
    <3>1. rpc = "done" /\ apc = "closed" /\ chan = <<>>
      BY <2>1 DEF IInv, RowKept, Places
    <3>2. Clean
      BY <2>1, <3>1 DEF IInv, Judged
    <3>3. ~Erroneous
      BY <3>2 DEF Clean, Erroneous
    <3>4. proc = "dead" /\ exit = "0" /\ pipe = <<>> /\ held = {}
      BY <3>1, <3>3, CleanEnd
    <3>5. said = "ok"
      BY <3>1, <3>2, <3>4, AllHeard DEF Clean, Results
    <3> QED
      BY <3>4, <3>5
  <2> QED
    BY <2>1 DEF IInv, Judged, SuccessIsClean, Readers!Closed
<1> QED
  BY <1>1, Invariant, PTL

\* Nothing is left behind (runner.go:732-738): when Execute returns there is no
\* process of its own, and its goroutine has ended.
THEOREM NothingLeftBehindHolds == Spec => []NothingLeftBehind
<1>1. IInv => NothingLeftBehind
  BY DEF IInv, Places, Life, NothingLeftBehind
<1> QED
  BY <1>1, Invariant, PTL

\* Blame (runner.go:860-875, 1192-1223): what the agent said of its own failure
\* outranks the exit code that follows it, and a process that ateam killed is
\* never blamed for its death.
THEOREM BlamedRightlyHolds == Spec => []BlamedRightly
<1>1. ASSUME IInv PROVE BlamedRightly
  <2> USE <1>1
  <2> SUFFICES ASSUME rpc = "done"
               PROVE  /\ ctx = "live" /\ said = "failed" /\ pipe = <<>> =>
                           source = "agent_api"
                      /\ exit = "sig" => source \in {"ateam_timeout", "parent_terminated",
                                                     "user_canceled"}
    BY DEF BlamedRightly
  <2>1. chan = <<>> /\ apc \in {"off", "closed"}
    BY DEF IInv, Places
  <2>2. ASSUME ctx = "live", said = "failed", pipe = <<>>
        PROVE  source = "agent_api"
    <3>1. res.kind = "failed"
      BY <2>1, <2>2, AllHeard DEF Results
    <3>2. ~Clean /\ Closing
      <4>1. apc # "off"
        BY <3>1 DEF IInv, RowKept, NoResult
      <4> QED
        BY <2>1, <3>1, <4>1 DEF Clean, Closing
    <3>3. source = FailureUnder("live")
      BY <2>2, <3>2 DEF IInv, Judged
    <3> QED
      BY <3>1, <3>3 DEF FailureUnder, SourceOfResult
  <2>3. ASSUME exit = "sig"
        PROVE  source \in {"ateam_timeout", "parent_terminated", "user_canceled"}
    <3>1. proc = "dead" /\ ctx # "live" /\ apc = "closed"
      BY <2>1, <2>3 DEF IInv, Life
    <3>2. Erroneous
      BY <2>1, <2>3, <3>1, CleanEnd
    <3>4. Closing /\ ~Clean
      BY <3>1, <3>2 DEF Closing, Clean, Erroneous
    <3>5. source = FailureUnder(ctx) /\ ctx \in {"deadline", "interrupt", "terminate"}
      BY <2>3, <3>1, <3>4 DEF IInv, Judged, TypeOK, RunTypeOK
    <3> QED
      BY <3>5 DEF FailureUnder, SourceOfContext
  <2> QED
    BY <2>2, <2>3
<1> QED
  BY <1>1, Invariant, PTL

\* Every step of a run is a step of its row as the readers of agent_execs take
\* it to be, or leaves the row alone, whichever writes of it fail
\* (runner.go:668-670, 1064-1066): a row that is closed stays as it is.
THEOREM ImplementsExecRowHolds == Spec => ImplementsExecRow
<1>1. Init => Readers!Init
  BY DEF Init, Readers!Init
<1>2. IInv /\ [Next]_vars => [Readers!Next]_row
  <2> SUFFICES ASSUME IInv, [Next]_vars, row' # row
               PROVE  Readers!Next
    OBVIOUS
  <2> USE DEF Readers!Next, Readers!Insert, Readers!RecordPid, Readers!CloseOk,
              Readers!CloseFailed
  <2>1. CASE Prepare
    BY <2>1 DEF Prepare, IInv, RowKept
  <2>2. CASE Receive
    <3>1. Head(chan).type = "pid" /\ row' = "live" /\ rpc = "loop"
      BY <2>2 DEF Receive
    <3>2. row = "open"
      BY <3>1 DEF IInv, RowKept
    <3> QED
      BY <3>1, <3>2
  <2>3. CASE CloseRow
    <3>1. /\ rpc = "closing" /\ row \in {"open", "live"}
          /\ row' \in {row, IF source = "" THEN "ok" ELSE "failed"}
      BY <2>3 DEF CloseRow, IInv, RowKept
    <3> QED
      BY <3>1
  <2>4. CASE PrepareFails \/ FailEarly \/ Launch \/ LeaveLoop \/ Promote \/ Crash
    BY <2>4 DEF PrepareFails, FailEarly, Launch, LeaveLoop, Promote, Crash
  <2> QED
    BY <2>1, <2>2, <2>3, <2>4, RunnerMoves
<1>3. Spec => []IInv
  BY Invariant
<1> QED
  BY <1>1, <1>2, <1>3, PTL DEF Spec, ImplementsExecRow, Readers!Spec

-----------------------------------------------------------------------------
(* The observers of Watch, for any runs, streams and observers.            *)

RowStates == {"none", "bare", "open", "ok", "error"}
Files == [off : Nat, keep : BOOLEAN, seen : SUBSET Nat]
TailSources == [known : BOOLEAN, done : BOOLEAN, told : RowStates \cup {"nothing"}, file : Files]
TopRows == [state : RowStates \cup {"running", "canceled"}, dead : 0..2, file : Files]

WatchTypeOK ==
  /\ rows \in [Runs -> RowStates]
  /\ procs \in [Runs -> {"none", "alive", "dead", "lost"}]
  /\ size \in [Runs -> Nat]
  /\ src \in [Runs -> TailSources]
  /\ top \in [Runs -> TopRows]

\* A reader is within what is written, keeps a first half exactly when it
\* stopped in a line, and has seen the lines before that.
InStep(f, n) ==
  /\ f.off <= n
  /\ f.keep <=> f.off % 2 = 1
  /\ f.seen = 1..(f.off \div 2)

\* A stream whose row is closed has no writer any more.
Frozen(i) == Closed(i) => procs[i] # "alive"
TailTrue(i) == src[i].done => HasResult(i, src[i].file) \/ (Closed(i) /\ src[i].file.off = size[i])
TopTrue(i) == top[i].state \in {"ok", "error"} => top[i].state = rows[i] /\ top[i].file.off = size[i]

Watched(i) ==
  /\ InStep(src[i].file, size[i])
  /\ InStep(top[i].file, size[i])
  /\ Frozen(i)
  /\ TailTrue(i)
  /\ TopTrue(i)

WatchInv == WatchTypeOK /\ \A i \in Runs : Watched(i)

-----------------------------------------------------------------------------
\* readNewLines from any place to any later one reads each line in between
\* whole and once, and forgets none.
LEMMA ReadNewReads ==
  ASSUME NEW f \in Files, NEW m \in Nat, InStep(f, m), NEW n \in Nat, m <= n
  PROVE  /\ ReadNew(f, n) \in Files
         /\ InStep(ReadNew(f, n), n)
         /\ ReadNew(f, n).off = n
         /\ f.seen \subseteq ReadNew(f, n).seen
<1>1. f.off \in Nat /\ f.keep \in BOOLEAN /\ f.seen \in SUBSET Nat
  BY DEF Files
<1>2. CASE n <= f.off
  <2>1. f.off = n
    BY <1>1, <1>2 DEF InStep
  <2>2. ReadNew(f, n) = f
    BY <1>2 DEF ReadNew
  <2> QED
    BY <2>1, <2>2, <1>1 DEF InStep
<1>3. CASE ~(n <= f.off)
  <2> DEFINE new == {k \in 1..n : /\ f.off < 2 * k /\ 2 * k <= n
                                  /\ f.off < 2 * k - 1 \/ f.keep}
  <2>1. ReadNew(f, n) = [off |-> n, keep |-> n % 2 = 1, seen |-> f.seen \cup new]
    BY <1>3 DEF ReadNew
  <2>2. ASSUME NEW k \in 1..(f.off \div 2) PROVE k \in 1..(n \div 2)
    BY <1>1, <1>3
  <2>3. ASSUME NEW k \in new PROVE k \in 1..(n \div 2)
    BY <1>1
  <2>4. ASSUME NEW k \in 1..(n \div 2), k \notin 1..(f.off \div 2) PROVE k \in new
    <3>1. k \in 1..n /\ 2 * k <= n /\ f.off < 2 * k
      BY <1>1, <2>4
    <3>2. CASE f.off < 2 * k - 1
      BY <3>1, <3>2
    <3>3. CASE ~(f.off < 2 * k - 1)
      <4>1. f.off = 2 * k - 1
        BY <3>1, <3>3, <1>1
      <4>2. f.off % 2 = 1
        BY <4>1, <3>1
      <4>3. f.keep
        BY <4>2 DEF InStep
      <4> QED
        BY <4>3, <3>1
    <3> QED
      BY <3>2, <3>3
  <2>5. f.seen \cup new = 1..(n \div 2)
    <3> HIDE DEF new
    <3> QED
      BY <2>2, <2>3, <2>4 DEF InStep
  <2>6. ReadNew(f, n).off = n /\ ReadNew(f, n).keep = (n % 2 = 1) /\ ReadNew(f, n).seen = 1..(n \div 2)
    BY <2>1, <2>5
  <2>7. ReadNew(f, n) \in Files
    <3>1. 1..(n \div 2) \in SUBSET Nat
      OBVIOUS
    <3>2. ReadNew(f, n) = [off |-> n, keep |-> n % 2 = 1, seen |-> 1..(n \div 2)]
      BY <2>1, <2>5
    <3> QED
      BY <3>1, <3>2 DEF Files
  <2>8. f.seen \subseteq ReadNew(f, n).seen
    <3> HIDE DEF new
    <3> QED
      BY <2>1
  <2>9. ReadNew(f, n).keep <=> n % 2 = 1
    BY <2>6, Zenon
  <2>10. InStep(ReadNew(f, n), n)
    <3>1. ReadNew(f, n).off <= n
      BY <2>6
    <3> QED
      BY <3>1, <2>6, <2>9, Zenon DEF InStep
  <2> QED
    BY <2>6, <2>7, <2>8, <2>10
<1> QED
  BY <1>2, <1>3

\* An observer that has read on is still in step with the stream.
LEMMA InStepStays ==
  ASSUME NEW f \in Files, NEW m \in Nat, NEW n \in Nat, m <= n, InStep(f, m)
  PROVE  InStep(f, n)
BY DEF InStep, Files

LEMMA WatchBegins == WatchInit => WatchInv
<1> SUFFICES ASSUME WatchInit PROVE WatchInv
  OBVIOUS
<1>1. Fresh \in Files /\ InStep(Fresh, 0)
  <2>1. Fresh = [off |-> 0, keep |-> FALSE, seen |-> {}]
    BY DEF Fresh
  <2>2. Fresh.off = 0 /\ Fresh.keep = FALSE /\ Fresh.seen = {}
    BY <2>1
  <2>3. 0 % 2 = 0 /\ 1..(0 \div 2) = {}
    OBVIOUS
  <2> QED
    BY <2>1, <2>2, <2>3 DEF Files, InStep
<1>2. NoSource \in TailSources /\ NoSource.file = Fresh /\ ~NoSource.done
  BY <1>1 DEF NoSource, TailSources, RowStates
<1>3. NoTopRow \in TopRows /\ NoTopRow.file = Fresh /\ NoTopRow.state = "none"
  BY <1>1 DEF NoTopRow, TopRows, RowStates
<1>4. WatchTypeOK
  BY <1>2, <1>3 DEF WatchTypeOK, WatchInit, RowStates
<1>5. ASSUME NEW i \in Runs PROVE Watched(i)
  <2>1. rows[i] = "none" /\ size[i] = 0 /\ src[i] = NoSource /\ top[i] = NoTopRow
    BY DEF WatchInit
  <2> QED
    BY <2>1, <1>1, <1>2, <1>3 DEF Watched, Frozen, TailTrue, TopTrue, Closed
<1> QED
  BY <1>4, <1>5 DEF WatchInv

\* A step of a run: its stream only grows, and no more once its row is closed.
LEMMA RunsGoOn ==
  ASSUME WatchInv, NEW i \in Runs,
         Insert(i) \/ LaunchAgent(i) \/ WriteHalf(i) \/ Exit(i) \/ Close(i)
  PROVE  WatchInv'
<1> USE DEF WatchInv
<1>1. UNCHANGED <<src, top>>
  BY DEF Insert, LaunchAgent, WriteHalf, Exit, Close, tailVars
<1>2. WatchTypeOK'
  <2>1. CASE Insert(i)
    BY <2>1, <1>1 DEF Insert, WatchTypeOK, RowStates
  <2>2. CASE LaunchAgent(i)
    BY <2>2, <1>1 DEF LaunchAgent, WatchTypeOK
  <2>3. CASE WriteHalf(i)
    BY <2>3, <1>1 DEF WriteHalf, WatchTypeOK
  <2>4. CASE Exit(i)
    BY <2>4, <1>1 DEF Exit, WatchTypeOK
  <2>5. CASE Close(i)
    BY <2>5, <1>1 DEF Close, WatchTypeOK, RowStates
  <2> QED
    BY <2>1, <2>2, <2>3, <2>4, <2>5
<1>3. ASSUME NEW j \in Runs
      PROVE  /\ size[j] \in Nat /\ size'[j] \in Nat /\ size[j] <= size'[j]
             /\ Closed(j) => size'[j] = size[j] /\ rows'[j] = rows[j]
             /\ Frozen(j)'
  <2>1. Frozen(j)
    BY DEF Watched
  <2>2. CASE Insert(i)
    BY <2>1, <2>2 DEF Insert, WatchTypeOK, Closed, Frozen
  <2>3. CASE LaunchAgent(i)
    BY <2>1, <2>3 DEF LaunchAgent, WatchTypeOK, Closed, Frozen
  <2>4. CASE WriteHalf(i)
    <3>1. procs[i] = "alive" /\ size' = [size EXCEPT ![i] = @ + 1] /\ rows' = rows /\ procs' = procs
      BY <2>4 DEF WriteHalf
    <3>2. Closed(j) => j # i
      BY <2>1, <3>1 DEF Frozen
    <3>3. size \in [Runs -> Nat]
      BY DEF WatchTypeOK
    <3>4. Frozen(j)'
      BY <2>1, <3>1 DEF Frozen, Closed
    <3> QED
      BY <3>1, <3>2, <3>3, <3>4
  <2>5. CASE Exit(i)
    BY <2>1, <2>5 DEF Exit, WatchTypeOK, Closed, Frozen
  <2>6. CASE Close(i)
    BY <2>1, <2>6 DEF Close, WatchTypeOK, Closed, Frozen
  <2> QED
    BY <2>2, <2>3, <2>4, <2>5, <2>6
<1>4. ASSUME NEW j \in Runs PROVE Watched(j)'
  <2>1. Watched(j) /\ src[j] \in TailSources /\ top[j] \in TopRows /\ rows[j] \in RowStates
    BY DEF WatchTypeOK
  <2>2. src[j].file \in Files /\ top[j].file \in Files
    BY <2>1 DEF TailSources, TopRows
  <2>3. InStep(src[j].file, size'[j]) /\ InStep(top[j].file, size'[j])
    BY <2>1, <2>2, <1>3, InStepStays DEF Watched
  <2>4. TailTrue(j)'
    BY <2>1, <1>1, <1>3 DEF Watched, TailTrue, Closed, HasResult
  <2>5. TopTrue(j)'
    BY <2>1, <1>1, <1>3 DEF Watched, TopTrue, Closed
  <2> QED
    BY <2>3, <2>4, <2>5, <1>1, <1>3 DEF Watched
<1> QED
  BY <1>2, <1>4

-----------------------------------------------------------------------------
\* What a poll makes of a source.
LEMMA PolledTrue ==
  ASSUME WatchInv, NEW i \in Runs, NEW s \in Polled(i)
  PROVE  /\ s \in TailSources
         /\ InStep(s.file, size[i])
         /\ s.file.off = size[i]
         /\ s.done => HasResult(i, s.file) \/ Closed(i)
<1> DEFINE f == ReadNew(src[i].file, size[i])
<1>1. /\ src[i] \in TailSources /\ size[i] \in Nat /\ rows[i] \in RowStates /\ Watched(i)
  BY DEF WatchInv, WatchTypeOK
<1>2. src[i].file \in Files
  BY <1>1 DEF TailSources
<1>3. f \in Files /\ InStep(f, size[i]) /\ f.off = size[i]
  BY <1>1, <1>2, ReadNewReads DEF Watched
<1>4. Tells(i) \subseteq RowStates \cup {"nothing"}
  BY <1>1 DEF Tells, TailSources
<1>5. CASE HasResult(i, f)
  <2>1. s \in [known : {TRUE}, done : {TRUE}, told : Tells(i), file : {f}]
    BY <1>5 DEF Polled
  <2>2. s.file = f
    BY <2>1
  <2>3. s \in TailSources
    BY <2>1, <1>3, <1>4 DEF TailSources
  <2> QED
    BY <2>2, <2>3, <1>3, <1>5
<1>6. CASE ~HasResult(i, f)
  <2>1. s = [src[i] EXCEPT !.file = f]
    BY <1>6 DEF Polled
  <2>2. s \in TailSources /\ s.file = f /\ s.done = src[i].done
    BY <2>1, <1>1, <1>3 DEF TailSources
  <2>3. src[i].done => HasResult(i, src[i].file) \/ Closed(i)
    BY <1>1 DEF Watched, TailTrue
  <2>4. src[i].file.seen \subseteq f.seen
    BY <1>1, <1>2, ReadNewReads DEF Watched
  <2>5. HasResult(i, src[i].file) => HasResult(i, f)
    BY <2>4 DEF HasResult
  <2> HIDE DEF f
  <2> QED
    BY <2>2, <2>3, <2>5, <1>3
<1> QED
  BY <1>5, <1>6

LEMMA EndedTrue ==
  ASSUME WatchInv, NEW i \in Runs, Closed(i), NEW s \in Ended(i)
  PROVE  /\ s \in TailSources
         /\ InStep(s.file, size[i])
         /\ s.file.off = size[i]
<1>1. PICK p \in Polled(i) : s \in Told(i, p)
  BY DEF Ended
<1>2. PICK t \in Tells(i) : s = [p EXCEPT !.done = TRUE, !.told = t]
  BY <1>1 DEF Told
<1>3. p \in TailSources /\ InStep(p.file, size[i]) /\ p.file.off = size[i]
  BY PolledTrue
<1>4. t \in RowStates \cup {"nothing"}
  <2>1. src[i] \in TailSources /\ rows[i] \in RowStates
    BY DEF WatchInv, WatchTypeOK
  <2> QED
    BY <2>1 DEF Tells, TailSources
<1>5. s \in TailSources /\ s.file = p.file
  BY <1>2, <1>3, <1>4 DEF TailSources
<1> QED
  BY <1>3, <1>5

\* A step of tail leaves each source as it is, adds it, polls it, or ends it
\* when its row is closed.
Moves(i) ==
  \/ src'[i] = src[i]
  \/ src'[i] = [src[i] EXCEPT !.known = TRUE]
  \/ src'[i] \in Polled(i)
  \/ Closed(i) /\ src'[i] \in Ended(i)

LEMMA TailMoves ==
  ASSUME WatchInv, Follow \/ Interrupt
  PROVE  /\ UNCHANGED <<runVars, top>>
         /\ DOMAIN src' = Runs /\ src' = [i \in Runs |-> src'[i]]
         /\ \A i \in Runs : Moves(i)
<1>1. src \in [Runs -> TailSources]
  BY DEF WatchInv, WatchTypeOK
<1>2. ASSUME NEW found, Add(found)
      PROVE  src' = [i \in Runs |-> src'[i]] /\ \A i \in Runs : Moves(i)
  BY <1>2 DEF Add, Moves
<1>3. ASSUME src' = src
      PROVE  src' = [i \in Runs |-> src'[i]] /\ \A i \in Runs : Moves(i)
  BY <1>1, <1>3 DEF Moves
<1>4. ASSUME PollAll
      PROVE  src' = [i \in Runs |-> src'[i]] /\ \A i \in Runs : Moves(i)
  BY <1>4 DEF PollAll, Moves
<1>5. ASSUME CheckDone
      PROVE  src' = [i \in Runs |-> src'[i]] /\ \A i \in Runs : Moves(i)
  BY <1>5 DEF CheckDone, Moves
<1>6. UNCHANGED <<runVars, top>>
  BY DEF Follow, Interrupt, TailBegins, WaitForSources, DiscoverMore, Decide, PollFiles, CheckDone, CheckFails
<1>7. src' = [i \in Runs |-> src'[i]] /\ \A i \in Runs : Moves(i)
  <2>1. CASE TailBegins
    <3>1. src' = src \/ \E found : Add(found)
      BY <2>1 DEF TailBegins
    <3> QED
      BY <3>1, <1>2, <1>3
  <2>2. CASE WaitForSources
    <3>1. src' = src \/ \E found : Add(found)
      BY <2>2 DEF WaitForSources, Discover
    <3> QED
      BY <3>1, <1>2, <1>3
  <2>3. CASE DiscoverMore
    <3>1. src' = src \/ \E found : Add(found)
      BY <2>3 DEF DiscoverMore, Discover
    <3> QED
      BY <3>1, <1>2, <1>3
  <2>4. CASE Decide \/ CheckFails
    BY <2>4, <1>3 DEF Decide, CheckFails
  <2>5. CASE PollFiles("discover") \/ PollFiles("decide") \/ Interrupt
    BY <2>5, <1>4 DEF PollFiles, Interrupt
  <2>6. CASE CheckDone
    BY <2>6, <1>5
  <2> QED
    BY <2>1, <2>2, <2>3, <2>4, <2>5, <2>6 DEF Follow
<1> QED
  BY <1>6, <1>7

LEMMA TailGoesOn ==
  ASSUME WatchInv, Follow \/ Interrupt
  PROVE  WatchInv'
<1>1. /\ UNCHANGED <<rows, procs, size, top>>
      /\ src' = [i \in Runs |-> src'[i]]
      /\ \A i \in Runs : Moves(i)
  BY TailMoves DEF runVars
<1>2. ASSUME NEW i \in Runs
      PROVE  src'[i] \in TailSources /\ Watched(i)'
  <2>1. Watched(i) /\ src[i] \in TailSources
    BY DEF WatchInv, WatchTypeOK
  <2>2. src'[i] \in TailSources /\ InStep(src'[i].file, size[i]) /\ TailTrue(i)'
    <3>1. CASE src'[i] = src[i]
      BY <3>1, <2>1, <1>1 DEF Watched, TailTrue, Closed, HasResult
    <3>2. CASE src'[i] = [src[i] EXCEPT !.known = TRUE]
      <4>1. src'[i] \in TailSources /\ src'[i].file = src[i].file /\ src'[i].done = src[i].done
        BY <3>2, <2>1 DEF TailSources
      <4> QED
        BY <4>1, <2>1, <1>1 DEF Watched, TailTrue, Closed, HasResult
    <3>3. CASE src'[i] \in Polled(i)
      <4>1. /\ src'[i] \in TailSources /\ InStep(src'[i].file, size[i]) /\ src'[i].file.off = size[i]
            /\ src'[i].done => HasResult(i, src'[i].file) \/ Closed(i)
        BY <3>3, PolledTrue
      <4> QED
        BY <4>1, <1>1 DEF TailTrue, Closed, HasResult
    <3>4. CASE Closed(i) /\ src'[i] \in Ended(i)
      <4>1. src'[i] \in TailSources /\ InStep(src'[i].file, size[i]) /\ src'[i].file.off = size[i]
        BY <3>4, EndedTrue
      <4> QED
        BY <4>1, <3>4, <1>1 DEF TailTrue, Closed
    <3> QED
      BY <3>1, <3>2, <3>3, <3>4, <1>1 DEF Moves
  <2> QED
    BY <2>1, <2>2, <1>1 DEF Watched, Frozen, TopTrue, Closed
<1>3. src' \in [Runs -> TailSources]
  BY <1>1, <1>2
<1> QED
  BY <1>1, <1>2, <1>3 DEF WatchInv, WatchTypeOK

-----------------------------------------------------------------------------
LEMMA TopGoesOn ==
  ASSUME WatchInv, RefreshFromDB \/ PollStreams
  PROVE  WatchInv'
<1>1. UNCHANGED <<rows, procs, size, src>>
  BY DEF RefreshFromDB, PollStreams, runVars, tailVars
<1>2. top' = [i \in Runs |-> top'[i]]
  BY DEF RefreshFromDB, PollStreams
<1>3. ASSUME NEW i \in Runs
      PROVE  top'[i] \in TopRows /\ InStep(top'[i].file, size[i]) /\ TopTrue(i)'
  <2> DEFINE f == ReadNew(top[i].file, size[i])
  <2>1. Watched(i) /\ top[i] \in TopRows /\ size[i] \in Nat /\ rows[i] \in RowStates
    BY DEF WatchInv, WatchTypeOK
  <2>2. top[i].file \in Files
    BY <2>1 DEF TopRows
  <2>3. f \in Files /\ InStep(f, size[i]) /\ f.off = size[i]
    BY <2>1, <2>2, ReadNewReads DEF Watched
  <2> HIDE DEF f
  <2>4. CASE top'[i] = top[i]
    BY <2>4, <2>1, <1>1 DEF Watched, TopTrue
  <2>5. CASE RefreshFromDB
    <3>1. top'[i] = Refreshed(i)
      BY <2>5 DEF RefreshFromDB
    <3>2. CASE top[i].state = "none" /\ Running(i) /\ Alive(i)
      <4>1. top'[i] = [NoTopRow EXCEPT !.state = "running"]
        BY <3>1, <3>2 DEF Refreshed
      <4>2. top'[i] = [state |-> "running", dead |-> 0, file |-> Fresh]
        BY <4>1 DEF NoTopRow
      <4>3. Fresh.off = 0 /\ Fresh.keep = FALSE /\ Fresh.seen = {} /\ Fresh \in Files
        BY DEF Fresh, Files
      <4>4. 0 % 2 = 0 /\ 1..(0 \div 2) = {}
        OBVIOUS
      <4>5. InStep(Fresh, size[i])
        BY <4>3, <4>4, <2>1 DEF InStep
      <4> QED
        BY <4>2, <4>3, <4>5 DEF TopRows, TopTrue
    <3>3. CASE top[i].state = "running" /\ Running(i)
      <4>1. \/ top'[i] = [top[i] EXCEPT !.dead = 0]
            \/ top'[i] = [top[i] EXCEPT !.dead = 2, !.state = "canceled"]
            \/ top'[i] = [top[i] EXCEPT !.dead = 1]
        BY <3>1, <3>3 DEF Refreshed
      <4>2. top'[i] \in TopRows /\ top'[i].file = top[i].file /\ top'[i].state \in {"running", "canceled"}
        <5>1. CASE top'[i] = [top[i] EXCEPT !.dead = 0]
          BY <5>1, <2>1, <3>3 DEF TopRows
        <5>2. CASE top'[i] = [top[i] EXCEPT !.dead = 2, !.state = "canceled"]
          <6>1. top[i].file \in Files /\ top[i] = [state |-> "running", dead |-> top[i].dead, file |-> top[i].file]
            BY <2>1, <3>3 DEF TopRows
          <6>2. top'[i] = [state |-> "canceled", dead |-> 2, file |-> top[i].file]
            BY <5>2, <6>1
          <6> QED
            BY <6>1, <6>2 DEF TopRows
        <5>3. CASE top'[i] = [top[i] EXCEPT !.dead = 1]
          BY <5>3, <2>1, <3>3 DEF TopRows
        <5> QED
          BY <4>1, <5>1, <5>2, <5>3
      <4> QED
        BY <4>2, <2>1, <1>1 DEF Watched, TopTrue
    <3>4. CASE top[i].state = "running" /\ ~Running(i)
      <4>1. top'[i] = [state |-> rows[i], dead |-> top[i].dead, file |-> f]
        BY <3>1, <3>4 DEF Refreshed, Finalized, f
      <4>2. top'[i] \in TopRows /\ top'[i].file = f /\ top'[i].state = rows[i]
        BY <4>1, <2>1, <2>3 DEF TopRows
      <4> QED
        BY <4>2, <2>3, <1>1 DEF TopTrue
    <3> QED
      BY <3>1, <3>2, <3>3, <3>4, <2>4 DEF Refreshed
  <2>6. CASE PollStreams
    <3>1. top'[i] = top[i] \/ (top[i].state = "running" /\ top'[i] = [top[i] EXCEPT !.file = f])
      BY <2>6 DEF PollStreams, f
    <3>2. CASE top[i].state = "running" /\ top'[i] = [top[i] EXCEPT !.file = f]
      <4>1. top'[i] \in TopRows /\ top'[i].file = f /\ top'[i].state = "running"
        BY <3>2, <2>1, <2>3 DEF TopRows
      <4> QED
        BY <4>1, <2>3, <1>1 DEF TopTrue
    <3> QED
      BY <3>1, <3>2, <2>4
  <2> QED
    BY <2>5, <2>6
<1>4. top' \in [Runs -> TopRows]
  BY <1>2, <1>3
<1>5. ASSUME NEW i \in Runs PROVE Watched(i)'
  <2>1. Watched(i)
    BY DEF WatchInv
  <2> QED
    BY <2>1, <1>1, <1>3 DEF Watched, Frozen, TailTrue, Closed, HasResult
<1> QED
  BY <1>1, <1>4, <1>5 DEF WatchInv, WatchTypeOK

LEMMA WatchStep == WatchInv /\ [WatchNext]_watchVars => WatchInv'
<1> SUFFICES ASSUME WatchInv, [WatchNext]_watchVars PROVE WatchInv'
  OBVIOUS
<1>1. CASE UNCHANGED watchVars
  <2>1. UNCHANGED <<rows, procs, size, src, top>>
    BY <1>1 DEF watchVars, runVars, tailVars
  <2> QED
    BY <2>1 DEF WatchInv, WatchTypeOK, Watched, Frozen, TailTrue, TopTrue, Closed, HasResult
<1>2. CASE \E i \in Runs : Insert(i) \/ LaunchAgent(i) \/ WriteHalf(i) \/ Exit(i) \/ Close(i)
  BY <1>2, RunsGoOn
<1>3. CASE Follow \/ Interrupt
  BY <1>3, TailGoesOn
<1>4. CASE RefreshFromDB \/ PollStreams
  BY <1>4, TopGoesOn
<1> QED
  BY <1>1, <1>2, <1>3, <1>4 DEF WatchNext, Rest

\* Of any runs and streams, and however the readers fall between the halves of
\* their lines: tail and top have seen the first lines of each stream, whole
\* and once; a run they put away is one whose result they saw or whose stream
\* they read to its end, and top shows the end its row has.
THEOREM ShownWhatWasWrittenHolds == WatchSpec => []ShownWhatWasWritten
<1>1. WatchInv => ShownWhatWasWritten
  BY DEF WatchInv, Watched, InStep, TailTrue, TopTrue, ShownWhatWasWritten
<1> QED
  BY <1>1, WatchBegins, WatchStep, PTL DEF WatchSpec
=============================================================================
