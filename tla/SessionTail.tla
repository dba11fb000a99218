---------------------------- MODULE SessionTail -----------------------------
(***************************************************************************)
(* The stream file of a codex-tmux run: CodexTmuxAgent.run of              *)
(* internal/agent/codex_tmux.go, its tailer goroutine (TailSessionLog) and *)
(* the rollout files that codex processes write under ~/.codex/sessions.   *)
(*                                                                         *)
(* Another codex works in the same directory, so there are two rollouts,   *)
(* and nothing but the marker in the first user message tells them apart.  *)
(* codex writes a record in two halves; a reader may come in between.      *)
(***************************************************************************)
EXTENDS Naturals, Sequences, FiniteSets

CONSTANT Records  \* the records of a rollout, in order; "meta" comes first

Kinds == {"meta", "user", "context", "start", "message", "count", "complete"}

ASSUME RecordsAssumption ==
  Records \in Seq(Kinds) /\ Records # <<>> /\ Records[1] = "meta"

Ours == 1
Theirs == 2
Files == {Ours, Theirs}
None == 0

VARIABLES
  apc,       \* where CodexTmuxAgent.run is
  sent,      \* preparePrompt put the EXEC_ID marker under the prompt
  asked,     \* the tailer looks for it
  runCtx,       \* the run's context: live or done
  tailCtx,   \* the tailer's context: live or done
  tpc,       \* where TailSessionLog is
  path,      \* the file the tailer, or the agent, has just found
  open,      \* the file the tailer reads
  read,      \* halves it has taken from there
  partial,   \* halves it keeps for the next read
  tail,      \* tailState: a model, and a usage, have been seen
  line,      \* the line it is about to write
  size,      \* halves in each rollout
  first,     \* the rollout that was begun first
  stream,    \* agent.jsonl
  stats,     \* the rollout of SessionStats, and the records it was read from
  known      \* history: our marker was on file when RunTmux looked for it

tailVars == <<tpc, open, read, partial, tail, line>>
streamVars == <<apc, sent, asked, runCtx, tailCtx, tailVars, path, size, first, stream,
          stats, known>>

\* Records of file f that are complete.
Whole(f) == size[f] \div 2
HasMeta(f) == Whole(f) >= 1
HasUser(f) == \E i \in 1..Whole(f) : Records[i] = "user"
Newest == IF first = Ours /\ HasMeta(Theirs) THEN Theirs
          ELSE IF first = Theirs /\ HasMeta(Ours) THEN Ours
          ELSE IF HasMeta(Ours) THEN Ours ELSE Theirs

\* firstUserMessageContains: the marker of this run is in file f.
Marked(f) == f = Ours /\ sent /\ HasUser(f)

\* FindSessionLog: the file with the marker if one is asked for, else the newest.
FindSessionLog(marker) ==
  IF marker /\ \E f \in Files : HasMeta(f) /\ Marked(f) THEN Ours
  ELSE IF \E f \in Files : HasMeta(f) THEN Newest
  ELSE None

\* A line of agent.jsonl: the run's own, or one translated from a rollout.
Synthetic(k) == [of |-> None, kind |-> k, model |-> FALSE, usage |-> FALSE]
Line(f, k, t) == [of |-> f, kind |-> k, model |-> t.model, usage |-> t.usage]
NoLine == Synthetic("none")
Lines == [of : Files \cup {None},
          kind : {"none", "tmux.start", "assistant", "result", "meta", "start",
                  "message", "complete"},
          model : BOOLEAN, usage : BOOLEAN]
Fresh == [model |-> FALSE, usage |-> FALSE]

\* The two tests of the prompt: without a slash at its beginning, blanks apart,
\* it gets a marker that the tailer looks for (codex_tmux.go:174); with a slash
\* there but below a blank first line it is sent with one all the same
\* (adapter.go:177-204), and the tailer does not know.
StreamInit ==
  /\ asked \in BOOLEAN /\ sent \in BOOLEAN /\ (asked => sent)
  /\ apc = "begin" /\ runCtx = "live" /\ tailCtx = "live"
  /\ tpc = "off" /\ path = [tail |-> None, agent |-> None] /\ open = None
  /\ read = 0 /\ partial = 0 /\ tail = Fresh /\ line = NoLine
  /\ first \in Files
  /\ size \in [Files -> {0, 2 * Len(Records)}] /\ size[Ours] = 0
  /\ size[Theirs] > 0 => first = Theirs
  /\ stream = <<>> /\ stats = [of |-> None, upto |-> 0] /\ known = FALSE

-----------------------------------------------------------------------------
(* The tailer. *)

Stopped == runCtx = "done" \/ tailCtx = "done"
Tailer == UNCHANGED <<apc, sent, asked, runCtx, tailCtx, size, first, stats, known>>

\* The context is checked, then the file is looked for.
Seek ==
  /\ tpc = "seek"
  /\ IF Stopped THEN tpc' = "done" /\ UNCHANGED path
     ELSE /\ path' = [path EXCEPT !.tail = FindSessionLog(asked)]
          /\ tpc' = IF FindSessionLog(asked) = None THEN "seek" ELSE "verify"
  /\ UNCHANGED <<open, read, partial, tail, line, stream>> /\ Tailer

VerifySkipped ==
  /\ tpc = "verify"
  /\ \/ tpc' = "read" /\ open' = path.tail
     \/ tpc' = "seek" /\ UNCHANGED open
  /\ UNCHANGED <<path, read, partial, tail, line, stream>> /\ Tailer

\* What was found may be the newest file of another run: with a marker it
\* must be seen in the file itself before the file is opened.
Verify ==
  /\ tpc = "verify"
  /\ IF asked /\ ~Marked(path.tail) THEN tpc' = "seek" /\ UNCHANGED open
     ELSE \/ tpc' = "read" /\ open' = path.tail
          \/ tpc' = "seek" /\ UNCHANGED open          \* os.Open fails
  /\ UNCHANGED <<path, read, partial, tail, line, stream>> /\ Tailer

\* translateSessionLine: what a record adds to the state, and its line.
TailState(k) ==
  [model |-> tail.model \/ k = "context", usage |-> tail.usage \/ k = "count"]

Shown(k) == k \in {"meta", "start", "message", "complete"}

ShownLine(f, k) ==
  IF k = "complete" THEN Line(f, k, tail) ELSE Line(f, k, Fresh)

\* ReadBytes up to a newline: a whole record is translated, ...
TakeRecord ==
  /\ tpc = "read" /\ Whole(open) * 2 >= read + 2 - partial
  /\ LET k == Records[(read + 2 - partial) \div 2] IN
       /\ read' = read + 2 - partial /\ partial' = 0
       /\ tail' = TailState(k)
       /\ IF Shown(k) THEN tpc' = "emit" /\ line' = ShownLine(open, k)
          ELSE UNCHANGED <<tpc, line>>
  /\ UNCHANGED <<path, open, stream>> /\ Tailer

\* The half is translated as if it were a line, and so is the rest of it.
TakePartialDropped ==
  /\ tpc = "read" /\ partial = 0 /\ size[open] = read + 1
  /\ read' = read + 2 /\ UNCHANGED partial
  /\ UNCHANGED <<tpc, path, open, tail, line, stream>> /\ Tailer

\* ... half a record at the end of the file is kept, ...
TakePartial ==
  /\ tpc = "read" /\ partial = 0 /\ size[open] = read + 1
  /\ read' = read + 1 /\ partial' = 1
  /\ UNCHANGED <<tpc, path, open, tail, line, stream>> /\ Tailer

\* ... and at the end of the file the tailer sleeps, and may be told to stop.
AtEnd ==
  /\ tpc = "read" /\ size[open] <= read
  /\ Stopped
  /\ tpc' = "done"
  /\ UNCHANGED <<path, open, read, partial, tail, line, stream>> /\ Tailer

\* A read fails: the tailer gives up.
ReadFails ==
  /\ tpc = "read"
  /\ tpc' = "done"
  /\ UNCHANGED <<path, open, read, partial, tail, line, stream>> /\ Tailer

\* onEvent: the line is written and flushed.
Emit ==
  /\ tpc = "emit"
  /\ stream' = Append(stream, line) /\ line' = NoLine
  /\ tpc' = "read"
  /\ UNCHANGED <<path, open, read, partial, tail>> /\ Tailer

-----------------------------------------------------------------------------
(* The agent. *)

Agent == UNCHANGED <<sent, asked, runCtx, size, first>>

\* writeSyntheticStream does nothing without a writer.
Say(l) == stream' = IF tpc = "none" THEN stream ELSE Append(stream, l)

\* No project, or no row: an error event and nothing else.
Refuse ==
  /\ apc = "begin"
  /\ apc' = "done"
  /\ UNCHANGED <<tailCtx, tailVars, path, stream, stats, known>> /\ Agent

\* tmux.start is written before the tailer exists.
Begin ==
  /\ apc = "begin"
  /\ apc' = "tmux" /\ tpc' = "seek"
  /\ stream' = Append(stream, Synthetic("tmux.start"))
  /\ UNCHANGED <<tailCtx, open, read, partial, tail, line, path, stats, known>>
  /\ Agent

\* The stream file cannot be opened: nothing is written, nothing tailed.
BeginMute ==
  /\ apc = "begin"
  /\ apc' = "tmux" /\ tpc' = "none"
  /\ UNCHANGED <<tailCtx, open, read, partial, tail, line, path, stream, stats,
                 known>> /\ Agent

\* RunTmux fails before it has a capture: it does not look for the rollout.
TmuxFails ==
  /\ apc = "tmux"
  /\ apc' = "stop"
  /\ UNCHANGED <<tailCtx, tailVars, path, stream, stats, known>> /\ Agent

\* The end of RunTmux: the rollout is found, then read.
FindLog ==
  /\ apc = "tmux"
  /\ path' = [path EXCEPT !.agent = FindSessionLog(sent)]
  /\ known' = Marked(Ours)
  /\ apc' = IF FindSessionLog(sent) = None THEN "stop" ELSE "stats"
  /\ UNCHANGED <<tailCtx, tailVars, stream, stats>> /\ Agent

\* A rollout that cannot be read leaves no stats.
ReadSessionStats ==
  /\ apc = "stats"
  /\ apc' = "stop"
  /\ stats' \in {stats, [of |-> path.agent, upto |-> Whole(path.agent)]}
  /\ UNCHANGED <<tailCtx, tailVars, path, stream, known>> /\ Agent

StopForgotten ==
  /\ apc = "stop"
  /\ apc' = "wait"
  /\ UNCHANGED <<tailCtx, tailVars, path, stream, stats, known>> /\ Agent

\* tailCancel, then tailWg.Wait.
StopTailer ==
  /\ apc = "stop"
  /\ apc' = "wait" /\ tailCtx' = "done"
  /\ UNCHANGED <<tailVars, path, stream, stats, known>> /\ Agent

\* The tailer has returned before the agent writes again.
WaitTailer ==
  /\ apc = "wait" /\ tpc \in {"none", "done"}
  /\ apc' \in {"assistant", "result"}
  /\ UNCHANGED <<tailCtx, tailVars, path, stream, stats, known>> /\ Agent

\* The output of the run, when there is any.
WriteAssistant ==
  /\ apc = "assistant"
  /\ apc' = "result"
  /\ Say(Synthetic("assistant"))
  /\ UNCHANGED <<tailCtx, tailVars, path, stats, known>> /\ Agent

WriteResult ==
  /\ apc = "result"
  /\ apc' = "done"
  /\ Say(Synthetic("result"))
  /\ UNCHANGED <<tailCtx, tailVars, path, stats, known>> /\ Agent

-----------------------------------------------------------------------------
(* `ateam resume` of the run, from what agent.jsonl tells. *)

ResultSession == IF \E i \in DOMAIN stream : stream[i].kind = "result" THEN stats.of ELSE None

\* The thread that the tailer has seen begin, and else that of the result.
ResolveSessionID ==
  LET begun == {i \in DOMAIN stream : stream[i].kind = "meta"}
  IN  IF begun = {} THEN ResultSession
      ELSE stream[CHOOSE i \in begun : \A j \in begun : i <= j].of

-----------------------------------------------------------------------------
(* The two codex processes, and the user. *)

\* Half a record more.  Ours is gone once RunTmux has returned.
Write(f) ==
  /\ f = Ours => apc \in {"tmux", "stats"}
  /\ f = first \/ HasMeta(first)
  /\ size[f] < 2 * Len(Records)
  /\ size' = [size EXCEPT ![f] = @ + 1]
  /\ UNCHANGED <<apc, sent, asked, runCtx, tailCtx, tailVars, path, first, stream,
                 stats, known>>

CancelRun ==
  /\ runCtx = "live" /\ runCtx' = "done"
  /\ UNCHANGED <<apc, sent, asked, tailCtx, tailVars, path, size, first, stream,
                 stats, known>>

TailStep == Seek \/ Verify \/ TakeRecord \/ TakePartial \/ AtEnd \/ Emit
AgentStep == \/ Refuse \/ Begin \/ BeginMute \/ TmuxFails \/ FindLog \/ ReadSessionStats
             \/ StopTailer \/ WaitTailer \/ WriteAssistant \/ WriteResult
CodexStep == \E f \in Files : Write(f)
Over == apc = "done" /\ UNCHANGED streamVars

StreamNext == TailStep \/ ReadFails \/ AgentStep \/ CodexStep \/ CancelRun \/ Over

StreamSpec == StreamInit /\ [][StreamNext]_streamVars
StreamFairness == WF_streamVars(TailStep) /\ WF_streamVars(AgentStep)
StreamFairSpec == StreamSpec /\ StreamFairness

-----------------------------------------------------------------------------
(* Properties. *)

StreamTypeOK ==
  /\ apc \in {"begin", "tmux", "stats", "stop", "wait", "assistant", "result",
              "done"}
  /\ tpc \in {"off", "none", "seek", "verify", "read", "emit", "done"}
  /\ {sent, asked, known} \subseteq BOOLEAN /\ {runCtx, tailCtx} \subseteq {"live", "done"}
  /\ path \in [tail : Files \cup {None}, agent : Files \cup {None}]
  /\ open \in Files \cup {None}
  /\ read \in 0..(2 * Len(Records)) /\ partial \in {0, 1}
  /\ tail \in [model : BOOLEAN, usage : BOOLEAN] /\ line \in Lines
  /\ size \in [Files -> 0..(2 * Len(Records))] /\ first \in Files
  /\ stream \in Seq(Lines)
  /\ stats \in [of : Files \cup {None}, upto : 0..Len(Records)]

\* The line of the record i of a rollout f, told from the records alone, ...
Before(i, k) == \E j \in 1..(i - 1) : Records[j] = k
Told(f, i) ==
  Line(f, Records[i], IF Records[i] # "complete" THEN Fresh
                      ELSE [model |-> Before(i, "context"), usage |-> Before(i, "count")])

\* ... and how many lines the records up to n make.
Rank(n) == Cardinality({i \in 1..n : Shown(Records[i])})

\* agent.jsonl has the records of one rollout, each once, whole and in their
\* order, however the reads fell between the writes; it ends with the result,
\* which nothing follows (sessionlog_tail.go:82-104); and the tailer and the
\* agent never write to it at once: bufio.Writer "is not goroutine-safe"
\* (codex_tmux.go:188).
StreamIsRollout ==
  /\ \E f \in Files, n \in 0..Len(Records) :
       /\ {i \in DOMAIN stream : stream[i].of # None} = 2..(Rank(n) + 1)
       /\ \A i \in 1..n : Shown(Records[i]) => stream[Rank(i) + 1] = Told(f, i)
  /\ \A i \in DOMAIN stream : stream[i].kind = "result" => i = Len(stream)
  /\ apc \in {"assistant", "result"} => tpc \in {"none", "done"}

\* A run whose tailer looks for the marker shows no line of another run's
\* session (sessionlog_tail.go:60-68); tokens and model are those of this run
\* once codex had put the marker on file (sessionlog.go:117-128); and then another
\* session is resumed only where another was tailed (resume.go:311-368), as it may be under
\* a prompt that carries a marker the tailer does not look for.
OnlyOurSession ==
  /\ asked => \A i \in DOMAIN stream : stream[i].of # Theirs
  /\ known => stats.of # Theirs
  /\ known /\ ResolveSessionID = Theirs => ~asked /\ open = Theirs

\* The tailer never holds the run up.
StreamEnds == <>(apc = "done")
=============================================================================
