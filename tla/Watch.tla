-------------------------------- MODULE Watch --------------------------------
(***************************************************************************)
(* Observers of runs they did not start: `ateam tail` (runner.Tailer and   *)
(* cmd/tail.go) and `ateam top` (cmd/top.go).  All they share with a run   *)
(* is its row in the database, its stream file and its pid.                *)
(*                                                                         *)
(* A line of a stream is written in two halves, and a reader may come in   *)
(* between; what a line says is its kind only.  A step of an observer is   *)
(* one pass over its sources, or one query.                                *)
(* No observer knows of another, so a behaviour has one of them.           *)
(***************************************************************************)
EXTENDS Naturals, Sequences

CONSTANTS
  Runs,      \* the runs of the project, all of one batch
  Streams,   \* Streams[i]: what the agent of run i writes if nothing stops it
  Calls      \* the observers, one of which is looked at: tail or top

VARIABLES
  rows,      \* rows[i]: none, bare (no stream_file yet), open, ok or error
  procs,     \* procs[i]: the agent; "lost" when its ateam is dead too
  size,      \* size[i]: halves in the stream file
  call,      \* the observer: how it finds runs, and --final-message
  pc,        \* where Tailer.Run is
  src,       \* src[i]: its TailSource
  quiet,     \* a discovery found nothing new since the last that did
  top        \* top[i]: the row and the scanner of `ateam top`

runVars == <<rows, procs, size>>
tailVars == <<call, pc, src, quiet>>
watchVars == <<runVars, tailVars, top>>

\* What a reader has of a stream: how far it read, whether it keeps the first
\* half of a line, and the lines it saw whole.
Fresh == [off |-> 0, keep |-> FALSE, seen |-> {}]

NoSource == [known |-> FALSE, done |-> FALSE, told |-> "nothing", file |-> Fresh]
NoTopRow == [state |-> "none", dead |-> 0, file |-> Fresh]

WatchInit ==
  /\ rows = [i \in Runs |-> "none"]
  /\ procs = [i \in Runs |-> "none"]
  /\ size = [i \in Runs |-> 0]
  /\ call \in Calls
  /\ pc = "begin"
  /\ src = [i \in Runs |-> NoSource]
  /\ quiet = FALSE
  /\ top = [i \in Runs |-> NoTopRow]

Closed(i) == rows[i] \in {"ok", "error"}

-----------------------------------------------------------------------------
(* A run (runner.Prepare and ExecutePrepared; AgentExec has the details).  *)

\* InsertCall, and then UpdateStreamFile.
Insert(i) ==
  /\ \/ rows[i] = "none" /\ rows' = [rows EXCEPT ![i] = "bare"]
     \/ rows[i] = "bare" /\ procs[i] = "none" /\ rows' = [rows EXCEPT ![i] = "open"]
  /\ UNCHANGED <<procs, size, tailVars, top>>

\* The process, and its pid in the row.
LaunchAgent(i) ==
  /\ rows[i] = "open" /\ procs[i] = "none"
  /\ procs' = [procs EXCEPT ![i] = "alive"]
  /\ UNCHANGED <<rows, size, tailVars, top>>

WriteHalf(i) ==
  /\ procs[i] = "alive"
  /\ size[i] < 2 * Len(Streams[i])
  /\ size' = [size EXCEPT ![i] = @ + 1]
  /\ UNCHANGED <<rows, procs, tailVars, top>>

\* The agent ends; or ateam does, and takes it along: the row stays open.
Exit(i) ==
  /\ \/ procs[i] = "alive" /\ procs' = [procs EXCEPT ![i] = "dead"]
     \/ rows[i] \in {"bare", "open"} /\ procs' = [procs EXCEPT ![i] = "lost"]
  /\ UNCHANGED <<rows, size, tailVars, top>>

\* UpdateCall, after what happens between the end of the process and the row
\* (fallback scan, promotion, git).  A good run has its result on file.
Close(i) ==
  /\ rows[i] = "open" /\ procs[i] \in {"none", "dead"}
  /\ \/ rows' = [rows EXCEPT ![i] = "error"]
     \/ /\ size[i] = 2 * Len(Streams[i]) /\ procs[i] = "dead"
        /\ \E k \in 1..Len(Streams[i]) : Streams[i][k] = "result"
        /\ rows' = [rows EXCEPT ![i] = "ok"]
  /\ UNCHANGED <<procs, size, tailVars, top>>

-----------------------------------------------------------------------------
(* Reading a stream that grows. *)

\* readNewLines: a line is whole when both halves are new, or the first was
\* kept.  A stream that did not grow is left alone.
ReadNew(f, n) ==
  IF n <= f.off THEN f
  ELSE [off |-> n, keep |-> n % 2 = 1,
        seen |-> f.seen \cup {k \in 1..n : /\ f.off < 2 * k /\ 2 * k <= n
                                           /\ f.off < 2 * k - 1 \/ f.keep}]

\* StreamFormatter.HasResult, and result # nil of the scanner.
HasResult(i, f) == \E k \in f.seen : Streams[i][k] = "result"

-----------------------------------------------------------------------------
(* tail *)

Followed == {i \in Runs : src[i].known}
Pending == {i \in Followed : ~src[i].done}
Discovering == call.how # "ids"

Add(found) == src' = [i \in Runs |-> IF i \in found THEN [src[i] EXCEPT !.known = TRUE]
                                     ELSE src[i]]
Named(set) == {i \in set : rows[i] \notin {"none", "bare"}}

\* runTail: the runs named on the command line have to have a row.
TailBegins ==
  /\ pc = "begin" /\ call.how # "top"
  /\ \/ Discovering /\ pc' = "waiting" /\ UNCHANGED src
     \/ ~Discovering /\ pc' = "cut" /\ UNCHANGED src
     \/ \E ids \in SUBSET {i \in Runs : rows[i] # "none"} \ {{}} :
          /\ ~Discovering
          /\ Add(Named(ids))
          /\ pc' = IF Named(ids) = {} THEN "waiting" ELSE "poll"
  /\ UNCHANGED <<call, quiet, runVars, top>>

\* CallsByBatch, or the rows FindRunning says are open.
Discover ==
  Add(CASE call.how = "batch" -> Named(Runs)
        [] call.how = "running" -> {i \in Named(Runs) : ~Closed(i)}
        [] OTHER -> {})

\* waitForSources, until its deadline or Ctrl-C.
WaitForSources ==
  /\ pc = "waiting"
  /\ \/ /\ Discover
        /\ pc' = IF \E i \in Runs : src'[i].known THEN "poll" ELSE "waiting"
     \/ pc' \in {"over", "cut"} /\ UNCHANGED src
  /\ UNCHANGED <<call, quiet, runVars, top>>

\* maybeEmitFinal writes what the row says at this moment; a query that fails
\* is not repeated.
Tells(i) ==
  IF ~call.final \/ src[i].told # "nothing" THEN {src[i].told}
  ELSE {"nothing", rows[i]}

\* pollSource
Polled(i) ==
  LET f == ReadNew(src[i].file, size[i])
  IN IF HasResult(i, f)
     THEN [known : {TRUE}, done : {TRUE}, told : Tells(i), file : {f}]
     ELSE {[src[i] EXCEPT !.file = f]}

PollAll == src' \in {s \in [Runs -> UNION {Polled(i) \cup {src[i]} : i \in Runs}] :
                       \A i \in Runs : IF i \in Pending THEN s[i] \in Polled(i)
                                       ELSE s[i] = src[i]}

\* A tick: the files, and then the database if that is due.
PollFiles(next) ==
  /\ pc = "poll"
  /\ next = "discover" => Discovering
  /\ PollAll
  /\ pc' = next
  /\ UNCHANGED <<call, quiet, runVars, top>>

DiscoverMore ==
  /\ pc = "discover"
  /\ Discover \/ UNCHANGED src
  /\ quiet' = (src' = src)
  /\ pc' = "check"
  /\ UNCHANGED <<call, runVars, top>>

\* It is done, and with --final-message its end is told.
Told(i, s) == {[s EXCEPT !.done = TRUE, !.told = t] : t \in Tells(i)}

EndedUnread(i) == Told(i, src[i])

\* A source whose row has ended: polled once more, then done in any case.
Ended(i) == UNION {Told(i, s) : s \in Polled(i)}

\* checkDone
CheckDone ==
  /\ pc = "check"
  /\ src' \in {s \in [Runs -> UNION {Ended(i) \cup {src[i]} : i \in Runs}] :
                  \A i \in Runs : IF i \in Pending /\ Closed(i) THEN s[i] \in Ended(i)
                                  ELSE s[i] = src[i]}
  /\ pc' = "decide"
  /\ UNCHANGED <<call, quiet, runVars, top>>

\* CallsByIDs fails: not this time.
CheckFails == pc = "check" /\ pc' = "decide" /\ UNCHANGED <<call, src, quiet, runVars, top>>

\* allDone; when it discovers, three seconds without anything new as well.
Decide ==
  /\ pc = "decide"
  /\ pc' = IF Pending = {} /\ (Discovering => quiet) THEN "over" ELSE "poll"
  /\ UNCHANGED <<call, src, quiet, runVars, top>>

\* Ctrl-C: a last look at the files.
Interrupt ==
  /\ pc = "poll"
  /\ PollAll
  /\ pc' = "cut"
  /\ UNCHANGED <<call, quiet, runVars, top>>

-----------------------------------------------------------------------------
(* top *)

Alive(i) == procs[i] = "alive"
Running(i) == rows[i] \in {"bare", "open"}

\* donePoolStatusRow and errorPoolStatusRow, from the row of the database.
Finalized(i) == [state |-> rows[i], dead |-> top[i].dead, file |-> ReadNew(top[i].file, size[i])]

RefreshedUnlessDead(i) ==
  CASE top[i].state = "none" /\ Running(i) /\ Alive(i) -> [NoTopRow EXCEPT !.state = "running"]
    [] top[i].state = "running" /\ ~Running(i) -> Finalized(i)
    [] OTHER -> top[i]

\* refreshFromDB, for one run: found when its process is alive; closed when
\* its row is; given up when it is dead at two looks in a row.
Refreshed(i) ==
  CASE top[i].state = "none" /\ Running(i) /\ Alive(i) -> [NoTopRow EXCEPT !.state = "running"]
    [] top[i].state = "running" /\ Running(i) /\ Alive(i) -> [top[i] EXCEPT !.dead = 0]
    [] top[i].state = "running" /\ Running(i) /\ ~Alive(i) ->
         IF top[i].dead = 1 THEN [top[i] EXCEPT !.dead = 2, !.state = "canceled"]
                            ELSE [top[i] EXCEPT !.dead = 1]
    [] top[i].state = "running" /\ ~Running(i) -> Finalized(i)
    [] OTHER -> top[i]

RefreshFromDB ==
  /\ call.how = "top"
  /\ top' = [i \in Runs |-> Refreshed(i)]
  /\ UNCHANGED <<runVars, tailVars>>

\* ProgressScanner.Poll stops at the result; nextPoolStatusRow counts.
PollStreams ==
  /\ call.how = "top"
  /\ top' = [i \in Runs |->
       IF top[i].state = "running" /\ ~HasResult(i, top[i].file)
       THEN [top[i] EXCEPT !.file = ReadNew(@, size[i])] ELSE top[i]]
  /\ UNCHANGED <<runVars, tailVars>>

-----------------------------------------------------------------------------
\* Not code: tail has returned.
Rest == call.how # "top" /\ pc \in {"over", "cut"} /\ UNCHANGED watchVars

Follow == \/ TailBegins \/ WaitForSources \/ DiscoverMore \/ Decide
          \/ PollFiles("discover") \/ PollFiles("decide")
          \/ CheckDone \/ CheckFails

WatchNext ==
  \/ \E i \in Runs : Insert(i) \/ LaunchAgent(i) \/ WriteHalf(i) \/ Exit(i) \/ Close(i)
  \/ Follow \/ Interrupt \/ RefreshFromDB \/ PollStreams \/ Rest

\* Both commands run on tickers: the next step of theirs comes, the database
\* is looked at again and again, and does not fail for ever.
WatchFairness == /\ WF_watchVars(Follow) /\ WF_watchVars(RefreshFromDB)
                 /\ SF_watchVars(PollFiles("discover")) /\ SF_watchVars(CheckDone)
WatchSpec == WatchInit /\ [][WatchNext]_watchVars /\ WatchFairness

-----------------------------------------------------------------------------
\* What tail and top have seen of a stream are its first lines, each of them
\* once and whole; and when they put a run away, that was with its result or
\* with everything it ever wrote (tailer.go:283, progress_scan.go:106).
ShownWhatWasWritten ==
  \A i \in Runs :
    /\ \A f \in {src[i].file, top[i].file} : f.seen = 1..(f.off \div 2)
    /\ src[i].done => HasResult(i, src[i].file) \/ (Closed(i) /\ src[i].file.off = size[i])
    /\ top[i].state \in {"ok", "error"} =>
         top[i].state = rows[i] /\ top[i].file.off = size[i]

\* A run is over for tail: its row is closed; but of the runs named on the
\* command line tail looks at the streams only.
OverForTail(i) ==
  IF Discovering THEN Closed(i)
  ELSE \E k \in 1..(size[i] \div 2) : Streams[i][k] = "result"

\* tail returns once all the runs it follows are over (tailer.go:96), and no
\* row of top stays "running" without a process (top.go:126).
NothingToAwait == call.how = "top" \/ \A i \in Followed : OverForTail(i)
Settled == IF call.how = "top" THEN \A i \in Runs : top[i].state = "running" => Alive(i)
           ELSE pc \in {"over", "cut"}
WatchersSettle == <>[]NothingToAwait => []<>Settled

\* `tail --final-message` waits for the runs to finish and exits non-zero if
\* any of them errored (tail.go:36); here with a line written for each.
ExitTellsErrors ==
  /\ pc = "over" /\ call.final
  /\ \A i \in Followed : src[i].told # "nothing"
  /\ \E i \in Followed : rows[i] = "error"
  => \E i \in Followed : src[i].told = "error"
=============================================================================
