------------------------------ MODULE RoleRuns ------------------------------
(***************************************************************************)
(* Several `ateam report` commands on one project: separate processes that *)
(* meet only in the agent_execs table and in the process table of the      *)
(* machine.  Before it starts anything a command asks the table which of   *)
(* its roles are being run (the concurrency guard, cmd/db.go and           *)
(* flow/actions/actions.go), with --rerun-failed it also asks which roles  *)
(* the latest round left as failed (cmd/report.go), and then inserts and   *)
(* closes rows of its own (internal/runner, internal/calldb).              *)
(*                                                                         *)
(* A command may be killed, its agents then live on in their own process   *)
(* groups and its rows stay open; the machine may give a dead agent's pid  *)
(* to somebody else; the writes of a row and the guard's query may fail.   *)
(* Of the pool inside a command only its size is kept: its runs go in any  *)
(* order, MaxParallel at a time.                                           *)
(***************************************************************************)
EXTENDS Integers, Sequences, FiniteSets

CONSTANTS
  Cmds,       \* the commands, all started on one project
  Roles,
  Lists,      \* Lists[c]: the role lists c may be given
  Pids,       \* process ids, none of them 0
  Reruns,     \* the commands that may be called with --rerun-failed
  Unguarded,  \* the commands that --force, or a query that fails, may let pass
  MayStop,    \* the budget, or an interrupt, may stop the dispatch
  MayReuse,   \* a free pid may go to a process that is not ours
  MaxParallel,  \* runs a command has going at a time
  MaxFaults,  \* bound: kills, panics and rows nobody closes
  LastTick    \* bound: seconds the clock counts

ASSUME RoleRunsAssumption ==
  /\ Lists \in [Cmds -> SUBSET ((SUBSET Roles) \ {{}})]
  /\ 0 \notin Pids
  /\ Reruns \subseteq Cmds
  /\ Unguarded \subseteq Cmds
  /\ {MayStop, MayReuse} \subseteq BOOLEAN
  /\ {MaxParallel, MaxFaults, LastTick} \subseteq Nat

VARIABLES
  cpc,     \* cpc[c]: where a command is
  want,    \* want[c]: its role list
  todo,    \* todo[c]: roles it has yet to dispatch
  batch,   \* batch[c]: resolveBatch, a second of the clock
  told,    \* told[c][r]: what its table says of role r in the end
  execs,   \* agent_execs, in id order
  run,     \* run[i]: where the run of row i is, in its command
  lost,    \* rows nobody closed: a run that failed early, or a write that did
  os,      \* os[p]: the row whose agent has pid p, Nobody or Stranger
  clock,   \* seconds
  seen     \* history: seen[c], the rows with a pid when the guard asked for c

vars == <<cpc, want, todo, batch, told, execs, run, lost, os, clock, seen>>
chosen == <<want, batch>>
rows == <<execs, run, lost>>

Nobody == 0
Stranger == -1
Agents(i) == {p \in Pids : os[p] = i}
Open == {i \in DOMAIN execs : execs[i].state \in {"open", "live"}}

Init ==
  /\ cpc = [c \in Cmds |-> "idle"]
  /\ want = [c \in Cmds |-> {}]
  /\ todo = [c \in Cmds |-> {}]
  /\ batch = [c \in Cmds |-> 0]
  /\ told = [c \in Cmds |-> [r \in Roles |-> "none"]]
  /\ execs = <<>>
  /\ run = <<>>
  /\ lost = {}
  /\ os = [p \in Pids |-> Nobody]
  /\ clock = 1
  /\ seen = [c \in Cmds |-> {}]

\* The bound on what may go wrong.
MayFault == Cardinality(lost \cup {i \in DOMAIN run : run[i] = "broken"})
              + Cardinality({c \in Cmds : cpc[c] = "killed"}) < MaxFaults

-----------------------------------------------------------------------------
(* Choosing the roles. *)

\* --roles, less those whose prompt does not preview; the batch is a
\* timestamp in seconds.
Choose(c) ==
  /\ cpc[c] = "idle"
  /\ \E list \in Lists[c] : want' = [want EXCEPT ![c] = list]
  /\ batch' = [batch EXCEPT ![c] = clock]
  /\ cpc' = [cpc EXCEPT ![c] = "guard"]
  /\ UNCHANGED <<todo, told, rows, os, clock, seen>>

\* LatestBatch: of the rows started in the latest second, any.
LatestBatches ==
  LET last == {i \in DOMAIN execs : \A j \in DOMAIN execs : execs[j].at <= execs[i].at}
  IN  {execs[i].batch : i \in last}

Newest(b, r) == {i \in DOMAIN execs :
                   /\ execs[i].batch = b /\ execs[i].role = r
                   /\ \A j \in DOMAIN execs :
                        execs[j].batch = b /\ execs[j].role = r => j <= i}

\* lastReportRolesByStatus: the newest row of each role decides, by is_error,
\* which an open row does not have.
FailedRoles(b) == {r \in Roles : \E i \in Newest(b, r) : execs[i].state = "failed"}

\* --rerun-failed, when the latest round has failed roles.
ChooseFailed(c) ==
  /\ cpc[c] = "idle"
  /\ c \in Reruns
  /\ \E b \in LatestBatches :
       /\ want' = [want EXCEPT ![c] = FailedRoles(b)]
       /\ cpc' = [cpc EXCEPT ![c] = IF FailedRoles(b) = {} THEN "over" ELSE "guard"]
  /\ batch' = [batch EXCEPT ![c] = clock]
  /\ UNCHANGED <<todo, told, rows, os, clock, seen>>

\* checkConcurrentRuns: an open row of one of these roles stands in the way
\* when its pid is recorded and some process has that pid.
InTheWay(c) == {i \in Open : /\ execs[i].role \in want[c]
                             /\ execs[i].pid \in Pids
                             /\ os[execs[i].pid] # Nobody}

Refused(c) ==
  /\ cpc[c] = "guard"
  /\ InTheWay(c) # {}
  /\ cpc' = [cpc EXCEPT ![c] = "over"]
  /\ UNCHANGED <<chosen, todo, told, rows, os, clock, seen>>

AdmittedWhenCommandGone(c) ==
  /\ cpc[c] = "guard"
  /\ {i \in InTheWay(c) : cpc[execs[i].cmd] = "running"} = {}
  /\ cpc' = [cpc EXCEPT ![c] = "running"]
  /\ todo' = [todo EXCEPT ![c] = want[c]]
  /\ seen' = [seen EXCEPT ![c] = {i \in DOMAIN execs : execs[i].pid # 0}]
  /\ UNCHANGED <<chosen, told, rows, os, clock>>

Admitted(c) ==
  /\ cpc[c] = "guard"
  /\ InTheWay(c) = {}
  /\ cpc' = [cpc EXCEPT ![c] = "running"]
  /\ todo' = [todo EXCEPT ![c] = want[c]]
  /\ seen' = [seen EXCEPT ![c] = {i \in DOMAIN execs : execs[i].pid # 0}]
  /\ UNCHANGED <<chosen, told, rows, os, clock>>

\* --force skips the guard, and a query that fails lets the command pass.
Unasked(c) ==
  /\ cpc[c] = "guard"
  /\ c \in Unguarded
  /\ cpc' = [cpc EXCEPT ![c] = "running"]
  /\ todo' = [todo EXCEPT ![c] = want[c]]
  /\ UNCHANGED <<chosen, told, rows, os, clock, seen>>

-----------------------------------------------------------------------------
(* The runs. *)

Owner(i) == execs[i].cmd
Going(c) == {i \in DOMAIN execs : Owner(i) = c /\ run[i] \notin {"over", "broken"}}
Mine(i) == cpc[Owner(i)] = "running"
Step(i, s) == run' = [run EXCEPT ![i] = s]
Tell(c, r, what) == told' = [told EXCEPT ![c][r] = what]

\* The last write of a row, by UpdateCall or MarkExecFailed: when it fails the
\* code warns or says nothing.
CloseRow(i, s) == \/ execs' = [execs EXCEPT ![i].state = s] /\ UNCHANGED lost
                  \/ MayFault /\ lost' = lost \cup {i} /\ UNCHANGED execs

\* Prepare: InsertCall.
Insert(c, r) ==
  /\ cpc[c] = "running"
  /\ r \in todo[c]
  /\ Cardinality(Going(c)) < MaxParallel
  /\ todo' = [todo EXCEPT ![c] = @ \ {r}]
  /\ execs' = Append(execs, [cmd |-> c, batch |-> batch[c], role |-> r,
                             at |-> clock, state |-> "open", pid |-> 0])
  /\ run' = Append(run, "prepared")
  /\ UNCHANGED <<cpc, chosen, told, lost, os, clock, seen>>

\* PreDispatch, or the context, stops the dispatch: these roles get no row.
StopDispatch(c) ==
  /\ MayStop
  /\ cpc[c] = "running"
  /\ todo[c] # {}
  /\ told' = [told EXCEPT ![c] = [r \in Roles |-> IF r \in todo[c] THEN "skipped" ELSE @[r]]]
  /\ todo' = [todo EXCEPT ![c] = {}]
  /\ UNCHANGED <<cpc, chosen, rows, os, clock, seen>>

\* The prompt cannot be resolved after all: MarkExecFailed.
RenderFails(i) ==
  /\ Mine(i)
  /\ run[i] = "prepared"
  /\ CloseRow(i, "failed")
  /\ Step(i, "bad")
  /\ UNCHANGED <<cpc, chosen, todo, told, os, clock, seen>>

\* failEarly: the row is not written.
FailEarly(i) ==
  /\ Mine(i)
  /\ run[i] = "prepared"
  /\ MayFault
  /\ Step(i, "bad")
  /\ lost' = lost \cup {i}
  /\ UNCHANGED <<cpc, chosen, todo, told, execs, os, clock, seen>>

\* The agent's process starts.
Start(i) ==
  /\ Mine(i)
  /\ run[i] = "prepared"
  /\ \E p \in Pids : os[p] = Nobody /\ os' = [os EXCEPT ![p] = i]
  /\ Step(i, "started")
  /\ UNCHANGED <<cpc, chosen, todo, told, execs, lost, clock, seen>>

\* The runner hears of the process: SetPID.  When SetPID fails the run goes on
\* without this step, its row never has a pid and no guard ever sees its agent.
RecordPid(i) ==
  /\ Mine(i)
  /\ run[i] = "started"
  /\ execs[i].state = "open"
  /\ \E p \in Agents(i) : execs' = [execs EXCEPT ![i].pid = p, ![i].state = "live"]
  /\ UNCHANGED <<cpc, chosen, todo, told, run, lost, os, clock, seen>>

\* The agent's process is gone; from now on nobody has its pid.
Die(i) ==
  /\ i \in DOMAIN execs
  /\ Agents(i) # {}
  /\ os' = [p \in Pids |-> IF os[p] = i THEN Nobody ELSE os[p]]
  /\ UNCHANGED <<cpc, chosen, todo, told, rows, clock, seen>>

CloseOnlySuccess(i) ==
  /\ Mine(i)
  /\ run[i] = "started"
  /\ Agents(i) = {}
  /\ \/ CloseRow(i, "ok") /\ Step(i, "good")
     \/ UNCHANGED <<execs, lost>> /\ Step(i, "bad")
  /\ UNCHANGED <<cpc, chosen, todo, told, os, clock, seen>>

\* finalizeCall, after cmd.Wait: UpdateCall writes what the run came to.
Close(i) ==
  /\ Mine(i)
  /\ run[i] = "started"
  /\ Agents(i) = {}
  /\ \/ CloseRow(i, "ok") /\ Step(i, "good")
     \/ CloseRow(i, "failed") /\ Step(i, "bad")
  /\ UNCHANGED <<cpc, chosen, todo, told, os, clock, seen>>

\* BundleEnd: the reporter hears what the run came to, and shows it.
Judge(i) ==
  /\ Mine(i)
  /\ run[i] \in {"good", "bad"}
  /\ Tell(Owner(i), execs[i].role, IF run[i] = "good" THEN "ok" ELSE "failed")
  /\ Step(i, "over")
  /\ UNCHANGED <<cpc, chosen, todo, execs, lost, os, clock, seen>>

\* A panic under execute, at any point: the reporter is told of a failure,
\* the row stays as it is, and so does an agent.
Panic(i) ==
  /\ Mine(i)
  /\ run[i] \in {"prepared", "started", "good", "bad"}
  /\ MayFault
  /\ Tell(Owner(i), execs[i].role, "failed")
  /\ Step(i, "broken")
  /\ UNCHANGED <<cpc, chosen, todo, execs, lost, os, clock, seen>>

\* The command returns when all its runs did.
Return(c) ==
  /\ cpc[c] = "running"
  /\ todo[c] = {}
  /\ Going(c) = {}
  /\ cpc' = [cpc EXCEPT ![c] = "over"]
  /\ UNCHANGED <<chosen, todo, told, rows, os, clock, seen>>

\* SIGKILL: the agents are in process groups of their own.
Kill(c) ==
  /\ MayFault
  /\ cpc[c] = "running"
  /\ cpc' = [cpc EXCEPT ![c] = "killed"]
  /\ UNCHANGED <<chosen, todo, told, rows, os, clock, seen>>

-----------------------------------------------------------------------------
(* The machine. *)

\* Somebody else gets a pid, or gives it up; it shows on pids on record only,
\* and as long as some command has yet to ask.
Reuse(p) ==
  /\ MayReuse
  /\ \/ /\ os[p] = Nobody
        /\ \E i \in Open : execs[i].pid = p
        /\ \E c \in Cmds : cpc[c] \in {"idle", "guard"}
        /\ os' = [os EXCEPT ![p] = Stranger]
     \/ os[p] = Stranger /\ os' = [os EXCEPT ![p] = Nobody]
  /\ UNCHANGED <<cpc, chosen, todo, told, rows, clock, seen>>

\* Nobody reads the clock, or compares what it was, once every command chose.
Tick ==
  /\ clock < LastTick
  /\ \E c \in Cmds : cpc[c] = "idle"
  /\ clock' = clock + 1
  /\ UNCHANGED <<cpc, chosen, todo, told, rows, os, seen>>

Command(c) == \/ Choose(c) \/ ChooseFailed(c) \/ Refused(c) \/ Admitted(c) \/ Unasked(c)
              \/ StopDispatch(c) \/ Return(c) \/ Kill(c)
              \/ \E r \in Roles : Insert(c, r)

Run(i) == \/ RenderFails(i) \/ FailEarly(i) \/ Start(i) \/ RecordPid(i) \/ Die(i)
          \/ Close(i) \/ Judge(i) \/ Panic(i)

Next == \/ \E c \in Cmds : Command(c)
        \/ \E i \in DOMAIN execs : Run(i)
        \/ \E p \in Pids : Reuse(p)
        \/ Tick

Spec == Init /\ [][Next]_vars

-----------------------------------------------------------------------------
RunStates == {"prepared", "started", "good", "bad", "over", "broken"}
RowType == [cmd : Cmds, batch : Nat, role : Roles, at : Nat,
            state : {"open", "live", "ok", "failed"}, pid : {0} \cup Pids]

TypeOK ==
  /\ cpc \in [Cmds -> {"idle", "guard", "running", "over", "killed"}]
  /\ want \in [Cmds -> SUBSET Roles]
  /\ todo \in [Cmds -> SUBSET Roles]
  /\ batch \in [Cmds -> Nat]
  /\ told \in [Cmds -> [Roles -> {"none", "ok", "failed", "skipped"}]]
  /\ execs \in Seq(RowType)
  /\ run \in Seq(RunStates)
  /\ Len(run) = Len(execs)
  /\ lost \in SUBSET Nat
  /\ os \in [Pids -> Int]
  /\ clock \in Nat
  /\ seen \in [Cmds -> SUBSET Nat]

Working == {i \in DOMAIN execs : Agents(i) # {}}
Doubled(i, j) == i # j /\ execs[i].role = execs[j].role /\ {i, j} \subseteq Working

\* What the guard does give (db.go:72-100): two agents are on one role only
\* if the earlier one's pid was not on record when the guard asked for the
\* later command, or if it did not ask (--force, a query that failed),
\* whatever died, was killed or got a pid again in between.
DoubledOnlyInWindow ==
  \A i, j \in DOMAIN execs :
    Doubled(i, j) => i \notin seen[Owner(j)] /\ j \notin seen[Owner(i)]

\* Runs that came back, and whose row was written.
Written == {i \in DOMAIN execs : run[i] \in {"good", "bad", "over"} /\ i \notin lost}

\* What the table shows of a run, or is about to.
ShownFailed(i) == run[i] = "bad" \/ (run[i] = "over" /\ told[Owner(i)][execs[i].role] = "failed")

\* For a round of one command, what --rerun-failed takes and leaves is what
\* that command says of every role whose run came back and was written
\* (report.go:447-474 against table_reporter.go:143-179): the table and the
\* terminal agree, though one is written by the run and the other later by
\* the reporter, and a rerun, a kill or a stopped dispatch may come between.
\* A run that panicked, failed early or could not be written is left out: its
\* row may say something else, or nothing.
Alone(d) == \A e \in Cmds : batch[e] = batch[d] => e = d
RerunMatchesVerdicts ==
  [][\A c \in Reruns, d \in Cmds : ChooseFailed(c) =>
       \E b \in LatestBatches :
         Alone(d) /\ batch[d] = b =>
           \A i \in Written :
             Owner(i) = d => (execs[i].role \in want'[c] <=> ShownFailed(i))]_vars

-----------------------------------------------------------------------------
\* actions.go:27: the guard "aborts when another live process for the same
\* (project, action[, roles]) exists".
OneAgentPerRole == \A i, j \in DOMAIN execs : ~Doubled(i, j)
=============================================================================
