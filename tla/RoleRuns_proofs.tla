-------------------------- MODULE RoleRuns_proofs ---------------------------
(***************************************************************************)
(* Proofs about RoleRuns, for any commands, roles, role lists and process  *)
(* ids: what the concurrency guard gives when it is asked, and that a rerun *)
(* takes the roles its round shows, or is about to show, as failed.        *)
(***************************************************************************)
EXTENDS RoleRuns, SequenceTheorems, TLAPS

-----------------------------------------------------------------------------
(* The inductive invariant. *)

\* A row and its agent: no agent before the start nor after the end, never two,
\* and once a pid is on record no other.  Only a run that came back, or panicked
\* after that, has a row that is closed.
RowLife ==
  \A i \in DOMAIN execs :
    /\ run[i] \in {"prepared", "good", "bad", "over"} => Agents(i) = {}
    /\ run[i] = "prepared" => execs[i].pid = 0
    /\ \A p, q \in Agents(i) : p = q
    /\ execs[i].pid # 0 => Agents(i) \subseteq {execs[i].pid}
    /\ execs[i].state \in {"ok", "failed"} =>
         run[i] \notin {"prepared", "started"} /\ Agents(i) = {}
    /\ execs[i].state = "open" => execs[i].pid = 0
    /\ execs[i].state = "live" => execs[i].pid \in Pids

\* A process is an agent of some row, a stranger, or nobody's.
Peopled == \A p \in Pids : os[p] \in {Nobody, Stranger} \cup DOMAIN execs

\* A row and its command: it passed the guard, asked for the role, and gave the
\* row its batch; no role of a command is ever given two rows.
RowOwned ==
  \A i \in DOMAIN execs :
    /\ cpc[Owner(i)] \in {"running", "over", "killed"}
    /\ execs[i].role \in want[Owner(i)]
    /\ execs[i].role \notin todo[Owner(i)]
    /\ execs[i].batch = batch[Owner(i)]
    /\ \A j \in DOMAIN execs :
         Owner(j) = Owner(i) /\ execs[j].role = execs[i].role => j = i

\* What a command saw at the guard: nothing before it; and of the roles it
\* asks for, only rows whose agents were gone, and stay gone.
SeenGone ==
  \A c \in Cmds :
    /\ cpc[c] \in {"idle", "guard"} => seen[c] = {} /\ todo[c] = {}
    /\ todo[c] \subseteq want[c]
    /\ \A i \in seen[c] :
         /\ i \in DOMAIN execs /\ execs[i].pid # 0
         /\ execs[i].role \in want[c] => Agents(i) = {}

\* A row that was written says what its run came to, and so does the terminal
\* once the run is judged.
Agreed ==
  /\ lost \subseteq DOMAIN execs
  /\ \A i \in DOMAIN execs \ lost :
       /\ run[i] = "good" => execs[i].state = "ok"
       /\ run[i] = "bad" => execs[i].state = "failed"
       /\ run[i] = "over" =>
            (execs[i].state = "failed" <=> told[Owner(i)][execs[i].role] = "failed")

IInv == TypeOK /\ RowLife /\ Peopled /\ RowOwned /\ SeenGone /\ Agreed

-----------------------------------------------------------------------------
(* The rows as sequences. *)

LEMMA Indexed ==
  ASSUME TypeOK
  PROVE  /\ Len(execs) \in Nat /\ DOMAIN execs = 1..Len(execs) /\ DOMAIN run = DOMAIN execs
         /\ \A i \in DOMAIN execs :
              /\ execs[i] \in RowType /\ run[i] \in RunStates
              /\ Owner(i) \in Cmds /\ execs[i].role \in Roles
<1>1. execs \in Seq(RowType) /\ run \in Seq(RunStates) /\ Len(run) = Len(execs)
  BY DEF TypeOK
<1>2. /\ Len(execs) \in Nat /\ DOMAIN execs = 1..Len(execs) /\ DOMAIN run = DOMAIN execs
      /\ \A i \in DOMAIN execs : execs[i] \in RowType /\ run[i] \in RunStates
  BY <1>1, LenProperties, ElementOfSeq
<1>3. \A e \in RowType : e.cmd \in Cmds /\ e.role \in Roles
  BY DEF RowType
<1> QED
  BY <1>2, <1>3 DEF Owner

\* A step of one run.
LEMMA Stepped ==
  ASSUME TypeOK, NEW i \in DOMAIN execs, NEW s \in RunStates, Step(i, s)
  PROVE  /\ run' \in Seq(RunStates) /\ Len(run') = Len(run)
         /\ run'[i] = s
         /\ \A k \in DOMAIN execs : k # i => run'[k] = run[k]
<1>1. run \in Seq(RunStates) /\ i \in 1..Len(run) /\ DOMAIN execs = 1..Len(run)
  BY Indexed DEF TypeOK
<1>2. run' = [run EXCEPT ![i] = s]
  BY DEF Step
<1> QED
  BY <1>1, <1>2, ExceptSeq

\* A row written over.
LEMMA Rewritten ==
  ASSUME TypeOK, NEW i \in DOMAIN execs, NEW e \in RowType, execs' = [execs EXCEPT ![i] = e]
  PROVE  /\ execs' \in Seq(RowType) /\ Len(execs') = Len(execs) /\ DOMAIN execs' = DOMAIN execs
         /\ execs'[i] = e
         /\ \A k \in DOMAIN execs : k # i => execs'[k] = execs[k]
<1>1. execs \in Seq(RowType) /\ i \in 1..Len(execs) /\ DOMAIN execs = 1..Len(execs)
  BY Indexed DEF TypeOK
<1>2. execs' \in Seq(RowType) /\ Len(execs') = Len(execs)
  BY <1>1, ExceptSeq
<1>3. DOMAIN execs' = 1..Len(execs')
  BY <1>2, LenProperties
<1>4. \A k \in 1..Len(execs) : [execs EXCEPT ![i] = e][k] = IF k = i THEN e ELSE execs[k]
  BY <1>1, ExceptSeq
<1> QED
  BY <1>1, <1>2, <1>3, <1>4

LEMMA Inserted ==
  ASSUME TypeOK, NEW c \in Cmds, NEW r \in Roles, Insert(c, r)
  PROVE  /\ execs' \in Seq(RowType) /\ run' \in Seq(RunStates)
         /\ Len(execs') = Len(execs) + 1 /\ Len(run') = Len(execs')
         /\ DOMAIN execs' = 1..(Len(execs) + 1) /\ DOMAIN execs = 1..Len(execs) /\ Len(execs) \in Nat
         /\ \A k \in DOMAIN execs : execs'[k] = execs[k] /\ run'[k] = run[k]
         /\ execs'[Len(execs) + 1] = [cmd |-> c, batch |-> batch[c], role |-> r,
                                      at |-> clock, state |-> "open", pid |-> 0]
         /\ run'[Len(execs) + 1] = "prepared"
<1> DEFINE e == [cmd |-> c, batch |-> batch[c], role |-> r, at |-> clock, state |-> "open", pid |-> 0]
<1>1. e \in RowType /\ "prepared" \in RunStates
  BY DEF TypeOK, RowType, RunStates
<1>2. execs' = Append(execs, e) /\ run' = Append(run, "prepared")
  BY DEF Insert
<1> HIDE DEF e
<1>3. execs \in Seq(RowType) /\ run \in Seq(RunStates) /\ Len(run) = Len(execs)
  BY DEF TypeOK
<1>4. /\ execs' \in Seq(RowType) /\ Len(execs') = Len(execs) + 1
      /\ \A k \in 1..Len(execs) : execs'[k] = execs[k]
      /\ execs'[Len(execs) + 1] = e
  BY <1>1, <1>2, <1>3, AppendProperties
<1>5. /\ run' \in Seq(RunStates) /\ Len(run') = Len(run) + 1
      /\ \A k \in 1..Len(run) : run'[k] = run[k]
      /\ run'[Len(run) + 1] = "prepared"
  BY <1>1, <1>2, <1>3, AppendProperties
<1>6. DOMAIN execs' = 1..Len(execs')
  BY <1>4, LenProperties
<1> QED
  BY <1>3, <1>4, <1>5, <1>6, Indexed DEF e

\* SetPID, and UpdateCall.
LEMMA Recorded ==
  ASSUME TypeOK, NEW i \in DOMAIN execs, RecordPid(i)
  PROVE  \E p \in Agents(i) :
           /\ execs' \in Seq(RowType) /\ Len(execs') = Len(execs) /\ DOMAIN execs' = DOMAIN execs
           /\ execs'[i] = [execs[i] EXCEPT !.pid = p, !.state = "live"]
           /\ \A k \in DOMAIN execs : k # i => execs'[k] = execs[k]
<1>1. PICK p \in Agents(i) : execs' = [execs EXCEPT ![i].pid = p, ![i].state = "live"]
  BY DEF RecordPid
<1> DEFINE e == [execs[i] EXCEPT !.pid = p, !.state = "live"]
<1>2. execs[i] \in RowType /\ p \in Pids /\ i \in DOMAIN execs
  BY <1>1, Indexed DEF Agents
<1>3. e \in RowType
  BY <1>2 DEF RowType
<1>4. execs' = [execs EXCEPT ![i] = e]
  BY <1>1, <1>2
<1> HIDE DEF e
<1>5. /\ execs' \in Seq(RowType) /\ Len(execs') = Len(execs) /\ DOMAIN execs' = DOMAIN execs
      /\ execs'[i] = e
      /\ \A k \in DOMAIN execs : k # i => execs'[k] = execs[k]
  BY <1>3, <1>4, Rewritten
<1> QED
  BY <1>1, <1>5 DEF e

LEMMA Closed ==
  ASSUME TypeOK, NEW i \in DOMAIN execs, NEW s \in {"ok", "failed"}, CloseRow(i, s)
  PROVE  /\ execs' \in Seq(RowType) /\ Len(execs') = Len(execs) /\ DOMAIN execs' = DOMAIN execs
         /\ execs'[i].cmd = execs[i].cmd /\ execs'[i].role = execs[i].role
         /\ execs'[i].batch = execs[i].batch /\ execs'[i].pid = execs[i].pid
         /\ \/ execs'[i].state = s /\ lost' = lost
            \/ execs' = execs /\ lost' = lost \cup {i}
         /\ \A k \in DOMAIN execs : k # i => execs'[k] = execs[k]
<1>0. execs \in Seq(RowType)
  BY DEF TypeOK
<1>1. CASE execs' = [execs EXCEPT ![i].state = s] /\ UNCHANGED lost
  <2> DEFINE e == [execs[i] EXCEPT !.state = s]
  <2>2. execs[i] \in RowType /\ i \in DOMAIN execs
    BY <1>1, Indexed
  <2>3. /\ e \in RowType /\ e.state = s /\ e.cmd = execs[i].cmd /\ e.role = execs[i].role
        /\ e.batch = execs[i].batch /\ e.pid = execs[i].pid
    BY <2>2 DEF RowType
  <2>4. execs' = [execs EXCEPT ![i] = e]
    BY <1>1, <2>2
  <2> HIDE DEF e
  <2>5. /\ execs' \in Seq(RowType) /\ Len(execs') = Len(execs) /\ DOMAIN execs' = DOMAIN execs
        /\ execs'[i] = e
        /\ \A k \in DOMAIN execs : k # i => execs'[k] = execs[k]
    BY <2>3, <2>4, Rewritten
  <2> QED
    BY <1>1, <2>3, <2>5
<1>2. CASE lost' = lost \cup {i} /\ UNCHANGED execs
  BY <1>0, <1>2
<1> QED
  BY <1>1, <1>2 DEF CloseRow

\* The two actions that write the row for the last time.
LEMMA LastWrite ==
  ASSUME TypeOK, NEW i \in DOMAIN execs, RenderFails(i) \/ Close(i)
  PROVE  /\ run[i] \in {"prepared", "started"}
         /\ run[i] = "started" => Agents(i) = {}
         /\ UNCHANGED <<cpc, want, batch, todo, told, os, clock, seen>>
         /\ \/ CloseRow(i, "ok") /\ Step(i, "good")
            \/ CloseRow(i, "failed") /\ Step(i, "bad")
BY DEF RenderFails, Close, chosen

\* What the terminal says of one role of one command.
LEMMA Told ==
  ASSUME TypeOK, NEW c \in Cmds, NEW r \in Roles, NEW s \in {"ok", "failed"}, Tell(c, r, s)
  PROVE  /\ told' \in [Cmds -> [Roles -> {"none", "ok", "failed", "skipped"}]]
         /\ told'[c][r] = s
         /\ \A d \in Cmds, q \in Roles : d # c \/ q # r => told'[d][q] = told[d][q]
<1>1. told \in [Cmds -> [Roles -> {"none", "ok", "failed", "skipped"}]]
  BY DEF TypeOK
<1>2. told' = [told EXCEPT ![c][r] = s]
  BY DEF Tell
<1>3. told[c] \in [Roles -> {"none", "ok", "failed", "skipped"}]
  BY <1>1
<1>4. told'[c] = [told[c] EXCEPT ![r] = s]
  BY <1>1, <1>2
<1>5. \A d \in Cmds : d # c => told'[d] = told[d]
  BY <1>1, <1>2
<1>6. told'[c] \in [Roles -> {"none", "ok", "failed", "skipped"}]
  BY <1>3, <1>4
<1>7. told' \in [Cmds -> [Roles -> {"none", "ok", "failed", "skipped"}]]
  BY <1>1, <1>2, <1>6
<1>8. told'[c][r] = s /\ \A q \in Roles : q # r => told'[c][q] = told[c][q]
  BY <1>3, <1>4
<1> QED
  BY <1>5, <1>7, <1>8

-----------------------------------------------------------------------------
(* Typing. *)

LEMMA CommandTyped ==
  ASSUME TypeOK, NEW c \in Cmds, Command(c)
  PROVE  TypeOK'
<1>1. CASE Choose(c)
  <2>1. \A list \in Lists[c] : list \in SUBSET Roles
    BY RoleRunsAssumption
  <2> QED
    BY <1>1, <2>1 DEF Choose, rows, TypeOK
<1>2. CASE ChooseFailed(c)
  <2>1. \A b : FailedRoles(b) \in SUBSET Roles
    BY DEF FailedRoles
  <2>2. PICK b : /\ want' = [want EXCEPT ![c] = FailedRoles(b)]
                 /\ cpc' = [cpc EXCEPT ![c] = IF FailedRoles(b) = {} THEN "over" ELSE "guard"]
    BY <1>2 DEF ChooseFailed
  <2>3. batch' = [batch EXCEPT ![c] = clock] /\ UNCHANGED <<todo, told, rows, os, clock, seen>>
    BY <1>2 DEF ChooseFailed
  <2> QED
    BY <2>1, <2>2, <2>3 DEF rows, TypeOK
<1>3. CASE Refused(c) \/ Return(c) \/ Kill(c)
  BY <1>3 DEF Refused, Return, Kill, chosen, rows, TypeOK
<1>7. CASE Unasked(c)
  BY <1>7 DEF Unasked, chosen, rows, TypeOK
<1>4. CASE Admitted(c)
  <2>1. {i \in DOMAIN execs : execs[i].pid # 0} \in SUBSET Nat
    BY Indexed
  <2> QED
    BY <1>4, <2>1 DEF Admitted, chosen, rows, TypeOK
<1>5. CASE StopDispatch(c)
  BY <1>5 DEF StopDispatch, chosen, rows, TypeOK
<1>6. ASSUME NEW r \in Roles, Insert(c, r)
      PROVE  TypeOK'
  <2>1. todo' \in [Cmds -> SUBSET Roles] /\ UNCHANGED <<cpc, chosen, told, lost, os, clock, seen>>
    BY <1>6 DEF Insert, TypeOK
  <2> QED
    BY <1>6, <2>1, Inserted DEF chosen, TypeOK
<1> QED
  BY <1>1, <1>2, <1>3, <1>4, <1>5, <1>6, <1>7 DEF Command

LEMMA RunTyped ==
  ASSUME TypeOK, NEW i \in DOMAIN execs, Run(i)
  PROVE  TypeOK'
<1>r. i \in Nat /\ Owner(i) \in Cmds /\ execs[i].role \in Roles /\ lost \in SUBSET Nat
  BY Indexed DEF TypeOK
<1>s. {"prepared", "started", "good", "bad", "over", "broken"} = RunStates
  BY DEF RunStates
<1>1. CASE FailEarly(i)
  <2>1. Step(i, "bad") /\ lost' = lost \cup {i}
        /\ UNCHANGED <<cpc, want, batch, todo, told, execs, os, clock, seen>>
    BY <1>1 DEF FailEarly, chosen
  <2>2. run' \in Seq(RunStates) /\ Len(run') = Len(run)
    BY <2>1, <1>s, Stepped
  <2> QED
    BY <2>1, <2>2, <1>r DEF TypeOK
<1>2. CASE Start(i)
  <2>1. PICK p \in Pids : os' = [os EXCEPT ![p] = i]
    BY <1>2 DEF Start
  <2>2. Step(i, "started") /\ UNCHANGED <<cpc, chosen, todo, told, execs, lost, clock, seen>>
    BY <1>2 DEF Start
  <2>3. run' \in Seq(RunStates) /\ Len(run') = Len(run)
    BY <2>2, <1>s, Stepped
  <2>4. os' \in [Pids -> Int]
    BY <2>1, <1>r DEF TypeOK
  <2> QED
    BY <2>2, <2>3, <2>4 DEF chosen, TypeOK
<1>3. CASE RecordPid(i)
  <2>1. UNCHANGED <<cpc, chosen, todo, told, run, lost, os, clock, seen>>
    BY <1>3 DEF RecordPid
  <2>2. execs' \in Seq(RowType) /\ Len(execs') = Len(execs)
    BY <1>3, Recorded
  <2> QED
    BY <2>1, <2>2 DEF chosen, TypeOK
<1>4. CASE Die(i)
  BY <1>4 DEF Die, Nobody, chosen, rows, TypeOK
<1>5. CASE RenderFails(i) \/ Close(i)
  <2>1. /\ UNCHANGED <<cpc, want, batch, todo, told, os, clock, seen>>
        /\ \E s \in {"ok", "failed"} : CloseRow(i, s)
        /\ Step(i, "good") \/ Step(i, "bad")
    BY <1>5, LastWrite
  <2>2. /\ execs' \in Seq(RowType) /\ Len(execs') = Len(execs)
        /\ lost' = lost \/ lost' = lost \cup {i}
    BY <2>1, Closed
  <2>3. run' \in Seq(RunStates) /\ Len(run') = Len(run)
    BY <2>1, <1>s, Stepped
  <2> QED
    BY <2>1, <2>2, <2>3, <1>r DEF TypeOK
<1>6. CASE Judge(i) \/ Panic(i)
  <2>1. /\ UNCHANGED <<cpc, chosen, todo, execs, lost, os, clock, seen>>
        /\ Step(i, "over") \/ Step(i, "broken")
        /\ \E s \in {"ok", "failed"} : Tell(Owner(i), execs[i].role, s)
    BY <1>6 DEF Judge, Panic
  <2>2. run' \in Seq(RunStates) /\ Len(run') = Len(run)
    BY <2>1, <1>s, Stepped
  <2>3. told' \in [Cmds -> [Roles -> {"none", "ok", "failed", "skipped"}]]
    BY <2>1, <1>r, Told
  <2> QED
    BY <2>1, <2>2, <2>3 DEF chosen, TypeOK
<1> QED
  BY <1>1, <1>2, <1>3, <1>4, <1>5, <1>6 DEF Run

LEMMA StepTyped ==
  ASSUME TypeOK, [Next]_vars
  PROVE  TypeOK'
<1>1. ASSUME NEW p \in Pids, Reuse(p)
      PROVE  TypeOK'
  BY <1>1 DEF Reuse, Nobody, Stranger, chosen, rows, TypeOK
<1>2. CASE Tick
  BY <1>2 DEF Tick, chosen, rows, TypeOK
<1>3. CASE UNCHANGED vars
  BY <1>3 DEF vars, TypeOK
<1> QED
  BY <1>1, <1>2, <1>3, CommandTyped, RunTyped DEF Next

-----------------------------------------------------------------------------
(* Rows and their agents. *)

LEMMA RowMoves ==
  ASSUME [Next]_vars
  PROVE  \/ \E c \in Cmds, r \in Roles : Insert(c, r)
         \/ \E i \in DOMAIN execs : Run(i)
         \/ \E p \in Pids : Reuse(p)
         \/ UNCHANGED <<execs, run, os>>
<1>1. ASSUME NEW c \in Cmds, Command(c), ~\E r \in Roles : Insert(c, r)
      PROVE  UNCHANGED <<execs, run, os>>
  BY <1>1 DEF Command, Choose, ChooseFailed, Refused, Admitted, Unasked, StopDispatch, Return, Kill,
              rows
<1>2. CASE Tick \/ UNCHANGED vars
  BY <1>2 DEF Tick, rows, vars
<1> QED
  BY <1>1, <1>2 DEF Next

LEMMA RowLifeHolds ==
  ASSUME TypeOK, RowLife, Peopled, [Next]_vars
  PROVE  RowLife'
<1>t. /\ Len(execs) \in Nat /\ DOMAIN execs = 1..Len(execs) /\ DOMAIN run = DOMAIN execs
      /\ os \in [Pids -> Int] /\ 0 \notin Pids
  BY Indexed, RoleRunsAssumption DEF TypeOK
<1>1. ASSUME NEW c \in Cmds, NEW r \in Roles, Insert(c, r)
      PROVE  RowLife'
  <2> DEFINE n == Len(execs) + 1
  <2>1. os' = os
    BY <1>1 DEF Insert
  <2>2. /\ DOMAIN execs' = DOMAIN execs \cup {n} /\ n \notin DOMAIN execs /\ n \in Nat \ {0}
        /\ \A k \in DOMAIN execs : execs'[k] = execs[k] /\ run'[k] = run[k]
        /\ execs'[n].state = "open" /\ execs'[n].pid = 0 /\ run'[n] = "prepared"
    <3>1. /\ DOMAIN execs' = 1..n /\ DOMAIN execs = 1..Len(execs) /\ Len(execs) \in Nat
          /\ \A k \in DOMAIN execs : execs'[k] = execs[k] /\ run'[k] = run[k]
          /\ execs'[n] = [cmd |-> c, batch |-> batch[c], role |-> r,
                          at |-> clock, state |-> "open", pid |-> 0]
          /\ run'[n] = "prepared"
      BY <1>1, Inserted
    <3>2. execs'[n].state = "open" /\ execs'[n].pid = 0
      BY <3>1
    <3>3. DOMAIN execs' = DOMAIN execs \cup {n} /\ n \notin DOMAIN execs /\ n \in Nat \ {0}
      BY <3>1
    <3> QED
      BY <3>1, <3>2, <3>3
  <2>3. {p \in Pids : os[p] = n} = {}
    BY <2>2 DEF Peopled, Nobody, Stranger
  <2> HIDE DEF n
  <2> QED
    BY <2>1, <2>2, <2>3 DEF RowLife, Agents
<1>2. ASSUME NEW i \in DOMAIN execs, FailEarly(i)
      PROVE  RowLife'
  <2>1. /\ run[i] = "prepared" /\ run'[i] = "bad" /\ UNCHANGED <<execs, os>>
        /\ \A k \in DOMAIN execs : k # i => run'[k] = run[k]
    BY <1>2, Stepped DEF FailEarly, RunStates
  <2> QED
    BY <2>1 DEF RowLife, Agents
<1>9. ASSUME NEW i \in DOMAIN execs, Judge(i) \/ Panic(i)
      PROVE  RowLife'
  <2>1. /\ UNCHANGED <<execs, os>>
        /\ \/ run'[i] = "over" /\ run[i] \in {"good", "bad"}
           \/ run'[i] = "broken"
        /\ \A k \in DOMAIN execs : k # i => run'[k] = run[k]
    BY <1>9, Stepped DEF Judge, Panic, RunStates
  <2>2. \A k : Agents(k)' = Agents(k)
    BY <2>1 DEF Agents
  <2> QED
    BY <2>1, <2>2 DEF RowLife
<1>3. ASSUME NEW i \in DOMAIN execs, Start(i)
      PROVE  RowLife'
  <2>1. PICK p \in Pids : os[p] = Nobody /\ os' = [os EXCEPT ![p] = i]
    BY <1>3 DEF Start
  <2>2. /\ run[i] = "prepared" /\ run'[i] = "started" /\ UNCHANGED execs
        /\ \A k \in DOMAIN execs : k # i => run'[k] = run[k]
    BY <1>3, Stepped DEF Start, RunStates
  <2>3. Agents(i) = {} /\ execs[i].pid = 0 /\ execs[i].state \notin {"ok", "failed", "live"}
    <3>1. Agents(i) = {} /\ execs[i].pid = 0 /\ execs[i].state \notin {"ok", "failed"}
      BY <2>2 DEF RowLife
    <3> QED
      BY <1>t, <3>1 DEF RowLife
  <2>4. /\ Agents(i)' = {p}
        /\ \A k \in DOMAIN execs : k # i => Agents(k)' = Agents(k)
    BY <1>t, <2>1, <2>3 DEF Agents, Nobody
  <2>5. \A k \in DOMAIN execs : k # i => 
          /\ Agents(k)' = Agents(k) /\ run'[k] = run[k]
    BY <2>2, <2>4
  <2> QED
    BY <2>2, <2>3, <2>4, <2>5 DEF RowLife
<1>4. ASSUME NEW i \in DOMAIN execs, RecordPid(i)
      PROVE  RowLife'
  <2>1. PICK p \in Agents(i) :
           /\ DOMAIN execs' = DOMAIN execs
           /\ execs'[i] = [execs[i] EXCEPT !.pid = p, !.state = "live"]
           /\ \A k \in DOMAIN execs : k # i => execs'[k] = execs[k]
    BY <1>4, Recorded
  <2>2. execs[i] \in RowType
    BY Indexed
  <2>3. execs'[i].pid = p /\ execs'[i].state = "live" /\ p \in Pids
    BY <2>1, <2>2 DEF RowType, Agents
  <2>4. run[i] = "started" /\ UNCHANGED <<run, os>>
    BY <1>4 DEF RecordPid
  <2>5. \A k : Agents(k)' = Agents(k)
    BY <2>4 DEF Agents
  <2>6. Agents(i) \subseteq {p}
    BY <2>1 DEF RowLife
  <2> QED
    BY <2>1, <2>3, <2>4, <2>5, <2>6 DEF RowLife
<1>5. ASSUME NEW i \in DOMAIN execs, Die(i)
      PROVE  RowLife'
  <2>1. UNCHANGED <<execs, run>> /\ os' = [p \in Pids |-> IF os[p] = i THEN Nobody ELSE os[p]]
    BY <1>5 DEF Die, rows
  <2>2. \A k \in DOMAIN execs : Agents(k)' \subseteq Agents(k)
    BY <1>t, <2>1 DEF Agents, Nobody
  <2> QED
    BY <2>1, <2>2 DEF RowLife
<1>6. ASSUME NEW i \in DOMAIN execs, RenderFails(i) \/ Close(i)
      PROVE  RowLife'
  <2>1. PICK s \in {"ok", "failed"} : CloseRow(i, s)
    BY <1>6, LastWrite
  <2>2. /\ DOMAIN execs' = DOMAIN execs /\ execs'[i].pid = execs[i].pid
        /\ execs'[i].state = s \/ execs' = execs
        /\ \A k \in DOMAIN execs : k # i => execs'[k] = execs[k]
    BY <2>1, Closed
  <2>3. Step(i, "good") \/ Step(i, "bad")
    BY <1>6, LastWrite
  <2>4. /\ run'[i] \in {"good", "bad"} /\ \A k \in DOMAIN execs : k # i => run'[k] = run[k]
    BY <2>3, Stepped DEF RunStates
  <2>5. UNCHANGED os /\ Agents(i) = {}
    BY <1>6, LastWrite DEF RowLife
  <2>6. \A k : Agents(k)' = Agents(k)
    BY <2>5 DEF Agents
  <2>7. ASSUME NEW k \in DOMAIN execs, k # i
        PROVE  /\ run'[k] \in {"prepared", "good", "bad", "over"} => Agents(k)' = {}
               /\ run'[k] = "prepared" => execs'[k].pid = 0
               /\ \A p, q \in Agents(k)' : p = q
               /\ execs'[k].pid # 0 => Agents(k)' \subseteq {execs'[k].pid}
               /\ execs'[k].state \in {"ok", "failed"} =>
                    run'[k] \notin {"prepared", "started"} /\ Agents(k)' = {}
               /\ execs'[k].state = "open" => execs'[k].pid = 0
               /\ execs'[k].state = "live" => execs'[k].pid \in Pids
    <3>1. execs'[k] = execs[k] /\ run'[k] = run[k] /\ Agents(k)' = Agents(k)
      BY <2>2, <2>4, <2>6, <2>7
    <3> QED
      BY <3>1 DEF RowLife
  <2>8. /\ Agents(i)' = {} /\ run'[i] \notin {"prepared", "started"}
        /\ execs'[i].state = "open" => execs'[i].pid = 0
        /\ execs'[i].state = "live" => execs'[i].pid \in Pids
    BY <2>2, <2>4, <2>5, <2>6 DEF RowLife
  <2> QED
    BY <2>2, <2>7, <2>8 DEF RowLife
<1>7. ASSUME NEW p \in Pids, Reuse(p)
      PROVE  RowLife'
  <2>1. os' = [os EXCEPT ![p] = Stranger] \/ os' = [os EXCEPT ![p] = Nobody]
    BY <1>7 DEF Reuse
  <2>2. \A k \in DOMAIN execs : Agents(k)' \subseteq Agents(k)
    BY <1>t, <2>1 DEF Agents, Nobody, Stranger
  <2>3. UNCHANGED <<execs, run>>
    BY <1>7 DEF Reuse, rows
  <2> QED
    BY <2>2, <2>3 DEF RowLife
<1>8. CASE UNCHANGED <<execs, run, os>>
  BY <1>8 DEF RowLife, Agents
<1> QED
  BY <1>1, <1>2, <1>3, <1>4, <1>5, <1>6, <1>7, <1>8, <1>9, RowMoves DEF Run

LEMMA PeopledHolds ==
  ASSUME TypeOK, Peopled, [Next]_vars
  PROVE  Peopled'
<1>1. ASSUME NEW c \in Cmds, NEW r \in Roles, Insert(c, r)
      PROVE  Peopled'
  <2>1. DOMAIN execs \subseteq DOMAIN execs' /\ os' = os
    BY <1>1, Inserted DEF Insert
  <2> QED
    BY <2>1 DEF Peopled
<1>2. ASSUME NEW i \in DOMAIN execs, Run(i)
      PROVE  Peopled'
  <2>1. DOMAIN execs' = DOMAIN execs
    <3>1. CASE RenderFails(i) \/ Close(i)
      BY <3>1, LastWrite, Closed
    <3> QED
      BY <1>2, <3>1, Recorded DEF Run, FailEarly, Start, Die, Judge, Panic, rows
  <2>2. \A p \in Pids : os'[p] \in {os[p], i, Nobody}
    <3>1. CASE UNCHANGED os
      BY <3>1
    <3>2. CASE Start(i) \/ Die(i)
      BY <3>2 DEF Start, Die, TypeOK
    <3> QED
      BY <1>2, <3>1, <3>2 DEF Run, RenderFails, FailEarly, RecordPid, Close, Judge, Panic
  <2> QED
    BY <2>1, <2>2 DEF Peopled
<1>3. ASSUME NEW p \in Pids, Reuse(p)
      PROVE  Peopled'
  BY <1>3 DEF Reuse, rows, Peopled, TypeOK
<1>4. CASE UNCHANGED <<execs, run, os>>
  BY <1>4 DEF Peopled
<1> QED
  BY <1>1, <1>2, <1>3, <1>4, RowMoves

-----------------------------------------------------------------------------
(* Rows and their commands. *)

\* The step of a run leaves what its row says of the command as it was.
LEMMA OwnersStay ==
  ASSUME TypeOK, NEW i \in DOMAIN execs, Run(i)
  PROVE  /\ DOMAIN execs' = DOMAIN execs
         /\ \A k \in DOMAIN execs :
              /\ execs'[k].cmd = execs[k].cmd /\ execs'[k].role = execs[k].role
              /\ execs'[k].batch = execs[k].batch
         /\ UNCHANGED <<cpc, want, batch, todo, seen>>
<1>1. execs[i] \in RowType
  BY Indexed
<1>2. CASE RecordPid(i)
  <2>1. PICK p \in Agents(i) :
          /\ DOMAIN execs' = DOMAIN execs
          /\ execs'[i] = [execs[i] EXCEPT !.pid = p, !.state = "live"]
          /\ \A k \in DOMAIN execs : k # i => execs'[k] = execs[k]
    BY <1>2, Recorded
  <2>2. /\ execs'[i].cmd = execs[i].cmd /\ execs'[i].role = execs[i].role
        /\ execs'[i].batch = execs[i].batch
    BY <1>1, <2>1 DEF RowType
  <2> QED
    BY <1>2, <2>1, <2>2 DEF RecordPid, chosen
<1>3. CASE RenderFails(i) \/ Close(i)
  <2>1. /\ UNCHANGED <<cpc, want, batch, todo, seen>>
        /\ \E s \in {"ok", "failed"} : CloseRow(i, s)
    BY <1>3, LastWrite
  <2>2. /\ DOMAIN execs' = DOMAIN execs
        /\ execs'[i].cmd = execs[i].cmd /\ execs'[i].role = execs[i].role
        /\ execs'[i].batch = execs[i].batch
        /\ \A k \in DOMAIN execs : k # i => execs'[k] = execs[k]
    BY <2>1, Closed
  <2> QED
    BY <2>1, <2>2
<1> QED
  BY <1>2, <1>3 DEF Run, FailEarly, Start, Die, Judge, Panic, chosen, rows

LEMMA RowOwnedHolds ==
  ASSUME TypeOK, RowOwned, SeenGone, [Next]_vars
  PROVE  RowOwned'
<1>t. /\ cpc \in [Cmds -> {"idle", "guard", "running", "over", "killed"}]
      /\ \A i \in DOMAIN execs : Owner(i) \in Cmds /\ execs[i].role \in Roles
      /\ want \in [Cmds -> SUBSET Roles] /\ todo \in [Cmds -> SUBSET Roles]
      /\ batch \in [Cmds -> Nat]
  BY Indexed DEF TypeOK
<1>1. ASSUME NEW c \in Cmds, NEW r \in Roles, Insert(c, r)
      PROVE  RowOwned'
  <2> DEFINE n == Len(execs) + 1
  <2>1. /\ UNCHANGED <<cpc, want, batch>> /\ cpc[c] = "running" /\ r \in todo[c]
        /\ todo' = [todo EXCEPT ![c] = @ \ {r}]
    BY <1>1 DEF Insert, chosen
  <2>2. /\ DOMAIN execs' = 1..n /\ DOMAIN execs = 1..Len(execs) /\ Len(execs) \in Nat
        /\ \A k \in DOMAIN execs : execs'[k] = execs[k]
        /\ execs'[n] = [cmd |-> c, batch |-> batch[c], role |-> r,
                        at |-> clock, state |-> "open", pid |-> 0]
    BY <1>1, Inserted
  <2>3. DOMAIN execs' = DOMAIN execs \cup {n} /\ n \notin DOMAIN execs
    BY <2>2
  <2>4. execs'[n].cmd = c /\ execs'[n].role = r /\ execs'[n].batch = batch[c]
    BY <2>2
  <2>5. r \in want[c] /\ r \notin todo'[c] /\ \A d \in Cmds : todo'[d] \subseteq todo[d]
    BY <1>t, <2>1 DEF SeenGone
  <2>6. \A k \in DOMAIN execs : ~(execs[k].cmd = c /\ execs[k].role = r)
    BY <2>1 DEF RowOwned, Owner
  <2> HIDE DEF n
  <2>7. \A i \in DOMAIN execs' :
         /\ cpc[execs'[i].cmd] \in {"running", "over", "killed"}
         /\ execs'[i].role \in want[execs'[i].cmd]
         /\ execs'[i].role \notin todo'[execs'[i].cmd]
         /\ execs'[i].batch = batch[execs'[i].cmd]
    BY <1>t, <2>1, <2>2, <2>3, <2>4, <2>5 DEF RowOwned, Owner
  <2>8. \A i, j \in DOMAIN execs' :
         execs'[j].cmd = execs'[i].cmd /\ execs'[j].role = execs'[i].role => j = i
    BY <2>2, <2>3, <2>4, <2>6 DEF RowOwned, Owner
  <2> QED
    BY <2>1, <2>7, <2>8 DEF RowOwned, Owner
<1>2. ASSUME NEW i \in DOMAIN execs, Run(i)
      PROVE  RowOwned'
  BY <1>2, OwnersStay DEF RowOwned, Owner
<1>3. ASSUME NEW c \in Cmds, Command(c), UNCHANGED execs
      PROVE  RowOwned'
  <2>1. /\ cpc' \in [Cmds -> {"idle", "guard", "running", "over", "killed"}]
        /\ \A d \in Cmds : d # c => /\ cpc'[d] = cpc[d] /\ want'[d] = want[d]
                                    /\ batch'[d] = batch[d] /\ todo'[d] = todo[d]
    <3>1. CASE Choose(c)
      BY <1>t, <3>1 DEF Choose, TypeOK
    <3>2. CASE ChooseFailed(c)
      <4>1. PICK b : /\ want' = [want EXCEPT ![c] = FailedRoles(b)]
                     /\ cpc' = [cpc EXCEPT ![c] = IF FailedRoles(b) = {} THEN "over" ELSE "guard"]
        BY <3>2 DEF ChooseFailed
      <4> QED
        BY <1>t, <3>2, <4>1 DEF ChooseFailed
    <3>3. CASE Refused(c) \/ Admitted(c) \/ Unasked(c) \/ Return(c) \/ Kill(c) \/ StopDispatch(c)
      BY <1>t, <3>3 DEF Refused, Admitted, Unasked, Return, Kill, StopDispatch, chosen
    <3>4. ASSUME NEW r \in Roles, Insert(c, r)
          PROVE  FALSE
      <4>1. Len(execs') = Len(execs) + 1 /\ Len(execs) \in Nat
        BY <3>4, Inserted
      <4> QED
        BY <1>3, <4>1
    <3> QED
      BY <1>3, <3>1, <3>2, <3>3, <3>4 DEF Command
  <2>2. CASE cpc[c] \in {"idle", "guard"}
    <3>1. \A i \in DOMAIN execs : Owner(i) # c
      BY <2>2 DEF RowOwned
    <3> QED
      BY <1>3, <1>t, <2>1, <3>1 DEF RowOwned, Owner
  <2>3. CASE cpc[c] \notin {"idle", "guard"}
    <3>1. /\ UNCHANGED <<want, batch>> /\ todo'[c] \subseteq todo[c]
          /\ cpc'[c] \in {"running", "over", "killed"}
      <4>1. CASE StopDispatch(c) \/ Return(c) \/ Kill(c)
        BY <1>t, <2>3, <4>1 DEF StopDispatch, Return, Kill, chosen
      <4>2. ASSUME NEW r \in Roles, Insert(c, r)
            PROVE  FALSE
        <5>1. Len(execs') = Len(execs) + 1 /\ Len(execs) \in Nat
          BY <4>2, Inserted
        <5> QED
          BY <1>3, <5>1
      <4> QED
        BY <1>3, <2>3, <4>1, <4>2 DEF Command, Choose, ChooseFailed, Refused, Admitted, Unasked
    <3> QED
      BY <1>3, <1>t, <2>1, <3>1 DEF RowOwned, Owner
  <2> QED
    BY <2>2, <2>3
<1>4. CASE UNCHANGED <<cpc, want, batch, todo, execs>>
  BY <1>4 DEF RowOwned, Owner
<1>5. ASSUME NEW p \in Pids, Reuse(p)
      PROVE  UNCHANGED <<cpc, want, batch, todo, execs>>
  BY <1>5 DEF Reuse, chosen, rows
<1>6. CASE Tick \/ UNCHANGED vars
  BY <1>4, <1>6 DEF Tick, chosen, rows, vars
<1>7. ASSUME NEW c \in Cmds, Command(c), ~UNCHANGED execs
      PROVE  \E r \in Roles : Insert(c, r)
  BY <1>7 DEF Command, Choose, ChooseFailed, Refused, Admitted, Unasked, StopDispatch, Return, Kill,
              rows
<1> QED
  BY <1>1, <1>2, <1>3, <1>4, <1>5, <1>6, <1>7 DEF Next

\* The guard: whatever it lets pass has no agent, though its row may say so only
\* by its pid (checkConcurrentRuns, db.go:72-100).
LEMMA Guarded ==
  ASSUME TypeOK, RowLife, NEW c \in Cmds, InTheWay(c) = {},
         NEW i \in DOMAIN execs, execs[i].pid # 0, execs[i].role \in want[c]
  PROVE  Agents(i) = {}
<1>1. execs[i].state \in {"open", "live", "ok", "failed"} /\ execs[i].pid \in {0} \cup Pids
  BY Indexed DEF RowType
<1>2. CASE execs[i].state \in {"ok", "failed"}
  BY <1>2 DEF RowLife
<1>3. CASE execs[i].state \in {"open", "live"}
  <2>1. i \in Open /\ execs[i].pid \in Pids
    BY <1>1, <1>3 DEF Open
  <2>2. os[execs[i].pid] = Nobody
    BY <2>1 DEF InTheWay
  <2>3. Agents(i) \subseteq {execs[i].pid} /\ i # Nobody
    BY Indexed DEF RowLife, Nobody
  <2> QED
    BY <2>2, <2>3 DEF Agents
<1> QED
  BY <1>1, <1>2, <1>3

\* An agent of a row with a pid on record is never a new one.
LEMMA NoNewAgent ==
  ASSUME TypeOK, RowLife, Peopled, [Next]_vars, NEW k \in DOMAIN execs, execs[k].pid # 0
  PROVE  k \in DOMAIN execs' /\ execs'[k].pid # 0 /\ Agents(k)' \subseteq Agents(k)
<1>t. os \in [Pids -> Int] /\ k \in Nat \ {0} /\ execs[k] \in RowType /\ 0 \notin Pids
  BY Indexed, RoleRunsAssumption DEF TypeOK
<1>1. ASSUME NEW c \in Cmds, NEW r \in Roles, Insert(c, r)
      PROVE  k \in DOMAIN execs' /\ execs'[k] = execs[k] /\ os' = os
  BY <1>1, Inserted DEF Insert
<1>2. ASSUME NEW i \in DOMAIN execs, Run(i)
      PROVE  k \in DOMAIN execs' /\ execs'[k].pid # 0 /\ Agents(k)' \subseteq Agents(k)
  <2>1. CASE FailEarly(i) \/ Judge(i) \/ Panic(i)
    BY <2>1 DEF FailEarly, Judge, Panic, Agents
  <2>2. CASE Start(i)
    <3>1. PICK p \in Pids : os[p] = Nobody /\ os' = [os EXCEPT ![p] = i]
      BY <2>2 DEF Start
    <3>2. i # k /\ UNCHANGED execs
      BY <2>2 DEF Start, RowLife
    <3> QED
      BY <1>t, <3>1, <3>2 DEF Agents
  <2>3. CASE RecordPid(i)
    <3>1. PICK p \in Agents(i) :
            /\ DOMAIN execs' = DOMAIN execs
            /\ execs'[i] = [execs[i] EXCEPT !.pid = p, !.state = "live"]
            /\ \A j \in DOMAIN execs : j # i => execs'[j] = execs[j]
      BY <2>3, Recorded
    <3>2. execs[i] \in RowType /\ os' = os
      BY <2>3, Indexed DEF RecordPid
    <3>3. execs'[i].pid = p /\ p # 0
      BY <1>t, <3>1, <3>2 DEF RowType, Agents
    <3> QED
      BY <3>1, <3>2, <3>3 DEF Agents
  <2>4. CASE Die(i)
    BY <1>t, <2>4 DEF Die, rows, Agents, Nobody
  <2>5. CASE RenderFails(i) \/ Close(i)
    <3>1. os' = os /\ \E s \in {"ok", "failed"} : CloseRow(i, s)
      BY <2>5, LastWrite
    <3>2. /\ DOMAIN execs' = DOMAIN execs /\ execs'[i].pid = execs[i].pid
          /\ \A j \in DOMAIN execs : j # i => execs'[j] = execs[j]
      BY <3>1, Closed
    <3> QED
      BY <3>1, <3>2 DEF Agents
  <2> QED
    BY <1>2, <2>1, <2>2, <2>3, <2>4, <2>5 DEF Run
<1>3. ASSUME NEW p \in Pids, Reuse(p)
      PROVE  UNCHANGED execs /\ Agents(k)' \subseteq Agents(k)
  <2>1. os' = [os EXCEPT ![p] = Stranger] \/ os' = [os EXCEPT ![p] = Nobody]
    BY <1>3 DEF Reuse
  <2>2. Agents(k)' \subseteq Agents(k)
    BY <1>t, <2>1 DEF Agents, Nobody, Stranger
  <2>3. UNCHANGED execs
    BY <1>3 DEF Reuse, rows
  <2> QED
    BY <2>2, <2>3
<1>4. CASE UNCHANGED <<execs, run, os>>
  BY <1>4 DEF Agents
<1>5. CASE \E c \in Cmds, r \in Roles : Insert(c, r)
  BY <1>1, <1>5 DEF Agents
<1> QED
  BY <1>2, <1>3, <1>4, <1>5, RowMoves

LEMMA SeenGoneHolds ==
  ASSUME TypeOK, RowLife, Peopled, RowOwned, SeenGone, [Next]_vars
  PROVE  SeenGone'
<1>t. /\ cpc \in [Cmds -> {"idle", "guard", "running", "over", "killed"}]
      /\ want \in [Cmds -> SUBSET Roles] /\ todo \in [Cmds -> SUBSET Roles]
      /\ seen \in [Cmds -> SUBSET Nat]
  BY DEF TypeOK
\* Who has seen no more than before, and asks for what it asked for, still has
\* seen only what is gone.
<1>s. ASSUME NEW c \in Cmds, seen'[c] = seen[c], want'[c] = want[c]
      PROVE  \A i \in seen'[c] : /\ i \in DOMAIN execs' /\ execs'[i].pid # 0
                                 /\ execs'[i].role \in want'[c] => Agents(i)' = {}
  <2> SUFFICES ASSUME NEW i \in seen[c]
               PROVE  /\ i \in DOMAIN execs' /\ execs'[i].pid # 0
                      /\ execs'[i].role \in want[c] => Agents(i)' = {}
    BY <1>s
  <2>1. i \in DOMAIN execs /\ execs[i].pid # 0 /\ (execs[i].role \in want[c] => Agents(i) = {})
    BY DEF SeenGone
  <2>2. i \in DOMAIN execs' /\ execs'[i].pid # 0 /\ Agents(i)' \subseteq Agents(i)
    BY <2>1, NoNewAgent
  <2>3. execs'[i].role = execs[i].role
    <3>1. ASSUME NEW d \in Cmds, NEW r \in Roles, Insert(d, r)
          PROVE  execs'[i] = execs[i]
      BY <3>1, <2>1, Inserted
    <3>2. ASSUME NEW p \in Pids, Reuse(p)
          PROVE  UNCHANGED execs
      BY <3>2 DEF Reuse, rows
    <3> QED
      BY <2>1, <3>1, <3>2, OwnersStay, RowMoves
  <2> QED
    BY <2>1, <2>2, <2>3
<1>1. ASSUME NEW c \in Cmds, Command(c)
      PROVE  SeenGone'
  <2>1. \A d \in Cmds : d # c => /\ cpc'[d] = cpc[d] /\ want'[d] = want[d]
                                /\ todo'[d] = todo[d] /\ seen'[d] = seen[d]
    <3>1. CASE Choose(c)
      BY <1>t, <3>1 DEF Choose
    <3>2. CASE ChooseFailed(c)
      <4>1. PICK b : /\ want' = [want EXCEPT ![c] = FailedRoles(b)]
                     /\ cpc' = [cpc EXCEPT ![c] = IF FailedRoles(b) = {} THEN "over" ELSE "guard"]
        BY <3>2 DEF ChooseFailed
      <4> QED
        BY <1>t, <3>2, <4>1 DEF ChooseFailed
    <3>3. CASE Refused(c) \/ Admitted(c) \/ Unasked(c) \/ Return(c) \/ Kill(c) \/ StopDispatch(c)
      BY <1>t, <3>3 DEF Refused, Admitted, Unasked, Return, Kill, StopDispatch, chosen
    <3>4. CASE \E r \in Roles : Insert(c, r)
      BY <1>t, <3>4 DEF Insert, chosen
    <3> QED
      BY <1>1, <3>1, <3>2, <3>3, <3>4 DEF Command
  <2>2. /\ cpc'[c] \in {"idle", "guard"} => seen'[c] = {} /\ todo'[c] = {}
        /\ todo'[c] \subseteq want'[c]
        /\ \A i \in seen'[c] : /\ i \in DOMAIN execs' /\ execs'[i].pid # 0
                               /\ execs'[i].role \in want'[c] => Agents(i)' = {}
    <3>1. CASE Choose(c) \/ ChooseFailed(c)
      <4>1. seen[c] = {} /\ todo[c] = {} /\ UNCHANGED <<seen, todo>>
        BY <3>1 DEF Choose, ChooseFailed, SeenGone
      <4> QED
        BY <4>1
    <3>2. CASE Refused(c) \/ Return(c) \/ Kill(c) \/ StopDispatch(c) \/ \E r \in Roles : Insert(c, r)
      <4>1. UNCHANGED <<seen, want>> /\ todo'[c] \subseteq todo[c]
        BY <1>t, <3>2 DEF Refused, Return, Kill, StopDispatch, Insert, chosen
      <4>2. cpc'[c] \in {"idle", "guard"} => FALSE
        BY <1>t, <3>2 DEF Refused, Return, Kill, StopDispatch, Insert
      <4> QED
        BY <1>s, <4>1, <4>2 DEF SeenGone
    <3>3. CASE Admitted(c)
      <4>1. /\ UNCHANGED <<execs, run, os, want>> /\ todo'[c] = want[c] /\ cpc'[c] = "running"
            /\ seen'[c] = {i \in DOMAIN execs : execs[i].pid # 0} /\ InTheWay(c) = {}
        BY <1>t, <3>3 DEF Admitted, chosen, rows
      <4>2. \A i \in DOMAIN execs : execs[i].pid # 0 /\ execs[i].role \in want[c] => Agents(i) = {}
        BY <4>1, Guarded
      <4>3. \A i : Agents(i)' = Agents(i)
        BY <4>1 DEF Agents
      <4> QED
        BY <4>1, <4>2, <4>3
    <3>4. CASE Unasked(c)
      <4>1. /\ UNCHANGED <<want, seen>> /\ todo'[c] = want[c] /\ cpc'[c] = "running"
        BY <1>t, <3>4 DEF Unasked, chosen
      <4> QED
        BY <1>s, <4>1
    <3> QED
      BY <1>1, <3>1, <3>2, <3>3, <3>4 DEF Command
  <2>3. ASSUME NEW d \in Cmds, d # c
        PROVE  /\ cpc'[d] \in {"idle", "guard"} => seen'[d] = {} /\ todo'[d] = {}
               /\ todo'[d] \subseteq want'[d]
               /\ \A i \in seen'[d] : /\ i \in DOMAIN execs' /\ execs'[i].pid # 0
                                      /\ execs'[i].role \in want'[d] => Agents(i)' = {}
    BY <1>s, <2>1, <2>3 DEF SeenGone
  <2> QED
    BY <2>2, <2>3 DEF SeenGone
<1>2. CASE UNCHANGED <<cpc, want, todo, seen>>
  BY <1>s, <1>2 DEF SeenGone
<1>3. ASSUME NEW i \in DOMAIN execs, Run(i)
      PROVE  UNCHANGED <<cpc, want, todo, seen>>
  BY <1>3, OwnersStay
<1>4. (\E p \in Pids : Reuse(p)) \/ Tick \/ UNCHANGED vars => UNCHANGED <<cpc, want, todo, seen>>
  BY DEF Reuse, Tick, chosen, vars
<1> QED
  BY <1>1, <1>2, <1>3, <1>4 DEF Next

\* A row is written, and then shown, once; nothing later touches what the
\* terminal says of it: the role has no second row of the command, and is no
\* longer to be dispatched.
AgreedOn(k) ==
  /\ run[k] = "good" => execs[k].state = "ok"
  /\ run[k] = "bad" => execs[k].state = "failed"
  /\ run[k] = "over" =>
       (execs[k].state = "failed" <=> told[Owner(k)][execs[k].role] = "failed")

\* A step that leaves a run, its row and what was told of it alone.
LEMMA StillAgreed ==
  ASSUME NEW k, AgreedOn(k), execs'[k] = execs[k], run'[k] = run[k],
         told'[Owner(k)][execs[k].role] = told[Owner(k)][execs[k].role]
  PROVE  AgreedOn(k)'
BY DEF AgreedOn, Owner

LEMMA AgreedHolds ==
  ASSUME TypeOK, RowLife, RowOwned, Agreed, [Next]_vars
  PROVE  Agreed'
<1>t. /\ \A i \in DOMAIN execs : Owner(i) \in Cmds /\ execs[i].role \in Roles
      /\ \A i \in DOMAIN execs : execs[i] \in RowType
      /\ told \in [Cmds -> [Roles -> {"none", "ok", "failed", "skipped"}]]
  BY Indexed DEF TypeOK
<1>a. lost \subseteq DOMAIN execs /\ \A k \in DOMAIN execs \ lost : AgreedOn(k)
  BY DEF Agreed, AgreedOn
<1>q. ASSUME lost' \subseteq DOMAIN execs', \A k \in DOMAIN execs' \ lost' : AgreedOn(k)'
      PROVE  Agreed'
  BY <1>q DEF Agreed, AgreedOn
<1>1. ASSUME NEW c \in Cmds, NEW r \in Roles, Insert(c, r)
      PROVE  Agreed'
  <2> DEFINE n == Len(execs) + 1
  <2>1. /\ DOMAIN execs' = 1..n /\ DOMAIN execs = 1..Len(execs) /\ Len(execs) \in Nat
        /\ \A k \in DOMAIN execs : execs'[k] = execs[k] /\ run'[k] = run[k]
        /\ run'[n] = "prepared"
    BY <1>1, Inserted
  <2>2. /\ \A k \in DOMAIN execs' : k \in DOMAIN execs \/ run'[k] = "prepared"
        /\ DOMAIN execs \subseteq DOMAIN execs'
    BY <2>1
  <2>3. told' = told /\ lost' = lost
    BY <1>1 DEF Insert
  <2>4. \A k \in DOMAIN execs' \ lost : AgreedOn(k)'
    <3>1. ASSUME NEW k \in DOMAIN execs' \ lost PROVE AgreedOn(k)'
      <4>1. CASE k \in DOMAIN execs
        BY <1>a, <2>1, <2>3, <4>1, StillAgreed
      <4>2. CASE run'[k] = "prepared"
        BY <4>2 DEF AgreedOn
      <4> QED
        BY <2>2, <4>1, <4>2
    <3> QED
      BY <3>1
  <2> QED
    BY <1>a, <1>q, <2>2, <2>3, <2>4
\* A step of run i leaves the other runs as they are, also on the terminal.
<1>o. ASSUME NEW i \in DOMAIN execs, NEW s \in RunStates, Step(i, s),
             \A k \in DOMAIN execs : k # i => execs'[k] = execs[k],
             \/ UNCHANGED told
             \/ \E v \in {"ok", "failed"} : Tell(Owner(i), execs[i].role, v)
      PROVE  \A k \in DOMAIN execs : k # i /\ AgreedOn(k) => AgreedOn(k)'
  <2>1. \A k \in DOMAIN execs : k # i => run'[k] = run[k]
    BY <1>o, Stepped
  <2>2. \A d \in Cmds, q \in Roles :
          d # Owner(i) \/ q # execs[i].role => told'[d][q] = told[d][q]
    BY <1>o, <1>t, Told
  <2>3. \A k \in DOMAIN execs : k # i => told'[Owner(k)][execs[k].role] = told[Owner(k)][execs[k].role]
    BY <1>t, <2>2 DEF RowOwned
  <2>4. ASSUME NEW k \in DOMAIN execs, k # i, AgreedOn(k) PROVE AgreedOn(k)'
    BY <1>o, <2>1, <2>3, <2>4, StillAgreed
  <2> QED
    BY <2>4
<1>2. ASSUME NEW i \in DOMAIN execs, FailEarly(i)
      PROVE  Agreed'
  <2>1. Step(i, "bad") /\ UNCHANGED <<execs, told>> /\ lost' = lost \cup {i}
    BY <1>2 DEF FailEarly
  <2>2. \A k \in DOMAIN execs : k # i /\ AgreedOn(k) => AgreedOn(k)'
    BY <1>o, <2>1 DEF RunStates
  <2> QED
    BY <1>a, <1>q, <2>1, <2>2
<1>3. ASSUME NEW i \in DOMAIN execs, Start(i)
      PROVE  Agreed'
  <2>1. Step(i, "started") /\ UNCHANGED <<execs, told, lost>>
    BY <1>3 DEF Start
  <2>2. \A k \in DOMAIN execs : k # i /\ AgreedOn(k) => AgreedOn(k)'
    BY <1>o, <2>1 DEF RunStates
  <2>3. run'[i] = "started"
    BY <2>1, Stepped DEF RunStates
  <2>4. AgreedOn(i)'
    BY <2>3 DEF AgreedOn
  <2> QED
    BY <1>a, <1>q, <2>1, <2>2, <2>4
<1>4. ASSUME NEW i \in DOMAIN execs, RecordPid(i)
      PROVE  Agreed'
  <2>1. DOMAIN execs' = DOMAIN execs /\ \A k \in DOMAIN execs : k # i => execs'[k] = execs[k]
    BY <1>4, Recorded
  <2>2. run[i] = "started" /\ UNCHANGED <<run, told, lost>>
    BY <1>4 DEF RecordPid
  <2>3. AgreedOn(i)'
    BY <2>2 DEF AgreedOn
  <2>4. ASSUME NEW k \in DOMAIN execs, k # i, AgreedOn(k) PROVE AgreedOn(k)'
    BY <2>1, <2>2, <2>4, StillAgreed
  <2> QED
    BY <1>a, <1>q, <2>1, <2>2, <2>3, <2>4
<1>5. ASSUME NEW i \in DOMAIN execs, Die(i)
      PROVE  UNCHANGED <<execs, run, lost, told>>
  BY <1>5 DEF Die, rows
<1>6. ASSUME NEW i \in DOMAIN execs, RenderFails(i) \/ Close(i)
      PROVE  Agreed'
  <2>1. PICK s \in {"ok", "failed"} :
          CloseRow(i, s) /\ Step(i, IF s = "ok" THEN "good" ELSE "bad")
    BY <1>6, LastWrite
  <2>2. told' = told
    BY <1>6, LastWrite
  <2>3. /\ DOMAIN execs' = DOMAIN execs
        /\ \A k \in DOMAIN execs : k # i => execs'[k] = execs[k]
        /\ (execs'[i].state = s /\ lost' = lost) \/ lost' = lost \cup {i}
    BY <2>1, Closed
  <2>4. run'[i] = IF s = "ok" THEN "good" ELSE "bad"
    BY <2>1, Stepped DEF RunStates
  <2>5. \A k \in DOMAIN execs : k # i /\ AgreedOn(k) => AgreedOn(k)'
    <3>1. (IF s = "ok" THEN "good" ELSE "bad") \in RunStates
      BY DEF RunStates
    <3> QED
      BY <1>o, <2>1, <2>2, <2>3, <3>1
  <2>6. CASE execs'[i].state = s /\ lost' = lost
    <3>1. AgreedOn(i)'
      BY <2>4, <2>6 DEF AgreedOn
    <3> QED
      BY <1>a, <1>q, <2>3, <2>5, <2>6, <3>1
  <2>7. CASE lost' = lost \cup {i}
    BY <1>a, <1>q, <2>3, <2>5, <2>7
  <2> QED
    BY <2>3, <2>6, <2>7
<1>7. ASSUME NEW i \in DOMAIN execs, Judge(i) \/ Panic(i)
      PROVE  Agreed'
  <2>1. /\ UNCHANGED <<execs, lost>> /\ (Step(i, "over") \/ Step(i, "broken"))
        /\ \E v \in {"ok", "failed"} : Tell(Owner(i), execs[i].role, v)
    BY <1>7 DEF Judge, Panic
  <2>2. \A k \in DOMAIN execs : k # i /\ AgreedOn(k) => AgreedOn(k)'
    BY <1>o, <2>1 DEF RunStates
  <2>3. i \notin lost => AgreedOn(i)'
    <3>1. CASE Panic(i)
      <4>1. run'[i] = "broken"
        BY <3>1, Stepped DEF Panic, RunStates
      <4> QED
        BY <4>1 DEF AgreedOn
    <3>2. CASE Judge(i)
      <4> DEFINE v == IF run[i] = "good" THEN "ok" ELSE "failed"
      <4>1. /\ run[i] \in {"good", "bad"} /\ run'[i] = "over" /\ v \in {"ok", "failed"}
            /\ Tell(Owner(i), execs[i].role, v)
        BY <3>2, Stepped DEF Judge, RunStates
      <4>2. i \notin lost => (execs[i].state = "failed" <=> v = "failed")
        BY <1>a, <4>1 DEF AgreedOn
      <4> HIDE DEF v
      <4>3. told'[Owner(i)][execs[i].role] = v
        BY <1>t, <4>1, Told
      <4> QED
        BY <2>1, <4>1, <4>2, <4>3 DEF AgreedOn, Owner
    <3> QED
      BY <1>7, <3>1, <3>2
  <2> QED
    BY <1>a, <1>q, <2>1, <2>2, <2>3
<1>8. ASSUME NEW c \in Cmds, StopDispatch(c)
      PROVE  Agreed'
  <2>1. UNCHANGED <<execs, run, lost>>
    BY <1>8 DEF StopDispatch, rows
  <2>2. \A d \in Cmds, r \in Roles : r \notin todo[d] => told'[d][r] = told[d][r]
    BY <1>8, <1>t DEF StopDispatch
  <2>3. ASSUME NEW k \in DOMAIN execs, AgreedOn(k) PROVE AgreedOn(k)'
    <3>1. told'[Owner(k)][execs[k].role] = told[Owner(k)][execs[k].role]
      BY <1>t, <2>2 DEF RowOwned
    <3> QED
      BY <2>1, <2>3, <3>1, StillAgreed
  <2> QED
    BY <1>a, <1>q, <2>1, <2>3
<1>9. CASE UNCHANGED <<execs, run, lost, told>>
  BY <1>a, <1>q, <1>9 DEF AgreedOn, Owner
<1>10. ASSUME NEW c \in Cmds, Command(c), ~StopDispatch(c), ~\E r \in Roles : Insert(c, r)
      PROVE  UNCHANGED <<execs, run, lost, told>>
  BY <1>10 DEF Command, Choose, ChooseFailed, Refused, Admitted, Unasked, Return, Kill, rows
<1>11. (\E p \in Pids : Reuse(p)) \/ Tick \/ UNCHANGED vars => UNCHANGED <<execs, run, lost, told>>
  BY DEF Reuse, Tick, rows, vars
<1> QED
  BY <1>1, <1>2, <1>3, <1>4, <1>5, <1>6, <1>7, <1>8, <1>9, <1>10, <1>11 DEF Next, Run

-----------------------------------------------------------------------------
(* The theorems. *)

LEMMA InitHolds == Init => IInv
<1> SUFFICES ASSUME Init PROVE IInv
  OBVIOUS
<1>1. execs = <<>> /\ run = <<>> /\ lost = {}
  BY DEF Init
<1>2. <<>> \in Seq(RowType) /\ <<>> \in Seq(RunStates) /\ DOMAIN <<>> = {}
  OBVIOUS
<1>3. TypeOK
  BY <1>1, <1>2 DEF Init, TypeOK, Nobody
<1>4. RowLife /\ RowOwned /\ Agreed
  BY <1>1, <1>2 DEF RowLife, RowOwned, Agreed
<1>5. Peopled /\ SeenGone
  BY DEF Init, Peopled, SeenGone
<1> QED
  BY <1>3, <1>4, <1>5 DEF IInv

LEMMA StepHolds == IInv /\ [Next]_vars => IInv'
BY StepTyped, RowLifeHolds, PeopledHolds, RowOwnedHolds, SeenGoneHolds, AgreedHolds DEF IInv

\* Everything the other theorems rest on: rows against their agents, against
\* the commands that own them, against what the guard saw, and against what
\* the terminal said.
THEOREM Invariant == Spec => []IInv
<1>1. Init => IInv
  BY InitHolds
<1>2. IInv /\ [Next]_vars => IInv'
  BY StepHolds
<1> QED
  BY <1>1, <1>2, PTL DEF Spec

\* The guard (db.go:72-100): of two agents on one role, the earlier one's pid
\* was not on record when the guard asked for the later command, or the guard
\* did not ask (--force, a query that failed).
THEOREM DoubledOnlyInWindowHolds == Spec => []DoubledOnlyInWindow
<1>1. ASSUME IInv PROVE DoubledOnlyInWindow
  <2> SUFFICES ASSUME NEW i \in DOMAIN execs, NEW j \in DOMAIN execs, Doubled(i, j)
               PROVE  i \notin seen[Owner(j)]
    BY DEF DoubledOnlyInWindow, Doubled
  <2>1. execs[i].role = execs[j].role /\ Agents(i) # {}
    BY DEF Doubled, Working
  <2>2. Owner(j) \in Cmds /\ execs[j].role \in want[Owner(j)]
    BY <1>1, Indexed DEF IInv, RowOwned
  <2> QED
    BY <1>1, <2>1, <2>2 DEF IInv, SeenGone
<1> QED
  BY <1>1, Invariant, PTL

\* --rerun-failed (report.go:447-474, table_reporter.go:143-179): for a round of
\* one command it takes, of the roles whose run came back and was written, those
\* the command's own table shows, or is about to show, as failed.
THEOREM RerunMatchesVerdictsHolds == Spec => RerunMatchesVerdicts
<1>1. ASSUME IInv, NEW c \in Reruns, ChooseFailed(c)
      PROVE  \E b \in LatestBatches : \A d \in Cmds :
               Alone(d) /\ batch[d] = b =>
                 \A i \in Written :
                   Owner(i) = d => (execs[i].role \in want'[c] <=> ShownFailed(i))
  <2>1. PICK b \in LatestBatches : want' = [want EXCEPT ![c] = FailedRoles(b)]
    BY <1>1 DEF ChooseFailed
  <2>2. c \in Cmds /\ want'[c] = FailedRoles(b)
    BY <1>1, <2>1, RoleRunsAssumption DEF IInv, TypeOK
  <2>3. ASSUME NEW d \in Cmds, Alone(d), batch[d] = b, NEW i \in Written, Owner(i) = d
        PROVE  execs[i].role \in FailedRoles(b) <=> ShownFailed(i)
    <3>1. i \in DOMAIN execs /\ execs[i].role \in Roles /\ i \notin lost
          /\ run[i] \in {"good", "bad", "over"}
      BY <1>1, Indexed DEF Written, IInv
    <3>2. \A j \in DOMAIN execs : execs[j].batch = b /\ execs[j].role = execs[i].role => j = i
      BY <1>1, <2>3, <3>1, Indexed DEF IInv, RowOwned, Alone
    <3>3. execs[i].batch = b
      BY <1>1, <2>3, <3>1 DEF IInv, RowOwned
    <3>4. i \in Nat /\ i <= i
      BY <1>1, <3>1, Indexed DEF IInv
    <3>5. Newest(b, execs[i].role) = {i}
      BY <3>1, <3>2, <3>3, <3>4 DEF Newest
    <3>6. execs[i].state = "failed" <=> ShownFailed(i)
      BY <1>1, <3>1 DEF IInv, Agreed, ShownFailed
    <3> QED
      BY <3>1, <3>5, <3>6 DEF FailedRoles
  <2> QED
    BY <2>2, <2>3
<1>2. IInv /\ [Next]_vars =>
        [\A c \in Reruns, d \in Cmds : ChooseFailed(c) =>
           \E b \in LatestBatches :
             Alone(d) /\ batch[d] = b =>
               \A i \in Written :
                 Owner(i) = d => (execs[i].role \in want'[c] <=> ShownFailed(i))]_vars
  BY <1>1
<1> QED
  BY <1>2, Invariant, PTL DEF Spec, RerunMatchesVerdicts
=============================================================================
