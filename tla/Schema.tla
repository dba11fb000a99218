-------------------------------- MODULE Schema --------------------------------
(***************************************************************************)
(* calldb.Open: every command that opens .ateam/state.sqlite brings it to  *)
(* the schema of its version first (schema, migrate and backfillWorkDir of *)
(* internal/calldb/calldb.go), whatever older version left it, while other *)
(* commands do the same, and any of them may be killed.                    *)
(*                                                                         *)
(* SQLite is external: one writer at a time, and a writer waits; a         *)
(* transaction that has read may only write while nobody else has          *)
(* committed since; a commit is whole or not at all.  A lock is never held *)
(* for the five seconds of busy_timeout.  pid stands for every column that *)
(* is added to a table that lacks it, peak for the two of these that even  *)
(* a table created today lacks (peak_context_tokens, context_window).      *)
(***************************************************************************)
EXTENDS Naturals, Sequences

CONSTANTS
  Openers,     \* the commands
  Databases,   \* what older versions may have left
  WorkDirs,    \* the directories agents worked in
  Kills,       \* how many of them may be killed,
  Reopens,     \* how often one may be started again,
  MaxRows      \* and how many rows there may be

VARIABLES
  begun,       \* the database as it was found
  db,          \* the database: its tables, the columns, the rows
  version,     \* commits so far
  lock,        \* who is writing
  spc,         \* where each command is
  old,         \* it has seen agent_calls
  snap,        \* the version its transaction reads
  updates,     \* backfillWorkDir: the rows to fill in
  raced,       \* history: another one committed while it was opening
  kills, reopens

schemaVars == <<begun, db, version, lock, spc, old, snap, updates, raced, kills, reopens>>

Columns == {"batch", "pid", "work_dir", "peak"}
Created == Columns \ {"peak"}
None == "none"
Final == {"open", "failed", "killed"}
Stages == {"start", "new", "create", "index", "again", "begin", "write", "commit", "list", "fill"} \cup Final

\* Where a row's stream is: below .ateam, further away, or already relative; where its
\* agent worked according to it, and to its cmd.md; "" is nothing.
Streams == {"", "near", "far", "relative"}
Dirs == WorkDirs \cup {""}
RowType == [stream : Streams, dir : Dirs, cmd : Dirs]
Schemas == [calls : BOOLEAN, execs : BOOLEAN, columns : SUBSET (Columns \cup {"task_group"}), rows : Seq(RowType)]
\* Both renamings are of one transaction each: the table and the column have one name at a time.
OneName(d) == ~(d.calls /\ d.execs) /\ ~({"batch", "task_group"} \subseteq d.columns)

ASSUME DatabasesAssumption == \A d \in Databases : d \in Schemas /\ OneName(d)

SchemaInit ==
  /\ begun \in Databases /\ db = begun
  /\ version = 0 /\ lock = None
  /\ spc = [p \in Openers |-> "start"] /\ old = [p \in Openers |-> FALSE]
  /\ snap = [p \in Openers |-> 0] /\ updates = [p \in Openers |-> {}]
  /\ raced = [p \in Openers |-> FALSE] /\ kills = 0 /\ reopens = 0

Goto(p, l) == spc' = [spc EXCEPT ![p] = l]
Reads == UNCHANGED <<begun, db, version, lock, raced, kills, reopens>>

\* p commits: whoever is opening the database sees it change.
Commits(p) ==
  /\ version' = version + 1 /\ lock' = None
  /\ raced' = [q \in Openers |-> raced[q] \/ (q # p /\ spc[q] \notin Final)]
  /\ UNCHANGED <<begun, kills, reopens>>

\* Two questions, one after the other.
LookOld(p) ==
  /\ spc[p] = "start" /\ Goto(p, "new")
  /\ old' = [old EXCEPT ![p] = db.calls]
  /\ UNCHANGED <<snap, updates>> /\ Reads

\* Mutant: the table of older versions is forgotten.
LookNewAlone(p) ==
  /\ spc[p] = "new" /\ Goto(p, IF db.execs THEN "again" ELSE "create")
  /\ UNCHANGED <<old, snap, updates>> /\ Reads

LookNew(p) ==
  /\ spc[p] = "new" /\ Goto(p, IF old[p] \/ db.execs THEN "again" ELSE "create")
  /\ UNCHANGED <<old, snap, updates>> /\ Reads

\* CREATE TABLE IF NOT EXISTS, and then, each on its own, the indexes.
Create(p) ==
  /\ spc[p] = "create" /\ lock = None /\ Goto(p, "index")
  /\ IF db.execs THEN Reads
     ELSE db' = [db EXCEPT !.execs = TRUE, !.columns = Created] /\ Commits(p)
  /\ UNCHANGED <<old, snap, updates>>

CreateIndexes(p) ==
  /\ spc[p] = "index" /\ lock = None
  /\ Goto(p, IF "batch" \in db.columns THEN "again" ELSE "failed")
  /\ UNCHANGED <<old, snap, updates>> /\ Reads

\* migrate asks again, outside its transaction.
LookAgain(p) ==
  /\ spc[p] = "again" /\ Goto(p, "begin")
  /\ old' = [old EXCEPT ![p] = db.calls]
  /\ UNCHANGED <<snap, updates>> /\ Reads

Outdated(d) == d.calls \/ ~(Columns \subseteq d.columns)

\* The first read fixes what the transaction sees; agent_calls may be gone by then.
BeginTx(p) ==
  /\ spc[p] = "begin"
  /\ Goto(p, IF old[p] /\ ~db.calls THEN "failed" ELSE IF Outdated(db) THEN "write" ELSE "list")
  /\ snap' = [snap EXCEPT ![p] = version]
  /\ UNCHANGED <<old, updates>> /\ Reads

\* The first write: not on what others have changed since, nor over a table that is there.
Write(p) ==
  /\ spc[p] = "write" /\ lock = None
  /\ IF version # snap[p] \/ (old[p] /\ db.execs)
     THEN Goto(p, "failed") /\ UNCHANGED lock
     ELSE Goto(p, "commit") /\ lock' = p
  /\ UNCHANGED <<begun, db, version, old, snap, updates, raced, kills, reopens>>

\* A stream file of agent_calls becomes relative, unless it is too far away.
Relative(stream) == IF stream = "near" THEN "relative" ELSE stream

\* agent_calls and task_group get their new names; what is missing is added.
Migrated(d) ==
  [execs |-> TRUE, calls |-> FALSE, columns |-> (d.columns \ {"task_group"}) \cup Columns,
   rows |-> [r \in DOMAIN d.rows |->
               [d.rows[r] EXCEPT !.stream = IF d.calls THEN Relative(@) ELSE @]]]

Commit(p) ==
  /\ spc[p] = "commit" /\ Goto(p, "list")
  /\ db' = Migrated(db) /\ Commits(p)
  /\ UNCHANGED <<old, snap, updates>>

\* The rows without a work_dir whose cmd.md tells it.
Pending == {r \in DOMAIN db.rows : db.rows[r].dir = "" /\ db.rows[r].cmd # ""}

List(p) ==
  /\ spc[p] = "list" /\ Goto(p, IF Pending = {} THEN "open" ELSE "fill")
  /\ updates' = [updates EXCEPT ![p] = Pending]
  /\ UNCHANGED <<old, snap>> /\ Reads

\* One transaction that begins with a write; should it fail, the database is open all the same.
Fill(p) ==
  /\ spc[p] = "fill" /\ lock = None /\ Goto(p, "open")
  /\ \/ Reads
     \/ /\ db' = [db EXCEPT !.rows = [r \in DOMAIN @ |->
                     IF r \in updates[p] THEN [@[r] EXCEPT !.dir = db.rows[r].cmd] ELSE @[r]]]
        /\ Commits(p)
  /\ UNCHANGED <<old, snap, updates>>

NewRow(d) == [stream |-> "", dir |-> d, cmd |-> d]

\* InsertCall, by a command that has the database open.
Insert(p) ==
  /\ spc[p] = "open" /\ lock = None /\ Len(db.rows) < MaxRows
  /\ \E d \in WorkDirs : db' = [db EXCEPT !.rows = Append(@, NewRow(d))]
  /\ Commits(p)
  /\ UNCHANGED <<spc, old, snap, updates>>

\* What was not committed is gone.
Kill(p) ==
  /\ spc[p] \notin Final /\ kills < Kills /\ kills' = kills + 1
  /\ Goto(p, "killed") /\ lock' = IF lock = p THEN None ELSE lock
  /\ UNCHANGED <<begun, db, version, old, snap, updates, raced, reopens>>

Reopen(p) ==
  /\ spc[p] \in {"failed", "killed"} /\ reopens < Reopens /\ reopens' = reopens + 1
  /\ Goto(p, "start") /\ raced' = [raced EXCEPT ![p] = FALSE]
  /\ UNCHANGED <<begun, db, version, lock, old, snap, updates, kills>>

SchemaNext == \E p \in Openers :
  \/ LookOld(p) \/ LookNew(p) \/ Create(p) \/ CreateIndexes(p) \/ LookAgain(p)
  \/ BeginTx(p) \/ Write(p) \/ Commit(p) \/ List(p) \/ Fill(p)
  \/ Insert(p) \/ Kill(p) \/ Reopen(p)

SchemaSpec == SchemaInit /\ [][SchemaNext]_schemaVars

SchemaTypeOK ==
  /\ begun \in Databases /\ db \in Schemas
  /\ version \in Nat /\ lock \in Openers \cup {None}
  /\ spc \in [Openers -> Stages] /\ old \in [Openers -> BOOLEAN]
  /\ snap \in [Openers -> Nat] /\ updates \in [Openers -> SUBSET Nat]
  /\ raced \in [Openers -> BOOLEAN] /\ kills \in Nat /\ reopens \in Nat

-----------------------------------------------------------------------------
(* Properties *)

\* A row keeps its stream, made relative with the table it is in, and its work_dir;
\* a work_dir that is filled in is that of its cmd.md.
RowsKept ==
  \A r \in DOMAIN begun.rows :
    /\ r \in DOMAIN db.rows
    /\ db.rows[r].stream = IF begun.calls /\ ~db.calls THEN Relative(begun.rows[r].stream) ELSE begun.rows[r].stream
    /\ db.rows[r].dir \in {begun.rows[r].dir} \cup (IF begun.rows[r].dir = "" THEN {begun.rows[r].cmd} ELSE {})

\* Whatever version wrote the database, however many commands open it at once and
\* wherever one was killed: a command that has opened it finds the current table and
\* columns and every row; and none is refused unless another one committed meanwhile,
\* so that trying again helps (calldb.go:190-428).
OpensWhole ==
  /\ \A p \in Openers : spc[p] = "open" => db.execs /\ ~Outdated(db) /\ "task_group" \notin db.columns
  /\ \A p \in Openers : spc[p] = "failed" => raced[p]
  /\ RowsKept
=============================================================================
