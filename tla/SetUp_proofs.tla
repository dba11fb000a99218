---------------------------- MODULE SetUp_proofs ----------------------------
(***************************************************************************)
(* Proofs about what a command does before an agent runs, whatever other   *)
(* commands do meanwhile and wherever one is killed.  The old state        *)
(* directory, StateDir: for any commands, any number of sources and rows   *)
(* and any directory to begin with, no text is lost, whoever gets past the *)
(* layout finds what one undisturbed pass leaves, and a row tells where    *)
(* its stream is, but where a step of it failed.  The old database,        *)
(* Schema: for any older database, whoever has opened it finds it current  *)
(* and whole. Credentials: for any stores and any writers, an agent gets   *)
(* one credential, the best there is.  ContainerPrep: for any workers and  *)
(* any place of their files, a container is made ready once, before an     *)
(* agent is in it, and has its files where it is told.                     *)
(***************************************************************************)
EXTENDS StateDir, Schema, Credentials, ContainerPrep, SequenceTheorems, FiniteSetTheorems, WellFoundedInduction, TLAPS

-----------------------------------------------------------------------------
(* The inductive invariant: the layout. *)

Facing == {"rename", "copy", "remove", "readsrc", "readdst", "aside", "shift"}
Laying == {"src", "dst", "cleanup"} \cup Facing

\* A command is at a source, or at a row, while it works on one.
Placed(c) == /\ pc[c] = "start" => at[c] = 1
             /\ pc[c] \in Laying => at[c] \in Sources
             /\ pc[c] \in {"stream"} \cup InRow => at[c] \in 1..Rows

\* What it holds is whole; what it copies is half there.
Holding(c) ==
  /\ got[c].whole
  /\ pc[c] = "copy" => exdev /\ Exists(got[c]) /\ dst = File(got[c].text, FALSE)

\* What it found out is still so when it acts on it, as long as the source it
\* looked at is there.
StillSo(c) ==
  /\ pc[c] \in {"remove", "readsrc", "readdst", "aside", "shift"} => Exists(dst)
  /\ pc[c] \in {"readdst", "copy"} => Exists(got[c]) /\ Here(c) \in {Absent, got[c]}
  /\ pc[c] \in {"aside", "shift"} /\ ~exdev => Here(c) # dst
  /\ pc[c] = "shift" /\ Exists(Here(c)) => ~Exists(aside[at[c]])
  /\ pc[c] = "remove" => dst.whole /\ Here(c) \in {Absent, dst}
  /\ pc[c] = "rename" /\ ~exdev /\ Exists(Here(c)) => ~Exists(dst)

\* The sources a command has been at.
Past(c) == IF pc[c] \in Laying THEN {j \in Sources : j < at[c]}
           ELSE IF pc[c] = "sentinel" /\ at[c] > Legacy + Nested THEN Sources ELSE {}

\* What a command has left at its place finds a target there, and no place aside.
Passed(c) == \A j \in Past(c) : Exists(src[j]) => Exists(dst) /\ (exdev \/ Blocked(j))

Mine(c) == Placed(c) /\ Holding(c) /\ StillSo(c) /\ Passed(c)

\* Only a target can be the half of a copy, and one copy is made at a time,
\* since it begins only where nothing is.
WholeSources == \A i \in Sources : src[i].whole /\ aside[i].whole
OneCopy == \A c, d \in Cmds : pc[c] = "copy" /\ pc[d] = "copy" => c = d

\* On one device the target, and each source, is as it was, or as one pass
\* would leave it.
Same(i) == src[i] = begin.src[i] /\ aside[i] = begin.aside[i]
Moved(i) ==
  /\ Exists(begin.src[i]) /\ Exists(dst) /\ ~Blocked(i)
  /\ src[i] = Absent
  /\ aside[i] = IF Rival(i) THEN begin.src[i] ELSE begin.aside[i]
PassBegun ==
  ~exdev => /\ dst = Winner \/ (~Exists(dst) /\ ~Exists(begin.dst))
            /\ \A i \in Sources : Same(i) \/ Moved(i)

Layouts == WholeSources /\ OneCopy /\ PassBegun /\ \A c \in Cmds : Mine(c)

-----------------------------------------------------------------------------
(* The inductive invariant: the logs. *)

Unhurt == (1..Rows) \ hurt

\* The stream of a row a command is in has left its old place.
InNew == \A c \in Cmds : pc[c] \in InRow /\ at[c] \in Unhurt => stream[at[c]] # "old"

\* The rows that are to be moved are on the list and ahead.
Ahead ==
  \A c \in Cmds : pc[c] \in {"stat", "stream"} \cup InRow =>
    \A r \in Unhurt : stream[r] = "old" => r \in list[c] /\ at[c] <= r

\* Nothing is to be moved any more.
Swept ==
  /\ ~oldlogs => \A r \in 1..Rows : stream[r] # "old"
  /\ \A c \in Cmds : pc[c] = "mark" => \A r \in Unhurt : stream[r] # "old"

LogInv == InNew /\ Ahead /\ Swept
IInv == TypeOK /\ Layouts /\ NothingLost /\ LogInv /\ StreamFound

-----------------------------------------------------------------------------
(* Types. *)

Places == Resting \cup InRow \cup Laying \cup {"sentinel", "needs", "query", "stat", "stream", "mark"}

CtlTyped == /\ pc \in [Cmds -> Places] /\ at \in [Cmds -> Nat] /\ got \in [Cmds -> Files]
            /\ list \in [Cmds -> SUBSET (1..Rows)] /\ found \in [Cmds -> {0} \cup Prompts]
FilesTyped == /\ begin \in Begins /\ exdev \in BOOLEAN
              /\ src \in [Sources -> Files] /\ aside \in [Sources -> Files] /\ dst \in Files
LogsTyped == /\ history \in SUBSET Prompts
             /\ stream \in [1..Rows -> {"old", "new", "gone"}]
             /\ entry \in [1..Rows -> {"old", "new"}] /\ prompt \in [1..Rows -> {0} \cup Prompts]
             /\ oldlogs \in BOOLEAN /\ sentinel \in BOOLEAN /\ hurt \in SUBSET (1..Rows)
CountTyped == crashes \in 0..Crashes /\ restarts \in 0..Restarts

LEMMA TypeParts == TypeOK <=> CtlTyped /\ FilesTyped /\ LogsTyped /\ CountTyped
<1>1. Resting \cup InRow \cup
        {"src", "dst", "rename", "copy", "remove", "readsrc", "readdst", "aside",
         "shift", "cleanup", "sentinel", "needs", "query", "stat", "stream", "mark"} = Places
  BY DEF Places, Laying, Facing
<1>2. {src, aside} \subseteq [Sources -> Files] <=>
        src \in [Sources -> Files] /\ aside \in [Sources -> Files]
  OBVIOUS
<1>3. {oldlogs, sentinel} \subseteq BOOLEAN <=> oldlogs \in BOOLEAN /\ sentinel \in BOOLEAN
  BY Zenon
<1> HIDE DEF Places
<1> QED
  BY <1>1, <1>2, <1>3, Zenon DEF TypeOK, CtlTyped, FilesTyped, LogsTyped, CountTyped

LEMMA Filed ==
  /\ Absent \in Files /\ Absent.whole
  /\ \A f \in Files : f.whole \in BOOLEAN
  /\ \A f, g \in Files : f.whole /\ g.whole /\ f.text = g.text => f = g
  /\ \A f \in Files : Exists(f) => /\ File(f.text, FALSE) \in Files
                                   /\ Exists(File(f.text, FALSE))
  /\ \A f \in Files : ~File(f.text, FALSE).whole
<1>1. Absent \in Files /\ Absent.whole
  BY DEF Files, File, Absent
<1>2. ASSUME NEW f \in Files PROVE f.whole \in BOOLEAN
  <2>1. Absent.whole \in BOOLEAN
    BY DEF File, Absent
  <2> QED
    BY <2>1, Zenon DEF Files
<1>3. ASSUME NEW f \in Files, NEW g \in Files, f.whole, g.whole, f.text = g.text PROVE f = g
  <2>1. f.whole = TRUE /\ g.whole = TRUE
    BY <1>2, <1>3, Zenon
  <2>2. \A h \in Files : h = [text |-> h.text, whole |-> h.whole]
    BY DEF Files, File, Absent
  <2>3. f = [text |-> f.text, whole |-> f.whole] /\ g = [text |-> g.text, whole |-> g.whole]
    BY <2>2
  <2> QED
    BY <1>3, <2>1, <2>3, Zenon
<1>4. ASSUME NEW f \in Files, Exists(f)
      PROVE File(f.text, FALSE) \in Files /\ Exists(File(f.text, FALSE))
  BY <1>4 DEF Files, File, Absent, Exists
<1>5. \A f \in Files : ~File(f.text, FALSE).whole
  BY DEF File
<1> QED
  BY <1>1, <1>2, <1>3, <1>4, <1>5

\* The type of the layout's variables says what a file is; from here on a file
\* is nothing else.
LEMMA BeginFiles ==
  ASSUME NEW b \in Begins
  PROVE /\ b.src \in [Sources -> Files] /\ b.aside \in [Sources -> Files] /\ b.dst \in Files
        /\ b.dst.whole /\ \A i \in Sources : b.src[i].whole /\ b.aside[i].whole
<1>1. b \in [src : [Sources -> Files], aside : [Sources -> Files], dst : Files]
  BY StateDirAssumption
<1> QED
  BY <1>1, StateDirAssumption

-----------------------------------------------------------------------------
(* Steps and what they leave alone. *)

Step(c) == Layout(c) \/ Logs(c) \/ Die(c) \/ Restart(c)

LEMMA Steps ==
  ASSUME [Next]_vars
  PROVE \/ UNCHANGED vars
        \/ \E c \in Cmds : \/ Layout(c) /\ UNCHANGED world
                           \/ Logs(c) /\ UNCHANGED world
                           \/ Die(c)
                           \/ Restart(c)
  BY DEF Next

LEMMA Frame ==
  ASSUME CtlTyped, NEW c \in Cmds, Step(c), NEW d \in Cmds, d # c
  PROVE pc'[d] = pc[d] /\ at'[d] = at[d] /\ got'[d] = got[d] /\ list'[d] = list[d]
<1>1. CASE Layout(c)
  BY <1>1 DEF CtlTyped, Layout, Start, StatSource, StatTarget, Rename, BeginCopy, EndCopy,
     RemoveOld, ReadSource, Compare, StatAside, Shift, Cleanup, Fail, NextSource, Leave, Go, local
<1>2. CASE Logs(c)
  BY <1>2 DEF CtlTyped, Logs, CheckSentinel, CheckNeed, Query, StatStream, MoveStream,
     FindPrompt, KeepPrompt, UpdateEntry, Sweep, WriteSentinel, NextRow, Leave, Go, local
<1>3. CASE Die(c) \/ Restart(c)
  BY <1>3 DEF CtlTyped, Die, Restart, Leave, Go
<1> QED
  BY <1>1, <1>2, <1>3 DEF Step

LEMMA LayoutTypes ==
  ASSUME TypeOK, NEW c \in Cmds, Placed(c), Layout(c), UNCHANGED world
  PROVE TypeOK'
<1>1. CtlTyped /\ FilesTyped /\ LogsTyped /\ CountTyped
  BY TypeParts
<1>2. CountTyped' /\ begin' \in Begins /\ exdev' \in BOOLEAN
  BY <1>1 DEF CountTyped, FilesTyped, world
<1>3. stream' = stream /\ entry' = entry /\ prompt' = prompt /\ oldlogs' = oldlogs
        /\ sentinel' = sentinel /\ hurt' = hurt
  BY DEF Layout, Start, StatSource, StatTarget, Rename, BeginCopy, EndCopy, RemoveOld, ReadSource,
     Compare, StatAside, Shift, Cleanup, Fail, logs
<1>4. history' \in SUBSET Prompts
  BY <1>1 DEF LogsTyped, Layout, Start, StatSource, StatTarget, Rename, BeginCopy, EndCopy,
     RemoveOld, ReadSource, Compare, StatAside, Shift, Cleanup, Fail
<1>5. Here(c) \in Files \/ pc[c] \notin Laying
  BY <1>1 DEF Placed, Here, FilesTyped
<1>6. CtlTyped'
  <2>1. pc' \in [Cmds -> Places]
    BY <1>1 DEF CtlTyped, Places, Laying, Facing, Resting, Layout, Start, StatSource, StatTarget,
       Rename, BeginCopy, EndCopy, RemoveOld, ReadSource, Compare, StatAside, Shift, Cleanup, Fail,
       NextSource, Leave, Go
  <2>2. at' \in [Cmds -> Nat]
    <3>1. at' = at \/ at' = [at EXCEPT ![c] = @ + 1] \/ at' = [at EXCEPT ![c] = 1]
            \/ at' = [at EXCEPT ![c] = Legacy + 1]
      BY DEF Layout, Start, StatSource, StatTarget, Rename, BeginCopy, EndCopy, RemoveOld,
         ReadSource, Compare, StatAside, Shift, Cleanup, Fail, NextSource, Leave
    <3>2. at[c] + 1 \in Nat /\ Legacy + 1 \in Nat /\ at \in [Cmds -> Nat]
      BY <1>1, StateDirAssumption DEF CtlTyped
    <3> QED
      BY <3>1, <3>2
  <2>3. got' \in [Cmds -> Files]
    <3>1. \/ got' = got \/ got' = [got EXCEPT ![c] = Absent]
          \/ got' = [got EXCEPT ![c] = Here(c)] /\ pc[c] \in Laying
      BY Zenon DEF Layout, Start, StatSource, StatTarget, Rename, BeginCopy, EndCopy, RemoveOld,
         ReadSource, Compare, StatAside, Shift, Cleanup, Fail, NextSource, Leave, local,
         Laying, Facing
    <3> QED
      BY <1>1, <1>5, <3>1, Filed DEF CtlTyped
  <2>4. list' \in [Cmds -> SUBSET (1..Rows)] /\ found' \in [Cmds -> {0} \cup Prompts]
    BY <1>1 DEF CtlTyped, Layout, Start, StatSource, StatTarget, Rename, BeginCopy, EndCopy,
       RemoveOld, ReadSource, Compare, StatAside, Shift, Cleanup, Fail, Leave, local
  <2> QED
    BY <2>1, <2>2, <2>3, <2>4 DEF CtlTyped
<1>7. FilesTyped'
  <2>1. \/ UNCHANGED <<src, aside, dst>>
        \/ pc[c] \in Laying /\ (Rename(c) \/ BeginCopy(c) \/ EndCopy(c) \/ RemoveOld(c) \/ Shift(c))
    BY DEF Layout, Start, StatSource, StatTarget, Rename, BeginCopy, EndCopy, RemoveOld, ReadSource,
       Compare, StatAside, Shift, Cleanup, Fail, prompts, Laying, Facing
  <2>2. ASSUME pc[c] \in Laying, Rename(c) \/ BeginCopy(c) \/ EndCopy(c) \/ RemoveOld(c) \/ Shift(c)
        PROVE src' \in [Sources -> Files] /\ aside' \in [Sources -> Files] /\ dst' \in Files
    <3>1. Here(c) \in Files /\ got[c] \in Files /\ Absent \in Files
      BY <1>1, <1>5, <2>2, Filed DEF CtlTyped
    <3>2. Exists(Here(c)) => File(Here(c).text, FALSE) \in Files
      BY <3>1, Filed
    <3> QED
      BY <1>1, <2>2, <3>1, <3>2 DEF FilesTyped, Rename, BeginCopy, EndCopy, RemoveOld, Shift
  <2> QED
    BY <1>1, <1>2, <2>1, <2>2 DEF FilesTyped
<1>8. LogsTyped'
  BY <1>1, <1>3, <1>4 DEF LogsTyped
<1> QED
  <2>1. TypeOK' <=> CtlTyped' /\ FilesTyped' /\ LogsTyped' /\ CountTyped'
    BY TypeParts, PTL
  <2> QED
    BY <1>2, <1>6, <1>7, <1>8, <2>1

LEMMA LogsTypes ==
  ASSUME TypeOK, NEW c \in Cmds, Placed(c), Logs(c), UNCHANGED world
  PROVE TypeOK'
<1>1. CtlTyped /\ FilesTyped /\ LogsTyped /\ CountTyped
  BY TypeParts
<1>2. CountTyped' /\ begin' \in Begins /\ exdev' \in BOOLEAN
  BY <1>1 DEF CountTyped, FilesTyped, world
<1>3. src' = src /\ aside' = aside /\ dst' = dst
  BY DEF Logs, CheckSentinel, CheckNeed, Query, StatStream, MoveStream, FindPrompt, KeepPrompt,
     UpdateEntry, Sweep, WriteSentinel, prompts
<1>4. CtlTyped'
  <2>1. pc' \in [Cmds -> Places]
    BY <1>1 DEF CtlTyped, Places, Resting, InRow, Logs, CheckSentinel, CheckNeed, Query,
       StatStream, MoveStream, FindPrompt, KeepPrompt, UpdateEntry, Sweep, WriteSentinel,
       NextRow, Leave, Go
  <2>2. at' \in [Cmds -> Nat]
    <3>1. at' = at \/ at' = [at EXCEPT ![c] = @ + 1] \/ at' = [at EXCEPT ![c] = 1]
      BY DEF Logs, CheckSentinel, CheckNeed, Query, StatStream, MoveStream, FindPrompt,
         KeepPrompt, UpdateEntry, Sweep, WriteSentinel, NextRow, Leave
    <3>2. at[c] + 1 \in Nat /\ at \in [Cmds -> Nat]
      BY <1>1 DEF CtlTyped
    <3> QED
      BY <3>1, <3>2
  <2>3. got' \in [Cmds -> Files]
    BY <1>1, Filed DEF CtlTyped, Logs, CheckSentinel, CheckNeed, Query, StatStream, MoveStream,
       FindPrompt, KeepPrompt, UpdateEntry, Sweep, WriteSentinel, Leave, local
  <2>4. list' \in [Cmds -> SUBSET (1..Rows)] /\ found' \in [Cmds -> {0} \cup Prompts]
    <3>1. /\ \/ list' = list \/ list' = [list EXCEPT ![c] = {}]
             \/ list' = [list EXCEPT ![c] = {r \in 1..Rows : entry[r] = "old"}]
          /\ \/ found' = found \/ found' = [found EXCEPT ![c] = 0]
             \/ \E p \in history : found' = [found EXCEPT ![c] = p]
      BY DEF Logs, CheckSentinel, CheckNeed, Query, StatStream, MoveStream, FindPrompt,
         KeepPrompt, UpdateEntry, Sweep, WriteSentinel, Leave, local
    <3> QED
      BY <1>1, <3>1 DEF CtlTyped, LogsTyped
  <2> QED
    BY <2>1, <2>2, <2>3, <2>4 DEF CtlTyped
<1>5. LogsTyped'
  <2>1. pc[c] \in {"stream"} \cup InRow => at[c] \in 1..Rows
    BY DEF Placed
  <2>2. history' \in SUBSET Prompts /\ prompt' \in [1..Rows -> {0} \cup Prompts]
    BY <1>1 DEF CtlTyped, LogsTyped, Logs, CheckSentinel, CheckNeed, Query, StatStream,
       MoveStream, FindPrompt, KeepPrompt, UpdateEntry, Sweep, WriteSentinel, logs
  <2>3. stream' \in [1..Rows -> {"old", "new", "gone"}] /\ entry' \in [1..Rows -> {"old", "new"}]
          /\ hurt' \in SUBSET (1..Rows)
    BY <1>1, <2>1 DEF LogsTyped, Logs, CheckSentinel, CheckNeed, Query, StatStream,
       MoveStream, FindPrompt, KeepPrompt, UpdateEntry, Sweep, WriteSentinel, logs, Row, InRow
  <2>4. oldlogs' \in BOOLEAN
    BY <1>1, Zenon DEF LogsTyped, Logs, CheckSentinel, CheckNeed, Query, StatStream, MoveStream,
       FindPrompt, KeepPrompt, UpdateEntry, Sweep, WriteSentinel, logs
  <2>5. sentinel' \in BOOLEAN
    BY <1>1, Zenon DEF LogsTyped, Logs, CheckSentinel, CheckNeed, Query, StatStream, MoveStream,
       FindPrompt, KeepPrompt, UpdateEntry, Sweep, WriteSentinel, logs
  <2> QED
    BY <2>2, <2>3, <2>4, <2>5 DEF LogsTyped
<1> QED
  <2>1. TypeOK' <=> CtlTyped' /\ FilesTyped' /\ LogsTyped' /\ CountTyped'
    BY TypeParts, PTL
  <2> QED
    BY <1>1, <1>2, <1>3, <1>4, <1>5, <2>1 DEF FilesTyped

-----------------------------------------------------------------------------
(* The layout.  What the directory began with, and where a command has been. *)

LEMMA BeginSame ==
  ASSUME begin' = begin
  PROVE /\ Winner' = Winner
        /\ \A i : (Rival(i)' <=> Rival(i)) /\ (Blocked(i)' <=> Blocked(i))
<1>1. Winner' = Winner
  BY DEF Winner, First, Present
<1>2. \A i : Rival(i)' <=> Rival(i)
  BY <1>1 DEF Rival
<1> QED
  BY <1>1, <1>2 DEF Blocked

\* The first source that was there wins, where no target was.
LEMMA FirstWins ==
  ASSUME NEW i \in Sources, Exists(begin.src[i]), ~Exists(begin.dst),
         \A j \in Sources : Exists(begin.src[j]) => i <= j
  PROVE Winner = begin.src[i]
<1>1. i \in Present /\ (\A j \in Present : i <= j) /\ Present \subseteq Nat
  BY StateDirAssumption DEF Present, Sources
<1>2. First \in Present /\ \A j \in Present : First <= j
  BY <1>1 DEF First
<1>3. First = i
  BY <1>1, <1>2
<1> QED
  BY <1>1, <1>3 DEF Winner

LEMMA PastNext ==
  ASSUME CtlTyped, NEW c \in Cmds, pc[c] \in Laying, at[c] \in Sources, NextSource(c)
  PROVE /\ pc'[c] \in {"src", "cleanup", "sentinel"}
        /\ pc'[c] # "sentinel" => at'[c] \in Sources
        /\ got'[c] = Absent
        /\ \A j \in Sources : j \in Past(c)' <=> j \in Past(c) \/ j = at[c]
<1>1. at'[c] = at[c] + 1 /\ got'[c] = Absent
        /\ pc'[c] = CASE at[c] = Legacy -> "cleanup"
                      [] at[c] = Legacy + Nested -> "sentinel"
                      [] OTHER -> "src"
  BY DEF CtlTyped, NextSource, Go
<1>2. Legacy \in Nat \ {0} /\ Nested \in Nat \ {0} /\ at[c] \in 1..(Legacy + Nested)
  BY StateDirAssumption DEF Sources
<1>3. \/ pc'[c] \in {"src", "cleanup"} /\ at[c] < Legacy + Nested
      \/ pc'[c] = "sentinel" /\ at[c] = Legacy + Nested
  BY <1>1, <1>2
<1>4. Past(c) = {j \in Sources : j < at[c]}
  BY DEF Past
<1>5. CASE pc'[c] \in {"src", "cleanup"} /\ at[c] < Legacy + Nested
  <2>1. Past(c)' = {j \in Sources : j < at[c] + 1}
    BY <1>1, <1>5 DEF Past, Laying
  <2> QED
    BY <1>1, <1>2, <1>4, <1>5, <2>1 DEF Sources
<1>6. CASE pc'[c] = "sentinel" /\ at[c] = Legacy + Nested
  <2>1. Past(c)' = Sources
    BY <1>1, <1>2, <1>6 DEF Past, Laying, Facing
  <2> QED
    BY <1>1, <1>2, <1>4, <1>6, <2>1 DEF Sources
<1> QED
  BY <1>3, <1>5, <1>6

\* A step that changes no file disturbs nobody else.
LEMMA Quiet ==
  ASSUME TypeOK, Layouts, NEW c \in Cmds, Step(c), begin' = begin, exdev' = exdev,
         UNCHANGED prompts, Mine(c)', pc'[c] # "copy" \/ pc[c] = "copy"
  PROVE Layouts'
<1>1. src' = src /\ aside' = aside /\ dst' = dst
  BY DEF prompts
<1>2. \A d \in Cmds : d # c => pc'[d] = pc[d] /\ at'[d] = at[d] /\ got'[d] = got[d]
  BY TypeParts, Frame
<1>3. WholeSources'
  BY <1>1 DEF Layouts, WholeSources
<1>4. OneCopy'
  BY <1>2 DEF Layouts, OneCopy
<1>5. PassBegun'
  BY <1>1, BeginSame DEF Layouts, PassBegun, Same, Moved
<1>6. ASSUME NEW d \in Cmds, d # c PROVE Mine(d)'
  <2>1. Mine(d)
    BY DEF Layouts
  <2>2. Past(d)' = Past(d)
    BY <1>2, <1>6 DEF Past
  <2>3. Placed(d)' /\ Holding(d)'
    BY <1>1, <1>2, <1>6, <2>1 DEF Mine, Placed, Holding
  <2>4. StillSo(d)'
    BY <1>1, <1>2, <1>6, <2>1 DEF Mine, StillSo, Here
  <2>5. Passed(d)'
    BY <1>1, <2>1, <2>2, BeginSame DEF Mine, Passed
  <2> QED
    BY <2>3, <2>4, <2>5 DEF Mine
<1> QED
  BY <1>3, <1>4, <1>5, <1>6 DEF Layouts

\* A command that leaves the layout, or was never in it, has nothing to keep.
LEMMA OutOfIt ==
  ASSUME NEW c \in Cmds, got'[c].whole, pc'[c] \notin Laying,
         pc'[c] \in {"stream"} \cup InRow => at'[c] \in 1..Rows,
         pc'[c] = "start" => at'[c] = 1,
         pc'[c] = "sentinel" => at'[c] <= Legacy + Nested, at'[c] \in Nat
  PROVE Mine(c)'
<1>1. Past(c)' = {}
  BY StateDirAssumption DEF Past
<1> QED
  BY <1>1 DEF Mine, Placed, Holding, StillSo, Passed, Laying, Facing

\* Looking, reading and stopping change no file.
LEMMA LookingKeeps ==
  ASSUME TypeOK, Layouts, NEW c \in Cmds, begin' = begin, exdev' = exdev,
         \/ Start(c) \/ StatSource(c) \/ StatTarget(c) \/ ReadSource(c)
         \/ Compare(c) \/ StatAside(c) \/ Cleanup(c) \/ Fail(c)
  PROVE Layouts'
<1>1. CtlTyped /\ FilesTyped /\ Mine(c)
  BY TypeParts DEF Layouts
<1>2. Step(c) /\ src' = src /\ aside' = aside /\ dst' = dst
  BY DEF Step, Layout, Start, StatSource, StatTarget, ReadSource, Compare, StatAside,
     Cleanup, Fail, prompts
<1>3. SUFFICES Mine(c)' /\ pc'[c] # "copy"
  BY <1>2, Quiet DEF prompts
<1>4. Legacy \in Nat \ {0} /\ Nested \in Nat \ {0}
  BY StateDirAssumption
<1>5. \A i \in Sources : src[i] \in Files
  BY <1>1 DEF FilesTyped
<1>6. Absent.whole
  BY Filed
<1>7. ASSUME pc[c] \in Laying, at[c] \in Sources, NextSource(c),
             Exists(Here(c)) => Exists(dst) /\ (exdev \/ Blocked(at[c]))
      PROVE Mine(c)' /\ pc'[c] # "copy"
  <2>1. /\ pc'[c] \in {"src", "cleanup", "sentinel"}
        /\ pc'[c] # "sentinel" => at'[c] \in Sources
        /\ got'[c] = Absent
        /\ \A j \in Sources : j \in Past(c)' <=> j \in Past(c) \/ j = at[c]
    BY <1>1, <1>7, PastNext
  <2>2. Placed(c)' /\ Holding(c)' /\ StillSo(c)'
    BY <1>6, <2>1 DEF Placed, Holding, StillSo, Laying, Facing, InRow
  <2>3. \A j \in Past(c)' : j \in Sources
    BY DEF Past
  <2>4. Passed(c)'
    BY <1>1, <1>2, <1>7, <2>1, <2>3, BeginSame DEF Mine, Passed, Here
  <2> QED
    BY <2>1, <2>2, <2>4 DEF Mine
<1>8. ASSUME pc[c] \in Laying, pc'[c] \in Laying, at'[c] = at[c], got'[c].whole,
             pc'[c] # "copy", StillSo(c)'
      PROVE Mine(c)' /\ pc'[c] # "copy"
  <2>1. Past(c)' = Past(c)
    BY <1>8 DEF Past
  <2>2. Placed(c)' /\ Holding(c)'
    BY <1>1, <1>8 DEF Mine, Placed, Holding, Laying, Facing, InRow
  <2>3. Passed(c)'
    BY <1>1, <1>2, <2>1, BeginSame DEF Mine, Passed
  <2> QED
    BY <1>8, <2>2, <2>3 DEF Mine
<1>9. CASE Start(c)
  <2>1. at[c] = 1 /\ got'[c] = got[c] /\ got[c].whole
    BY <1>1, <1>9 DEF Mine, Placed, Holding, Start, local
  <2>2. CASE pc'[c] = "sentinel" /\ at' = at
    BY <1>4, <2>1, <2>2, OutOfIt DEF Laying, Facing, InRow
  <2>3. CASE pc'[c] = "src" /\ at'[c] = IF NeedsMigration THEN 1 ELSE Legacy + 1
    <3>1. at'[c] \in Sources /\ Past(c)' = {j \in Sources : j < at'[c]}
      BY <1>4, <2>3 DEF Sources, Past, Laying
    <3>2. Placed(c)' /\ Holding(c)' /\ StillSo(c)'
      BY <2>1, <2>3, <3>1 DEF Placed, Holding, StillSo, InRow
    <3>3. \A j \in Past(c)' : ~Exists(src[j])
      BY <1>4, <2>3, <3>1 DEF NeedsMigration, Sources
    <3> QED
      BY <1>2, <2>3, <3>2, <3>3 DEF Mine, Passed
  <2> QED
    BY <1>1, <1>9, <2>2, <2>3 DEF Start, Go, CtlTyped
<1>10. CASE StatSource(c)
  <2>1. pc[c] = "src" /\ at[c] \in Sources
    BY <1>1, <1>10 DEF StatSource, Mine, Placed, Laying
  <2>2. CASE Exists(Here(c))
    BY <1>1, <1>8, <1>10, <2>1, <2>2 DEF StatSource, Go, CtlTyped, Mine, Holding, StillSo, Laying, Facing
  <2>3. CASE ~Exists(Here(c))
    BY <1>7, <1>10, <2>1, <2>3 DEF StatSource, Laying
  <2> QED
    BY <2>2, <2>3
<1>11. CASE StatTarget(c)
  <2>1. pc[c] = "dst" /\ at'[c] = at[c] /\ got'[c] = got[c]
          /\ pc'[c] = IF Exists(dst) THEN "readsrc" ELSE "rename"
    BY <1>1, <1>11 DEF StatTarget, Go, CtlTyped, local
  <2>2. StillSo(c)'
    BY <1>2, <2>1 DEF StillSo
  <2> QED
    BY <1>1, <1>8, <2>1, <2>2 DEF Mine, Holding, Laying, Facing
<1>12. CASE ReadSource(c)
  <2>1. pc[c] = "readsrc" /\ at'[c] = at[c] /\ got'[c] = Here(c) /\ pc'[c] = "readdst"
          /\ Exists(Here(c))
    BY <1>1, <1>12 DEF ReadSource, Go, CtlTyped
  <2>2. got'[c].whole /\ Exists(dst)
    BY <1>1, <2>1 DEF Layouts, WholeSources, Mine, Placed, StillSo, Here, Laying, Facing
  <2>3. StillSo(c)'
    BY <1>2, <2>1, <2>2 DEF StillSo, Here
  <2> QED
    BY <1>8, <2>1, <2>2, <2>3 DEF Laying, Facing
<1>13. CASE Compare(c)
  <2>1. pc[c] = "readdst" /\ at'[c] = at[c] /\ got'[c] = got[c]
          /\ pc'[c] = IF dst = got[c] THEN "remove" ELSE "aside"
    BY <1>1, <1>13 DEF Compare, Go, CtlTyped, local
  <2>2. got[c].whole /\ Exists(dst) /\ Here(c) \in {Absent, got[c]}
    BY <1>1, <2>1 DEF Mine, Holding, StillSo
  <2>3. StillSo(c)'
    BY <1>2, <2>1, <2>2 DEF StillSo, Here, Exists
  <2> QED
    BY <1>8, <2>1, <2>2, <2>3 DEF Laying, Facing
<1>14. CASE StatAside(c)
  <2>1. pc[c] = "aside" /\ at[c] \in Sources /\ Exists(dst) /\ (~exdev => Here(c) # dst)
    BY <1>1, <1>14 DEF StatAside, Mine, Placed, StillSo, Laying, Facing
  <2>2. CASE Exists(aside[at[c]])
    <3>1. ASSUME ~exdev, Exists(Here(c)) PROVE Blocked(at[c])
      <4>1. Same(at[c]) \/ Moved(at[c])
        BY <2>1, <3>1 DEF Layouts, PassBegun
      <4>2. Same(at[c])
        BY <3>1, <4>1 DEF Moved, Here, Exists
      <4>3. dst = Winner
        BY <2>1, <3>1 DEF Layouts, PassBegun
      <4> QED
        BY <2>1, <2>2, <3>1, <4>2, <4>3 DEF Same, Blocked, Rival, Here, Exists
    <3> QED
      BY <1>7, <1>14, <2>1, <2>2, <3>1 DEF StatAside, Laying, Facing
  <2>3. CASE ~Exists(aside[at[c]])
    <3>1. pc'[c] = "shift" /\ at'[c] = at[c] /\ got'[c] = got[c]
      BY <1>1, <1>14, <2>3 DEF StatAside, Go, CtlTyped
    <3>2. StillSo(c)'
      BY <1>2, <2>1, <2>3, <3>1 DEF StillSo, Here
    <3> QED
      BY <1>1, <1>8, <2>1, <3>1, <3>2 DEF Mine, Holding, Laying, Facing
  <2> QED
    BY <2>2, <2>3
<1>15. CASE Cleanup(c)
  <2>1. pc[c] = "cleanup" /\ at'[c] = at[c] /\ got'[c] = got[c] /\ pc'[c] = "src"
    BY <1>1, <1>15 DEF Cleanup, Go, CtlTyped, local
  <2> QED
    BY <1>1, <1>8, <2>1 DEF Mine, Holding, StillSo, Laying, Facing
<1>16. CASE Fail(c)
  <2>1. pc'[c] = "failed" /\ at'[c] = 1 /\ got'[c] = Absent
    BY <1>1, <1>16 DEF Fail, Leave, Go, CtlTyped
  <2> QED
    BY <1>6, <2>1, OutOfIt DEF Laying, Facing, InRow
<1> QED
  BY <1>9, <1>10, <1>11, <1>12, <1>13, <1>14, <1>15, <1>16

\* Rename: there is no target, so everybody else is before its own look at one,
\* or at a source that is not there.
LEMMA RenameKeeps ==
  ASSUME TypeOK, Layouts, NEW c \in Cmds, begin' = begin, exdev' = exdev, Rename(c)
  PROVE Layouts'
<1>1. CtlTyped /\ FilesTyped /\ Mine(c) /\ Step(c)
  BY TypeParts DEF Layouts, Step, Layout
<1>0. PICK i : i = at[c]
  OBVIOUS
<1>2. /\ pc[c] = "rename" /\ ~exdev /\ Exists(src[i]) /\ dst' = src[i]
      /\ src' = [src EXCEPT ![i] = Absent] /\ aside' = aside /\ NextSource(c)
  BY <1>0 DEF Rename, Here
<1>3. i \in Sources /\ ~Exists(dst)
  BY <1>0, <1>1, <1>2 DEF Mine, Placed, StillSo, Here, Laying, Facing
<1>4. src \in [Sources -> Files] /\ Absent.whole
  BY <1>1, Filed DEF FilesTyped
<1>5. \A j \in Sources : src'[j] = IF j = i THEN Absent ELSE src[j]
  BY <1>2, <1>3, <1>4
<1>6. ASSUME NEW d \in Cmds PROVE \A j \in Past(d) : ~Exists(src[j])
  BY <1>3 DEF Layouts, Mine, Passed
<1>7. \A j \in Sources : Exists(src[j]) => i <= j
  BY <1>0, <1>2, <1>3, <1>6, StateDirAssumption DEF Past, Laying, Facing, Sources
<1>8. WholeSources'
  BY <1>2, <1>4, <1>5 DEF Layouts, WholeSources
<1>9. \A d \in Cmds : d # c => pc'[d] = pc[d] /\ at'[d] = at[d] /\ got'[d] = got[d]
  BY <1>1, Frame
<1>10. OneCopy'
  <2>1. pc'[c] # "copy"
    BY <1>0, <1>1, <1>2, <1>3, PastNext DEF Laying, Facing
  <2> QED
    BY <1>9, <2>1 DEF Layouts, OneCopy
<1>11. PassBegun'
  <2>1. \A j \in Sources : Same(j)
    BY <1>2, <1>3 DEF Layouts, PassBegun, Moved
  <2>2. ~Exists(begin.dst)
    BY <1>2, <1>3 DEF Layouts, PassBegun, Winner
  <2>3. Winner = src[i]
    BY <1>2, <1>3, <1>7, <2>1, <2>2, FirstWins DEF Same
  <2>4. Moved(i)'
    <3>1. ~Rival(i) /\ ~Blocked(i) /\ Exists(begin.src[i]) /\ aside[i] = begin.aside[i]
      BY <1>2, <1>3, <2>1, <2>3 DEF Same, Blocked, Rival
    <3>2. Exists(dst') /\ src'[i] = Absent
      BY <1>2, <1>3, <1>5
    <3> QED
      BY <1>2, <3>1, <3>2, BeginSame DEF Moved, Exists
  <2>5. \A j \in Sources \ {i} : Same(j)'
    BY <1>2, <1>5, <2>1 DEF Same
  <2>6. dst' = Winner'
    BY <1>2, <2>3, BeginSame
  <2> QED
    BY <2>4, <2>5, <2>6 DEF PassBegun
<1>12. Mine(c)'
  <2>1. /\ pc'[c] \in {"src", "cleanup", "sentinel"}
        /\ pc'[c] # "sentinel" => at'[c] \in Sources
        /\ got'[c] = Absent
        /\ \A j \in Sources : j \in Past(c)' <=> j \in Past(c) \/ j = i
    BY <1>0, <1>1, <1>2, <1>3, PastNext DEF Laying, Facing
  <2>2. Placed(c)' /\ Holding(c)' /\ StillSo(c)'
    BY <1>4, <2>1 DEF Placed, Holding, StillSo, Laying, Facing, InRow
  <2>3. \A j \in Past(c)' : j \in Sources
    BY DEF Past
  <2>4. Passed(c)'
    BY <1>5, <1>6, <2>1, <2>3 DEF Passed, Exists
  <2> QED
    BY <2>2, <2>4 DEF Mine
<1>13. ASSUME NEW d \in Cmds, d # c PROVE Mine(d)'
  <2>1. Mine(d) /\ Past(d)' = Past(d)
    BY <1>9, <1>13 DEF Layouts, Past
  <2>2. pc[d] \notin Facing \ {"rename"}
    BY <1>2, <1>3, <2>1 DEF Mine, StillSo, Holding, Facing
  <2>3. pc[d] = "rename" => ~Exists(src'[at[d]])
    <3>1. pc[d] = "rename" => at[d] \in Sources /\ Past(d) = {j \in Sources : j < at[d]}
      BY <2>1 DEF Mine, Placed, Past, Laying, Facing
    <3> QED
      BY <1>2, <1>3, <1>5, <1>6, <1>7, <3>1, StateDirAssumption DEF Sources, Exists
  <2>4. Placed(d)' /\ Holding(d)'
    BY <1>2, <1>9, <1>13, <2>1 DEF Mine, Placed, Holding
  <2>5. StillSo(d)'
    BY <1>9, <1>13, <2>2, <2>3 DEF StillSo, Here, Facing
  <2>6. \A j \in Past(d) : j \in Sources
    BY DEF Past
  <2>7. Passed(d)'
    BY <1>5, <1>6, <2>1, <2>6 DEF Passed, Exists
  <2> QED
    BY <2>4, <2>5, <2>7 DEF Mine
<1> QED
  BY <1>8, <1>10, <1>11, <1>12, <1>13 DEF Layouts

\* A copy begins where no target is, and nobody else copies.
LEMMA BeginCopyKeeps ==
  ASSUME TypeOK, Layouts, NEW c \in Cmds, begin' = begin, exdev' = exdev, BeginCopy(c)
  PROVE Layouts'
<1>1. CtlTyped /\ FilesTyped /\ Mine(c) /\ Step(c)
  BY TypeParts DEF Layouts, Step, Layout
<1>2. /\ pc[c] = "rename" /\ exdev /\ Exists(Here(c)) /\ ~Exists(dst)
      /\ pc'[c] = "copy" /\ at'[c] = at[c] /\ got'[c] = Here(c)
      /\ dst' = File(Here(c).text, FALSE) /\ src' = src /\ aside' = aside
  BY <1>1 DEF BeginCopy, Go, CtlTyped
<1>3. at[c] \in Sources /\ Here(c) \in Files /\ Here(c).whole
  BY <1>1, <1>2 DEF Mine, Placed, Layouts, WholeSources, FilesTyped, Here, Laying, Facing
<1>4. Exists(dst')
  BY <1>2, <1>3, Filed
<1>5. \A d \in Cmds : d # c => pc'[d] = pc[d] /\ at'[d] = at[d] /\ got'[d] = got[d]
  BY <1>1, Frame
<1>6. \A d \in Cmds : pc[d] # "copy"
  <2>1. ASSUME NEW d \in Cmds, pc[d] = "copy" PROVE FALSE
    <3>1. Exists(got[d]) /\ got[d] \in Files /\ dst = File(got[d].text, FALSE)
      BY <1>1, <2>1 DEF Layouts, Mine, Holding, CtlTyped
    <3> QED
      BY <1>2, <3>1, Filed
  <2> QED
    BY <2>1
<1>7. WholeSources' /\ OneCopy' /\ PassBegun'
  BY <1>2, <1>5, <1>6 DEF Layouts, WholeSources, OneCopy, PassBegun
<1>8. Mine(c)'
  <2>1. Past(c)' = Past(c) /\ \A j \in Past(c) : j \in Sources
    BY <1>2 DEF Past, Laying, Facing
  <2>2. Placed(c)' /\ Holding(c)' /\ StillSo(c)'
    BY <1>2, <1>3 DEF Placed, Holding, StillSo, Here, Laying, Facing, InRow
  <2>3. Passed(c)'
    BY <1>2, <1>4, <2>1 DEF Passed
  <2> QED
    BY <2>2, <2>3 DEF Mine
<1>9. ASSUME NEW d \in Cmds, d # c PROVE Mine(d)'
  <2>1. Mine(d) /\ Past(d)' = Past(d)
    BY <1>5, <1>9 DEF Layouts, Past
  <2>2. Placed(d)' /\ Holding(d)'
    BY <1>2, <1>5, <1>6, <1>9, <2>1 DEF Mine, Placed, Holding
  <2>3. StillSo(d)'
    BY <1>2, <1>5, <1>6, <1>9, <2>1 DEF Mine, StillSo, Here
  <2>4. Passed(d)'
    BY <1>2, <1>4, <2>1 DEF Passed
  <2> QED
    BY <2>2, <2>3, <2>4 DEF Mine
<1> QED
  BY <1>7, <1>8, <1>9 DEF Layouts

\* Nobody else has taken the half of a copy for a file.
LEMMA EndCopyKeeps ==
  ASSUME TypeOK, Layouts, NEW c \in Cmds, begin' = begin, exdev' = exdev, EndCopy(c)
  PROVE Layouts'
<1>1. CtlTyped /\ FilesTyped /\ Mine(c) /\ Step(c)
  BY TypeParts DEF Layouts, Step, Layout
<1>2. /\ pc[c] = "copy" /\ pc'[c] = "remove" /\ at'[c] = at[c] /\ got'[c] = got[c]
      /\ dst' = got[c] /\ src' = src /\ aside' = aside
  BY <1>1 DEF EndCopy, Go, CtlTyped, local
<1>3. /\ exdev /\ Exists(got[c]) /\ got[c].whole /\ got[c] \in Files /\ ~dst.whole
      /\ Here(c) \in {Absent, got[c]} /\ at[c] \in Sources
  BY <1>1, <1>2, Filed DEF Mine, Placed, Holding, StillSo, CtlTyped, Laying, Facing
<1>4. \A d \in Cmds : d # c => /\ pc'[d] = pc[d] /\ at'[d] = at[d] /\ got'[d] = got[d]
                               /\ pc[d] # "copy"
  BY <1>1, <1>2, Frame DEF Layouts, OneCopy
<1>5. WholeSources' /\ OneCopy' /\ PassBegun'
  BY <1>2, <1>3, <1>4 DEF Layouts, WholeSources, OneCopy, PassBegun
<1>6. Mine(c)'
  <2>1. Past(c)' = Past(c) /\ \A j \in Past(c) : j \in Sources
    BY <1>2 DEF Past, Laying, Facing
  <2>2. Placed(c)' /\ Holding(c)' /\ StillSo(c)'
    BY <1>2, <1>3 DEF Placed, Holding, StillSo, Here, Laying, Facing, InRow
  <2>3. Passed(c)'
    BY <1>2, <1>3, <2>1 DEF Passed
  <2> QED
    BY <2>2, <2>3 DEF Mine
<1>7. ASSUME NEW d \in Cmds, d # c PROVE Mine(d)'
  <2>1. Mine(d) /\ Past(d)' = Past(d)
    BY <1>4, <1>7 DEF Layouts, Past
  <2>2. Placed(d)' /\ Holding(d)'
    BY <1>2, <1>4, <1>7, <2>1 DEF Mine, Placed, Holding
  <2>3. StillSo(d)'
    BY <1>2, <1>3, <1>4, <1>7, <2>1 DEF Mine, StillSo, Here
  <2>4. Passed(d)'
    BY <1>2, <1>3, <2>1 DEF Passed
  <2> QED
    BY <2>2, <2>3, <2>4 DEF Mine
<1> QED
  BY <1>5, <1>6, <1>7 DEF Layouts

\* A source goes, because the target says the same or aside.
LEMMA TakingKeeps ==
  ASSUME TypeOK, Layouts, NEW c \in Cmds, begin' = begin, exdev' = exdev,
         RemoveOld(c) \/ Shift(c)
  PROVE Layouts'
<1>1. CtlTyped /\ FilesTyped /\ Mine(c) /\ Step(c)
  BY TypeParts DEF Layouts, Step, Layout
<1>0. PICK i : i = at[c]
  OBVIOUS
<1>2. /\ pc[c] \in {"remove", "shift"} /\ Exists(src[i]) /\ dst' = dst
      /\ src' = [src EXCEPT ![i] = Absent] /\ NextSource(c)
      /\ pc[c] = "remove" => aside' = aside
      /\ pc[c] = "shift" => aside' = [aside EXCEPT ![i] = src[i]]
  BY <1>0 DEF RemoveOld, Shift, Here
<1>3. /\ i \in Sources /\ Exists(dst)
      /\ pc[c] = "remove" => src[i] = dst
      /\ pc[c] = "shift" => ~Exists(aside[i]) /\ (~exdev => src[i] # dst)
  BY <1>0, <1>1, <1>2 DEF Mine, Placed, StillSo, Here, Laying, Facing, Exists
<1>4. src \in [Sources -> Files] /\ aside \in [Sources -> Files] /\ Absent.whole
  BY <1>1, Filed DEF FilesTyped
<1>5. \A j \in Sources : src'[j] = IF j = i THEN Absent ELSE src[j]
  BY <1>2, <1>3, <1>4
<1>6. \A j \in Sources \ {i} : aside'[j] = aside[j]
  BY <1>2, <1>3, <1>4
<1>7. \A d \in Cmds : d # c => pc'[d] = pc[d] /\ at'[d] = at[d] /\ got'[d] = got[d]
  BY <1>1, Frame
<1>8. /\ pc'[c] \in {"src", "cleanup", "sentinel"}
      /\ pc'[c] # "sentinel" => at'[c] \in Sources
      /\ got'[c] = Absent
      /\ \A j \in Sources : j \in Past(c)' <=> j \in Past(c) \/ j = i
  BY <1>0, <1>1, <1>2, <1>3, PastNext DEF Laying, Facing
<1>9. WholeSources'
  BY <1>2, <1>3, <1>4, <1>5, <1>6 DEF Layouts, WholeSources
<1>10. OneCopy'
  BY <1>7, <1>8 DEF Layouts, OneCopy
<1>11. PassBegun'
  <2> SUFFICES ASSUME ~exdev PROVE PassBegun'
    BY DEF PassBegun
  <2>1. dst = Winner /\ \A j \in Sources : Same(j) \/ Moved(j)
    BY <1>3 DEF Layouts, PassBegun
  <2>2. Same(i)
    BY <1>2, <1>3, <2>1 DEF Moved, Exists
  <2>3. Moved(i)'
    <3>1. Exists(begin.src[i]) /\ Exists(dst') /\ src'[i] = Absent
      BY <1>2, <1>3, <1>5, <2>2 DEF Same
    <3>2. CASE pc[c] = "remove"
      <4>1. ~Rival(i) /\ ~Blocked(i) /\ aside'[i] = begin.aside[i]
        BY <1>2, <1>3, <2>1, <2>2, <3>2 DEF Same, Rival, Blocked
      <4> QED
        BY <3>1, <4>1, BeginSame DEF Moved, Exists
    <3>3. CASE pc[c] = "shift"
      <4>1. Rival(i) /\ ~Blocked(i) /\ aside'[i] = begin.src[i]
        BY <1>2, <1>3, <1>4, <2>1, <2>2, <3>3 DEF Same, Rival, Blocked, Exists
      <4> QED
        BY <3>1, <4>1, BeginSame DEF Moved, Exists
    <3> QED
      BY <1>2, <3>2, <3>3
  <2>4. ASSUME NEW j \in Sources \ {i} PROVE Same(j)' \/ Moved(j)'
    BY <1>2, <1>5, <1>6, <2>1, BeginSame DEF Same, Moved
  <2> QED
    BY <1>2, <2>1, <2>3, <2>4, BeginSame DEF PassBegun
<1>12. Mine(c)'
  <2>1. Placed(c)' /\ Holding(c)' /\ StillSo(c)'
    BY <1>4, <1>8 DEF Placed, Holding, StillSo, Laying, Facing, InRow
  <2>2. \A j \in Past(c)' : j \in Sources
    BY DEF Past
  <2>3. Passed(c)'
    BY <1>1, <1>2, <1>5, <1>8, <2>2, BeginSame DEF Mine, Passed, Exists
  <2> QED
    BY <2>1, <2>3 DEF Mine
<1>13. ASSUME NEW d \in Cmds, d # c PROVE Mine(d)'
  <2>1. Mine(d) /\ Past(d)' = Past(d)
    BY <1>7, <1>13 DEF Layouts, Past
  <2>2. Placed(d)' /\ Holding(d)'
    BY <1>2, <1>7, <1>13, <2>1 DEF Mine, Placed, Holding
  <2>3. pc[d] \in Facing => at[d] \in Sources
    BY <2>1 DEF Mine, Placed, Laying
  <2>4. StillSo(d)'
    <3>1. pc[d] \in Facing => src'[at[d]] = Absent \/ (at[d] # i /\ src'[at[d]] = src[at[d]])
      BY <1>5, <2>3
    <3>2. pc[d] \in Facing /\ at[d] # i => aside'[at[d]] = aside[at[d]]
      BY <1>6, <2>3
    <3> QED
      BY <1>2, <1>3, <1>7, <1>13, <2>1, <3>1, <3>2 DEF Mine, StillSo, Here, Facing, Exists
  <2>5. \A j \in Past(d) : j \in Sources
    BY DEF Past
  <2>6. Passed(d)'
    BY <1>2, <1>5, <2>1, <2>5, BeginSame DEF Mine, Passed, Exists
  <2> QED
    BY <2>2, <2>4, <2>6 DEF Mine
<1> QED
  BY <1>9, <1>10, <1>11, <1>12, <1>13 DEF Layouts

LEMMA LayoutKeeps ==
  ASSUME TypeOK, Layouts, NEW c \in Cmds, Layout(c), UNCHANGED world
  PROVE Layouts'
<1>1. begin' = begin /\ exdev' = exdev
  BY DEF world
<1> QED
  BY <1>1, LookingKeeps, RenameKeeps, BeginCopyKeeps, EndCopyKeeps, TakingKeeps DEF Layout

LEMMA ElsewhereKeeps ==
  ASSUME TypeOK, Layouts, NEW c \in Cmds, Logs(c) \/ Die(c) \/ Restart(c),
         begin' = begin, exdev' = exdev, UNCHANGED prompts
  PROVE Layouts'
<1>1. CtlTyped /\ LogsTyped /\ Mine(c) /\ Step(c)
  BY TypeParts DEF Layouts, Step
<1>2. got[c].whole /\ Absent.whole
  BY <1>1, Filed DEF Mine, Holding
<1>3. pc'[c] \in Places \ (Laying \cup {"sentinel"})
  BY <1>1 DEF CtlTyped, Places, Laying, Facing, Resting, InRow, Die, Restart, Logs, CheckSentinel,
     CheckNeed, Query, StatStream, MoveStream, FindPrompt, KeepPrompt, UpdateEntry, Sweep,
     WriteSentinel, NextRow, Leave, Go
<1>4. got'[c] \in {got[c], Absent}
  BY <1>1 DEF CtlTyped, Die, Restart, Logs, CheckSentinel,
     CheckNeed, Query, StatStream, MoveStream, FindPrompt, KeepPrompt, UpdateEntry, Sweep,
     WriteSentinel, Leave, local
<1>5. pc'[c] = "start" => at'[c] = 1
  <2>1. CASE Restart(c)
    BY <1>1, <2>1 DEF CtlTyped, Restart, Leave
  <2>2. CASE Logs(c) \/ Die(c)
    BY <1>1, <2>2 DEF CtlTyped, InRow, Die, Logs, CheckSentinel, CheckNeed, Query, StatStream,
       MoveStream, FindPrompt, KeepPrompt, UpdateEntry, Sweep, WriteSentinel, NextRow, Leave, Go
  <2> QED
    BY <2>1, <2>2
<1>6. pc'[c] \in {"stream"} \cup InRow => at'[c] \in 1..Rows
  <2>1. CASE StatStream(c)
    <3>1. pc'[c] = "stream" => Row(c) \in list[c] /\ at'[c] = at[c]
      BY <1>1, <2>1 DEF StatStream, NextRow, Go, CtlTyped
    <3>2. list[c] \subseteq 1..Rows /\ pc'[c] \in {"stream", "stat"}
      BY <1>1, <2>1 DEF StatStream, NextRow, Go, CtlTyped
    <3> QED
      BY <3>1, <3>2 DEF Row, InRow
  <2>2. CASE MoveStream(c) \/ FindPrompt(c) \/ KeepPrompt(c)
    BY <1>1, <2>2 DEF MoveStream, FindPrompt, KeepPrompt, Go, CtlTyped, Mine, Placed, InRow
  <2>3. CASE \/ CheckSentinel(c) \/ CheckNeed(c) \/ Query(c) \/ UpdateEntry(c) \/ Sweep(c)
             \/ WriteSentinel(c) \/ Die(c) \/ Restart(c)
    BY <1>1, <2>3 DEF CheckSentinel, CheckNeed, Query, UpdateEntry, Sweep, WriteSentinel, Die,
       Restart, NextRow, Leave, Go, CtlTyped, InRow
  <2> QED
    BY <2>1, <2>2, <2>3 DEF Logs
<1>7. at'[c] \in Nat
  <2>1. at' = at \/ at' = [at EXCEPT ![c] = @ + 1] \/ at' = [at EXCEPT ![c] = 1]
    BY DEF Die, Restart, Logs, CheckSentinel, CheckNeed, Query, StatStream, MoveStream,
       FindPrompt, KeepPrompt, UpdateEntry, Sweep, WriteSentinel, NextRow, Leave
  <2>2. at[c] + 1 \in Nat /\ at \in [Cmds -> Nat]
    BY <1>1 DEF CtlTyped
  <2> QED
    BY <2>1, <2>2
<1>8. Mine(c)'
  BY <1>2, <1>3, <1>4, <1>5, <1>6, <1>7, OutOfIt
<1> QED
  BY <1>1, <1>3, <1>8, Quiet DEF Laying, Facing

-----------------------------------------------------------------------------
(* The layout.  Nothing is lost. *)

LEMMA LayoutLosesNothing ==
  ASSUME TypeOK, Layouts, NothingLost, NEW c \in Cmds, Layout(c), UNCHANGED world
  PROVE NothingLost'
<1>1. FilesTyped /\ CtlTyped /\ Mine(c) /\ begin' = begin
  BY TypeParts DEF Layouts, world
<1>2. \A f \in AtFirst : f.whole
  BY <1>1, BeginFiles DEF AtFirst, FilesTyped
<1>3. AtFirst' = AtFirst
  BY <1>1 DEF AtFirst
<1>4. SUFFICES ASSUME NEW f \in OnDisk, f.whole, f # Absent PROVE f \in OnDisk'
  BY <1>2, <1>3 DEF NothingLost
<1>5. f = dst \/ \E j \in Sources : f = src[j] \/ f = aside[j]
  BY DEF OnDisk
<1>6. /\ dst' \in OnDisk'
      /\ \A j \in Sources : src'[j] \in OnDisk' /\ aside'[j] \in OnDisk'
  BY DEF OnDisk
<1>7. src \in [Sources -> Files] /\ aside \in [Sources -> Files]
  BY <1>1 DEF FilesTyped
<1>8. CASE UNCHANGED prompts
  BY <1>5, <1>6, <1>8 DEF prompts
<1>9. CASE Rename(c)
  <2>1. /\ pc[c] = "rename" /\ ~exdev /\ Exists(Here(c)) /\ dst' = Here(c)
        /\ src' = [src EXCEPT ![at[c]] = Absent] /\ aside' = aside
    BY <1>9 DEF Rename
  <2>2. at[c] \in Sources /\ ~Exists(dst)
    BY <1>1, <2>1 DEF Mine, Placed, StillSo, Laying, Facing
  <2>3. \A j \in Sources : src'[j] = src[j] \/ src[j] = dst'
    BY <1>7, <2>1, <2>2 DEF Here
  <2> QED
    BY <1>4, <1>5, <1>6, <2>1, <2>2, <2>3 DEF Exists
<1>10. CASE BeginCopy(c)
  <2>1. ~Exists(dst) /\ src' = src /\ aside' = aside
    BY <1>10 DEF BeginCopy
  <2> QED
    BY <1>4, <1>5, <1>6, <2>1 DEF Exists
<1>11. CASE EndCopy(c)
  <2>1. pc[c] = "copy" /\ src' = src /\ aside' = aside
    BY <1>11 DEF EndCopy
  <2>2. ~dst.whole
    BY <1>1, <2>1, Filed DEF Mine, Holding, CtlTyped
  <2> QED
    BY <1>4, <1>5, <1>6, <2>1, <2>2
<1>12. CASE RemoveOld(c)
  <2>1. /\ pc[c] = "remove" /\ Exists(Here(c)) /\ dst' = dst
        /\ src' = [src EXCEPT ![at[c]] = Absent] /\ aside' = aside
    BY <1>12 DEF RemoveOld
  <2>2. at[c] \in Sources /\ Here(c) = dst
    BY <1>1, <2>1 DEF Mine, Placed, StillSo, Laying, Facing, Exists
  <2>3. \A j \in Sources : src'[j] = src[j] \/ src[j] = dst
    BY <1>7, <2>1, <2>2 DEF Here
  <2> QED
    BY <1>5, <1>6, <2>1, <2>3
<1>13. CASE Shift(c)
  <2>1. /\ pc[c] = "shift" /\ Exists(Here(c)) /\ dst' = dst
        /\ src' = [src EXCEPT ![at[c]] = Absent]
        /\ aside' = [aside EXCEPT ![at[c]] = Here(c)]
    BY <1>13 DEF Shift
  <2>2. at[c] \in Sources /\ ~Exists(aside[at[c]])
    BY <1>1, <2>1 DEF Mine, Placed, StillSo, Laying, Facing
  <2>3. \A j \in Sources : /\ src'[j] = src[j] \/ src[j] = aside'[j]
                           /\ aside'[j] = aside[j] \/ aside[j] = Absent
    BY <1>7, <2>1, <2>2 DEF Here, Exists
  <2> QED
    BY <1>4, <1>5, <1>6, <2>1, <2>3
<1> QED
  <2>1. \/ UNCHANGED prompts
        \/ Rename(c) \/ BeginCopy(c) \/ EndCopy(c) \/ RemoveOld(c) \/ Shift(c)
    BY DEF Layout, Start, StatSource, StatTarget, ReadSource, Compare, StatAside, Cleanup, Fail,
       prompts
  <2> QED
    BY <1>8, <1>9, <1>10, <1>11, <1>12, <1>13, <2>1

-----------------------------------------------------------------------------
(* The logs. *)

InLogs == {"stat", "stream", "mark"} \cup InRow

\* The layout, a death and a new start move no stream and no row.
LEMMA LogsRest ==
  ASSUME TypeOK, LogInv, StreamFound, NEW c \in Cmds, Step(c),
         UNCHANGED <<stream, entry, oldlogs, sentinel>>, pc'[c] \notin InLogs,
         hurt' = IF pc[c] \in InRow THEN hurt \cup {at[c]} ELSE hurt
  PROVE LogInv' /\ StreamFound'
<1>1. \A d \in Cmds : d # c => pc'[d] = pc[d] /\ at'[d] = at[d] /\ list'[d] = list[d]
  BY TypeParts, Frame
<1>2. Unhurt' \subseteq Unhurt /\ (pc[c] \in InRow => at[c] \notin Unhurt')
  BY DEF Unhurt
<1>3. InNew'
  BY <1>1, <1>2 DEF LogInv, InNew, InLogs
<1>4. Ahead'
  BY <1>1, <1>2 DEF LogInv, Ahead, InLogs
<1>5. Swept'
  BY <1>1, <1>2 DEF LogInv, Swept, InLogs
<1>6. StreamFound'
  <2> SUFFICES ASSUME NEW r \in Unhurt'
               PROVE /\ \/ stream[r] \in {entry[r], "gone"}
                        \/ \E d \in Cmds : pc'[d] \in InRow /\ at'[d] = r
                     /\ sentinel => stream[r] # "old"
    BY DEF StreamFound, Unhurt
  <2>1. r \in Unhurt /\ (sentinel => stream[r] # "old")
    BY <1>2 DEF StreamFound, Unhurt
  <2>2. CASE stream[r] \in {entry[r], "gone"}
    BY <2>1, <2>2
  <2>3. CASE \E d \in Cmds : pc[d] \in InRow /\ at[d] = r
    BY <1>1, <1>2, <2>1, <2>3
  <2> QED
    BY <2>1, <2>2, <2>3 DEF StreamFound, Unhurt
<1> QED
  BY <1>3, <1>4, <1>5, <1>6 DEF LogInv

LEMMA OthersRest ==
  ASSUME TypeOK, LogInv, StreamFound, NEW c \in Cmds, Layout(c) \/ Die(c) \/ Restart(c)
  PROVE LogInv' /\ StreamFound'
<1>1. CtlTyped
  BY TypeParts
<1>2. CASE Layout(c)
  <2>1. UNCHANGED <<stream, entry, oldlogs, sentinel>> /\ hurt' = hurt /\ pc[c] \notin InRow
    BY <1>2 DEF Layout, Start, StatSource, StatTarget, Rename, BeginCopy, EndCopy, RemoveOld,
       ReadSource, Compare, StatAside, Shift, Cleanup, Fail, logs, InRow
  <2>2. pc'[c] \notin InLogs
    BY <1>1, <1>2 DEF CtlTyped, Layout, Start, StatSource, StatTarget, Rename, BeginCopy, EndCopy,
       RemoveOld, ReadSource, Compare, StatAside, Shift, Cleanup, Fail, NextSource, Leave, Go,
       InLogs, InRow
  <2> QED
    BY <1>2, <2>1, <2>2, LogsRest DEF Step
<1>3. CASE Die(c)
  <2>1. UNCHANGED <<stream, entry, oldlogs, sentinel>> /\ pc'[c] \notin InLogs
    BY <1>1, <1>3 DEF CtlTyped, Die, Leave, Go, logs, InLogs, InRow
  <2>2. hurt' = IF pc[c] \in InRow THEN hurt \cup {at[c]} ELSE hurt
    BY <1>3 DEF Die
  <2> QED
    BY <1>3, <2>1, <2>2, LogsRest DEF Step
<1>4. CASE Restart(c)
  <2>1. UNCHANGED <<stream, entry, oldlogs, sentinel>> /\ pc'[c] \notin InLogs /\ hurt' = hurt
          /\ pc[c] \notin InRow
    BY <1>1, <1>4 DEF CtlTyped, Restart, Leave, Go, logs, InLogs, InRow
  <2> QED
    BY <1>4, <2>1, LogsRest DEF Step
<1> QED
  BY <1>2, <1>3, <1>4

\* A step of the log migration that moves no stream and no row.
LEMMA StreamsRest ==
  ASSUME TypeOK, LogInv, StreamFound, NEW c \in Cmds, Step(c),
         UNCHANGED <<stream, entry, hurt>>,
         pc[c] \in InRow => pc'[c] \in InRow /\ at'[c] = at[c],
         pc'[c] \in InRow => pc[c] \in InRow,
         pc'[c] \in {"stat", "stream"} \cup InRow =>
           \A r \in Unhurt : stream[r] = "old" => r \in list'[c] /\ at'[c] <= r,
         pc'[c] = "mark" => \A r \in Unhurt : stream[r] # "old",
         ~oldlogs' => \A r \in 1..Rows : stream[r] # "old",
         sentinel' => sentinel \/ \A r \in Unhurt : stream[r] # "old"
  PROVE LogInv' /\ StreamFound'
<1>1. \A d \in Cmds : d # c => pc'[d] = pc[d] /\ at'[d] = at[d] /\ list'[d] = list[d]
  BY TypeParts, Frame
<1>2. Unhurt' = Unhurt
  BY DEF Unhurt
<1>3. InNew'
  BY <1>1, <1>2 DEF LogInv, InNew
<1>4. Ahead'
  BY <1>1, <1>2 DEF LogInv, Ahead
<1>5. Swept'
  BY <1>1, <1>2 DEF LogInv, Swept
<1>6. StreamFound'
  BY <1>1, <1>2 DEF StreamFound, Unhurt
<1> QED
  BY <1>3, <1>4, <1>5, <1>6 DEF LogInv

LEMMA LogsKeep ==
  ASSUME TypeOK, LogInv, StreamFound, NEW c \in Cmds, Placed(c), Logs(c)
  PROVE LogInv' /\ StreamFound'
<1>1. CtlTyped /\ LogsTyped /\ Step(c)
  BY TypeParts DEF Step
<1>2. \A d \in Cmds : d # c => pc'[d] = pc[d] /\ at'[d] = at[d] /\ list'[d] = list[d]
  BY <1>1, Frame
<1>3. \A r \in Unhurt : stream[r] = "old" => entry[r] = "old"
  BY DEF LogInv, InNew, StreamFound, Unhurt
<1>4. ~oldlogs => \A r \in 1..Rows : stream[r] # "old"
  BY DEF LogInv, Swept
<1>5. Unhurt \subseteq 1..Rows
  BY DEF Unhurt
<1>6. CASE CheckSentinel(c)
  <2>1. UNCHANGED <<stream, entry, hurt, oldlogs, sentinel>> /\ pc[c] = "sentinel"
          /\ pc'[c] \in {"over", "needs"}
    BY <1>1, <1>6 DEF CheckSentinel, Go, CtlTyped, logs
  <2> QED
    BY <1>1, <1>4, <2>1, StreamsRest DEF InRow
<1>7. CASE CheckNeed(c)
  <2>1. UNCHANGED <<stream, entry, hurt, oldlogs, sentinel>> /\ pc[c] = "needs"
          /\ pc'[c] = IF oldlogs THEN "query" ELSE "mark"
    BY <1>1, <1>7 DEF CheckNeed, Go, CtlTyped, logs
  <2>2. pc'[c] = "mark" => \A r \in Unhurt : stream[r] # "old"
    BY <1>4, <1>5, <2>1
  <2> QED
    BY <1>1, <1>4, <2>1, <2>2, StreamsRest DEF InRow
<1>8. CASE Query(c)
  <2>1. UNCHANGED <<stream, entry, hurt, oldlogs, sentinel>> /\ pc[c] = "query"
    BY <1>8 DEF Query, logs
  <2>2. \/ pc'[c] = "over"
        \/ pc'[c] = "stat" /\ at'[c] = 1 /\ list'[c] = {r \in 1..Rows : entry[r] = "old"}
    BY <1>1, <1>8 DEF Query, Go, CtlTyped
  <2> QED
    BY <1>1, <1>3, <1>4, <1>5, <2>1, <2>2, StreamsRest DEF InRow
<1>9. CASE StatStream(c)
  <2>1. UNCHANGED <<stream, entry, hurt, oldlogs, sentinel, list>> /\ pc[c] = "stat"
    BY <1>9 DEF StatStream, logs, local
  <2>2. \/ pc'[c] = "stream" /\ at'[c] = at[c]
        \/ /\ pc'[c] = "stat" /\ at'[c] = at[c] + 1
           /\ at[c] \notin list[c] \/ stream[at[c]] # "old"
    BY <1>1, <1>9 DEF StatStream, NextRow, Row, Go, CtlTyped
  <2>3. \A r \in Unhurt : stream[r] = "old" => r \in list[c] /\ at[c] <= r
    BY <2>1 DEF LogInv, Ahead
  <2>4. \A r \in Unhurt : stream[r] = "old" => r \in list'[c] /\ at'[c] <= r
    BY <1>1, <1>5, <2>1, <2>2, <2>3 DEF CtlTyped
  <2> QED
    BY <1>1, <1>4, <2>1, <2>2, <2>4, StreamsRest DEF InRow
<1>10. CASE FindPrompt(c) \/ KeepPrompt(c)
  <2>1. UNCHANGED <<stream, entry, hurt, oldlogs, sentinel, list, at>>
          /\ pc[c] \in {"prompt", "keep"} /\ pc'[c] \in {"keep", "update"}
    BY <1>1, <1>10 DEF FindPrompt, KeepPrompt, Go, CtlTyped, logs, local
  <2>2. \A r \in Unhurt : stream[r] = "old" => r \in list'[c] /\ at'[c] <= r
    BY <2>1 DEF LogInv, Ahead, InRow
  <2> QED
    BY <1>1, <1>4, <2>1, <2>2, StreamsRest DEF InRow
<1>11. CASE Sweep(c)
  <2>1. UNCHANGED <<stream, entry, hurt, sentinel>> /\ pc[c] = "stat" /\ at[c] > Rows
          /\ pc'[c] = "mark" /\ oldlogs' = \E r \in 1..Rows : stream[r] = "old"
    BY <1>1, <1>11 DEF Sweep, Go, CtlTyped, Row
  <2>2. \A r \in Unhurt : stream[r] # "old"
    BY <1>1, <1>5, <2>1, StateDirAssumption DEF LogInv, Ahead, CtlTyped
  <2> QED
    BY <1>1, <2>1, <2>2, StreamsRest DEF InRow
<1>12. CASE WriteSentinel(c)
  <2>1. UNCHANGED <<stream, entry, hurt, oldlogs>> /\ pc[c] = "mark" /\ pc'[c] = "over"
    BY <1>1, <1>12 DEF WriteSentinel, Leave, Go, CtlTyped
  <2>2. \A r \in Unhurt : stream[r] # "old"
    BY <2>1 DEF LogInv, Swept
  <2> QED
    BY <1>1, <1>4, <2>1, <2>2, StreamsRest DEF InRow
<1>13. CASE MoveStream(c)
  <2>1. UNCHANGED <<entry, oldlogs, sentinel, list, at>> /\ pc[c] = "stream" /\ pc'[c] = "prompt"
    BY <1>1, <1>13 DEF MoveStream, Go, CtlTyped, local
  <2>2. at[c] \in 1..Rows
    BY <2>1 DEF Placed
  <2>3. \A r \in Unhurt : stream[r] = "old" => r \in list[c] /\ at[c] <= r
    BY <2>1 DEF LogInv, Ahead
  <2>4. \/ /\ stream' = [stream EXCEPT ![at[c]] = IF @ = "old" THEN "new" ELSE @]
           /\ hurt' = hurt
        \/ stream' = stream /\ hurt' = hurt \cup {at[c]}
    BY <1>13 DEF MoveStream, Row
  <2>5. /\ Unhurt' \subseteq Unhurt
        /\ at[c] \in Unhurt' => stream'[at[c]] # "old"
        /\ \A r \in 1..Rows : r # at[c] => stream'[r] = stream[r]
        /\ \A r \in 1..Rows : stream'[r] = "old" => stream[r] = "old"
    BY <1>1, <2>2, <2>4 DEF Unhurt, LogsTyped
  <2>6. InNew'
    BY <1>2, <1>5, <2>1, <2>5 DEF LogInv, InNew
  <2>7. Ahead'
    BY <1>2, <1>5, <2>1, <2>3, <2>5 DEF LogInv, Ahead
  <2>8. Swept'
    BY <1>2, <1>5, <2>1, <2>5 DEF LogInv, Swept
  <2>9. StreamFound'
    <3> SUFFICES ASSUME NEW r \in Unhurt'
                 PROVE /\ \/ stream'[r] \in {entry'[r], "gone"}
                          \/ \E d \in Cmds : pc'[d] \in InRow /\ at'[d] = r
                       /\ sentinel' => stream'[r] # "old"
      BY DEF StreamFound, Unhurt
    <3>1. r \in Unhurt /\ r \in 1..Rows
      BY <1>5, <2>5
    <3>2. sentinel' => stream'[r] # "old"
      BY <2>1, <2>5, <3>1 DEF StreamFound, Unhurt
    <3>3. CASE r = at[c]
      BY <2>1, <3>2, <3>3 DEF InRow
    <3>4. CASE r # at[c]
      <4>1. stream[r] \in {entry[r], "gone"} \/ \E d \in Cmds : pc[d] \in InRow /\ at[d] = r
        BY <3>1 DEF StreamFound, Unhurt
      <4> QED
        BY <1>2, <2>1, <2>5, <3>1, <3>2, <3>4, <4>1 DEF InRow
    <3> QED
      BY <3>3, <3>4
  <2> QED
    BY <2>6, <2>7, <2>8, <2>9 DEF LogInv
<1>14. CASE UpdateEntry(c)
  <2>1. UNCHANGED <<stream, oldlogs, sentinel, list>> /\ pc[c] = "update" /\ pc'[c] = "stat"
          /\ at'[c] = at[c] + 1
    BY <1>1, <1>14 DEF UpdateEntry, NextRow, Go, CtlTyped
  <2>2. at[c] \in 1..Rows /\ (at[c] \in Unhurt => stream[at[c]] # "old")
    BY <2>1 DEF Placed, InRow, LogInv, InNew
  <2>3. \A r \in Unhurt : stream[r] = "old" => r \in list[c] /\ at[c] <= r
    BY <2>1 DEF LogInv, Ahead, InRow
  <2>4. \/ entry' = [entry EXCEPT ![at[c]] = "new"] /\ hurt' = hurt
        \/ entry' = entry /\ hurt' = hurt \cup {at[c]}
    BY <1>14 DEF UpdateEntry, Row
  <2>5. /\ Unhurt' \subseteq Unhurt
        /\ at[c] \in Unhurt' => entry'[at[c]] = "new"
        /\ \A r \in 1..Rows : r # at[c] => entry'[r] = entry[r]
    BY <1>1, <2>2, <2>4 DEF Unhurt, LogsTyped
  <2>6. InNew'
    BY <1>2, <1>5, <2>1, <2>5 DEF LogInv, InNew, InRow
  <2>7. Ahead'
    <3>1. ASSUME NEW r \in Unhurt, stream[r] = "old"
          PROVE  r \in list'[c] /\ at'[c] <= r
      <4>1. r \in list[c] /\ at[c] <= r /\ r # at[c]
        BY <2>2, <2>3, <3>1
      <4>2. r \in Nat /\ at[c] \in Nat
        BY <2>2, <3>1, StateDirAssumption DEF Unhurt
      <4>3. at[c] + 1 <= r
        BY <4>1, <4>2
      <4> QED
        BY <1>5, <2>1, <4>1, <4>3
    <3> QED
      BY <1>2, <2>1, <2>5, <3>1 DEF LogInv, Ahead
  <2>8. Swept'
    BY <1>2, <2>1, <2>5 DEF LogInv, Swept
  <2>9. StreamFound'
    <3> SUFFICES ASSUME NEW r \in Unhurt'
                 PROVE /\ \/ stream[r] \in {entry'[r], "gone"}
                          \/ \E d \in Cmds : pc'[d] \in InRow /\ at'[d] = r
                       /\ sentinel => stream[r] # "old"
      BY <2>1 DEF StreamFound, Unhurt
    <3>1. r \in Unhurt /\ r \in 1..Rows /\ (sentinel => stream[r] # "old")
      BY <1>5, <2>5 DEF StreamFound, Unhurt
    <3>2. CASE r = at[c]
      BY <1>1, <2>2, <2>5, <3>1, <3>2 DEF LogsTyped
    <3>3. CASE r # at[c]
      <4>1. stream[r] \in {entry[r], "gone"} \/ \E d \in Cmds : pc[d] \in InRow /\ at[d] = r
        BY <3>1 DEF StreamFound, Unhurt
      <4> QED
        BY <1>2, <2>5, <3>1, <3>3, <4>1
    <3> QED
      BY <3>2, <3>3
  <2> QED
    BY <2>6, <2>7, <2>8, <2>9 DEF LogInv
<1> QED
  BY <1>6, <1>7, <1>8, <1>9, <1>10, <1>11, <1>12, <1>13, <1>14 DEF Logs

-----------------------------------------------------------------------------
(* The theorems. *)

LEMMA InitIInv == ASSUME Init PROVE IInv
<1>1. /\ begin \in Begins /\ exdev \in BOOLEAN
      /\ src = begin.src /\ aside = begin.aside /\ dst = begin.dst
  BY StateDirAssumption DEF Init
<1>2. /\ pc = [c \in Cmds |-> "start"] /\ at = [c \in Cmds |-> 1]
      /\ got = [c \in Cmds |-> Absent] /\ list = [c \in Cmds |-> {}]
      /\ found = [c \in Cmds |-> 0]
  BY DEF Init
<1>3. /\ history = Prompts /\ stream \in [1..Rows -> {"old", "gone"}]
      /\ entry = [r \in 1..Rows |-> "old"] /\ prompt = [r \in 1..Rows |-> 0]
      /\ oldlogs = TRUE /\ sentinel = FALSE /\ hurt = {}
  BY DEF Init
<1>4. crashes = 0 /\ restarts = 0
  BY DEF Init
<1>5. TypeOK
  <2>1. CtlTyped
    BY <1>2, Filed DEF CtlTyped, Places, Resting
  <2>2. FilesTyped
    BY <1>1, BeginFiles DEF FilesTyped
  <2>3. LogsTyped
    BY <1>3 DEF LogsTyped
  <2>4. CountTyped
    BY <1>4, StateDirAssumption DEF CountTyped
  <2> QED
    BY <2>1, <2>2, <2>3, <2>4, TypeParts
<1>6. Layouts
  <2>1. WholeSources
    BY <1>1, BeginFiles DEF WholeSources
  <2>2. OneCopy
    BY <1>2 DEF OneCopy
  <2>3. PassBegun
    BY <1>1 DEF PassBegun, Same, Winner, Exists
  <2>4. ASSUME NEW c \in Cmds PROVE Mine(c)
    <3>1. pc[c] = "start" /\ at[c] = 1 /\ got[c].whole
      BY <1>2, Filed
    <3>2. Past(c) = {}
      BY <3>1 DEF Past, Laying, Facing
    <3> QED
      BY <3>1, <3>2 DEF Mine, Placed, Holding, StillSo, Passed, Laying, Facing, InRow
  <2> QED
    BY <2>1, <2>2, <2>3, <2>4 DEF Layouts
<1>7. NothingLost
  BY <1>1 DEF NothingLost, AtFirst, OnDisk
<1>8. \A c \in Cmds : pc[c] \notin InLogs
  BY <1>2 DEF InLogs, InRow
<1>9. LogInv
  BY <1>3, <1>8 DEF LogInv, InNew, Ahead, Swept, InLogs
<1>10. StreamFound
  BY <1>3 DEF StreamFound
<1> QED
  BY <1>5, <1>6, <1>7, <1>9, <1>10 DEF IInv

LEMMA NextIInv == ASSUME IInv, [Next]_vars PROVE IInv'
<1>1. TypeOK /\ Layouts /\ NothingLost /\ LogInv /\ StreamFound
  BY DEF IInv
<1>2. CASE UNCHANGED vars
  <2>1. UNCHANGED <<pc, at, got, list, found, begin, exdev, crashes, restarts, src, aside, dst>>
          /\ UNCHANGED <<history, stream, entry, prompt, oldlogs, sentinel, hurt>>
    BY <1>2 DEF vars, local, world, prompts, logs
  <2>2. TypeOK'
    BY <1>1, <2>1 DEF TypeOK
  <2>3. Layouts'
    <3>1. \A c \in Cmds : Past(c)' = Past(c)
      BY <2>1 DEF Past
    <3>2. ASSUME NEW c \in Cmds PROVE Mine(c)'
      <4>1. Mine(c)
        BY <1>1 DEF Layouts
      <4>2. Placed(c)' /\ Holding(c)'
        BY <2>1, <4>1 DEF Mine, Placed, Holding
      <4>3. StillSo(c)'
        BY <2>1, <4>1 DEF Mine, StillSo, Here
      <4>4. Passed(c)'
        BY <2>1, <3>1, <4>1, BeginSame DEF Mine, Passed
      <4> QED
        BY <4>2, <4>3, <4>4 DEF Mine
    <3> QED
      BY <1>1, <2>1, <3>2, BeginSame DEF Layouts, WholeSources, OneCopy, PassBegun, Same, Moved
  <2>4. NothingLost'
    BY <1>1, <2>1 DEF NothingLost, AtFirst, OnDisk
  <2>5. LogInv' /\ StreamFound'
    BY <1>1, <2>1 DEF LogInv, InNew, Ahead, Swept, StreamFound, Unhurt
  <2> QED
    BY <2>2, <2>3, <2>4, <2>5 DEF IInv
<1>3. ASSUME NEW c \in Cmds, Layout(c), UNCHANGED world PROVE IInv'
  <2>1. Placed(c)
    BY <1>1 DEF Layouts, Mine
  <2> QED
    BY <1>1, <1>3, <2>1, LayoutTypes, LayoutKeeps, LayoutLosesNothing, OthersRest DEF IInv
<1>4. ASSUME NEW c \in Cmds,
             (Logs(c) /\ UNCHANGED world) \/ Die(c) \/ Restart(c)
      PROVE IInv'
  <2>1. Placed(c)
    BY <1>1 DEF Layouts, Mine
  <2>2. begin' = begin /\ exdev' = exdev /\ UNCHANGED prompts
    BY <1>4 DEF world, Die, Restart, Logs, CheckSentinel, CheckNeed, Query, StatStream,
       MoveStream, FindPrompt, KeepPrompt, UpdateEntry, Sweep, WriteSentinel
  <2>3. TypeOK'
    <3>1. CASE Logs(c) /\ UNCHANGED world
      BY <1>1, <2>1, <3>1, LogsTypes
    <3>2. CASE Die(c) \/ Restart(c)
      <4>1. CtlTyped /\ FilesTyped /\ LogsTyped /\ CountTyped
        BY <1>1, TypeParts
      <4>2. CtlTyped'
        BY <3>2, <4>1, Filed DEF Die, Restart, Leave, Go, CtlTyped, Places, Resting
      <4>3. CountTyped'
        BY <3>2, <4>1, StateDirAssumption DEF Die, Restart, CountTyped
      <4>4. FilesTyped'
        BY <2>2, <4>1 DEF FilesTyped, prompts
      <4>5. LogsTyped'
        <5>1. UNCHANGED <<history, stream, entry, prompt, oldlogs, sentinel>>
          BY <3>2 DEF Die, Restart, logs
        <5>2. hurt' \in SUBSET (1..Rows)
          BY <2>1, <3>2, <4>1 DEF Die, Restart, LogsTyped, Placed
        <5> QED
          BY <4>1, <5>1, <5>2 DEF LogsTyped
      <4>6. TypeOK' <=> CtlTyped' /\ FilesTyped' /\ LogsTyped' /\ CountTyped'
        BY TypeParts, PTL
      <4> QED
        BY <4>2, <4>3, <4>4, <4>5, <4>6
    <3> QED
      BY <1>4, <3>1, <3>2
  <2>4. Layouts'
    BY <1>1, <1>4, <2>2, ElsewhereKeeps
  <2>5. NothingLost'
    BY <1>1, <2>2 DEF prompts, NothingLost, AtFirst, OnDisk
  <2>6. LogInv' /\ StreamFound'
    BY <1>1, <1>4, <2>1, LogsKeep, OthersRest
  <2> QED
    BY <2>3, <2>4, <2>5, <2>6 DEF IInv
<1> QED
  BY <1>2, <1>3, <1>4, Steps

\* Everything the other theorems rest on: what each command has found out is
\* still so when it acts on it, each source is where it began or where one pass
\* would put it, and the rows that are to be moved are ahead of whoever moves
\* them.
THEOREM Invariant == Spec => []IInv
<1>1. Init => IInv
  BY InitIInv
<1>2. IInv /\ [Next]_vars => IInv'
  BY NextIInv
<1> QED
  BY <1>1, <1>2, PTL DEF Spec

\* The variables of the migrations keep their types.
THEOREM Typed == Spec => []TypeOK
<1>1. IInv => TypeOK
  BY DEF IInv
<1> QED
  BY <1>1, Invariant, PTL

\* No report or prompt is lost, whatever commands do between each other's
\* checks and renames and wherever they are killed (v1_layout.go:207-281).
THEOREM NothingLostHolds == Spec => []NothingLost
<1>1. IInv => NothingLost
  BY DEF IInv
<1> QED
  BY <1>1, Invariant, PTL

\* Whoever gets past the layout finds what one undisturbed pass leaves
\* (v1_layout.go:7), as long as renames do not cross devices.
THEOREM SameAsOnePassHolds == Spec => []SameAsOnePass
<1>1. IInv => SameAsOnePass
  <2> SUFFICES ASSUME IInv, ~exdev,
                      NEW c \in Cmds, pc[c] = "sentinel", at[c] > Legacy + Nested
               PROVE OnePass
    BY DEF SameAsOnePass
  <2>1. Past(c) = Sources
    BY DEF Past, Laying, Facing
  <2>2. \A j \in Sources : Exists(src[j]) => Exists(dst) /\ Blocked(j)
    BY <2>1 DEF IInv, Layouts, Mine, Passed
  <2>3. /\ dst = Winner \/ (~Exists(dst) /\ ~Exists(begin.dst))
        /\ \A i \in Sources : Same(i) \/ Moved(i)
    BY DEF IInv, Layouts, PassBegun
  <2>4. dst = Winner
    <3>1. CASE ~Exists(dst)
      <4>1. \A i \in Sources : ~Exists(begin.src[i])
        BY <2>2, <2>3, <3>1 DEF Same, Moved
      <4> QED
        BY <2>3, <3>1, <4>1 DEF Winner, Present, Exists
    <3> QED
      BY <2>3, <3>1
  <2>5. ASSUME NEW i \in Sources
        PROVE /\ src[i] = IF Blocked(i) THEN begin.src[i] ELSE Absent
              /\ aside[i] = IF Rival(i) /\ ~Blocked(i) THEN begin.src[i] ELSE begin.aside[i]
    <3>1. CASE Same(i)
      BY <2>2, <3>1 DEF Same, Rival, Blocked, Exists
    <3>2. CASE Moved(i)
      BY <3>2 DEF Moved
    <3> QED
      BY <2>3, <3>1, <3>2
  <2> QED
    BY <2>4, <2>5 DEF OnePass
<1> QED
  BY <1>1, Invariant, PTL

\* A row tells where its stream is, but where a step of it failed or its command
\* died, and the sentinel leaves no other row behind (migrate_logs.go:109-149).
THEOREM StreamFoundHolds == Spec => []StreamFound
<1>1. IInv => StreamFound
  BY DEF IInv
<1> QED
  BY <1>1, Invariant, PTL

-----------------------------------------------------------------------------
(* Schema: the inductive invariant. *)

Table == db.calls \/ db.execs
Current == db.execs /\ ~Outdated(db) /\ "task_group" \notin db.columns

\* Nobody brings the old table back.
Renamed == OneName(db) /\ (db.calls => begun.calls)

\* The rows are those that were found, with what their cmd.md tells.
RowsTold == RowsKept /\ \A r \in DOMAIN begun.rows : db.rows[r].cmd = begun.rows[r].cmd

\* What a command has seen holds while nobody else commits.
Alone(p) ==
  /\ spc[p] \in {"new", "begin", "write"} => old[p] = db.calls
  /\ spc[p] = "create" => ~db.execs
  /\ spc[p] = "index" => "batch" \in db.columns
  /\ spc[p] = "write" => snap[p] = version
  /\ spc[p] # "failed"

\* What its place says of the database, whatever others do.
Opening(p) ==
  /\ spc[p] = "new" => IF old[p] THEN Table ELSE ~db.calls
  /\ spc[p] \in {"create", "index"} => ~db.calls
  /\ spc[p] = "index" => db.execs
  /\ spc[p] \in {"again", "begin", "write", "commit"} => Table
  /\ spc[p] \in {"list", "fill", "open"} => Current
  /\ spc[p] = "fill" => \A r \in updates[p] \cap DOMAIN begun.rows : begun.rows[r].dir = ""
  /\ ~raced[p] => Alone(p)

SchemaInv == SchemaTypeOK /\ Renamed /\ RowsTold /\ \A p \in Openers : Opening(p)

-----------------------------------------------------------------------------
(* Schema: what a step leaves as it is. *)

LEMMA InitSchema == ASSUME SchemaInit PROVE SchemaInv
<1>1. begun \in Schemas /\ OneName(begun) /\ db = begun
  BY DatabasesAssumption DEF SchemaInit
<1>2. SchemaTypeOK
  BY <1>1 DEF SchemaInit, SchemaTypeOK, Stages
<1>3. Renamed
  BY <1>1 DEF Renamed
<1>4. RowsTold
  BY <1>1 DEF RowsTold, RowsKept
<1>5. \A p \in Openers : Opening(p)
  BY DEF SchemaInit, Opening, Alone
<1> QED
  BY <1>2, <1>3, <1>4, <1>5 DEF SchemaInv

\* The database goes one way.
Onward ==
  /\ db'.calls => db.calls
  /\ db.execs => db'.execs
  /\ db.calls \/ db.execs => db'.calls \/ db'.execs
  /\ Current => Current'

LEMMA SameIsOnward == ASSUME db' = db PROVE Onward
  BY DEF Onward, Current, Outdated

\* A command that does nothing: it is untouched, or told that another one committed.
LEMMA Bystander ==
  ASSUME SchemaInv, NEW q \in Openers, Onward, begun' = begun,
         spc'[q] = spc[q], old'[q] = old[q], snap'[q] = snap[q], updates'[q] = updates[q],
         \/ db' = db /\ version' = version /\ raced'[q] = raced[q]
         \/ raced'[q] = (raced[q] \/ spc[q] \notin Final)
  PROVE  Opening(q)'
<1>1. Opening(q) /\ spc[q] \in Stages /\ raced[q] \in BOOLEAN
  BY DEF SchemaInv, SchemaTypeOK
<1>2. (spc[q] = "new" => IF old[q] THEN Table ELSE ~db.calls)'
  BY <1>1 DEF Opening, Table, Onward
<1>3. (spc[q] \in {"create", "index"} => ~db.calls)' /\ (spc[q] = "index" => db.execs)'
  BY <1>1 DEF Opening, Onward
<1>4. (spc[q] \in {"again", "begin", "write", "commit"} => Table)'
  BY <1>1 DEF Opening, Table, Onward
<1>5. (spc[q] \in {"list", "fill", "open"} => Current)'
  BY <1>1 DEF Opening, Onward
<1>6. (spc[q] = "fill" => \A r \in updates[q] \cap DOMAIN begun.rows : begun.rows[r].dir = "")'
  BY <1>1 DEF Opening
<1>7. (~raced[q] => Alone(q))'
  <2>1. CASE db' = db /\ version' = version /\ raced'[q] = raced[q]
    BY <1>1, <2>1 DEF Opening, Alone
  <2>2. CASE raced'[q] = (raced[q] \/ spc[q] \notin Final)
    <3>1. SUFFICES ASSUME ~raced'[q] PROVE Alone(q)'
      OBVIOUS
    <3>2. ~raced[q] /\ spc[q] \in {"open", "killed"}
      BY <1>1, <2>2, <3>1 DEF Opening, Alone, Final
    <3> QED
      BY <3>2 DEF Alone
  <2> QED
    BY <2>1, <2>2
<1> QED
  BY <1>2, <1>3, <1>4, <1>5, <1>6, <1>7 DEF Opening

\* A step that commits nothing, and the rest of the invariant with it.
LEMMA NoCommit ==
  ASSUME SchemaInv, begun' = begun, db' = db, version' = version,
         NEW p \in Openers, Opening(p)', SchemaTypeOK',
         \A q \in Openers \ {p} : /\ spc'[q] = spc[q] /\ old'[q] = old[q] /\ snap'[q] = snap[q]
                                  /\ updates'[q] = updates[q] /\ raced'[q] = raced[q]
  PROVE  SchemaInv'
<1>1. Renamed' /\ RowsTold'
  BY DEF SchemaInv, Renamed, OneName, RowsTold, RowsKept
<1>2. \A q \in Openers : Opening(q)'
  BY SameIsOnward, Bystander
<1> QED
  BY <1>1, <1>2 DEF SchemaInv

\* A step that commits.
LEMMA OneCommits ==
  ASSUME SchemaInv, NEW p \in Openers, Commits(p), Onward, Renamed', RowsTold', Opening(p)', SchemaTypeOK',
         \A q \in Openers \ {p} : /\ spc'[q] = spc[q] /\ old'[q] = old[q] /\ snap'[q] = snap[q]
                                  /\ updates'[q] = updates[q]
  PROVE  SchemaInv'
<1>1. ASSUME NEW q \in Openers \ {p} PROVE Opening(q)'
  <2>1. raced'[q] = (raced[q] \/ spc[q] \notin Final) /\ begun' = begun
    BY DEF Commits
  <2> QED
    BY <2>1, Bystander
<1> QED
  BY <1>1 DEF SchemaInv

-----------------------------------------------------------------------------
(* Schema: the steps. *)

\* What a command's own step leaves of the others.
LEMMA OthersStay ==
  ASSUME SchemaTypeOK, NEW p \in Openers
  PROVE  /\ \A l : Goto(p, l) => spc'[p] = l /\ \A q \in Openers \ {p} : spc'[q] = spc[q]
         /\ \A v : old' = [old EXCEPT ![p] = v] => old'[p] = v /\ \A q \in Openers \ {p} : old'[q] = old[q]
         /\ \A v : snap' = [snap EXCEPT ![p] = v] => snap'[p] = v /\ \A q \in Openers \ {p} : snap'[q] = snap[q]
         /\ \A v : updates' = [updates EXCEPT ![p] = v] => updates'[p] = v /\ \A q \in Openers \ {p} : updates'[q] = updates[q]
  BY DEF SchemaTypeOK, Goto

\* Questions: what is seen is so.
LEMMA LooksKeep ==
  ASSUME SchemaInv, NEW p \in Openers, LookOld(p) \/ LookNew(p) \/ LookAgain(p)
  PROVE  SchemaInv'
<1>1. SchemaTypeOK'
  <2>1. SchemaTypeOK
    BY DEF SchemaInv
  <2>2. CASE LookOld(p)
    BY <2>1, <2>2 DEF LookOld, Goto, Reads, SchemaTypeOK, Stages, Schemas
  <2>3. CASE LookNew(p)
    BY <2>1, <2>3 DEF LookNew, Goto, Reads, SchemaTypeOK, Stages, Schemas
  <2>4. CASE LookAgain(p)
    BY <2>1, <2>4 DEF LookAgain, Goto, Reads, SchemaTypeOK, Stages, Schemas
  <2> QED
    BY <2>2, <2>3, <2>4
<1>2. begun' = begun /\ db' = db /\ version' = version /\ raced' = raced /\ updates' = updates /\ snap' = snap
  BY DEF LookOld, LookNew, LookAgain, Reads
<1>3. \A q \in Openers \ {p} : /\ spc'[q] = spc[q] /\ old'[q] = old[q] /\ snap'[q] = snap[q]
                               /\ updates'[q] = updates[q] /\ raced'[q] = raced[q]
  BY <1>2, OthersStay DEF SchemaInv, LookOld, LookNew, LookAgain
<1>4. Opening(p)'
  <2>1. SchemaTypeOK /\ Opening(p)
    BY DEF SchemaInv
  <2>2. CASE LookOld(p)
    <3>1. spc'[p] = "new" /\ old'[p] = db.calls
      BY <2>1, <2>2 DEF LookOld, Goto, SchemaTypeOK
    <3> QED
      BY <1>2, <3>1 DEF Opening, Alone, Table
  <2>3. CASE LookNew(p)
    <3>1. spc[p] = "new" /\ old' = old /\ spc'[p] = IF old[p] \/ db.execs THEN "again" ELSE "create"
      BY <2>1, <2>3, OthersStay DEF LookNew
    <3>2. old[p] \in BOOLEAN
      BY <2>1 DEF SchemaTypeOK
    <3>3. CASE old[p] \/ db.execs
      BY <1>2, <2>1, <3>1, <3>3 DEF Opening, Alone, Table
    <3>4. CASE ~(old[p] \/ db.execs)
      BY <1>2, <2>1, <3>1, <3>4 DEF Opening, Alone, Table
    <3> QED
      BY <3>3, <3>4
  <2>4. CASE LookAgain(p)
    <3>1. spc[p] = "again" /\ spc'[p] = "begin" /\ old'[p] = db.calls
      BY <2>1, <2>4 DEF LookAgain, Goto, SchemaTypeOK
    <3> QED
      BY <1>2, <2>1, <3>1 DEF Opening, Alone, Table
  <2> QED
    BY <2>2, <2>3, <2>4
<1> QED
  BY <1>1, <1>2, <1>3, <1>4, NoCommit

\* Indexes, the first read of the transaction, the first write, the list of the backfill.
LEMMA ReadsKeep ==
  ASSUME SchemaInv, NEW p \in Openers, CreateIndexes(p) \/ BeginTx(p) \/ Write(p) \/ List(p)
  PROVE  SchemaInv'
<1>0. SchemaTypeOK /\ Opening(p) /\ Renamed /\ RowsTold
  BY DEF SchemaInv
<1>1. SchemaTypeOK'
  <2>1. CASE CreateIndexes(p)
    BY <1>0, <2>1 DEF CreateIndexes, Goto, Reads, SchemaTypeOK, Stages, Final
  <2>2. CASE BeginTx(p)
    BY <1>0, <2>2 DEF BeginTx, Goto, Reads, SchemaTypeOK, Stages, Final
  <2>3. CASE Write(p)
    BY <1>0, <2>3 DEF Write, Goto, SchemaTypeOK, Stages, Final
  <2>4. CASE List(p)
    <3>1. Pending \in SUBSET Nat
      <4>1. db.rows \in Seq(RowType)
        BY <1>0 DEF SchemaTypeOK, Schemas
      <4>2. DOMAIN db.rows = 1..Len(db.rows) /\ Len(db.rows) \in Nat
        BY <4>1, LenProperties
      <4>3. Pending \subseteq DOMAIN db.rows
        BY DEF Pending
      <4> QED
        BY <4>2, <4>3
    <3> QED
      BY <1>0, <2>4, <3>1 DEF List, Goto, Reads, SchemaTypeOK, Stages, Final
  <2> QED
    BY <2>1, <2>2, <2>3, <2>4
<1>2. begun' = begun /\ db' = db /\ version' = version /\ raced' = raced /\ old' = old
  BY DEF CreateIndexes, BeginTx, Write, List, Reads
<1>3. \A q \in Openers \ {p} : /\ spc'[q] = spc[q] /\ old'[q] = old[q] /\ snap'[q] = snap[q]
                               /\ updates'[q] = updates[q] /\ raced'[q] = raced[q]
  BY <1>0, <1>2, OthersStay DEF CreateIndexes, BeginTx, Write, List
<1>4. Opening(p)'
  <2>1. CASE CreateIndexes(p)
    <3>1. spc[p] = "index" /\ spc'[p] = IF "batch" \in db.columns THEN "again" ELSE "failed"
      BY <1>0, <2>1, OthersStay DEF CreateIndexes
    <3> QED
      BY <1>0, <1>2, <3>1 DEF Opening, Alone, Table
  <2>2. CASE BeginTx(p)
    <3>1. /\ spc[p] = "begin" /\ snap'[p] = version
          /\ spc'[p] = IF old[p] /\ ~db.calls THEN "failed" ELSE IF Outdated(db) THEN "write" ELSE "list"
      BY <1>0, <2>2, OthersStay DEF BeginTx
    <3>2. CASE old[p] /\ ~db.calls
      BY <1>0, <1>2, <3>1, <3>2 DEF Opening, Alone, Table
    <3>3. CASE ~(old[p] /\ ~db.calls) /\ Outdated(db)
      BY <1>0, <1>2, <3>1, <3>3 DEF Opening, Alone, Table
    <3>4. CASE ~(old[p] /\ ~db.calls) /\ ~Outdated(db)
      <4>1. Current
        BY <1>0, <3>1, <3>4 DEF Opening, Table, Current, Outdated, Renamed, OneName, Columns
      <4> QED
        BY <1>2, <3>1, <3>4, <4>1 DEF Opening, Alone, Table, Current, Outdated
    <3> QED
      BY <3>2, <3>3, <3>4
  <2>3. CASE Write(p)
    <3>1. /\ spc[p] = "write"
          /\ spc'[p] = IF version # snap[p] \/ (old[p] /\ db.execs) THEN "failed" ELSE "commit"
      BY <1>0, <2>3, OthersStay DEF Write
    <3>2. ~raced[p] => spc'[p] = "commit"
      BY <1>0, <3>1 DEF Opening, Alone, Renamed, OneName
    <3> QED
      BY <1>0, <1>2, <3>1, <3>2 DEF Opening, Alone, Table
  <2>4. CASE List(p)
    <3>1. /\ spc[p] = "list" /\ updates'[p] = Pending
          /\ spc'[p] = IF Pending = {} THEN "open" ELSE "fill"
      BY <1>0, <2>4, OthersStay DEF List
    <3>2. \A r \in Pending \cap DOMAIN begun.rows : begun.rows[r].dir = ""
      BY <1>0 DEF Pending, RowsTold, RowsKept
    <3>3. Current /\ Current'
      BY <1>0, <1>2, <3>1 DEF Opening, Current, Outdated
    <3> QED
      BY <1>2, <3>1, <3>2, <3>3 DEF Opening, Alone
  <2> QED
    BY <2>1, <2>2, <2>3, <2>4
<1> QED
  BY <1>1, <1>2, <1>3, <1>4, NoCommit

\* A kill, and another try.
LEMMA TryKeeps ==
  ASSUME SchemaInv, NEW p \in Openers, Kill(p) \/ Reopen(p)
  PROVE  SchemaInv'
<1>0. SchemaTypeOK /\ Opening(p)
  BY DEF SchemaInv
<1>1. SchemaTypeOK'
  <2>1. CASE Kill(p)
    BY <1>0, <2>1 DEF Kill, Goto, SchemaTypeOK, Stages, Final
  <2>2. CASE Reopen(p)
    BY <1>0, <2>2 DEF Reopen, Goto, SchemaTypeOK, Stages
  <2> QED
    BY <2>1, <2>2
<1>2. begun' = begun /\ db' = db /\ version' = version /\ old' = old /\ snap' = snap /\ updates' = updates
  BY DEF Kill, Reopen
<1>3. spc'[p] \in {"killed", "start"}
  BY <1>0, OthersStay DEF Kill, Reopen
<1>4. \A q \in Openers \ {p} : spc'[q] = spc[q] /\ raced'[q] = raced[q]
  BY <1>0, OthersStay DEF Kill, Reopen, SchemaTypeOK
<1>5. Opening(p)'
  BY <1>3 DEF Opening, Alone
<1> QED
  BY <1>1, <1>2, <1>4, <1>5, NoCommit

\* Onward and the old name, as a commit leaves them.
LEMMA CreateKeeps ==
  ASSUME SchemaInv, NEW p \in Openers, Create(p)
  PROVE  SchemaInv'
<1>0. SchemaTypeOK /\ Opening(p) /\ Renamed /\ RowsTold
  BY DEF SchemaInv
<1>1. spc[p] = "create" /\ spc'[p] = "index" /\ old' = old /\ snap' = snap /\ updates' = updates
  BY <1>0, OthersStay DEF Create
<1>2. \A q \in Openers \ {p} : spc'[q] = spc[q]
  BY <1>0 DEF Create, Goto, SchemaTypeOK
<1>3. spc' \in [Openers -> Stages] /\ ~db.calls
  BY <1>0, <1>1 DEF Create, Goto, SchemaTypeOK, Stages, Opening
<1>4. CASE db.execs
  <2>1. begun' = begun /\ db' = db /\ version' = version /\ raced' = raced /\ lock' = lock /\ kills' = kills /\ reopens' = reopens
    BY <1>4 DEF Create, Reads
  <2>2. SchemaTypeOK'
    BY <1>0, <1>1, <1>3, <2>1 DEF SchemaTypeOK
  <2>3. ~raced[p] => FALSE
    BY <1>0, <1>1, <1>4 DEF Opening, Alone
  <2>4. Opening(p)'
    BY <1>1, <1>3, <1>4, <2>1, <2>3 DEF Opening
  <2> QED
    BY <1>1, <1>2, <2>1, <2>2, <2>4, NoCommit
<1>5. CASE ~db.execs
  <2>1. db' = [db EXCEPT !.execs = TRUE, !.columns = Created] /\ Commits(p)
    BY <1>5 DEF Create
  <2>2. db \in Schemas
    BY <1>0 DEF SchemaTypeOK
  <2>3. /\ db' \in Schemas /\ db'.execs /\ db'.columns = Created /\ db'.rows = db.rows /\ db'.calls = db.calls
    BY <2>1, <2>2 DEF Schemas, Created
  <2>4. begun' = begun /\ kills' = kills /\ reopens' = reopens /\ version' = version + 1 /\ lock' = None
    BY <2>1 DEF Commits
  <2>5. raced' \in [Openers -> BOOLEAN]
    BY <1>0, <2>1 DEF Commits, SchemaTypeOK
  <2>6. SchemaTypeOK'
    BY <1>0, <1>1, <1>3, <2>3, <2>4, <2>5 DEF SchemaTypeOK
  <2>7. Onward
    BY <1>3, <1>5, <2>3 DEF Onward, Current
  <2>8. Renamed'
    BY <1>3, <2>3 DEF Renamed, OneName, Created, Columns
  <2>9. RowsTold'
    BY <1>0, <2>3, <2>4 DEF RowsTold, RowsKept
  <2>10. Opening(p)'
    BY <1>1, <1>3, <2>3 DEF Opening, Alone, Created, Columns
  <2> QED
    BY <1>1, <1>2, <2>1, <2>6, <2>7, <2>8, <2>9, <2>10, OneCommits
<1> QED
  BY <1>4, <1>5

\* The rows a migration leaves.
LEMMA MigratedRows ==
  ASSUME NEW d \in Schemas
  PROVE  /\ Migrated(d) \in Schemas /\ DOMAIN Migrated(d).rows = DOMAIN d.rows
         /\ Migrated(d).execs /\ ~Migrated(d).calls
         /\ Columns \subseteq Migrated(d).columns /\ "task_group" \notin Migrated(d).columns
         /\ \A r \in DOMAIN d.rows :
              /\ Migrated(d).rows[r].stream = IF d.calls THEN Relative(d.rows[r].stream) ELSE d.rows[r].stream
              /\ Migrated(d).rows[r].dir = d.rows[r].dir /\ Migrated(d).rows[r].cmd = d.rows[r].cmd
<1> DEFINE m == Migrated(d)
           row(r) == [d.rows[r] EXCEPT !.stream = IF d.calls THEN Relative(@) ELSE @]
<1>1. d.rows \in Seq(RowType)
  BY DEF Schemas
<1>2. /\ Len(d.rows) \in Nat /\ DOMAIN d.rows = 1..Len(d.rows)
      /\ \A r \in DOMAIN d.rows : d.rows[r] \in RowType
  BY <1>1, LenProperties
<1>3. \A s \in Streams : Relative(s) \in Streams
  BY DEF Relative, Streams
<1>4. \A r \in DOMAIN d.rows :
        /\ row(r) \in RowType /\ row(r).dir = d.rows[r].dir /\ row(r).cmd = d.rows[r].cmd
        /\ row(r).stream = IF d.calls THEN Relative(d.rows[r].stream) ELSE d.rows[r].stream
  <2>1. SUFFICES ASSUME NEW r \in DOMAIN d.rows
                 PROVE  /\ row(r) \in RowType /\ row(r).dir = d.rows[r].dir /\ row(r).cmd = d.rows[r].cmd
                        /\ row(r).stream = IF d.calls THEN Relative(d.rows[r].stream) ELSE d.rows[r].stream
    OBVIOUS
  <2>2. d.rows[r] \in RowType
    BY <1>2, <2>1
  <2>3. d.rows[r].stream \in Streams
    BY <2>2 DEF RowType
  <2>4. Relative(d.rows[r].stream) \in Streams
    BY <1>3, <2>3
  <2> QED
    BY <2>2, <2>3, <2>4 DEF RowType
<1>5. m.rows = [r \in DOMAIN d.rows |-> row(r)]
  BY DEF Migrated
<1>6. m.rows \in [1..Len(d.rows) -> RowType]
  BY <1>2, <1>4, <1>5
<1>7. m.rows \in Seq(RowType)
  BY <1>2, <1>6
<1>8. /\ m.execs /\ ~m.calls /\ m.columns = (d.columns \ {"task_group"}) \cup Columns
      /\ m = [execs |-> TRUE, calls |-> FALSE, columns |-> m.columns, rows |-> m.rows]
  BY DEF Migrated
<1>9. d.columns \subseteq Columns \cup {"task_group"}
  BY DEF Schemas
<1>10. m \in Schemas
  <2>1. m.columns \subseteq Columns \cup {"task_group"}
    BY <1>8, <1>9
  <2>2. ASSUME NEW c \in SUBSET (Columns \cup {"task_group"}), NEW x \in Seq(RowType)
        PROVE  [execs |-> TRUE, calls |-> FALSE, columns |-> c, rows |-> x] \in Schemas
    BY DEF Schemas
  <2>3. [execs |-> TRUE, calls |-> FALSE, columns |-> m.columns, rows |-> m.rows] \in Schemas
    BY <1>7, <2>1, <2>2
  <2> QED
    BY <1>8, <2>3
<1> QED
  <2>1. DOMAIN m.rows = DOMAIN d.rows /\ \A r \in DOMAIN d.rows : m.rows[r] = row(r)
    BY <1>5
  <2>2. Columns \subseteq m.columns /\ "task_group" \notin m.columns
    BY <1>8 DEF Columns
  <2> QED
    BY <1>4, <1>8, <1>10, <2>1, <2>2

LEMMA CommitKeeps ==
  ASSUME SchemaInv, NEW p \in Openers, Commit(p)
  PROVE  SchemaInv'
<1>0. SchemaTypeOK /\ Opening(p) /\ Renamed /\ RowsTold /\ db \in Schemas
  BY DEF SchemaInv, SchemaTypeOK
<1>1. spc'[p] = "list" /\ old' = old /\ snap' = snap /\ updates' = updates /\ Commits(p) /\ db' = Migrated(db)
  BY <1>0, OthersStay DEF Commit
<1>2. \A q \in Openers \ {p} : spc'[q] = spc[q]
  BY <1>0 DEF Commit, Goto, SchemaTypeOK
<1>3. spc' \in [Openers -> Stages]
  BY <1>0 DEF Commit, Goto, SchemaTypeOK, Stages
<1>4. begun' = begun /\ kills' = kills /\ reopens' = reopens /\ version' = version + 1 /\ lock' = None
  BY <1>1 DEF Commits
<1>5. raced' \in [Openers -> BOOLEAN]
  BY <1>0, <1>1 DEF Commits, SchemaTypeOK
<1>6. /\ db' \in Schemas /\ DOMAIN db'.rows = DOMAIN db.rows /\ db'.execs /\ ~db'.calls
      /\ Columns \subseteq db'.columns /\ "task_group" \notin db'.columns
      /\ \A r \in DOMAIN db.rows :
           /\ db'.rows[r].stream = IF db.calls THEN Relative(db.rows[r].stream) ELSE db.rows[r].stream
           /\ db'.rows[r].dir = db.rows[r].dir /\ db'.rows[r].cmd = db.rows[r].cmd
  BY <1>0, <1>1, MigratedRows
<1>7. SchemaTypeOK'
  BY <1>0, <1>1, <1>3, <1>4, <1>5, <1>6 DEF SchemaTypeOK
<1>8. Current'
  BY <1>6 DEF Current, Outdated
<1>9. Onward
  BY <1>6, <1>8 DEF Onward
<1>10. Renamed'
  BY <1>6 DEF Renamed, OneName
<1>11. RowsTold'
  BY <1>0, <1>4, <1>6 DEF RowsTold, RowsKept, Renamed
<1>12. Opening(p)'
  BY <1>1, <1>8 DEF Opening, Alone
<1> QED
  BY <1>1, <1>2, <1>7, <1>9, <1>10, <1>11, <1>12, OneCommits

\* A commit that changes rows only, and of those that were there no more than a work_dir.
FilledIn(rows) ==
  /\ DOMAIN db.rows \subseteq DOMAIN rows
  /\ \A r \in DOMAIN db.rows :
       /\ rows[r].stream = db.rows[r].stream /\ rows[r].cmd = db.rows[r].cmd
       /\ \/ rows[r].dir = db.rows[r].dir
          \/ rows[r].dir = db.rows[r].cmd /\ (r \in DOMAIN begun.rows => begun.rows[r].dir = "")

LEMMA RowsOnly ==
  ASSUME SchemaInv, NEW p \in Openers, Commits(p), spc[p] \in {"fill", "open"}, spc'[p] = "open",
         NEW rows \in Seq(RowType), db' = [db EXCEPT !.rows = rows], FilledIn(rows),
         old' = old, snap' = snap, updates' = updates, spc' \in [Openers -> Stages],
         \A q \in Openers \ {p} : spc'[q] = spc[q]
  PROVE  SchemaInv'
<1>0. SchemaTypeOK /\ Opening(p) /\ Renamed /\ RowsTold /\ db \in Schemas
  BY DEF SchemaInv, SchemaTypeOK
<1>1. begun' = begun /\ kills' = kills /\ reopens' = reopens /\ version' = version + 1 /\ lock' = None
  BY DEF Commits
<1>2. raced' \in [Openers -> BOOLEAN]
  BY <1>0 DEF Commits, SchemaTypeOK
<1>3. /\ db' \in Schemas /\ db'.rows = rows
      /\ db'.calls = db.calls /\ db'.execs = db.execs /\ db'.columns = db.columns
  BY <1>0 DEF Schemas
<1>4. SchemaTypeOK'
  BY <1>0, <1>1, <1>2, <1>3 DEF SchemaTypeOK
<1>5. Current => Current'
  BY <1>3 DEF Current, Outdated
<1>6. Onward
  BY <1>3, <1>5 DEF Onward
<1>7. Renamed'
  BY <1>0, <1>1, <1>3 DEF Renamed, OneName
<1>8. RowsTold'
  <2>1. SUFFICES ASSUME NEW r \in DOMAIN begun.rows
                 PROVE  /\ r \in DOMAIN rows /\ rows[r].cmd = begun.rows[r].cmd
                        /\ rows[r].stream = IF begun.calls /\ ~db.calls THEN Relative(begun.rows[r].stream) ELSE begun.rows[r].stream
                        /\ rows[r].dir \in {begun.rows[r].dir} \cup (IF begun.rows[r].dir = "" THEN {begun.rows[r].cmd} ELSE {})
    BY <1>1, <1>3 DEF RowsTold, RowsKept
  <2>2. /\ r \in DOMAIN db.rows /\ db.rows[r].cmd = begun.rows[r].cmd
        /\ db.rows[r].stream = IF begun.calls /\ ~db.calls THEN Relative(begun.rows[r].stream) ELSE begun.rows[r].stream
        /\ db.rows[r].dir \in {begun.rows[r].dir} \cup (IF begun.rows[r].dir = "" THEN {begun.rows[r].cmd} ELSE {})
    BY <1>0, <2>1 DEF RowsTold, RowsKept
  <2> QED
    BY <2>1, <2>2 DEF FilledIn
<1>9. Opening(p)'
  BY <1>0, <1>5 DEF Opening, Alone
<1> QED
  BY <1>4, <1>6, <1>7, <1>8, <1>9, OneCommits

LEMMA FillKeeps ==
  ASSUME SchemaInv, NEW p \in Openers, Fill(p)
  PROVE  SchemaInv'
<1>0. SchemaTypeOK /\ Opening(p) /\ RowsTold /\ db.rows \in Seq(RowType)
  BY DEF SchemaInv, SchemaTypeOK, Schemas
<1>1. spc[p] = "fill" /\ spc'[p] = "open" /\ old' = old /\ snap' = snap /\ updates' = updates
  BY <1>0, OthersStay DEF Fill
<1>2. \A q \in Openers \ {p} : spc'[q] = spc[q]
  BY <1>0 DEF Fill, Goto, SchemaTypeOK
<1>3. spc' \in [Openers -> Stages]
  BY <1>0 DEF Fill, Goto, SchemaTypeOK, Stages, Final
<1>4. CASE Reads
  <2>1. begun' = begun /\ db' = db /\ version' = version /\ raced' = raced /\ lock' = lock /\ kills' = kills /\ reopens' = reopens
    BY <1>4 DEF Reads
  <2>2. SchemaTypeOK'
    BY <1>0, <1>1, <1>3, <2>1 DEF SchemaTypeOK
  <2>3. Opening(p)'
    BY <1>0, <1>1, <2>1 DEF Opening, Alone, Current, Outdated
  <2> QED
    BY <1>1, <1>2, <2>1, <2>2, <2>3, NoCommit
<1>5. CASE ~Reads
  <2> DEFINE row(r) == IF r \in updates[p] THEN [db.rows[r] EXCEPT !.dir = db.rows[r].cmd] ELSE db.rows[r]
             rows == [r \in DOMAIN db.rows |-> row(r)]
  <2>1. db' = [db EXCEPT !.rows = rows] /\ Commits(p)
    BY <1>5 DEF Fill
  <2>2. /\ Len(db.rows) \in Nat /\ DOMAIN db.rows = 1..Len(db.rows)
        /\ \A r \in DOMAIN db.rows : db.rows[r] \in RowType
    BY <1>0, LenProperties
  <2>3. ASSUME NEW r \in DOMAIN db.rows
        PROVE  /\ row(r) \in RowType /\ row(r).stream = db.rows[r].stream /\ row(r).cmd = db.rows[r].cmd
               /\ row(r).dir = db.rows[r].dir \/ (row(r).dir = db.rows[r].cmd /\ r \in updates[p])
    <3>1. db.rows[r] \in RowType
      BY <2>2
    <3>2. ASSUME NEW d \in Dirs, NEW x \in RowType
          PROVE  /\ [x EXCEPT !.dir = d] \in RowType /\ [x EXCEPT !.dir = d].stream = x.stream
                 /\ [x EXCEPT !.dir = d].cmd = x.cmd /\ [x EXCEPT !.dir = d].dir = d
      BY DEF RowType
    <3>3. db.rows[r].cmd \in Dirs
      BY <3>1 DEF RowType
    <3>4. CASE r \in updates[p]
      BY <3>1, <3>2, <3>3, <3>4
    <3>5. CASE r \notin updates[p]
      <4>1. row(r) = db.rows[r]
        BY <3>5
      <4> HIDE DEF row
      <4> QED
        BY <3>1, <4>1
    <3> QED
      BY <3>4, <3>5
  <2>4. rows \in [1..Len(db.rows) -> RowType] /\ DOMAIN rows = DOMAIN db.rows /\ \A r \in DOMAIN db.rows : rows[r] = row(r)
    BY <2>2, <2>3
  <2> HIDE DEF row, rows
  <2>5. rows \in Seq(RowType)
    BY <2>2, <2>4
  <2>6. \A r \in updates[p] : r \in DOMAIN begun.rows => begun.rows[r].dir = ""
    BY <1>0, <1>1 DEF Opening
  <2>7. FilledIn(rows)
    BY <2>3, <2>4, <2>6 DEF FilledIn
  <2> QED
    BY <1>1, <1>2, <1>3, <2>1, <2>5, <2>7, RowsOnly
<1> QED
  BY <1>4, <1>5

LEMMA InsertKeeps ==
  ASSUME SchemaInv, NEW p \in Openers, Insert(p)
  PROVE  SchemaInv'
<1>0. SchemaTypeOK /\ db.rows \in Seq(RowType)
  BY DEF SchemaInv, SchemaTypeOK, Schemas
<1>1. spc[p] = "open" /\ spc' = spc /\ old' = old /\ snap' = snap /\ updates' = updates /\ Commits(p)
  BY DEF Insert
<1>2. PICK d \in WorkDirs : db' = [db EXCEPT !.rows = Append(@, NewRow(d))]
  BY DEF Insert
<1>3. NewRow(d) \in RowType
  BY DEF NewRow, RowType, Dirs, Streams
<1> DEFINE rows == Append(db.rows, NewRow(d))
<1>4. /\ rows \in Seq(RowType) /\ Len(rows) = Len(db.rows) + 1 /\ Len(db.rows) \in Nat
      /\ \A r \in 1..Len(db.rows) : rows[r] = db.rows[r]
  BY <1>0, <1>3, AppendProperties, LenProperties
<1>5. db' = [db EXCEPT !.rows = rows]
  BY <1>2
<1> HIDE DEF rows
<1>6. DOMAIN rows = 1..Len(rows) /\ DOMAIN db.rows = 1..Len(db.rows)
  BY <1>0, <1>4, LenProperties
<1>7. DOMAIN db.rows \subseteq DOMAIN rows
  BY <1>4, <1>6
<1>8. \A r \in DOMAIN db.rows : rows[r] = db.rows[r]
  BY <1>4, <1>6
<1>9. FilledIn(rows)
  BY <1>7, <1>8 DEF FilledIn
<1>10. spc' \in [Openers -> Stages]
  BY <1>0, <1>1 DEF SchemaTypeOK
<1> QED
  BY <1>1, <1>4, <1>5, <1>9, <1>10, RowsOnly

LEMMA NextSchema == ASSUME SchemaInv, [SchemaNext]_schemaVars PROVE SchemaInv'
<1>1. CASE UNCHANGED schemaVars
  BY <1>1 DEF schemaVars, SchemaInv, SchemaTypeOK, Renamed, OneName, RowsTold, RowsKept,
       Opening, Alone, Table, Current, Outdated
<1>2. CASE SchemaNext
  <2>1. PICK p \in Openers :
          \/ LookOld(p) \/ LookNew(p) \/ Create(p) \/ CreateIndexes(p) \/ LookAgain(p)
          \/ BeginTx(p) \/ Write(p) \/ Commit(p) \/ List(p) \/ Fill(p)
          \/ Insert(p) \/ Kill(p) \/ Reopen(p)
    BY <1>2 DEF SchemaNext
  <2> QED
    BY <2>1, LooksKeep, CreateKeeps, ReadsKeep, CommitKeeps, FillKeeps, InsertKeeps, TryKeeps
<1> QED
  BY <1>1, <1>2

-----------------------------------------------------------------------------
(* Schema: the theorems. *)

\* What the place of each command says of the database, whatever others do and
\* as long as nobody does, and that the rows are those that were found
\* (calldb.go:151-482).
THEOREM SchemaInvariant == SchemaSpec => []SchemaInv
<1> QED
  BY InitSchema, NextSchema, PTL DEF SchemaSpec

\* A command that has opened the database finds the current table and columns and
\* every row, and none is refused unless another one committed meanwhile, for
\* every number of commands, kills and rows and every older database
\* (calldb.go:190-428).
THEOREM OpensWholeHolds == SchemaSpec => []OpensWhole
<1>1. SchemaInv => OpensWhole
  <2>1. ASSUME SchemaInv PROVE OpensWhole
    <3>1. \A p \in Openers : Opening(p) /\ raced[p] \in BOOLEAN
      BY <2>1 DEF SchemaInv, SchemaTypeOK
    <3>2. RowsKept
      BY <2>1 DEF SchemaInv, RowsTold
    <3> QED
      BY <3>1, <3>2 DEF OpensWhole, Opening, Alone, Current
  <2> QED
    BY <2>1
<1> QED
  BY <1>1, SchemaInvariant, PTL

-----------------------------------------------------------------------------
(* The credential.  An invariant of the stores, of the writers and of the   *)
(* run: a writer can do what it is about; a run knows of each name it is    *)
(* past, whatever happens meanwhile, and finds what there is when nobody is *)
(* at work.                                                                 *)

Value == STRING \cup {NotSet, Blank}
AnyLine == [key : Value, value : Value]
AnyJob == [op : {"set", "delete"}, name : STRING, value : Value, scope : ScopeNames, storage : {"file", "keychain"}]

Looking == run.pc \in {"validate", "isolate"}

\* What a writer has set out to do can be done.
Able(w) ==
  /\ job[w] \in AnyJob
  /\ \A s \in ScopeNames : job[w].name \in DOMAIN held.chain[s]
  /\ job[w].op = "set" => job[w].value # NotSet
  /\ ~InFile(w) => held.keyring /\ (job[w].op = "set" => job[w].value # Blank)

StoresType ==
  /\ held \in Situations
  /\ file \in [ScopeNames -> Seq(AnyLine)]
  /\ DOMAIN chain = ScopeNames
  /\ \A s \in ScopeNames : chain[s] \in [DOMAIN held.chain[s] -> Value]
  /\ wpc \in [Writers -> {"idle", "open", "truncate", "write", "done"}]
  /\ DOMAIN job = Writers
  /\ lines \in [Writers -> Seq(AnyLine)]
  /\ clean \in BOOLEAN
  /\ latest # "nobody" => latest \in Writers
  /\ \A w \in Writers : AtWork(w) \/ (w = latest /\ latest # "nobody") => Able(w)
  /\ \A w \in Writers : wpc[w] \in {"truncate", "write"} => InFile(w)
  /\ latest # "nobody" => wpc[latest] = "done"

RunType ==
  /\ DOMAIN run = {"pc", "alt", "scope", "found", "sees", "best"}
  /\ run.pc \in {"idle", "validate", "isolate", "refused", "running"}
  /\ run.alt \in 1..Len(Alternatives)
  /\ run.scope \in 1..Len(Scopes(held)) + 1
  /\ DOMAIN run.found = Names
  /\ run.pc = "idle" => run.alt = 1 /\ run.scope = 1
  /\ Looking => held.project

\* One at a time, nobody writes while a run looks.
Undisturbed == clean /\ Looking => \A w \in Writers : ~AtWork(w)

AllTidy == TidyFound => /\ \A s \in ScopeNames : Tidy(file[s])
                        /\ \A w \in Writers : Tidy(lines[w])

IsRead ==
  LET j == job[latest]
      now == IF InFile(latest) THEN LookupFile(j.scope, j.name) ELSE LookupKeychain(held, j.scope, j.name)
  IN now = IF j.op = "set" THEN j.value ELSE NotSet

Stored == clean /\ (\A w \in Writers : ~AtWork(w)) /\ latest # "nobody" /\ TidyFound => IsRead

\* What is known of a name that was looked for.
FoundHow(known, n) ==
  \/ known[n].tier = "store"
  \/ known[n].tier = "env" /\ known[n] = [value |-> FromEnv(held, n), tier |-> "env"] /\ FromEnv(held, n) # NotSet
  \/ known[n] = Missed /\ FromEnv(held, n) = NotSet

FoundSoFar ==
  /\ run.pc = "isolate" => \A i \in 1..run.alt - 1 : FoundHow(run.found, Alternatives[i])
  /\ Started /\ held.project =>
       /\ \A n \in Names : FoundHow(run.found, n)
       /\ run.sees = Sees(held, Isolate(held, run.found))

\* What is to be found of a name.
Hit(n) ==
  IF ScopesWith(held, n) # {} THEN [value |-> ResolveName(held, n), tier |-> "store"]
  ELSE IF FromEnv(held, n) = NotSet THEN Missed ELSE [value |-> FromEnv(held, n), tier |-> "env"]

\* One at a time, a run finds what there is.
FindsWhatIs ==
  clean /\ Looking =>
    /\ run.best = Best(held)
    /\ \A k \in 1..run.scope - 1 : ResolveScope(held, Scopes(held)[k], Alternatives[run.alt]) = NotSet
    /\ run.pc = "isolate" => /\ \A i \in 1..run.alt - 1 : run.found[Alternatives[i]] = Hit(Alternatives[i])
                             /\ held.container => run.best # 0
    /\ run.pc = "validate" => /\ \A i \in 1..run.alt - 1 : Hit(Alternatives[i]) = Missed
                              /\ held.container

CredentialsInv ==
  /\ StoresType /\ RunType /\ Undisturbed /\ AllTidy /\ Stored /\ FoundSoFar /\ FindsWhatIs /\ BestCredential

-----------------------------------------------------------------------------
(* Induction, for what a recursive function computes. *)

LEMMA LeastElement ==
  ASSUME NEW S \in SUBSET Nat, S # {}
  PROVE  \E x \in S : \A y \in S : x <= y
<1>1. IsWellFoundedOn(OpToRel(<, Nat), Nat)
  BY NatLessThanWellFounded
<1>2. \E x \in S : \A y \in S : ~ (<<y, x>> \in OpToRel(<, Nat))
  BY <1>1, WFMin
<1>3. PICK x \in S : \A y \in S : ~ (<<y, x>> \in OpToRel(<, Nat))
  BY <1>2
<1>4. ASSUME NEW y \in S PROVE x <= y
  <2>1. x \in Nat /\ y \in Nat
    OBVIOUS
  <2>2. ~ (<<y, x>> \in OpToRel(<, Nat))
    BY <1>3
  <2>3. ~ (y < x)
    BY <2>1, <2>2 DEF OpToRel
  <2> QED
    BY <2>1, <2>3
<1> QED
  BY <1>4

LEMMA Induct ==
  ASSUME NEW S \in SUBSET Nat, 0 \in S, \A n \in S : n + 1 \in S
  PROVE  S = Nat
<1> SUFFICES ASSUME S # Nat PROVE FALSE
  OBVIOUS
<1> DEFINE T == Nat \ S
<1>1. T # {} /\ T \in SUBSET Nat
  OBVIOUS
<1>2. PICK x \in T : \A y \in T : x <= y
  <2> HIDE DEF T
  <2> QED BY <1>1, LeastElement
<1>3. x # 0 /\ x \in Nat
  OBVIOUS
<1>4. x - 1 \in Nat /\ ~ (x <= x - 1)
  BY <1>3
<1>5. x - 1 \in S
  BY <1>2, <1>4
<1>6. x - 1 + 1 \in S
  BY <1>5
<1>7. x - 1 + 1 = x
  BY <1>3
<1> QED
  BY <1>6, <1>7, <1>2

LEMMA GreatestElement ==
  ASSUME NEW n \in Nat, NEW S \in SUBSET (1..n), S # {}
  PROVE  \E x \in S : \A y \in S : y <= x
<1> DEFINE T == {k \in Nat : n - k \in S}
<1>1. T \in SUBSET Nat
  OBVIOUS
<1>2. \A i \in S : n - i \in Nat /\ n - (n - i) = i
  OBVIOUS
<1>3. \A i \in S : n - i \in T
  BY <1>2
<1>4. PICK t \in T : \A u \in T : t <= u
  <2> HIDE DEF T
  <2> QED BY <1>1, <1>3, LeastElement
<1>5. n - t \in S /\ t \in Nat
  BY <1>4
<1>6. \A y \in S : y <= n - t
  <2> HIDE DEF T
  <2> QED BY <1>1, <1>3, <1>4, <1>5
<1> QED
  BY <1>5, <1>6

\* Of what is measured, and not without end, there is a greatest.
LEMMA GreatestOf ==
  ASSUME NEW D, D # {}, NEW n \in Nat, NEW f \in [D -> 0..n]
  PROVE  \E x \in D : \A y \in D : f[y] <= f[x]
<1> DEFINE S == {k \in 1..n + 1 : \E x \in D : f[x] = k - 1}
<1>1. n + 1 \in Nat /\ S \in SUBSET (1..n + 1)
  OBVIOUS
<1>2. ASSUME NEW x \in D PROVE f[x] + 1 \in S
  <2>1. f[x] \in 0..n
    OBVIOUS
  <2>2. f[x] + 1 \in 1..n + 1 /\ f[x] = (f[x] + 1) - 1
    BY <2>1
  <2> QED BY <2>2
<1>3. PICK k \in S : \A j \in S : j <= k
  <2>1. S # {}
    BY <1>2
  <2> HIDE DEF S
  <2> QED BY <1>1, <2>1, GreatestElement
<1>4. PICK x \in D : f[x] = k - 1
  BY <1>3
<1>5. ASSUME NEW y \in D PROVE f[y] <= f[x]
  <2>1. f[y] + 1 <= k
    <3> HIDE DEF S
    <3> QED BY <1>2, <1>3
  <2>2. f[y] \in 0..n /\ k \in 1..n + 1
    OBVIOUS
  <2> QED BY <1>4, <2>1, <2>2
<1> QED
  BY <1>5

LEMMA LeastIs ==
  ASSUME NEW S \in SUBSET Nat, S # {}
  PROVE  Least(S) \in S /\ \A y \in S : Least(S) <= y
BY LeastElement DEF Least

\* Of a sequence of lines, where a name is.
LEMMA AtType ==
  ASSUME NEW ls \in Seq(AnyLine), NEW n
  PROVE  At(ls, n) \in SUBSET (1..Len(ls)) /\ At(ls, n) \in SUBSET Nat
BY LenProperties DEF At

LEMMA GetType ==
  ASSUME NEW ls \in Seq(AnyLine), NEW n
  PROVE  Get(ls, n) \in Value
<1>1. CASE At(ls, n) = {}
  BY <1>1 DEF Get, Value
<1>2. CASE At(ls, n) # {}
  <2>1. Len(ls) \in Nat
    BY LenProperties
  <2>2. \E x \in At(ls, n) : \A y \in At(ls, n) : y <= x
    BY <1>2, <2>1, AtType, GreatestElement
  <2>3. PICK i : i = (CHOOSE x \in At(ls, n) : \A y \in At(ls, n) : y <= x)
    OBVIOUS
  <2>4. i \in At(ls, n)
    BY <2>2, <2>3
  <2>5. ls[i] \in AnyLine
    BY <2>4, AtType, ElementOfSeq
  <2>6. Get(ls, n) = ls[i].value
    BY <1>2, <2>3 DEF Get
  <2> QED
    BY <2>5, <2>6 DEF AnyLine
<1> QED
  BY <1>1, <1>2

\* What is at the one place of a name is what is read.
LEMMA GetTidy ==
  ASSUME NEW ls, NEW n, NEW i \in DOMAIN ls, ls[i].key = n, \A k \in DOMAIN ls : ls[k].key = n => k = i, i \in Nat
  PROVE  Get(ls, n) = ls[i].value
<1>1. At(ls, n) = {i}
  BY DEF At
<1>2. i = CHOOSE x \in At(ls, n) : \A y \in At(ls, n) : y <= x
  BY <1>1
<1> QED
  BY <1>1, <1>2 DEF Get

LEMMA WithSetDoes ==
  ASSUME NEW ls \in Seq(AnyLine), NEW n \in Value, NEW v \in Value, Tidy(ls)
  PROVE  Tidy(WithSet(ls, n, v)) /\ Get(WithSet(ls, n, v), n) = v
<1> DEFINE new == WithSet(ls, n, v)
<1>0. Line(n, v) \in AnyLine /\ Line(n, v).key = n /\ Line(n, v).value = v
  BY DEF Line, AnyLine
<1>a. Len(ls) \in Nat /\ DOMAIN ls = 1..Len(ls)
  BY LenProperties
<1>1. CASE At(ls, n) = {}
  <2>1. new = Append(ls, Line(n, v))
    BY <1>1 DEF WithSet
  <2>2. /\ Len(new) = Len(ls) + 1 /\ DOMAIN new = 1..(Len(ls) + 1)
        /\ \A k \in 1..Len(ls) : new[k] = ls[k]
        /\ new[Len(ls) + 1] = Line(n, v)
    <3> HIDE DEF new
    <3>1. new \in Seq(AnyLine)
      BY <2>1, <1>0, AppendProperties
    <3> QED BY <2>1, <1>0, <1>a, <3>1, AppendProperties, LenProperties
  <2>3. \A k \in 1..Len(ls) : ls[k].key # n
    BY <1>1, <1>a DEF At
  <2>4. Tidy(new)
    <3> HIDE DEF new
    <3> QED BY <2>2, <2>3, <1>0, <1>a DEF Tidy
  <2>5. Get(new, n) = new[Len(ls) + 1].value
    <3> HIDE DEF new
    <3>1. Len(ls) + 1 \in DOMAIN new /\ new[Len(ls) + 1].key = n /\ Len(ls) + 1 \in Nat
      BY <2>2, <1>0, <1>a
    <3>2. \A k \in DOMAIN new : new[k].key = n => k = Len(ls) + 1
      BY <2>2, <2>3, <1>a
    <3> QED BY <3>1, <3>2, GetTidy
  <2> QED
    BY <2>2, <2>4, <2>5, <1>0
<1>2. CASE At(ls, n) # {}
  <2>1. PICK i : i = Least(At(ls, n))
    OBVIOUS
  <2>2. i \in At(ls, n)
    BY <1>2, <2>1, AtType, LeastIs
  <2>3. i \in DOMAIN ls /\ ls[i].key = n /\ i \in Nat /\ ls[i] \in AnyLine
    BY <2>2, AtType, ElementOfSeq DEF At
  <2>4. new = [ls EXCEPT ![i] = [ls[i] EXCEPT !.value = v]]
    BY <1>2, <2>1 DEF WithSet
  <2>5. [ls[i] EXCEPT !.value = v] = [key |-> n, value |-> v]
    BY <2>3 DEF AnyLine
  <2>6. DOMAIN new = DOMAIN ls /\ new[i] = [key |-> n, value |-> v]
        /\ \A k \in DOMAIN ls : k # i => new[k] = ls[k]
    <3> HIDE DEF new
    <3> QED BY <2>3, <2>4, <2>5
  <2>7. \A k \in DOMAIN ls : new[k].key = ls[k].key
    <3> HIDE DEF new
    <3> QED BY <2>6, <2>3
  <2>8. Tidy(new)
    <3> HIDE DEF new
    <3> QED BY <2>6, <2>7 DEF Tidy
  <2>9. Get(new, n) = new[i].value
    <3> HIDE DEF new
    <3>1. i \in DOMAIN new /\ new[i].key = n
      BY <2>6, <2>3
    <3>2. \A k \in DOMAIN new : new[k].key = n => k = i
      BY <2>8, <3>1 DEF Tidy
    <3> QED BY <3>1, <3>2, <2>3, GetTidy
  <2> QED
    BY <2>6, <2>8, <2>9
<1> QED
  BY <1>1, <1>2

LEMMA WithSetType ==
  ASSUME NEW ls \in Seq(AnyLine), NEW n \in Value, NEW v \in Value
  PROVE  WithSet(ls, n, v) \in Seq(AnyLine)
<1>1. CASE At(ls, n) = {}
  <2>1. Line(n, v) \in AnyLine
    BY DEF Line, AnyLine
  <2> QED
    BY <1>1, <2>1, AppendProperties DEF WithSet
<1>2. CASE At(ls, n) # {}
  <2>1. PICK i : i = Least(At(ls, n))
    OBVIOUS
  <2>2. i \in 1..Len(ls)
    BY <1>2, <2>1, AtType, LeastIs
  <2>3. ls[i] \in AnyLine
    BY <2>2, ElementOfSeq
  <2>4. [ls[i] EXCEPT !.value = v] \in AnyLine
    BY <2>3 DEF AnyLine
  <2>5. WithSet(ls, n, v) = [ls EXCEPT ![i] = [ls[i] EXCEPT !.value = v]]
    BY <1>2, <2>1 DEF WithSet
  <2> QED
    BY <2>2, <2>4, <2>5, ExceptSeq
<1> QED
  BY <1>1, <1>2

\* A name is taken out, and nothing comes in twice.
LEMMA WithDeleteDoes ==
  ASSUME NEW ls \in Seq(AnyLine), NEW n
  PROVE  /\ WithDelete(ls, n) \in Seq(AnyLine)
         /\ Get(WithDelete(ls, n), n) = NotSet
         /\ Tidy(ls) => Tidy(WithDelete(ls, n))
<1> DEFINE L == Len(ls)
           Kept(out, i) == IF ls[i].key = n THEN out[i - 1] ELSE Append(out[i - 1], ls[i])
           Is(out, m) == out = [i \in 0..m |-> IF i = 0 THEN <<>> ELSE Kept(out, i)]
<1>1. L \in Nat /\ DOMAIN ls = 1..L /\ \A i \in 1..L : ls[i] \in AnyLine
  BY LenProperties, ElementOfSeq
<1> HIDE DEF L
<1> DEFINE S == {m \in Nat : \E out : Is(out, m)}
<1>2. S = Nat
  <2>1. 0 \in S
    <3>1. Is([i \in {0} |-> <<>>], 0)
      OBVIOUS
    <3> QED BY <3>1
  <2>2. ASSUME NEW m \in S PROVE m + 1 \in S
    <3>1. PICK f : Is(f, m)
      OBVIOUS
    <3> DEFINE g == [i \in 0..(m + 1) |-> IF i = m + 1 THEN Kept(f, m + 1) ELSE f[i]]
    <3>2. \A i \in 0..m : g[i] = f[i]
      OBVIOUS
    <3>3. \A i \in 1..(m + 1) : Kept(g, i) = Kept(f, i)
      BY <3>2
    <3>4. Is(g, m + 1)
      <4>1. ASSUME NEW i \in 0..(m + 1) PROVE g[i] = IF i = 0 THEN <<>> ELSE Kept(g, i)
        <5>1. CASE i = m + 1
          BY <5>1, <3>3
        <5>2. CASE i # m + 1
          <6>1. i \in 0..m /\ g[i] = f[i]
            BY <5>2, <3>2
          <6>2. f[i] = IF i = 0 THEN <<>> ELSE Kept(f, i)
            BY <3>1, <6>1
          <6>3. i # 0 => i \in 1..(m + 1)
            BY <6>1
          <6> HIDE DEF Kept, g
          <6> QED BY <6>1, <6>2, <6>3, <3>3
        <5> QED BY <5>1, <5>2
      <4> HIDE DEF Kept
      <4> QED BY <4>1
    <3> HIDE DEF Is, g
    <3> QED BY <3>4
  <2> HIDE DEF S
  <2>3. S \in SUBSET Nat
    BY DEF S
  <2> QED BY <2>1, <2>2, <2>3, Induct
<1>3. PICK f : Is(f, L) /\ WithDelete(ls, n) = f[L]
  <2> DEFINE out == CHOOSE o : Is(o, L)
  <2>1. \E o : Is(o, L)
    BY <1>1, <1>2
  <2>2. Is(out, L)
    <3> HIDE DEF Is
    <3> QED BY <2>1
  <2>3. WithDelete(ls, n) = out[L]
    BY DEF WithDelete, L
  <2> HIDE DEF Is, out
  <2> QED BY <2>2, <2>3
<1>4. f[0] = <<>> /\ \A i \in 1..L : f[i] = Kept(f, i)
  <2>1. \A i \in 0..L : f[i] = IF i = 0 THEN <<>> ELSE Kept(f, i)
    <3> HIDE DEF Kept
    <3> QED BY <1>3
  <2>2. 0 \in 0..L /\ \A i \in 1..L : i \in 0..L /\ i # 0
    BY <1>1
  <2> HIDE DEF Kept
  <2> QED BY <2>1, <2>2
\* What is there after i lines is of those, and none of the name.
<1> DEFINE Good(o, i) == /\ o \in Seq(AnyLine)
                         /\ \A k \in 1..Len(o) : o[k].key # n /\ \E j \in 1..i : o[k] = ls[j]
                         /\ Tidy(ls) => Tidy(o)
           T == {i \in Nat : i <= L => Good(f[i], i)}
<1>5. T = Nat
  <2>1. 0 \in T
    <3>1. Good(<<>>, 0)
      BY DEF Tidy
    <3> HIDE DEF Good
    <3> QED BY <3>1, <1>4
  <2>2. ASSUME NEW m \in T PROVE m + 1 \in T
    <3> SUFFICES ASSUME m + 1 <= L PROVE Good(f[m + 1], m + 1)
      OBVIOUS
    <3>1. Good(f[m], m) /\ m \in Nat /\ m + 1 \in 1..L
      <4> HIDE DEF Good
      <4> QED BY <1>1
    <3>2. f[m + 1] = IF ls[m + 1].key = n THEN f[m] ELSE Append(f[m], ls[m + 1])
      BY <3>1, <1>4
    <3>3. CASE ls[m + 1].key = n
      <4>1. f[m + 1] = f[m]
        BY <3>2, <3>3
      <4>2. Good(f[m], m + 1)
        BY <3>1
      <4> HIDE DEF Good
      <4> QED BY <4>1, <4>2
    <3>4. CASE ls[m + 1].key # n
      <4>1. PICK o : o = f[m]
        OBVIOUS
      <4>2. PICK p : p = Append(o, ls[m + 1])
        OBVIOUS
      <4>3. Good(o, m) /\ f[m + 1] = p
        BY <3>1, <3>2, <3>4, <4>1, <4>2
      <4>4. /\ p \in Seq(AnyLine) /\ Len(o) \in Nat /\ Len(p) = Len(o) + 1
            /\ \A k \in 1..Len(o) : p[k] = o[k]
            /\ p[Len(o) + 1] = ls[m + 1]
        BY <4>2, <4>3, <3>1, <1>1, AppendProperties, LenProperties
      <4>5. ASSUME NEW k \in 1..Len(p)
            PROVE  p[k].key # n /\ \E j \in 1..(m + 1) : p[k] = ls[j]
        <5>1. CASE k \in 1..Len(o)
          <6>1. o[k].key # n /\ \E j \in 1..m : o[k] = ls[j]
            BY <4>3, <5>1
          <6>2. \A j \in 1..m : j \in 1..(m + 1)
            BY <3>1
          <6> QED BY <4>4, <5>1, <6>1, <6>2
        <5>2. CASE k = Len(o) + 1
          <6>1. m + 1 \in 1..(m + 1)
            BY <3>1
          <6> QED BY <4>4, <5>2, <6>1, <3>4
        <5> QED BY <4>4, <5>1, <5>2
      <4>6. ASSUME Tidy(ls) PROVE Tidy(p)
        <5>1. \A k \in 1..Len(o) : p[k].key # ls[m + 1].key
          <6> SUFFICES ASSUME NEW k \in 1..Len(o), o[k].key = ls[m + 1].key PROVE FALSE
            BY <4>4
          <6>1. PICK j \in 1..m : o[k] = ls[j]
            BY <4>3
          <6>2. j \in 1..L /\ j # m + 1
            BY <3>1, <1>1
          <6> QED BY <4>6, <6>1, <6>2, <3>1, <1>1 DEF Tidy
        <5>2. DOMAIN p = 1..(Len(o) + 1) /\ DOMAIN o = 1..Len(o)
          BY <4>3, <4>4, LenProperties
        <5>3. Tidy(o)
          BY <4>3, <4>6
        <5> QED BY <5>1, <5>2, <5>3, <4>4 DEF Tidy
      <4>7. Good(p, m + 1)
        BY <4>4, <4>5, <4>6
      <4> HIDE DEF Good
      <4> QED BY <4>3, <4>7
    <3> QED BY <3>3, <3>4
  <2> HIDE DEF T
  <2>3. T \in SUBSET Nat
    BY DEF T
  <2> QED BY <2>1, <2>2, <2>3, Induct
<1>6. Good(f[L], L)
  <2> HIDE DEF Good
  <2> QED BY <1>1, <1>5
<1>7. At(f[L], n) = {}
  BY <1>6, LenProperties DEF At
<1> QED
  BY <1>3, <1>6, <1>7 DEF Get

-----------------------------------------------------------------------------
(* What is found of a name *)

LEMMA HeldFacts ==
  ASSUME held \in Situations
  PROVE  /\ held.file \in [ScopeNames -> Seq(Lines)]
         /\ DOMAIN held.chain = ScopeNames
         /\ \A s \in ScopeNames : held.chain[s] \in [DOMAIN held.chain[s] -> STRING]
         /\ \A s \in ScopeNames : Names \cup {j.name : j \in Jobs} \subseteq DOMAIN held.chain[s]
         /\ \A n \in DOMAIN held.env : held.env[n] \in STRING
         /\ held.project \in BOOLEAN
BY CredentialsAssumption

LEMMA ScopesFact ==
  ASSUME held \in Situations
  PROVE  /\ Scopes(held) \in Seq(ScopeNames) /\ Len(Scopes(held)) \in {2, 3}
         /\ DOMAIN Scopes(held) = 1..Len(Scopes(held))
         /\ \A i \in 1..Len(Scopes(held)) : Scopes(held)[i] \in ScopeNames
         /\ \A n : ScopeForName(held, n) \in ScopeNames
<1>1. CASE held.project
  <2>1. Scopes(held) = <<"project", "org", "global">>
    BY <1>1 DEF Scopes
  <2> QED BY <2>1 DEF ScopeNames, ScopeForName, ToSet, Last
<1>2. CASE ~held.project
  <2>1. Scopes(held) = <<"org", "global">>
    BY <1>2 DEF Scopes
  <2> QED BY <2>1 DEF ScopeNames, ScopeForName, ToSet, Last
<1> QED
  BY <1>1, <1>2

LEMMA NamesFact ==
  /\ Len(Alternatives) \in Nat \ {0} /\ DOMAIN Alternatives = 1..Len(Alternatives)
  /\ \A i \in 1..Len(Alternatives) : Alternatives[i] \in Names
  /\ \A n \in Names : \E i \in 1..Len(Alternatives) : n = Alternatives[i]
  /\ Names \subseteq STRING
<1>1. Alternatives \in Seq(STRING) /\ Alternatives # <<>>
  BY CredentialsAssumption
<1> QED
  BY <1>1, LenProperties, EmptySeq, ElementOfSeq DEF Names, ToSet

LEMMA ScopeValue ==
  ASSUME StoresType, NEW s \in ScopeNames, NEW n
  PROVE  /\ LookupFile(s, n) \in Value
         /\ n \in DOMAIN held.chain[s] => ResolveScope(held, s, n) \in Value
<1>1. LookupFile(s, n) \in Value
  BY GetType DEF StoresType, LookupFile
<1>2. n \in DOMAIN held.chain[s] => LookupKeychain(held, s, n) \in Value
  BY DEF StoresType, LookupKeychain, Value
<1> QED
  BY <1>1, <1>2 DEF ResolveScope

LEMMA ResolveValue ==
  ASSUME StoresType, NEW n, \A s \in ScopeNames : n \in DOMAIN held.chain[s]
  PROVE  ResolveName(held, n) \in Value
<1>1. CASE ScopesWith(held, n) = {}
  <2>1. FromEnv(held, n) \in Value
    BY HeldFacts DEF FromEnv, Value, StoresType
  <2> QED BY <1>1, <2>1 DEF ResolveName
<1>2. CASE ScopesWith(held, n) # {}
  <2>1. ScopesWith(held, n) \subseteq 1..Len(Scopes(held)) /\ Len(Scopes(held)) \in Nat
    BY ScopesFact DEF ScopesWith, StoresType
  <2>2. Least(ScopesWith(held, n)) \in 1..Len(Scopes(held))
    BY <1>2, <2>1, LeastIs
  <2>3. Scopes(held)[Least(ScopesWith(held, n))] \in ScopeNames
    BY <2>2, ScopesFact DEF StoresType
  <2> QED BY <1>2, <2>3, ScopeValue DEF ResolveName
<1> QED
  BY <1>1, <1>2

\* Looking scope by scope, the first that has a value is the one of ResolveName.
LEMMA FirstScope ==
  ASSUME held \in Situations, NEW n, NEW k \in 1..Len(Scopes(held)),
         ResolveScope(held, Scopes(held)[k], n) # NotSet,
         \A j \in 1..k - 1 : ResolveScope(held, Scopes(held)[j], n) = NotSet
  PROVE  Hit(n) = [value |-> ResolveScope(held, Scopes(held)[k], n), tier |-> "store"]
<1>1. Len(Scopes(held)) \in Nat /\ DOMAIN Scopes(held) = 1..Len(Scopes(held))
  BY ScopesFact
<1>2. k \in ScopesWith(held, n) /\ ScopesWith(held, n) \in SUBSET Nat
  BY <1>1 DEF ScopesWith
<1>3. \A j \in ScopesWith(held, n) : j \in 1..Len(Scopes(held)) /\ j \notin 1..k - 1
  BY <1>1 DEF ScopesWith
<1>4. Least(ScopesWith(held, n)) = k
  <2>1. Least(ScopesWith(held, n)) \in ScopesWith(held, n) /\ Least(ScopesWith(held, n)) <= k
    BY <1>2, LeastIs
  <2> QED BY <2>1, <1>1, <1>3
<1>5. ResolveName(held, n) = ResolveScope(held, Scopes(held)[k], n)
  BY <1>2, <1>4 DEF ResolveName
<1> QED
  BY <1>2, <1>5 DEF Hit

\* And when none has, it is what the environment has.
LEMMA NoScope ==
  ASSUME held \in Situations, NEW n,
         \A j \in 1..Len(Scopes(held)) : ResolveScope(held, Scopes(held)[j], n) = NotSet
  PROVE  Hit(n) = IF FromEnv(held, n) = NotSet THEN Missed ELSE [value |-> FromEnv(held, n), tier |-> "env"]
<1>1. ScopesWith(held, n) = {}
  BY ScopesFact DEF ScopesWith
<1> QED
  BY <1>1 DEF Hit

-----------------------------------------------------------------------------
(* What the agent gets of it *)

LEMMA TierFact ==
  ASSUME NEW known, NEW tier
  PROVE  /\ Tier(known, tier) \in SUBSET (1..Len(Alternatives)) /\ Tier(known, tier) \in SUBSET Nat
         /\ \A i \in 1..Len(Alternatives) : i \in Tier(known, tier) <=> known[Alternatives[i]].tier = tier
BY NamesFact DEF Tier

\* The one that wins, and what is in its place.
LEMMA WonSees ==
  ASSUME NEW known, NEW won \in 1..Len(Alternatives), NEW w, w = Alternatives[won]
  PROVE  /\ w \in Names
         /\ Sees(held, Won(held, known, won))[w] = IF known[w].value = Blank THEN NotSet ELSE known[w].value
         /\ Unconfigured => \A n \in Names : n # w => Sees(held, Won(held, known, won))[n] = NotSet
<1> DEFINE others == {n \in Names \ {w} : FromEnv(held, n) # NotSet}
           iso == [n \in others \cup {w} |-> IF n = w THEN known[w].value ELSE Blank]
           ac == Over(iso, held.agentEnv)
           d == Over(ac, held.extraEnv)
<1>1. w \in Names
  BY NamesFact
<1>2. Won(held, known, won) = ac
  BY DEF Won
<1>3. /\ DOMAIN ac = DOMAIN iso \cup DOMAIN held.agentEnv
      /\ \A n \in DOMAIN iso : ac[n] = iso[n]
  <2> HIDE DEF iso
  <2> QED BY DEF Over
<1>4. DOMAIN iso = others \cup {w} /\ iso[w] = known[w].value /\ \A n \in others : n # w /\ iso[n] = Blank
  <2>1. \A n \in others : n # w
    OBVIOUS
  <2> HIDE DEF others
  <2> QED BY <2>1
<1>5. w \in DOMAIN ac /\ ac[w] = known[w].value
  BY <1>3, <1>4
<1>6. ContainerEnv(held, ac) = d
  BY DEF ContainerEnv
<1>7. /\ DOMAIN d = DOMAIN ac \cup DOMAIN held.extraEnv
      /\ \A n \in DOMAIN ac : d[n] = ac[n]
  <2> HIDE DEF ac
  <2> QED BY DEF Over
<1>8. Unconfigured =>
        /\ DOMAIN ac = others \cup {w}
        /\ held.container => DOMAIN d = others \cup {w}
  <2> HIDE DEF ac, d, iso, others
  <2> QED BY <1>3, <1>4, <1>7 DEF Unconfigured
<1>9. CASE ~held.container
  <2>1. Sees(held, ac) = [n \in Names |-> IF n \notin DOMAIN ac THEN FromEnv(held, n)
                                          ELSE IF ac[n] = Blank THEN NotSet ELSE ac[n]]
    BY <1>9 DEF Sees, ProcessEnv
  <2>2. Sees(held, ac)[w] = IF known[w].value = Blank THEN NotSet ELSE known[w].value
    <3> HIDE DEF ac
    <3> QED BY <2>1, <1>1, <1>5
  <2>3. ASSUME Unconfigured, NEW n \in Names, n # w PROVE Sees(held, ac)[n] = NotSet
    <3>1. CASE n \in others
      <4>1. n \in DOMAIN ac /\ ac[n] = Blank
        BY <3>1, <1>3, <1>4
      <4> HIDE DEF ac, others
      <4> QED BY <4>1, <2>1
    <3>2. CASE n \notin others
      <4>1. n \notin DOMAIN ac
        <5> HIDE DEF ac, others
        <5> QED BY <3>2, <1>8, <2>3
      <4>2. FromEnv(held, n) = NotSet
        BY <3>2, <2>3
      <4> HIDE DEF ac, others
      <4> QED BY <4>1, <4>2, <2>1
    <3> QED BY <3>1, <3>2
  <2> HIDE DEF ac
  <2> QED BY <1>1, <1>2, <2>2, <2>3
<1>10. CASE held.container
  <2>1. Sees(held, ac) = [n \in Names |-> IF n \in DOMAIN d \/ n \in held.forward THEN StagedEnv(held, d, n)
                                          ELSE NotSet]
    BY <1>10, <1>6 DEF Sees, BoxEnv
  <2>2. w \in DOMAIN d /\ d[w] = known[w].value
    <3> HIDE DEF ac, d
    <3> QED BY <1>5, <1>7
  <2>3. Sees(held, ac)[w] = IF known[w].value = Blank THEN NotSet ELSE known[w].value
    <3>1. Sees(held, ac)[w] = StagedEnv(held, d, w)
      <4> HIDE DEF ac, d
      <4> QED BY <2>1, <1>1, <2>2
    <3> HIDE DEF ac, d
    <3> QED BY <3>1, <2>2 DEF StagedEnv
  <2>4. ASSUME Unconfigured, NEW n \in Names, n # w PROVE Sees(held, ac)[n] = NotSet
    <3>1. Sees(held, ac)[n] = IF n \in DOMAIN d \/ n \in held.forward THEN StagedEnv(held, d, n) ELSE NotSet
      <4> HIDE DEF ac, d
      <4> QED BY <2>1
    <3>2. CASE n \in others
      <4>1. n \in DOMAIN d /\ d[n] = Blank
        <5>1. n \in DOMAIN ac /\ ac[n] = Blank
          BY <3>2, <1>3, <1>4
        <5> HIDE DEF ac, d
        <5> QED BY <5>1, <1>7
      <4>2. StagedEnv(held, d, n) = NotSet
        <5> HIDE DEF ac, d
        <5> QED BY <4>1 DEF StagedEnv
      <4> HIDE DEF ac, d
      <4> QED BY <4>1, <4>2, <3>1
    <3>3. CASE n \notin others
      <4>1. n \notin DOMAIN d
        <5> HIDE DEF ac, d, others
        <5> QED BY <3>3, <1>8, <1>10, <2>4
      <4>2. FromEnv(held, n) = NotSet
        BY <3>3, <2>4
      <4>3. StagedEnv(held, d, n) = NotSet
        <5> HIDE DEF ac, d
        <5> QED BY <4>1, <4>2 DEF StagedEnv
      <4> HIDE DEF ac, d
      <4> QED BY <4>3, <3>1
    <3> QED BY <3>2, <3>3
  <2> HIDE DEF ac, d
  <2> QED BY <1>1, <1>2, <2>3, <2>4
<1> QED
  BY <1>9, <1>10

\* When nothing is found nothing is shown, of what is not configured by hand.
LEMMA NoneSees ==
  ASSUME Unconfigured, \A n \in Names : FromEnv(held, n) = NotSet
  PROVE  \A n \in Names : Sees(held, held.agentEnv)[n] = NotSet
<1>1. DOMAIN held.agentEnv = {}
  BY DEF Unconfigured
<1>2. CASE ~held.container
  BY <1>1, <1>2 DEF Sees, ProcessEnv
<1>3. CASE held.container
  <2> DEFINE d == ContainerEnv(held, held.agentEnv)
  <2>1. DOMAIN d = {}
    BY <1>1, <1>3 DEF Unconfigured, ContainerEnv, Over
  <2>2. \A n \in Names : StagedEnv(held, d, n) = NotSet
    <3> HIDE DEF d
    <3> QED BY <2>1 DEF StagedEnv
  <2>3. Sees(held, held.agentEnv) = BoxEnv(held, d)
    BY <1>3 DEF Sees
  <2> HIDE DEF d
  <2> QED BY <2>2, <2>3 DEF BoxEnv
<1> QED
  BY <1>2, <1>3

\* Of names that are each known of, one is given at most.
LEMMA OneIsGiven ==
  ASSUME RunType, FoundSoFar
  PROVE  OneCredential
<1> SUFFICES ASSUME Started, held.project, Unconfigured
             PROVE  /\ Cardinality(Shown) <= 1
                    /\ \A n \in Shown : run.found[n].value = run.sees[n]
  BY DEF OneCredential
<1>1. /\ \A n \in Names : FoundHow(run.found, n)
      /\ run.sees = Sees(held, Isolate(held, run.found))
  BY DEF FoundSoFar
<1> DEFINE stored == Tier(run.found, "store")
           exported == Tier(run.found, "env")
           hits == IF stored # {} THEN stored ELSE exported
<1>2. hits \in SUBSET (1..Len(Alternatives)) /\ hits \in SUBSET Nat
  BY TierFact
<1>3. Isolate(held, run.found) = IF hits = {} THEN held.agentEnv ELSE Won(held, run.found, Least(hits))
  BY DEF Isolate
<1>4. CASE hits = {}
  <2>1. \A n \in Names : FromEnv(held, n) = NotSet
    <3> SUFFICES ASSUME NEW n \in Names PROVE FromEnv(held, n) = NotSet
      OBVIOUS
    <3>1. PICK i \in 1..Len(Alternatives) : n = Alternatives[i]
      BY NamesFact
    <3>2. i \notin stored /\ i \notin exported
      BY <1>4
    <3>3. run.found[n].tier # "store" /\ run.found[n].tier # "env"
      BY <3>1, <3>2, TierFact
    <3> QED BY <3>3, <1>1 DEF FoundHow
  <2>2. Shown = {}
    BY <1>1, <1>3, <1>4, <2>1, NoneSees DEF Shown
  <2> QED BY <2>2, FS_EmptySet
<1>5. CASE hits # {}
  <2>1. PICK won : won = Least(hits)
    OBVIOUS
  <2>2. won \in 1..Len(Alternatives)
    <3> HIDE DEF hits
    <3> QED BY <1>2, <1>5, <2>1, LeastIs
  <2>3. PICK w : w = Alternatives[won]
    OBVIOUS
  <2>4. run.sees = Sees(held, Won(held, run.found, won))
    <3> HIDE DEF hits
    <3> QED BY <1>1, <1>3, <1>5, <2>1
  <2>5. /\ run.sees[w] = IF run.found[w].value = Blank THEN NotSet ELSE run.found[w].value
        /\ \A n \in Names : n # w => run.sees[n] = NotSet
    BY <2>2, <2>3, <2>4, WonSees
  <2>6. Shown \subseteq {w}
    BY <2>5 DEF Shown
  <2>7. Cardinality(Shown) <= 1
    <3>1. Shown = {} \/ Shown = {w}
      BY <2>6
    <3>2. Cardinality({}) = 0 /\ Cardinality({w}) = 1
      BY FS_EmptySet, FS_Singleton
    <3> QED BY <3>1, <3>2
  <2>8. \A n \in Shown : run.found[n].value = run.sees[n]
    BY <2>5, <2>6 DEF Shown
  <2> QED BY <2>7, <2>8
<1> QED
  BY <1>4, <1>5

\* When each is what there is, the one of Best is given.
LEMMA BestIsGiven ==
  ASSUME held \in Situations, NEW known, DOMAIN known = Names,
         \A i \in 1..Len(Alternatives) : known[Alternatives[i]] = Hit(Alternatives[i]),
         Best(held) # 0
  PROVE  LET n == Alternatives[Best(held)]
         IN /\ known[n] # Missed
            /\ Sees(held, Isolate(held, known))[n] = IF known[n].value = Blank THEN NotSet ELSE known[n].value
<1> DEFINE N == 1..Len(Alternatives)
           stored == {i \in DOMAIN Alternatives : ScopesWith(held, Alternatives[i]) # {}}
           exported == {i \in DOMAIN Alternatives : FromEnv(held, Alternatives[i]) # NotSet}
           tier == IF stored # {} THEN stored ELSE exported
           hits == IF Tier(known, "store") # {} THEN Tier(known, "store") ELSE Tier(known, "env")
<1>1. \A i \in N : known[Alternatives[i]].tier = IF ScopesWith(held, Alternatives[i]) # {} THEN "store"
                     ELSE IF FromEnv(held, Alternatives[i]) = NotSet THEN "none" ELSE "env"
  <2>1. ASSUME NEW n
        PROVE  Hit(n).tier = IF ScopesWith(held, n) # {} THEN "store"
                             ELSE IF FromEnv(held, n) = NotSet THEN "none" ELSE "env"
    BY DEF Hit, Missed
  <2> QED BY <2>1
<1>2. Tier(known, "store") = stored
  BY <1>1, NamesFact DEF Tier
<1>3. stored = {} => Tier(known, "env") = exported
  BY <1>1, NamesFact DEF Tier
<1>4. hits = tier
  <2> HIDE DEF stored, exported
  <2> QED BY <1>2, <1>3
<1>5. Best(held) = IF tier = {} THEN 0 ELSE Least(tier)
  BY DEF Best
<1>6. tier \in SUBSET N /\ tier \in SUBSET Nat
  <2>1. DOMAIN Alternatives = N /\ N \in SUBSET Nat
    BY NamesFact
  <2>2. tier \in SUBSET DOMAIN Alternatives
    OBVIOUS
  <2> HIDE DEF tier
  <2> QED BY <2>1, <2>2
<1>7. tier # {} /\ Best(held) = Least(tier)
  <2> HIDE DEF tier
  <2> QED BY <1>5
<1>8. Best(held) \in tier /\ Best(held) \in N
  <2> HIDE DEF tier
  <2> QED BY <1>6, <1>7, LeastIs
<1>9. Isolate(held, known) = Won(held, known, Best(held))
  <2>1. Isolate(held, known) = IF hits = {} THEN held.agentEnv ELSE Won(held, known, Least(hits))
    BY DEF Isolate
  <2> HIDE DEF tier, hits
  <2> QED BY <2>1, <1>4, <1>7
<1>10. PICK n : n = Alternatives[Best(held)]
  OBVIOUS
<1>11. known[n] # Missed
  <2>1. known[n].tier # "none"
    BY <1>1, <1>8, <1>10
  <2> QED BY <2>1 DEF Missed
<1>12. Sees(held, Won(held, known, Best(held)))[n] = IF known[n].value = Blank THEN NotSet ELSE known[n].value
  BY <1>8, <1>10, WonSees
<1> QED
  BY <1>9, <1>10, <1>11, <1>12

\* There is a best one exactly when a name is to be found.
LEMMA BestIs ==
  /\ Best(held) # 0 => \E i \in 1..Len(Alternatives) : Hit(Alternatives[i]) # Missed
  /\ (\E i \in 1..Len(Alternatives) : Hit(Alternatives[i]) # Missed) => Best(held) # 0
<1> DEFINE stored == {i \in DOMAIN Alternatives : ScopesWith(held, Alternatives[i]) # {}}
           exported == {i \in DOMAIN Alternatives : FromEnv(held, Alternatives[i]) # NotSet}
           tier == IF stored # {} THEN stored ELSE exported
<1>1. Best(held) = IF tier = {} THEN 0 ELSE Least(tier)
  BY DEF Best
<1>2. tier \in SUBSET Nat /\ 0 \notin tier
  <2>1. DOMAIN Alternatives \in SUBSET Nat /\ 0 \notin DOMAIN Alternatives
    BY NamesFact
  <2>2. tier \in SUBSET DOMAIN Alternatives
    OBVIOUS
  <2> HIDE DEF tier
  <2> QED BY <2>1, <2>2
<1>3. \A n : Hit(n) # Missed <=> (ScopesWith(held, n) # {} \/ FromEnv(held, n) # NotSet)
  BY DEF Hit, Missed
<1>4. tier # {} <=> \E i \in 1..Len(Alternatives) : Hit(Alternatives[i]) # Missed
  BY <1>3, NamesFact
<1>5. tier # {} => Least(tier) # 0
  <2> HIDE DEF tier
  <2> QED BY <1>2, LeastIs
<1> QED
  <2> HIDE DEF tier
  <2> QED BY <1>1, <1>4, <1>5

-----------------------------------------------------------------------------
(* What a step leaves as it was *)

LEMMA HitFrame ==
  ASSUME UNCHANGED <<held, file, chain>>
  PROVE  /\ \A s, n : ResolveScope(held, s, n)' = ResolveScope(held, s, n)
         /\ Scopes(held)' = Scopes(held)
         /\ \A n : FromEnv(held, n)' = FromEnv(held, n)
         /\ \A n : Hit(n)' = Hit(n)
         /\ Best(held)' = Best(held)
<1>1. \A s, n : LookupFile(s, n)' = LookupFile(s, n)
  BY DEF LookupFile, Get, At
<1>2. \A s, n : LookupKeychain(held, s, n)' = LookupKeychain(held, s, n)
  BY DEF LookupKeychain
<1>3. \A s, n : ResolveScope(held, s, n)' = ResolveScope(held, s, n)
  BY <1>1, <1>2 DEF ResolveScope
<1>4. Scopes(held)' = Scopes(held)
  BY DEF Scopes
<1>5. \A n : FromEnv(held, n)' = FromEnv(held, n)
  BY DEF FromEnv
<1>6. \A n : ScopesWith(held, n)' = ScopesWith(held, n)
  <2> SUFFICES ASSUME NEW n PROVE ScopesWith(held, n)' = ScopesWith(held, n)
    OBVIOUS
  <2>1. ScopesWith(held, n)' = {i \in DOMAIN Scopes(held)' : ResolveScope(held, Scopes(held)[i], n)' # NotSet}
    BY DEF ScopesWith
  <2>2. \A i : ResolveScope(held, Scopes(held)[i], n)' = ResolveScope(held, Scopes(held)[i], n)
    <3> SUFFICES ASSUME NEW i PROVE ResolveScope(held, Scopes(held)[i], n)' = ResolveScope(held, Scopes(held)[i], n)
      OBVIOUS
    <3>1. LookupFile(Scopes(held)[i], n)' = LookupFile(Scopes(held)[i], n)
      BY DEF LookupFile, Get, At, Scopes
    <3>2. LookupKeychain(held, Scopes(held)[i], n)' = LookupKeychain(held, Scopes(held)[i], n)
      BY DEF LookupKeychain, Scopes
    <3> QED BY <3>1, <3>2 DEF ResolveScope
  <2> QED BY <2>1, <2>2, <1>4 DEF ScopesWith
<1>7. \A n : ResolveName(held, n)' = ResolveName(held, n)
  <2> SUFFICES ASSUME NEW n PROVE ResolveName(held, n)' = ResolveName(held, n)
    OBVIOUS
  <2>1. PICK s : s = Scopes(held)[Least(ScopesWith(held, n))]
    OBVIOUS
  <2>2. s = (Scopes(held)[Least(ScopesWith(held, n))])'
    BY <2>1, <1>4, <1>6 DEF Least
  <2>3. ResolveScope(held, s, n)' = ResolveScope(held, s, n)
    BY <1>3
  <2>4. ResolveScope(held, Scopes(held)[Least(ScopesWith(held, n))], n)' = ResolveScope(held, s, n)
    BY <2>2, <2>3 DEF ResolveScope, LookupFile, LookupKeychain, Get, At
  <2> QED BY <2>1, <2>4, <1>5, <1>6 DEF ResolveName
<1>8. \A n : Hit(n)' = Hit(n)
  BY <1>5, <1>6, <1>7 DEF Hit
<1>9. Best(held)' = Best(held)
  <2>1. \A i : /\ ScopesWith(held, Alternatives[i])' = ScopesWith(held, Alternatives[i])
               /\ FromEnv(held, Alternatives[i])' = FromEnv(held, Alternatives[i])
    BY <1>5, <1>6
  <2> DEFINE stored == {i \in DOMAIN Alternatives : ScopesWith(held, Alternatives[i]) # {}}
             exported == {i \in DOMAIN Alternatives : FromEnv(held, Alternatives[i]) # NotSet}
             tier == IF stored # {} THEN stored ELSE exported
  <2>2. stored' = stored /\ exported' = exported
    BY <2>1
  <2>3. Best(held) = IF tier = {} THEN 0 ELSE Least(tier)
    BY DEF Best
  <2>4. Best(held)' = IF tier' = {} THEN 0 ELSE Least(tier')
    BY DEF Best, Least
  <2>5. tier' = tier
    <3> HIDE DEF stored, exported
    <3> QED BY <2>2
  <2> HIDE DEF tier
  <2> QED BY <2>3, <2>4, <2>5
<1> QED
  BY <1>3, <1>4, <1>5, <1>8, <1>9

\* A step of a writer, which does not disturb a run unless it is not alone.
LEMMA WriterFrame ==
  ASSUME CredentialsInv, UNCHANGED <<held, run>>, clean' => clean, Looking => ~clean'
  PROVE  RunType' /\ Undisturbed' /\ FoundSoFar' /\ FindsWhatIs' /\ BestCredential'
<1>1. RunType'
  BY DEF CredentialsInv, RunType, Looking, Scopes
<1>2. Undisturbed' /\ FindsWhatIs'
  BY DEF Undisturbed, FindsWhatIs, Looking
<1>3. FoundSoFar'
  <2>1. \A n : FoundHow(run.found, n)' = FoundHow(run.found, n)
    BY DEF FoundHow, FromEnv
  <2>2. FoundSoFar
    BY DEF CredentialsInv
  <2>3. Sees(held, Isolate(held, run.found))' = Sees(held, Isolate(held, run.found))
    OBVIOUS
  <2> QED BY <2>1, <2>2, <2>3 DEF FoundSoFar, Started
<1>4. BestCredential'
  BY DEF CredentialsInv, BestCredential, Started
<1> QED
  BY <1>1, <1>2, <1>3, <1>4

\* A step of the run.
LEMMA RunFrame ==
  ASSUME CredentialsInv, UNCHANGED <<held, file, chain, wpc, job, lines, latest>>, clean' \in BOOLEAN, clean' => clean
  PROVE  StoresType' /\ AllTidy' /\ Stored'
<1>1. StoresType'
  <2>1. \A w : Able(w)' = Able(w) /\ AtWork(w)' = AtWork(w) /\ InFile(w)' = InFile(w)
    BY DEF Able, AtWork, InFile
  <2> QED BY <2>1 DEF CredentialsInv, StoresType
<1>2. AllTidy'
  BY DEF CredentialsInv, AllTidy, TidyFound, Tidy
<1>3. Stored'
  <2>1. IsRead' = IsRead
    BY DEF IsRead, InFile, LookupFile, LookupKeychain, Get, At
  <2>2. \A w : AtWork(w)' = AtWork(w)
    BY DEF AtWork
  <2>3. TidyFound' = TidyFound
    BY DEF TidyFound, Tidy
  <2>4. Stored
    BY DEF CredentialsInv
  <2> QED BY <2>1, <2>2, <2>3, <2>4 DEF Stored
<1> QED
  BY <1>1, <1>2, <1>3

-----------------------------------------------------------------------------
(* The steps of a run *)

\* What is found of the name that is looked for, or that there is nothing.
LEMMA KnownStep ==
  ASSUME CredentialsInv, Looking, UNCHANGED <<held, file, chain, wpc, job, lines, clean, latest>>,
         NEW hit, Known(hit),
         \/ hit.tier = "store"
         \/ /\ hit = [value |-> FromEnv(held, Alternatives[run.alt]), tier |-> "env"]
            /\ hit.tier = "env" /\ FromEnv(held, Alternatives[run.alt]) # NotSet
         \/ hit = Missed /\ FromEnv(held, Alternatives[run.alt]) = NotSet,
         clean => hit = Hit(Alternatives[run.alt])
  PROVE  RunType' /\ Undisturbed' /\ FoundSoFar' /\ FindsWhatIs' /\ BestCredential'
<1> DEFINE n == Alternatives[run.alt]
           known == [run.found EXCEPT ![n] = hit]
           N == Len(Alternatives)
<1>1. /\ DOMAIN run = {"pc", "alt", "scope", "found", "sees", "best"}
      /\ run.alt \in 1..N /\ N \in Nat \ {0} /\ n \in Names
      /\ DOMAIN run.found = Names /\ held.project /\ held \in Situations
      /\ run.pc \in {"validate", "isolate"}
  BY NamesFact DEF CredentialsInv, RunType, Looking, StoresType
<1>2. Scopes(held)' = Scopes(held) /\ Len(Scopes(held)) \in Nat \ {0}
  BY <1>1, ScopesFact DEF Scopes
<1>3. Undisturbed
  BY DEF CredentialsInv
<1>4. \A w : AtWork(w)' = AtWork(w)
  BY DEF AtWork
<1>5. Undisturbed'
  BY <1>3, <1>4 DEF Undisturbed
<1>6. /\ DOMAIN known = Names /\ known[n] = hit
      /\ \A m \in Names : m # n => known[m] = run.found[m]
  BY <1>1
<1>7. FoundHow(known, n)
  BY <1>6 DEF FoundHow
<1>8. \A m \in Names : FoundHow(run.found, m) => FoundHow(known, m)
  BY <1>6, <1>7 DEF FoundHow
<1>9. \A m : FoundHow(run.found, m)' = FoundHow(run'.found, m)
  BY DEF FoundHow, FromEnv
<1>10. /\ \A m : Hit(m)' = Hit(m)
       /\ Best(held)' = Best(held)
       /\ \A s, m : ResolveScope(held, s, m)' = ResolveScope(held, s, m)
  BY HitFrame
<1>11. clean =>
         /\ run.best = Best(held)
         /\ run.pc = "isolate" => /\ \A i \in 1..run.alt - 1 : run.found[Alternatives[i]] = Hit(Alternatives[i])
                                  /\ held.container => run.best # 0
         /\ run.pc = "validate" => /\ \A i \in 1..run.alt - 1 : Hit(Alternatives[i]) = Missed
                                   /\ held.container
  BY DEF CredentialsInv, FindsWhatIs
<1>12. run.pc = "isolate" => \A i \in 1..run.alt - 1 : FoundHow(run.found, Alternatives[i])
  BY DEF CredentialsInv, FoundSoFar
<1>13. CASE run.pc = "validate" /\ hit # Missed
  <2>1. run' = [run EXCEPT !.pc = "isolate", !.alt = 1, !.scope = 1]
    BY <1>13 DEF Known
  <2>2. /\ DOMAIN run' = DOMAIN run /\ run'.pc = "isolate" /\ run'.alt = 1 /\ run'.scope = 1
        /\ run'.found = run.found /\ run'.best = run.best
    BY <2>1, <1>1
  <2>3. RunType'
    BY <2>2, <1>1, <1>2 DEF RunType, Looking
  <2>4. FoundSoFar'
    BY <2>2 DEF FoundSoFar, Started
  <2>5. clean => run.best # 0
    BY <1>11, <1>13, <1>1, BestIs
  <2>6. FindsWhatIs'
    BY <2>2, <2>5, <1>10, <1>11 DEF FindsWhatIs
  <2>7. BestCredential'
    BY <2>2 DEF BestCredential
  <2> QED BY <1>5, <2>3, <2>4, <2>6, <2>7
<1>14. CASE run.pc = "validate" /\ hit = Missed /\ run.alt = N
  <2>1. run' = [run EXCEPT !.pc = "refused"]
    BY <1>14 DEF Known
  <2>2. /\ DOMAIN run' = DOMAIN run /\ run'.pc = "refused" /\ run'.alt = run.alt /\ run'.scope = run.scope
        /\ run'.found = run.found /\ run'.best = run.best
    BY <2>1, <1>1
  <2>3. RunType'
    <3>1. run.scope \in 1..Len(Scopes(held)) + 1
      BY DEF CredentialsInv, RunType
    <3> QED BY <2>2, <3>1, <1>1, <1>2 DEF RunType, Looking
  <2>4. FoundSoFar'
    BY <2>2 DEF FoundSoFar, Started
  <2>5. FindsWhatIs'
    BY <2>2 DEF FindsWhatIs, Looking
  <2>6. clean => run.best = 0
    <3> SUFFICES ASSUME clean PROVE run.best = 0
      OBVIOUS
    <3>1. \A i \in 1..N : i \in 1..run.alt - 1 \/ i = run.alt
      BY <1>14, <1>1
    <3>2. \A i \in 1..N : Hit(Alternatives[i]) = Missed
      <4> HIDE DEF N
      <4> QED BY <3>1, <1>11, <1>14
    <3> QED BY <3>2, <1>11, BestIs
  <2>7. BestCredential'
    BY <2>2, <2>6 DEF BestCredential
  <2> QED BY <1>5, <2>3, <2>4, <2>5, <2>7
<1>15. CASE run.pc = "isolate" /\ run.alt = N
  <2>1. run' = [run EXCEPT !.pc = "running", !.found = known, !.sees = Sees(held, Isolate(held, known))]
    BY <1>15 DEF Known
  <2>2. /\ DOMAIN run' = DOMAIN run /\ run'.pc = "running" /\ run'.alt = run.alt /\ run'.scope = run.scope
        /\ run'.found = known /\ run'.best = run.best /\ run'.sees = Sees(held, Isolate(held, known))
    <3> HIDE DEF known
    <3> QED BY <2>1, <1>1
  <2>3. RunType'
    <3>1. run.scope \in 1..Len(Scopes(held)) + 1
      BY DEF CredentialsInv, RunType
    <3> HIDE DEF known
    <3> QED BY <2>2, <3>1, <1>1, <1>2, <1>6 DEF RunType, Looking
  <2>4. \A i \in 1..N : i \in 1..run.alt - 1 \/ i = run.alt
    BY <1>15, <1>1
  <2>5. \A m \in Names : FoundHow(known, m)
    <3> SUFFICES ASSUME NEW m \in Names PROVE FoundHow(known, m)
      OBVIOUS
    <3>1. PICK i \in 1..N : m = Alternatives[i]
      BY NamesFact
    <3>2. CASE i = run.alt
      BY <3>1, <3>2, <1>7
    <3>3. CASE i \in 1..run.alt - 1
      <4> HIDE DEF known
      <4> QED BY <3>1, <3>3, <1>8, <1>12, <1>15
    <3> QED BY <3>2, <3>3, <2>4
  <2>6. FoundSoFar'
    <3>1. run'.sees = Sees(held, Isolate(held, run'.found))
      BY <2>2
    <3>2. run'.sees = Sees(held, Isolate(held, run.found))'
      BY <3>1
    <3>3. \A m \in Names : FoundHow(run.found, m)'
      BY <1>9, <2>2, <2>5
    <3> HIDE DEF known
    <3> QED BY <2>2, <3>2, <3>3 DEF FoundSoFar, Started
  <2>7. FindsWhatIs'
    BY <2>2 DEF FindsWhatIs, Looking
  <2>8. BestCredential'
    <3>1. CASE ~clean
      BY <3>1 DEF BestCredential
    <3>2. CASE clean
      <4>1. \A i \in 1..N : known[Alternatives[i]] = Hit(Alternatives[i])
        <5> SUFFICES ASSUME NEW i \in 1..N PROVE known[Alternatives[i]] = Hit(Alternatives[i])
          OBVIOUS
        <5>1. Alternatives[i] = n => known[Alternatives[i]] = Hit(Alternatives[i])
          BY <1>6, <3>2
        <5>2. Alternatives[i] # n => known[Alternatives[i]] = run.found[Alternatives[i]]
          <6> HIDE DEF known
          <6> QED BY <1>6, NamesFact
        <5>3. i # run.alt => run.found[Alternatives[i]] = Hit(Alternatives[i])
          BY <1>11, <3>2, <2>4, <1>15
        <5> HIDE DEF known
        <5> QED BY <5>1, <5>2, <5>3
      <4>2. run.best = Best(held) /\ (held.container => run.best # 0)
        BY <1>11, <3>2, <1>15
      <4>3. Best(held) # 0 => LET b == Alternatives[Best(held)]
                              IN /\ known[b] # Missed
                                 /\ Sees(held, Isolate(held, known))[b]
                                      = IF known[b].value = Blank THEN NotSet ELSE known[b].value
        <5> HIDE DEF known
        <5> QED BY <4>1, <1>1, <1>6, BestIsGiven
      <4> HIDE DEF known
      <4> QED BY <4>2, <4>3, <2>2 DEF BestCredential, Started
    <3> QED BY <3>1, <3>2
  <2> QED BY <1>5, <2>3, <2>6, <2>7, <2>8
<1>16. CASE run.alt # N /\ ~(run.pc = "validate" /\ hit # Missed)
  <2>1. run' = [run EXCEPT !.alt = @ + 1, !.scope = 1, !.found = IF run.pc = "validate" THEN @ ELSE known]
    BY <1>16 DEF Known
  <2>2. /\ DOMAIN run' = DOMAIN run /\ run'.pc = run.pc /\ run'.alt = run.alt + 1 /\ run'.scope = 1
        /\ run'.found = IF run.pc = "validate" THEN run.found ELSE known
        /\ run'.best = run.best
    <3> HIDE DEF known
    <3> QED BY <2>1, <1>1
  <2>3. run.alt + 1 \in 1..N /\ \A i \in 1..(run.alt + 1) - 1 : i \in 1..run.alt - 1 \/ i = run.alt
    BY <1>1, <1>16
  <2>4. RunType'
    <3>1. DOMAIN run'.found = Names
      <4> HIDE DEF known
      <4> QED BY <2>2, <1>1, <1>6
    <3> HIDE DEF known
    <3> QED BY <2>2, <2>3, <3>1, <1>1, <1>2 DEF RunType, Looking
  <2>5. FoundSoFar'
    <3>1. run.pc = "isolate" => \A i \in 1..(run.alt + 1) - 1 : FoundHow(known, Alternatives[i])
      <4> SUFFICES ASSUME run.pc = "isolate", NEW i \in 1..(run.alt + 1) - 1
                   PROVE FoundHow(known, Alternatives[i])
        OBVIOUS
      <4>1. i \in 1..N
        BY <2>3, <1>1
      <4>2. CASE i = run.alt
        BY <4>2, <1>7
      <4>3. CASE i \in 1..run.alt - 1
        <5> HIDE DEF known
        <5> QED BY <4>1, <4>3, <1>8, <1>12, NamesFact
      <4> QED BY <4>2, <4>3, <2>3
    <3>2. run'.pc # "running"
      BY <2>2, <1>1
    <3>3. run'.pc = "isolate" => \A i \in 1..run'.alt - 1 : FoundHow(run.found, Alternatives[i])'
      <4>1. run'.pc = "isolate" => run'.found = known /\ run'.alt = run.alt + 1 /\ run.pc = "isolate"
        BY <2>2
      <4> HIDE DEF known
      <4>2. \A i : FoundHow(run.found, Alternatives[i])' = FoundHow(run'.found, Alternatives[i])
        BY DEF FoundHow, FromEnv
      <4> QED BY <4>1, <4>2, <3>1
    <3> QED BY <3>2, <3>3 DEF FoundSoFar, Started
  <2>6. FindsWhatIs'
    <3>1. CASE ~clean
      BY <3>1 DEF FindsWhatIs
    <3>2. CASE clean /\ run.pc = "validate"
      <4>1. \A i \in 1..(run.alt + 1) - 1 : Hit(Alternatives[i]) = Missed
        BY <2>3, <1>11, <1>16, <3>2
      <4>2. run'.found = run.found /\ run'.pc = "validate" /\ run'.alt = run.alt + 1 /\ run'.scope = 1
            /\ run'.best = run.best
        BY <2>2, <3>2
      <4>3. \A i \in 1..run'.alt - 1 : Hit(Alternatives[i])' = Missed
        <5>1. \A i : Hit(Alternatives[i])' = Hit(Alternatives[i])
          BY <1>10
        <5> QED BY <4>1, <4>2, <5>1
      <4>4. held.container /\ run.best = Best(held)
        BY <1>11, <3>2
      <4> QED BY <4>2, <4>3, <4>4, <1>10 DEF FindsWhatIs
    <3>3. CASE clean /\ run.pc = "isolate"
      <4>1. \A i \in 1..(run.alt + 1) - 1 : known[Alternatives[i]] = Hit(Alternatives[i])
        <5> SUFFICES ASSUME NEW i \in 1..(run.alt + 1) - 1 PROVE known[Alternatives[i]] = Hit(Alternatives[i])
          OBVIOUS
        <5>0. i \in 1..N /\ Alternatives[i] \in Names
          BY <2>3, <1>1, NamesFact
        <5>1. Alternatives[i] = n => known[Alternatives[i]] = Hit(Alternatives[i])
          BY <1>6, <3>3
        <5>2. Alternatives[i] # n => known[Alternatives[i]] = run.found[Alternatives[i]]
          <6> HIDE DEF known
          <6> QED BY <1>6, <5>0
        <5>3. i # run.alt => run.found[Alternatives[i]] = Hit(Alternatives[i])
          BY <1>11, <3>3, <2>3
        <5> HIDE DEF known
        <5> QED BY <5>1, <5>2, <5>3
      <4>2. run'.found = known /\ run'.pc = "isolate" /\ run'.alt = run.alt + 1 /\ run'.scope = 1
            /\ run'.best = run.best
        BY <2>2, <3>3
      <4>3. \A i \in 1..run'.alt - 1 : run'.found[Alternatives[i]] = Hit(Alternatives[i])'
        <5>1. \A i : Hit(Alternatives[i])' = Hit(Alternatives[i])
          BY <1>10
        <5> HIDE DEF known
        <5> QED BY <4>1, <4>2, <5>1
      <4>4. (held.container => run.best # 0) /\ run.best = Best(held)
        BY <1>11, <3>3
      <4> HIDE DEF known
      <4> QED BY <4>2, <4>3, <4>4, <1>10 DEF FindsWhatIs
    <3> QED BY <3>1, <3>2, <3>3, <1>1
  <2>7. BestCredential'
    <3>1. run'.pc \notin {"running", "refused"}
      BY <2>2, <1>1
    <3> QED BY <3>1 DEF BestCredential
  <2> QED BY <1>5, <2>4, <2>5, <2>6, <2>7
<1> QED
  BY <1>1, <1>13, <1>14, <1>15, <1>16

LEMMA LookStep ==
  ASSUME CredentialsInv, LookInScope \/ LookInEnv
  PROVE  CredentialsInv'
<1> DEFINE n == Alternatives[run.alt]
           s == Scopes(held)[run.scope]
<1>1. /\ DOMAIN run = {"pc", "alt", "scope", "found", "sees", "best"}
      /\ run.alt \in 1..Len(Alternatives) /\ Len(Alternatives) \in Nat /\ n \in Names
      /\ run.scope \in 1..Len(Scopes(held)) + 1 /\ Len(Scopes(held)) \in Nat
      /\ held \in Situations /\ held.project /\ run.pc \in {"validate", "isolate"}
  BY NamesFact, ScopesFact DEF CredentialsInv, RunType, StoresType, Looking, LookInScope, LookInEnv
<1>2. Looking /\ UNCHANGED <<held, file, chain, wpc, job, lines, clean, latest>>
  BY DEF Looking, LookInScope, LookInEnv
<1>3. clean' \in BOOLEAN /\ (clean' => clean)
  BY <1>2 DEF CredentialsInv, StoresType
<1>4. StoresType' /\ AllTidy' /\ Stored'
  BY <1>2, <1>3, RunFrame
<1>5. clean => \A k \in 1..run.scope - 1 : ResolveScope(held, Scopes(held)[k], n) = NotSet
  BY <1>2 DEF CredentialsInv, FindsWhatIs
<1>6. CASE LookInScope /\ ResolveScope(held, s, n) # NotSet
  <2> DEFINE hit == [value |-> ResolveScope(held, s, n), tier |-> "store"]
  <2>1. Known(hit)
    BY <1>6 DEF LookInScope
  <2>2. hit.tier = "store"
    OBVIOUS
  <2>3. run.scope \in 1..Len(Scopes(held))
    BY <1>1, <1>6 DEF LookInScope
  <2>4. clean => hit = Hit(n)
    BY <1>1, <1>5, <1>6, <2>3, FirstScope
  <2>5. RunType' /\ Undisturbed' /\ FoundSoFar' /\ FindsWhatIs' /\ BestCredential'
    <3> HIDE DEF hit
    <3> QED BY <1>2, <2>1, <2>2, <2>4, KnownStep
  <2> QED BY <1>4, <2>5 DEF CredentialsInv
<1>7. CASE LookInEnv
  <2> DEFINE hit == IF FromEnv(held, n) = NotSet THEN Missed ELSE [value |-> FromEnv(held, n), tier |-> "env"]
  <2>1. Known(hit)
    BY <1>7 DEF LookInEnv
  <2>2. \/ /\ hit = [value |-> FromEnv(held, n), tier |-> "env"]
           /\ hit.tier = "env" /\ FromEnv(held, n) # NotSet
        \/ hit = Missed /\ FromEnv(held, n) = NotSet
    <3>1. CASE FromEnv(held, n) = NotSet
      BY <3>1
    <3>2. CASE FromEnv(held, n) # NotSet
      <4>1. hit = [value |-> FromEnv(held, n), tier |-> "env"]
        BY <3>2
      <4>2. hit.tier = "env"
        BY <4>1
      <4> HIDE DEF hit
      <4> QED BY <3>2, <4>1, <4>2
    <3> QED BY <3>1, <3>2
  <2>3. run.scope = Len(Scopes(held)) + 1
    BY <1>1, <1>7 DEF LookInEnv
  <2>4. clean => hit = Hit(n)
    <3> SUFFICES ASSUME clean PROVE hit = Hit(n)
      OBVIOUS
    <3>1. \A k \in 1..Len(Scopes(held)) : ResolveScope(held, Scopes(held)[k], n) = NotSet
      BY <1>1, <1>5, <2>3
    <3> QED BY <3>1, <1>1, NoScope
  <2>5. RunType' /\ Undisturbed' /\ FoundSoFar' /\ FindsWhatIs' /\ BestCredential'
    <3> HIDE DEF hit
    <3> QED BY <1>2, <2>1, <2>2, <2>4, KnownStep
  <2> QED BY <1>4, <2>5 DEF CredentialsInv
<1>8. CASE LookInScope /\ ResolveScope(held, s, n) = NotSet
  <2>1. run' = [run EXCEPT !.scope = @ + 1] /\ run.scope <= Len(Scopes(held))
    BY <1>8 DEF LookInScope
  <2>2. /\ DOMAIN run' = DOMAIN run /\ run'.pc = run.pc /\ run'.alt = run.alt /\ run'.scope = run.scope + 1
        /\ run'.found = run.found /\ run'.best = run.best /\ run'.sees = run.sees
    BY <2>1, <1>1
  <2>3. Scopes(held)' = Scopes(held)
    BY <1>2 DEF Scopes
  <2>4. RunType'
    <3>1. run.scope + 1 \in 1..Len(Scopes(held)) + 1 /\ DOMAIN run.found = Names
      BY <1>1, <2>1 DEF CredentialsInv, RunType
    <3> QED BY <2>2, <2>3, <3>1, <1>1, <1>2 DEF RunType, Looking
  <2>5. Undisturbed'
    <3>1. \A w : AtWork(w)' = AtWork(w)
      BY <1>2 DEF AtWork
    <3> QED BY <1>2, <3>1 DEF CredentialsInv, Undisturbed
  <2>6. FoundSoFar'
    <3>1. \A m : FoundHow(run.found, m)' = FoundHow(run.found, m)
      BY <1>2, <2>2 DEF FoundHow, FromEnv
    <3>2. run'.pc # "running"
      BY <2>2, <1>1
    <3>3. run.pc = "isolate" => \A i \in 1..run.alt - 1 : FoundHow(run.found, Alternatives[i])
      BY DEF CredentialsInv, FoundSoFar
    <3>4. \A i : FoundHow(run.found, Alternatives[i])' = FoundHow(run.found, Alternatives[i])
      BY <1>2, <2>2 DEF FoundHow, FromEnv
    <3> QED BY <2>2, <3>2, <3>3, <3>4 DEF FoundSoFar, Started
  <2>7. FindsWhatIs'
    <3> SUFFICES ASSUME clean PROVE FindsWhatIs'
      BY <1>2 DEF FindsWhatIs
    <3>1. /\ \A m, t : ResolveScope(held, m, t)' = ResolveScope(held, m, t)
          /\ \A m : Hit(m)' = Hit(m)
          /\ Best(held)' = Best(held)
      BY <1>2, HitFrame
    <3>2. \A k \in 1..(run.scope + 1) - 1 : ResolveScope(held, Scopes(held)[k], n) = NotSet
      <4> SUFFICES ASSUME NEW k \in 1..(run.scope + 1) - 1 PROVE ResolveScope(held, Scopes(held)[k], n) = NotSet
        OBVIOUS
      <4>1. k \in 1..run.scope - 1 \/ k = run.scope
        BY <1>1
      <4> QED BY <4>1, <1>5, <1>8
    <3>3. \A k : ResolveScope(held, Scopes(held)[k], Alternatives[run.alt])' = ResolveScope(held, Scopes(held)[k], n)
      <4> SUFFICES ASSUME NEW k
                   PROVE ResolveScope(held, Scopes(held)[k], Alternatives[run.alt])' = ResolveScope(held, Scopes(held)[k], n)
        OBVIOUS
      <4>1. LookupFile(Scopes(held)[k], Alternatives[run.alt])' = LookupFile(Scopes(held)[k], n)
        BY <1>2, <2>2, <2>3 DEF LookupFile, Get, At
      <4>2. LookupKeychain(held, Scopes(held)[k], Alternatives[run.alt])' = LookupKeychain(held, Scopes(held)[k], n)
        BY <1>2, <2>2, <2>3 DEF LookupKeychain
      <4> QED BY <1>2, <4>1, <4>2 DEF ResolveScope
    <3>4. \A i : Hit(Alternatives[i])' = Hit(Alternatives[i])
      BY <3>1
    <3>5. FindsWhatIs
      BY DEF CredentialsInv
    <3> QED BY <1>2, <2>2, <3>1, <3>2, <3>3, <3>4, <3>5 DEF FindsWhatIs
  <2>8. BestCredential'
    <3>1. run'.pc \notin {"running", "refused"}
      BY <2>2, <1>1
    <3> QED BY <3>1 DEF BestCredential
  <2> QED BY <1>4, <2>4, <2>5, <2>6, <2>7, <2>8 DEF CredentialsInv
<1> QED
  BY <1>6, <1>7, <1>8

LEMMA LaunchStep ==
  ASSUME CredentialsInv, Launch
  PROVE  CredentialsInv'
<1>1. /\ DOMAIN run = {"pc", "alt", "scope", "found", "sees", "best"}
      /\ run.alt = 1 /\ run.scope = 1 /\ run.pc = "idle" /\ DOMAIN run.found = Names
      /\ 1 \in 1..Len(Alternatives) /\ 1 \in 1..Len(Scopes(held)) + 1
      /\ held \in Situations /\ held.project \in BOOLEAN
  BY NamesFact, ScopesFact, HeldFacts DEF CredentialsInv, RunType, StoresType, Launch
<1>2. /\ UNCHANGED <<held, file, chain, wpc, job, lines, latest>>
      /\ clean' = (clean /\ ~Busy)
      /\ run' = [run EXCEPT !.best = Best(held),
                   !.pc = IF ~held.project THEN "running" ELSE IF held.container THEN "validate" ELSE "isolate",
                   !.sees = IF held.project THEN @ ELSE ProcessEnv(held, held.agentEnv)]
  BY DEF Launch
<1>3. clean' \in BOOLEAN /\ (clean' => clean)
  BY <1>2
<1>4. StoresType' /\ AllTidy' /\ Stored'
  BY <1>2, <1>3, RunFrame
<1>5. /\ DOMAIN run' = DOMAIN run /\ run'.alt = 1 /\ run'.scope = 1
      /\ run'.pc = IF ~held.project THEN "running" ELSE IF held.container THEN "validate" ELSE "isolate"
      /\ run'.found = run.found /\ run'.best = Best(held)
  BY <1>1, <1>2
<1>6. Scopes(held)' = Scopes(held)
  BY <1>2 DEF Scopes
<1>7. RunType'
  BY <1>1, <1>2, <1>5, <1>6 DEF RunType, Looking
<1>8. Undisturbed'
  <2>1. \A w : AtWork(w)' = AtWork(w)
    BY <1>2 DEF AtWork
  <2>2. clean' => \A w \in Writers : ~AtWork(w)
    BY <1>2 DEF Busy
  <2> QED BY <2>1, <2>2 DEF Undisturbed
<1>9. FoundSoFar'
  BY <1>2, <1>5 DEF FoundSoFar, Started
<1>10. FindsWhatIs'
  <2>1. Best(held)' = Best(held)
    BY <1>2, HitFrame
  <2>2. run'.pc = "validate" => held.container
    BY <1>5
  <2>3. run'.pc = "isolate" => ~held.container
    BY <1>5
  <2> QED BY <1>2, <1>5, <2>1, <2>2, <2>3 DEF FindsWhatIs
<1>11. BestCredential'
  <2>1. run'.pc \in {"running", "refused"} => ~held.project
    BY <1>5
  <2> QED BY <1>2, <2>1 DEF BestCredential
<1> QED
  BY <1>4, <1>7, <1>8, <1>9, <1>10, <1>11 DEF CredentialsInv

-----------------------------------------------------------------------------
(* The steps of an `ateam secret` *)

\* What is asked for, or what --save-project-scope makes of it, can be done.
LEMMA SavedIsAble ==
  ASSUME StoresType, NEW j \in Jobs, ~(j.storage = "keychain" /\ ~held.keyring), ~Nothing(j),
         NEW w \in Writers, job' = [job EXCEPT ![w] = Saved(j)], UNCHANGED <<held>>
  PROVE  Able(w)'
<1>1. /\ j \in [op : {"set", "delete", "save"}, name : STRING, value : STRING \ {NotSet, Blank},
                scope : STRING, storage : {"file", "keychain"}]
      /\ DOMAIN job = Writers /\ held \in Situations
  BY CredentialsAssumption DEF StoresType
<1>2. \A s \in ScopeNames : j.name \in DOMAIN held.chain[s]
  BY <1>1, HeldFacts
<1>3. job'[w] = Saved(j)
  BY <1>1
<1>4. CASE j.op = "save"
  <2>1. Saved(j) = [op |-> "set", name |-> j.name, value |-> ResolveName(held, j.name),
                    scope |-> "project", storage |-> "file"]
    BY <1>4 DEF Saved
  <2>2. ResolveName(held, j.name) \in Value /\ ResolveName(held, j.name) # NotSet
    BY <1>2, <1>4, ResolveValue DEF Nothing
  <2>3. Saved(j) \in AnyJob
    BY <2>1, <2>2, <1>1 DEF AnyJob, ScopeNames
  <2>4. Saved(j).name = j.name /\ Saved(j).value = ResolveName(held, j.name) /\ Saved(j).storage = "file"
    BY <2>1
  <2> QED BY <1>2, <1>3, <2>2, <2>3, <2>4 DEF Able, InFile
<1>5. CASE j.op # "save"
  <2>1. Saved(j) = [j EXCEPT !.scope = ScopeForName(held, j.scope)]
    BY <1>5 DEF Saved
  <2>2. ScopeForName(held, j.scope) \in ScopeNames
    BY <1>1, ScopesFact
  <2>3. Saved(j) = [op |-> j.op, name |-> j.name, value |-> j.value,
                    scope |-> ScopeForName(held, j.scope), storage |-> j.storage]
    BY <2>1, <1>1
  <2>4. Saved(j) \in AnyJob
    BY <2>2, <2>3, <1>1, <1>5 DEF AnyJob, Value
  <2>5. /\ Saved(j).name = j.name /\ Saved(j).value = j.value /\ Saved(j).storage = j.storage
        /\ j.value # NotSet /\ j.value # Blank
    BY <2>3, <1>1
  <2>6. j.storage # "file" => held.keyring
    BY <1>1
  <2> QED BY <1>2, <1>3, <2>4, <2>5, <2>6 DEF Able, InFile
<1> QED
  BY <1>4, <1>5

LEMMA BeginJobStep ==
  ASSUME CredentialsInv, NEW w \in Writers, BeginJob(w)
  PROVE  CredentialsInv'
<1>1. PICK j \in Jobs :
        /\ ~(j.storage = "keychain" /\ ~held.keyring)
        /\ job' = [job EXCEPT ![w] = IF Nothing(j) THEN @ ELSE Saved(j)]
        /\ wpc' = [wpc EXCEPT ![w] = IF Nothing(j) THEN "done" ELSE "open"]
  BY DEF BeginJob
<1>2. /\ wpc[w] = "idle" /\ clean' = (clean /\ ~Busy)
      /\ UNCHANGED <<held, file, chain, lines, run, latest>>
  BY DEF BeginJob
<1>3. StoresType
  BY DEF CredentialsInv
<1>4. DOMAIN job = Writers /\ DOMAIN wpc = Writers
  BY <1>3 DEF StoresType
<1>5. \A v \in Writers : v # w => job'[v] = job[v] /\ wpc'[v] = wpc[v]
  BY <1>1, <1>4
<1>6. wpc'[w] = IF Nothing(j) THEN "done" ELSE "open"
  BY <1>1, <1>4
<1>7. latest # "nobody" => latest # w /\ latest \in Writers
  BY <1>2, <1>3 DEF StoresType
<1>8. StoresType'
  <2>1. \A v \in Writers : v # w => Able(v)' = Able(v) /\ AtWork(v)' = AtWork(v)
    BY <1>2, <1>5 DEF Able, AtWork, InFile
  <2>2. AtWork(w)' => Able(w)'
    <3>1. CASE Nothing(j)
      BY <3>1, <1>6 DEF AtWork
    <3>2. CASE ~Nothing(j)
      BY <3>2, <1>1, <1>2, <1>3, SavedIsAble
    <3> QED BY <3>1, <3>2
  <2>3. \A v \in Writers : AtWork(v)' \/ (v = latest' /\ latest' # "nobody") => Able(v)'
    BY <1>2, <1>3, <1>7, <2>1, <2>2 DEF StoresType
  <2>4. wpc' \in [Writers -> {"idle", "open", "truncate", "write", "done"}] /\ DOMAIN job' = Writers
    BY <1>1, <1>3 DEF StoresType
  <2>5. latest' # "nobody" => wpc'[latest'] = "done"
    BY <1>2, <1>3, <1>5, <1>7 DEF StoresType
  <2>6. clean' \in BOOLEAN
    BY <1>2
  <2>7. \A v \in Writers : wpc'[v] \in {"truncate", "write"} => InFile(v)'
    BY <1>3, <1>5, <1>6 DEF StoresType, InFile
  <2> QED BY <1>2, <1>3, <2>3, <2>4, <2>5, <2>6, <2>7 DEF StoresType
<1>9. AllTidy'
  BY <1>2 DEF CredentialsInv, AllTidy, TidyFound, Tidy
<1>10. Stored'
  <2> SUFFICES ASSUME clean', \A v \in Writers : ~AtWork(v)', latest' # "nobody", TidyFound'
               PROVE IsRead'
    BY DEF Stored
  <2>1. \A v \in Writers : ~AtWork(v)
    <3>1. \A v \in Writers : v # w => AtWork(v)' = AtWork(v)
      BY <1>5 DEF AtWork
    <3> QED BY <3>1, <1>2 DEF AtWork
  <2>2. IsRead
    <3>1. TidyFound
      BY <1>2 DEF TidyFound, Tidy
    <3> QED BY <1>2, <2>1, <3>1 DEF CredentialsInv, Stored
  <2>3. job'[latest] = job[latest]
    BY <1>2, <1>5, <1>7
  <2>4. job'[latest'] = job[latest] /\ latest' = latest
    BY <1>2, <2>3
  <2>5. InFile(latest)' = InFile(latest)
    BY <2>4 DEF InFile
  <2>6. LookupFile(job[latest].scope, job[latest].name)' = LookupFile(job[latest].scope, job[latest].name)
    BY <1>2, <2>4 DEF LookupFile, Get, At
  <2>7. LookupKeychain(held, job[latest].scope, job[latest].name)'
          = LookupKeychain(held, job[latest].scope, job[latest].name)
    BY <1>2, <2>4 DEF LookupKeychain
  <2> QED BY <2>2, <2>4, <2>5, <2>6, <2>7 DEF IsRead
<1>11. clean' => clean
  BY <1>2
<1>12. Looking => ~clean'
  BY <1>2 DEF Looking, Busy
<1>13. RunType' /\ Undisturbed' /\ FoundSoFar' /\ FindsWhatIs' /\ BestCredential'
  BY <1>2, <1>11, <1>12, WriterFrame
<1> QED
  BY <1>8, <1>9, <1>10, <1>13 DEF CredentialsInv

\* A writer that goes on, is done, or is killed.
LEMMA GoingOn ==
  ASSUME CredentialsInv, NEW w \in Writers, AtWork(w),
         wpc' = [wpc EXCEPT ![w] = wpc'[w]], wpc'[w] \in {"truncate", "write", "done"},
         UNCHANGED <<held, job, run>>, wpc'[w] # "done" => InFile(w),
         file' \in [ScopeNames -> Seq(AnyLine)], lines' \in [Writers -> Seq(AnyLine)],
         DOMAIN chain' = ScopeNames,
         \A s \in ScopeNames : chain'[s] \in [DOMAIN held.chain[s] -> Value],
         clean' \in BOOLEAN, clean' => clean,
         latest' = latest \/ (latest' = w /\ wpc'[w] = "done"),
         TidyFound => (\A s \in ScopeNames : Tidy(file'[s])) /\ (\A v \in Writers : Tidy(lines'[v])),
         clean' /\ wpc'[w] = "done" => latest' = w /\ (TidyFound => IsRead')
  PROVE  CredentialsInv'
<1>1. StoresType
  BY DEF CredentialsInv
<1>2. DOMAIN wpc = Writers
  BY <1>1 DEF StoresType
<1>3. \A v \in Writers : v # w => wpc'[v] = wpc[v]
  BY <1>2
<1>4. latest # w \/ latest = "nobody"
  BY <1>1 DEF StoresType, AtWork
<1>5. StoresType'
  <2>1. \A v \in Writers : Able(v)' = Able(v)
    BY DEF Able, InFile
  <2>2. \A v \in Writers : v # w => AtWork(v)' = AtWork(v)
    BY <1>3 DEF AtWork
  <2>3. Able(w)
    BY <1>1 DEF StoresType
  <2>4. \A v \in Writers : AtWork(v)' \/ (v = latest' /\ latest' # "nobody") => Able(v)'
    BY <1>1, <2>1, <2>2, <2>3 DEF StoresType
  <2>5. wpc' \in [Writers -> {"idle", "open", "truncate", "write", "done"}]
    BY <1>1, <1>2, <1>3 DEF StoresType
  <2>6. latest' # "nobody" => latest' \in Writers /\ wpc'[latest'] = "done"
    BY <1>1, <1>3, <1>4 DEF StoresType
  <2>7. \A v \in Writers : wpc'[v] \in {"truncate", "write"} => InFile(v)'
    BY <1>1, <1>3 DEF StoresType, InFile
  <2> QED BY <1>1, <2>4, <2>5, <2>6, <2>7 DEF StoresType
<1>6. TidyFound' = TidyFound
  BY DEF TidyFound, Tidy
<1>7. AllTidy'
  BY <1>6 DEF AllTidy, Tidy
<1>8. Stored'
  <2> SUFFICES ASSUME clean', \A v \in Writers : ~AtWork(v)', latest' # "nobody", TidyFound' PROVE IsRead'
    BY DEF Stored
  <2>1. wpc'[w] = "done"
    BY DEF AtWork
  <2> QED BY <2>1, <1>6
<1>9. Looking => ~clean'
  BY DEF CredentialsInv, Undisturbed
<1>10. RunType' /\ Undisturbed' /\ FoundSoFar' /\ FindsWhatIs' /\ BestCredential'
  BY <1>9, WriterFrame
<1> QED
  BY <1>5, <1>7, <1>8, <1>10 DEF CredentialsInv

LEMMA KeychainSetStep ==
  ASSUME CredentialsInv, NEW w \in Writers, KeychainSet(w)
  PROVE  CredentialsInv'
<1> DEFINE s == job[w].scope
           n == job[w].name
           v == IF job[w].op = "set" THEN job[w].value ELSE Blank
<1>1. /\ wpc[w] = "open" /\ ~InFile(w)
      /\ chain' = [chain EXCEPT ![s][n] = v]
      /\ wpc' = [wpc EXCEPT ![w] = "done"] /\ latest' = w
      /\ UNCHANGED <<held, file, job, lines, run, clean>>
  BY DEF KeychainSet
<1>2. StoresType /\ AllTidy
  BY DEF CredentialsInv
<1>3. AtWork(w) /\ Able(w)
  BY <1>1, <1>2 DEF AtWork, StoresType
<1>4. s \in ScopeNames /\ v \in Value /\ n \in DOMAIN held.chain[s] /\ held.keyring
      /\ (job[w].op = "set" => job[w].value # Blank /\ job[w].value # NotSet)
  BY <1>1, <1>3 DEF Able, AnyJob, Value
<1>5. wpc' = [wpc EXCEPT ![w] = wpc'[w]] /\ wpc'[w] = "done"
  BY <1>1, <1>2 DEF StoresType
<1>6. /\ DOMAIN chain' = ScopeNames
      /\ \A t \in ScopeNames : chain'[t] \in [DOMAIN held.chain[t] -> Value]
      /\ chain'[s][n] = v
  BY <1>1, <1>2, <1>4 DEF StoresType
<1>7. IsRead'
  <2>1. LookupKeychain(held, s, n)' = IF job[w].op = "set" THEN job[w].value ELSE NotSet
    <3>1. LookupKeychain(held, s, n)' = IF chain'[s][n] # Blank THEN chain'[s][n] ELSE NotSet
      BY <1>1, <1>4 DEF LookupKeychain
    <3> QED BY <3>1, <1>4, <1>6
  <2>2. InFile(latest)' = FALSE /\ job'[latest'] = job[w]
    BY <1>1 DEF InFile
  <2>3. LookupKeychain(held, job[latest].scope, job[latest].name)' = LookupKeychain(held, s, n)'
    BY <1>1 DEF LookupKeychain
  <2> QED BY <2>1, <2>2, <2>3 DEF IsRead
<1>8. UNCHANGED <<held, job, run>> /\ file' = file /\ lines' = lines /\ clean' = clean
  BY <1>1
<1>9. TidyFound => (\A t \in ScopeNames : Tidy(file'[t])) /\ (\A u \in Writers : Tidy(lines'[u]))
  BY <1>2, <1>8 DEF AllTidy
<1> HIDE DEF v
<1>10. clean \in BOOLEAN /\ file \in [ScopeNames -> Seq(AnyLine)] /\ lines \in [Writers -> Seq(AnyLine)]
  BY <1>2 DEF StoresType
<1>11. /\ latest' = w /\ clean' \in BOOLEAN /\ (clean' => clean)
       /\ file' \in [ScopeNames -> Seq(AnyLine)] /\ lines' \in [Writers -> Seq(AnyLine)]
  BY <1>1, <1>8, <1>10
<1> QED
  BY <1>3, <1>5, <1>6, <1>7, <1>8, <1>9, <1>11, GoingOn

LEMMA ReadLinesStep ==
  ASSUME CredentialsInv, NEW w \in Writers, ReadLines(w)
  PROVE  CredentialsInv'
<1> DEFINE s == job[w].scope
           n == job[w].name
<1>1. /\ wpc[w] = "open" /\ InFile(w)
      /\ lines' = [lines EXCEPT ![w] = file[s]]
      /\ UNCHANGED <<held, file, chain, job, run, clean>>
  BY DEF ReadLines
<1>2. StoresType /\ AllTidy
  BY DEF CredentialsInv
<1>3. AtWork(w) /\ Able(w)
  BY <1>1, <1>2 DEF AtWork, StoresType
<1>4. s \in ScopeNames
  BY <1>3 DEF Able, AnyJob
<1>5. \/ /\ job[w].op = "delete" /\ At(file[s], n) = {}
         /\ wpc' = [wpc EXCEPT ![w] = "done"] /\ latest' = w
      \/ wpc' = [wpc EXCEPT ![w] = "truncate"] /\ latest' = latest
  BY DEF ReadLines
<1>6. wpc' = [wpc EXCEPT ![w] = wpc'[w]] /\ wpc'[w] \in {"truncate", "done"}
  BY <1>5, <1>2 DEF StoresType
<1>7. lines' \in [Writers -> Seq(AnyLine)]
  BY <1>1, <1>2, <1>4 DEF StoresType
<1>8. wpc'[w] = "done" => latest' = w /\ job[w].op = "delete" /\ At(file[s], n) = {}
  BY <1>5, <1>2 DEF StoresType
<1>9. wpc'[w] = "done" => IsRead'
  <2> SUFFICES ASSUME wpc'[w] = "done" PROVE IsRead'
    OBVIOUS
  <2>1. InFile(latest)' /\ job'[latest'] = job[w] /\ job[w].op # "set"
    BY <1>1, <1>8 DEF InFile
  <2>2. LookupFile(job[latest].scope, job[latest].name)' = Get(file[s], n)
    BY <1>1, <1>8 DEF LookupFile, Get, At
  <2>3. Get(file[s], n) = NotSet
    BY <1>8, <2>1 DEF Get
  <2> QED BY <2>1, <2>2, <2>3 DEF IsRead
<1>10. TidyFound => (\A t \in ScopeNames : Tidy(file'[t])) /\ (\A u \in Writers : Tidy(lines'[u]))
  <2>1. \A u \in Writers : lines'[u] = IF u = w THEN file[s] ELSE lines[u]
    BY <1>1, <1>2 DEF StoresType
  <2> QED BY <1>1, <1>2, <1>4, <2>1 DEF AllTidy
<1>11. clean \in BOOLEAN /\ file \in [ScopeNames -> Seq(AnyLine)] /\ DOMAIN chain = ScopeNames
       /\ \A t \in ScopeNames : chain[t] \in [DOMAIN held.chain[t] -> Value]
  BY <1>2 DEF StoresType
<1>12. latest' = latest \/ (latest' = w /\ wpc'[w] = "done")
  BY <1>5, <1>2 DEF StoresType
<1> QED
  BY <1>1, <1>3, <1>6, <1>7, <1>8, <1>9, <1>10, <1>11, <1>12, GoingOn

LEMMA TruncateStep ==
  ASSUME CredentialsInv, NEW w \in Writers, Truncate(w)
  PROVE  CredentialsInv'
<1> DEFINE s == job[w].scope
<1>1. /\ wpc[w] = "truncate"
      /\ file' = [file EXCEPT ![s] = <<>>] /\ wpc' = [wpc EXCEPT ![w] = "write"]
      /\ UNCHANGED <<held, chain, job, lines, run, clean, latest>>
  BY DEF Truncate
<1>2. StoresType /\ AllTidy
  BY DEF CredentialsInv
<1>3. AtWork(w) /\ Able(w)
  BY <1>1, <1>2 DEF AtWork, StoresType
<1>4. s \in ScopeNames
  BY <1>3 DEF Able, AnyJob
<1>5. wpc' = [wpc EXCEPT ![w] = wpc'[w]] /\ wpc'[w] = "write"
  BY <1>1, <1>2 DEF StoresType
<1>6. <<>> \in Seq(AnyLine) /\ Tidy(<<>>)
  BY DEF Tidy
<1>7. file' \in [ScopeNames -> Seq(AnyLine)]
  BY <1>1, <1>2, <1>6 DEF StoresType
<1>8. TidyFound => (\A t \in ScopeNames : Tidy(file'[t])) /\ (\A u \in Writers : Tidy(lines'[u]))
  <2>1. \A t \in ScopeNames : file'[t] = IF t = s THEN <<>> ELSE file[t]
    BY <1>1, <1>2 DEF StoresType
  <2> QED BY <1>1, <1>2, <1>6, <2>1 DEF AllTidy
<1>9. InFile(w) /\ clean \in BOOLEAN /\ lines \in [Writers -> Seq(AnyLine)] /\ DOMAIN chain = ScopeNames
      /\ \A t \in ScopeNames : chain[t] \in [DOMAIN held.chain[t] -> Value]
  BY <1>1, <1>2 DEF StoresType
<1> QED
  BY <1>1, <1>3, <1>5, <1>7, <1>8, <1>9, GoingOn

LEMMA WriteLinesStep ==
  ASSUME CredentialsInv, NEW w \in Writers, WriteLines(w)
  PROVE  CredentialsInv'
<1> DEFINE s == job[w].scope
           n == job[w].name
           new == IF job[w].op = "set" THEN WithSet(lines[w], n, job[w].value) ELSE WithDelete(lines[w], n)
<1>1. /\ wpc[w] = "write"
      /\ file' = [file EXCEPT ![s] = new]
      /\ wpc' = [wpc EXCEPT ![w] = "done"] /\ latest' = w
      /\ UNCHANGED <<held, chain, job, lines, run, clean>>
  BY DEF WriteLines
<1>2. StoresType /\ AllTidy
  BY DEF CredentialsInv
<1>3. AtWork(w) /\ Able(w)
  BY <1>1, <1>2 DEF AtWork, StoresType
<1>4. s \in ScopeNames /\ n \in Value /\ job[w].value \in Value /\ lines[w] \in Seq(AnyLine)
  BY <1>2, <1>3 DEF Able, AnyJob, StoresType, Value
<1>5. wpc' = [wpc EXCEPT ![w] = wpc'[w]] /\ wpc'[w] = "done"
  BY <1>1, <1>2 DEF StoresType
<1>6. new \in Seq(AnyLine)
  BY <1>4, WithSetType, WithDeleteDoes
<1>7. TidyFound => Tidy(new)
  BY <1>2, <1>4, WithSetDoes, WithDeleteDoes DEF AllTidy
<1>8. TidyFound => Get(new, n) = IF job[w].op = "set" THEN job[w].value ELSE NotSet
  BY <1>2, <1>4, WithSetDoes, WithDeleteDoes DEF AllTidy
<1> HIDE DEF new
<1>9. file' \in [ScopeNames -> Seq(AnyLine)] /\ \A t \in ScopeNames : file'[t] = IF t = s THEN new ELSE file[t]
  BY <1>1, <1>2, <1>4, <1>6 DEF StoresType
<1>10. TidyFound => (\A t \in ScopeNames : Tidy(file'[t])) /\ (\A u \in Writers : Tidy(lines'[u]))
  BY <1>1, <1>2, <1>7, <1>9 DEF AllTidy
<1>11. clean \in BOOLEAN /\ lines \in [Writers -> Seq(AnyLine)] /\ DOMAIN chain = ScopeNames
       /\ \A t \in ScopeNames : chain[t] \in [DOMAIN held.chain[t] -> Value]
  BY <1>2 DEF StoresType
<1>12. ASSUME clean', TidyFound PROVE IsRead'
  <2>1. InFile(w)
    BY <1>1, <1>2 DEF StoresType
  <2>2. InFile(latest)' /\ job'[latest'] = job[w]
    BY <1>1, <2>1 DEF InFile
  <2>3. LookupFile(job[latest].scope, job[latest].name)' = Get(new, n)
    BY <1>1, <1>4, <1>9 DEF LookupFile, Get, At
  <2> QED BY <2>2, <2>3, <1>8, <1>12 DEF IsRead
<1> QED
  BY <1>1, <1>3, <1>5, <1>9, <1>10, <1>11, <1>12, GoingOn

LEMMA KilledStep ==
  ASSUME CredentialsInv, NEW w \in Writers, Killed(w)
  PROVE  CredentialsInv'
<1>1. /\ AtWork(w) /\ wpc' = [wpc EXCEPT ![w] = "done"] /\ clean' = FALSE
      /\ UNCHANGED <<held, file, chain, job, lines, run, latest>>
  BY DEF Killed
<1>2. StoresType /\ AllTidy
  BY DEF CredentialsInv
<1>3. wpc' = [wpc EXCEPT ![w] = wpc'[w]] /\ wpc'[w] = "done"
  BY <1>1, <1>2 DEF StoresType
<1>4. TidyFound => (\A t \in ScopeNames : Tidy(file'[t])) /\ (\A u \in Writers : Tidy(lines'[u]))
  BY <1>1, <1>2 DEF AllTidy
<1>5. /\ file \in [ScopeNames -> Seq(AnyLine)] /\ lines \in [Writers -> Seq(AnyLine)] /\ DOMAIN chain = ScopeNames
      /\ \A t \in ScopeNames : chain[t] \in [DOMAIN held.chain[t] -> Value]
  BY <1>2 DEF StoresType
<1> QED
  BY <1>1, <1>3, <1>4, <1>5, GoingOn

LEMMA CredentialsInvInit ==
  ASSUME CredentialsInit
  PROVE  CredentialsInv
<1>1. /\ held \in Situations /\ file = held.file /\ chain = held.chain
      /\ wpc = [w \in Writers |-> "idle"] /\ DOMAIN job = Writers /\ lines = [w \in Writers |-> <<>>]
      /\ run = Idle /\ clean = TRUE /\ latest = "nobody"
  BY DEF CredentialsInit
<1>2. /\ DOMAIN run = {"pc", "alt", "scope", "found", "sees", "best"}
      /\ run.pc = "idle" /\ run.alt = 1 /\ run.scope = 1 /\ run.found = Unfound
  BY <1>1 DEF Idle
<1>3. <<>> \in Seq(AnyLine) /\ Tidy(<<>>)
  BY DEF Tidy
<1>4. Lines \subseteq AnyLine
  BY DEF Lines, AnyLine, Value
<1>5. file \in [ScopeNames -> Seq(AnyLine)]
  <2>1. \A s \in Seq(Lines) : s \in Seq(AnyLine)
    <3> SUFFICES ASSUME NEW s \in Seq(Lines) PROVE s \in Seq(AnyLine)
      OBVIOUS
    <3>1. Len(s) \in Nat /\ s \in [1..Len(s) -> Lines]
      BY LenProperties
    <3>2. s \in [1..Len(s) -> AnyLine]
      BY <3>1, <1>4
    <3> QED BY <3>1, <3>2
  <2> QED BY <1>1, <2>1, HeldFacts
<1>6. \A s \in ScopeNames : chain[s] \in [DOMAIN held.chain[s] -> Value]
  <2>1. STRING \subseteq Value
    BY DEF Value
  <2> QED BY <1>1, <2>1, HeldFacts
<1>7. \A w \in Writers : wpc[w] = "idle" /\ ~AtWork(w)
  BY <1>1 DEF AtWork
<1>8. StoresType
  BY <1>1, <1>3, <1>5, <1>6, <1>7, HeldFacts DEF StoresType
<1>9. RunType
  <2>1. 1 \in 1..Len(Alternatives) /\ 1 \in 1..Len(Scopes(held)) + 1
    BY <1>1, NamesFact, ScopesFact
  <2> QED BY <1>2, <2>1 DEF RunType, Looking, Unfound
<1>10. Undisturbed /\ FoundSoFar /\ FindsWhatIs /\ BestCredential
  BY <1>2 DEF Undisturbed, Looking, FoundSoFar, Started, FindsWhatIs, BestCredential
<1>11. AllTidy
  BY <1>1, <1>3 DEF AllTidy, TidyFound
<1>12. Stored
  BY <1>1 DEF Stored
<1> QED
  BY <1>8, <1>9, <1>10, <1>11, <1>12 DEF CredentialsInv

LEMMA CredentialsInvStays ==
  ASSUME CredentialsInv, UNCHANGED secretVars
  PROVE  CredentialsInv'
<1>1. UNCHANGED <<held, file, chain, wpc, job, lines, run, clean, latest>>
  BY DEF secretVars
<1>2. clean' \in BOOLEAN
  BY <1>1 DEF CredentialsInv, StoresType
<1>3. StoresType' /\ AllTidy' /\ Stored'
  BY <1>1, <1>2, RunFrame
<1>4. RunType'
  BY <1>1 DEF CredentialsInv, RunType, Looking, Scopes
<1>5. Undisturbed'
  BY <1>1 DEF CredentialsInv, Undisturbed, Looking, AtWork
<1>6. FoundSoFar' /\ BestCredential'
  <2>1. \A n : FoundHow(run.found, n)' = FoundHow(run.found, n)
    BY <1>1 DEF FoundHow, FromEnv
  <2>2. \A i : FoundHow(run.found, Alternatives[i])' = FoundHow(run.found, Alternatives[i])
    BY <1>1 DEF FoundHow, FromEnv
  <2>3. Sees(held, Isolate(held, run.found))' = Sees(held, Isolate(held, run.found))
    BY <1>1
  <2> QED BY <1>1, <2>1, <2>2, <2>3 DEF CredentialsInv, FoundSoFar, BestCredential, Started
<1>7. FindsWhatIs'
  <2>1. /\ \A s, n : ResolveScope(held, s, n)' = ResolveScope(held, s, n)
        /\ \A n : Hit(n)' = Hit(n)
        /\ Best(held)' = Best(held)
    BY <1>1, HitFrame
  <2>2. \A k : ResolveScope(held, Scopes(held)[k], Alternatives[run.alt])'
                 = ResolveScope(held, Scopes(held)[k], Alternatives[run.alt])
    BY <1>1 DEF ResolveScope, LookupFile, LookupKeychain, Get, At, Scopes
  <2>3. \A i : Hit(Alternatives[i])' = Hit(Alternatives[i])
    BY <2>1
  <2> QED BY <1>1, <2>1, <2>2, <2>3 DEF CredentialsInv, FindsWhatIs, Looking
<1> QED
  BY <1>3, <1>4, <1>5, <1>6, <1>7 DEF CredentialsInv

LEMMA CredentialsInvNext ==
  ASSUME CredentialsInv, [CredentialsNext]_secretVars
  PROVE  CredentialsInv'
<1>1. CASE UNCHANGED secretVars
  BY <1>1, CredentialsInvStays
<1>2. ASSUME NEW w \in Writers, BeginJob(w) PROVE CredentialsInv'
  BY <1>2, BeginJobStep
<1>3. ASSUME NEW w \in Writers, KeychainSet(w) PROVE CredentialsInv'
  BY <1>3, KeychainSetStep
<1>4. ASSUME NEW w \in Writers, ReadLines(w) PROVE CredentialsInv'
  BY <1>4, ReadLinesStep
<1>5. ASSUME NEW w \in Writers, Truncate(w) PROVE CredentialsInv'
  BY <1>5, TruncateStep
<1>6. ASSUME NEW w \in Writers, WriteLines(w) PROVE CredentialsInv'
  BY <1>6, WriteLinesStep
<1>7. ASSUME NEW w \in Writers, Killed(w) PROVE CredentialsInv'
  BY <1>7, KilledStep
<1>8. CASE Launch
  BY <1>8, LaunchStep
<1>9. CASE LookInScope \/ LookInEnv
  BY <1>9, LookStep
<1> QED
  BY <1>1, <1>2, <1>3, <1>4, <1>5, <1>6, <1>7, <1>8, <1>9 DEF CredentialsNext

\* What a writer is about can be done, and a run knows of each name it is past: for
\* any requirement, any stores and any number of `ateam secret`, at each step of
\* theirs (secret/store.go, secret/validate.go:21-155).
THEOREM CredentialsInvHolds == CredentialsSpec => []CredentialsInv
BY CredentialsInvInit, CredentialsInvNext, PTL DEF CredentialsSpec

LEMMA RightFromInv ==
  ASSUME CredentialsInv
  PROVE  RightCredential
<1>1. OneCredential
  BY OneIsGiven DEF CredentialsInv
<1>2. BestCredential
  BY DEF CredentialsInv
<1>3. WritesAreRead
  BY DEF CredentialsInv, Stored, WritesAreRead, IsRead, Busy
<1> QED
  BY <1>1, <1>2, <1>3 DEF RightCredential

\* Whatever is asked of the stores and whoever is killed, an agent of a project is
\* given one credential at most and none of the environment; with nobody else at
\* work it is the one the order says, and what was written last is what is read
\* (secret/validate.go:99-155, secret/resolve.go:77-155).
THEOREM RightCredentialHolds == CredentialsSpec => []RightCredential
BY CredentialsInvHolds, RightFromInv, PTL

-----------------------------------------------------------------------------
(* The containers: the work of a guard. *)

\* What an agent may count on, of a runner and a container.
NeededFor(k) ==
  IF Docker THEN {"build"}
  ELSE (IF HasBinary(config) THEN {"copy"} ELSE {})
         \cup (IF ResolvePrecheckCmd(config, k[1]) # <<>> THEN {"precheck"} ELSE {})

AtHand(k, what) == <<k, what>> \in ToSet(effects)

\* The worker of a guard is the one that took it, and does what was not done.
AtGuard(t) ==
  /\ tpc[t] \in Working =>
       /\ Tried(Key(t)) /\ guard[Key(t)] = t
       /\ Docker <=> tpc[t] = "build"
       /\ \A what \in {"build", "precheck"} : ~AtHand(Key(t), what)
       /\ tpc[t] = "copy" => ~AtHand(Key(t), "copy")
       /\ tpc[t] = "precheck" /\ HasBinary(config) => AtHand(Key(t), "copy")
  /\ tpc[t] \in {"prepared", "running", "done"} => Tried(Key(t)) /\ guard[Key(t)] = "ok"
  /\ tpc[t] = "failed" => Tried(Key(t)) /\ guard[Key(t)] = "failed"

BoxInv ==
  /\ config \in Cases
  /\ DOMAIN tpc = Tasks /\ DOMAIN name = Tasks
  /\ \E S : effects \in Seq(S)
  /\ \A t \in Tasks : AtGuard(t)
  /\ \A k \in DOMAIN guard : guard[k] = "ok" => \A what \in NeededFor(k) : AtHand(k, what)
  /\ \A k, what : AtHand(k, what) => Tried(k)
  /\ \A i, j \in DOMAIN effects : effects[i] = effects[j] => i = j

LEMMA AppendAny ==
  ASSUME NEW S, NEW s \in Seq(S), NEW e
  PROVE  /\ Append(s, e) \in Seq(S \cup {e})
         /\ Len(s) \in Nat /\ Len(Append(s, e)) = Len(s) + 1
         /\ DOMAIN s = 1..Len(s) /\ DOMAIN Append(s, e) = 1..(Len(s) + 1)
         /\ \A i \in 1..Len(s) : Append(s, e)[i] = s[i]
         /\ Append(s, e)[Len(s) + 1] = e
<1>1. Len(s) \in Nat /\ s \in [1..Len(s) -> S] /\ DOMAIN s = 1..Len(s)
  BY LenProperties
<1>2. s \in [1..Len(s) -> S \cup {e}]
  BY <1>1
<1>3. s \in Seq(S \cup {e})
  BY <1>1, <1>2
<1>4. PICK T : T = S \cup {e}
  OBVIOUS
<1>5. s \in Seq(T) /\ e \in T
  BY <1>3, <1>4
<1>6. /\ Append(s, e) \in Seq(T)
      /\ Len(Append(s, e)) = Len(s) + 1
      /\ \A i \in 1..Len(s) : Append(s, e)[i] = s[i]
      /\ Append(s, e)[Len(s) + 1] = e
  BY <1>5, AppendProperties
<1>7. DOMAIN Append(s, e) = 1..(Len(s) + 1)
  BY <1>6, LenProperties
<1> QED
  BY <1>1, <1>4, <1>6, <1>7

\* One more thing that is done.
LEMMA OneMoreDone ==
  ASSUME BoxInv, NEW e, effects' = Append(effects, e), e \notin ToSet(effects)
  PROVE  /\ \E S : effects' \in Seq(S)
         /\ \A k, what : AtHand(k, what)' <=> (AtHand(k, what) \/ <<k, what>> = e)
         /\ \A i, j \in DOMAIN effects' : effects'[i] = effects'[j] => i = j
<1>1. PICK S : effects \in Seq(S)
  BY DEF BoxInv
<1>2. PICK new : new = Append(effects, e)
  OBVIOUS
<1>3. /\ new \in Seq(S \cup {e})
      /\ Len(effects) \in Nat /\ DOMAIN effects = 1..Len(effects) /\ DOMAIN new = 1..(Len(effects) + 1)
      /\ \A i \in 1..Len(effects) : new[i] = effects[i]
      /\ new[Len(effects) + 1] = e
  BY <1>1, <1>2, AppendAny
<1>4. \A x : x \in ToSet(new) <=> (x \in ToSet(effects) \/ x = e)
  <2>1. \A i \in 1..(Len(effects) + 1) : i \in 1..Len(effects) \/ i = Len(effects) + 1
    BY <1>3
  <2>2. \A i \in 1..Len(effects) : i \in 1..(Len(effects) + 1)
    BY <1>3
  <2>3. Len(effects) + 1 \in 1..(Len(effects) + 1)
    BY <1>3
  <2> QED BY <1>3, <2>1, <2>2, <2>3 DEF ToSet
<1>5. \A i, j \in DOMAIN new : new[i] = new[j] => i = j
  <2>1. \A i \in 1..Len(effects) : effects[i] # e
    BY <1>3 DEF ToSet
  <2>2. \A i, j \in 1..Len(effects) : effects[i] = effects[j] => i = j
    BY <1>3 DEF BoxInv
  <2> QED BY <1>3, <2>1, <2>2
<1>6. effects' = new
  BY <1>2
<1>7. \A k, what : AtHand(k, what)' <=> <<k, what>> \in ToSet(new)
  BY <1>6 DEF AtHand, ToSet
<1> QED
  BY <1>3, <1>4, <1>5, <1>6, <1>7 DEF AtHand

LEMMA NothingDone ==
  ASSUME BoxInv, effects' = effects
  PROVE  /\ \E S : effects' \in Seq(S)
         /\ \A k, what : AtHand(k, what)' <=> AtHand(k, what)
         /\ \A i, j \in DOMAIN effects' : effects'[i] = effects'[j] => i = j
BY DEF BoxInv, AtHand, ToSet

\* What a task is at stays so when another one does something, not of its guard.
LEMMA TasksRest ==
  ASSUME BoxInv, NEW u \in Tasks, UNCHANGED <<config, guard, effects>>, tpc'[u] = tpc[u], name'[u] = name[u]
  PROVE  AtGuard(u)'
<1>1. Key(u)' = Key(u)
  BY DEF Key, RunnerOf, Docker
<1>2. AtGuard(u)
  BY DEF BoxInv
<1>3. Docker' <=> Docker
  BY DEF Docker
<1>4. \A what : AtHand(Key(u), what)' <=> AtHand(Key(u), what)
  BY <1>1 DEF AtHand, ToSet
<1>5. Tried(Key(u))' <=> Tried(Key(u))
  BY <1>1 DEF Tried
<1>6. (guard[Key(u)])' = guard[Key(u)]
  BY <1>1
<1> QED
  BY <1>2, <1>3, <1>4, <1>5, <1>6 DEF AtGuard

\* Or of one that it took, or takes.
LEMMA TasksStay ==
  ASSUME BoxInv, NEW t \in Tasks, NEW u \in Tasks, u # t,
         config' = config, tpc'[u] = tpc[u], name'[u] = name[u],
         ~Tried(Key(t)) \/ guard[Key(t)] = t,
         \A k \in DOMAIN guard : k # Key(t) => k \in DOMAIN guard' /\ guard'[k] = guard[k],
         \A k, what : k # Key(t) => (AtHand(k, what)' <=> AtHand(k, what))
  PROVE  AtGuard(u)'
<1>1. Key(u)' = Key(u)
  BY DEF Key, RunnerOf, Docker
<1>2. AtGuard(u)
  BY DEF BoxInv
<1>3. Docker' <=> Docker
  BY DEF Docker
<1>4. CASE Key(u) # Key(t)
  <2>1. \A what : AtHand(Key(u), what)' <=> AtHand(Key(u), what)
    <3>1. PICK k : k = Key(u)
      OBVIOUS
    <3>2. \A what : AtHand(k, what)' <=> AtHand(k, what)
      BY <1>4, <3>1
    <3>3. \A what : AtHand(Key(u), what)' <=> AtHand(k, what)'
      BY <1>1, <3>1 DEF AtHand
    <3> QED BY <3>1, <3>2, <3>3
  <2>2. Tried(Key(u)) => Tried(Key(u))' /\ (guard[Key(u)])' = guard[Key(u)]
    BY <1>1, <1>4 DEF Tried
  <2> QED BY <1>2, <1>3, <2>1, <2>2 DEF AtGuard
<1>5. CASE Key(u) = Key(t)
  <2>1. tpc[u] \notin Working \cup {"prepared", "running", "done", "failed"}
    BY <1>2, <1>5, ContainerAssumption DEF AtGuard, Decided
  <2> QED BY <2>1 DEF AtGuard
<1> QED
  BY <1>4, <1>5

\* What is done of a guard that is free, or that one has, is no one's else.
LEMMA BoxStep ==
  ASSUME BoxInv, NEW t \in Tasks,
         config' = config, DOMAIN tpc' = Tasks, DOMAIN name' = Tasks,
         \A u \in Tasks : u # t => tpc'[u] = tpc[u] /\ name'[u] = name[u],
         name'[t] = name[t],
         ~Tried(Key(t)) \/ guard[Key(t)] = t,
         DOMAIN guard' = DOMAIN guard \cup {Key(t)},
         \A k \in DOMAIN guard : k # Key(t) => guard'[k] = guard[k],
         \/ effects' = effects
         \/ \E what : effects' = Append(effects, <<Key(t), what>>) /\ ~AtHand(Key(t), what),
         AtGuard(t)',
         guard'[Key(t)] = "ok" => \A what \in NeededFor(Key(t)) : AtHand(Key(t), what)'
  PROVE  BoxInv'
<1>1. Key(t)' = Key(t)
  BY DEF Key, RunnerOf, Docker
<1>2. /\ \E S : effects' \in Seq(S)
      /\ \A k, what : AtHand(k, what) => AtHand(k, what)'
      /\ \A k, what : k # Key(t) => (AtHand(k, what)' <=> AtHand(k, what))
      /\ \A i, j \in DOMAIN effects' : effects'[i] = effects'[j] => i = j
  <2>1. CASE effects' = effects
    BY <2>1, NothingDone
  <2>2. CASE \E what : effects' = Append(effects, <<Key(t), what>>) /\ ~AtHand(Key(t), what)
    <3>1. PICK what : effects' = Append(effects, <<Key(t), what>>) /\ ~AtHand(Key(t), what)
      BY <2>2
    <3>2. PICK e : e = <<Key(t), what>>
      OBVIOUS
    <3>3. e \notin ToSet(effects)
      BY <3>1, <3>2 DEF AtHand
    <3>4. /\ \E S : effects' \in Seq(S)
          /\ \A k, w : AtHand(k, w)' <=> (AtHand(k, w) \/ <<k, w>> = e)
          /\ \A i, j \in DOMAIN effects' : effects'[i] = effects'[j] => i = j
      BY <3>1, <3>2, <3>3, OneMoreDone
    <3>5. \A k, w : <<k, w>> = e => k = Key(t)
      BY <3>2
    <3> QED BY <3>4, <3>5
  <2> QED BY <2>1, <2>2
<1>3. \A u \in Tasks : AtGuard(u)'
  <2> SUFFICES ASSUME NEW u \in Tasks, u # t PROVE AtGuard(u)'
    OBVIOUS
  <2>1. \A k \in DOMAIN guard : k # Key(t) => k \in DOMAIN guard' /\ guard'[k] = guard[k]
    OBVIOUS
  <2> QED BY <1>2, <2>1, TasksStay
<1>4. \A k \in DOMAIN guard' : guard'[k] = "ok" => \A what \in NeededFor(k)' : AtHand(k, what)'
  <2> SUFFICES ASSUME NEW k \in DOMAIN guard', guard'[k] = "ok", NEW what \in NeededFor(k)'
               PROVE  AtHand(k, what)'
    OBVIOUS
  <2>1. what \in NeededFor(k)
    BY DEF NeededFor, Docker
  <2>2. CASE k = Key(t)
    <3>1. AtHand(Key(t), what)'
      BY <2>1, <2>2
    <3> QED BY <3>1, <2>2, <1>1 DEF AtHand
  <2>3. CASE k # Key(t)
    <3>1. k \in DOMAIN guard /\ guard[k] = "ok"
      BY <2>3
    <3>2. AtHand(k, what)
      BY <2>1, <3>1 DEF BoxInv
    <3> QED BY <3>2, <1>2
  <2> QED BY <2>2, <2>3
<1>5. \A k, what : AtHand(k, what)' => Tried(k)'
  <2> SUFFICES ASSUME NEW k, NEW what, AtHand(k, what)', k # Key(t) PROVE Tried(k)'
    BY DEF Tried
  <2>1. Tried(k)
    BY <1>2 DEF BoxInv
  <2> QED BY <2>1 DEF Tried
<1> QED
  BY <1>2, <1>3, <1>4, <1>5 DEF BoxInv

\* A step that is not of the guard.
LEMMA BoxRest ==
  ASSUME BoxInv, UNCHANGED <<config, guard, effects>>, DOMAIN tpc' = Tasks, DOMAIN name' = Tasks,
         \A u \in Tasks : AtGuard(u)'
  PROVE  BoxInv'
<1>1. /\ \E S : effects' \in Seq(S)
      /\ \A k, what : AtHand(k, what)' <=> AtHand(k, what)
      /\ \A i, j \in DOMAIN effects' : effects'[i] = effects'[j] => i = j
  BY NothingDone
<1>2. \A k : NeededFor(k)' = NeededFor(k) /\ (Tried(k)' <=> Tried(k))
  BY DEF NeededFor, Tried, Docker
<1> QED
  BY <1>1, <1>2 DEF BoxInv

-----------------------------------------------------------------------------
(* The containers: each step. *)

\* Of one task, what is known of it.
LEMMA BoxFacts ==
  ASSUME BoxInv, NEW t \in Tasks
  PROVE  /\ AtGuard(t) /\ DOMAIN tpc = Tasks /\ DOMAIN name = Tasks
         /\ \A p : [tpc EXCEPT ![t] = p][t] = p
         /\ \A p, u \in Tasks : u # t => [tpc EXCEPT ![t] = p][u] = tpc[u]
         /\ UNCHANGED <<config, name>> => Key(t)' = Key(t)
         /\ UNCHANGED config => (Docker' <=> Docker)
BY DEF BoxInv, Key, RunnerOf, Docker

\* A step that only moves a task, from a place to one of which as much is known.
LEMMA OnlyMoved ==
  ASSUME BoxInv, NEW t \in Tasks, NEW p, MoveTo(t, p), UNCHANGED <<config, guard, effects>>,
         DOMAIN name' = Tasks, \A u \in Tasks : u # t => name'[u] = name[u],
         p \notin Working,
         p \in {"prepared", "running", "done"} => name' = name /\ Tried(Key(t)) /\ guard[Key(t)] = "ok",
         p = "failed" => name' = name /\ Tried(Key(t)) /\ guard[Key(t)] = "failed"
  PROVE  BoxInv'
<1>1. tpc' = [tpc EXCEPT ![t] = p]
  BY DEF MoveTo
<1>2. DOMAIN tpc' = Tasks /\ tpc'[t] = p /\ \A u \in Tasks : u # t => tpc'[u] = tpc[u]
  BY <1>1 DEF BoxInv
<1>3. AtGuard(t)'
  <2>1. name' = name => Key(t)' = Key(t)
    BY BoxFacts
  <2>2. name' = name => (Tried(Key(t))' <=> Tried(Key(t))) /\ (guard[Key(t)])' = guard[Key(t)]
    BY <2>1 DEF Tried
  <2> QED BY <1>2, <2>2 DEF AtGuard
<1>4. \A u \in Tasks : AtGuard(u)'
  BY <1>2, <1>3, TasksRest
<1> QED
  BY <1>2, <1>4, BoxRest

LEMMA ResolveStep ==
  ASSUME BoxInv, NEW t \in Tasks, ResolveRunningContainerName(t)
  PROVE  BoxInv'
<1>1. UNCHANGED <<config, guard, effects>>
  BY DEF ResolveRunningContainerName
<1>2. \/ MoveTo(t, "guard") /\ name' = [name EXCEPT ![t] = CHOOSE c \in Matching(t) : TRUE]
      \/ name' = name /\ (MoveTo(t, "not running") \/ MoveTo(t, "ambiguous") \/ MoveTo(t, "timed out")
                            \/ MoveTo(t, "not listed"))
  BY DEF ResolveRunningContainerName
<1>3. DOMAIN name' = Tasks /\ \A u \in Tasks : u # t => name'[u] = name[u]
  BY <1>2 DEF BoxInv
<1>4. {"guard", "not running", "ambiguous", "timed out", "not listed"} \cap (Working \cup {"prepared", "running", "done", "failed"}) = {}
  BY DEF Working
<1>5. \E p \in {"guard", "not running", "ambiguous", "timed out", "not listed"} : MoveTo(t, p)
  BY <1>2
<1> QED
  BY <1>1, <1>3, <1>4, <1>5, OnlyMoved

LEMMA GuardDoStep ==
  ASSUME BoxInv, NEW t \in Tasks, GuardDo(t)
  PROVE  BoxInv'
<1> DEFINE p == IF Docker THEN "build" ELSE "copy"
<1>1. /\ tpc[t] = "guard" /\ ~Tried(Key(t))
      /\ guard' = [k \in DOMAIN guard \cup {Key(t)} |-> IF k = Key(t) THEN t ELSE guard[k]]
      /\ tpc' = [tpc EXCEPT ![t] = p]
      /\ UNCHANGED <<config, name, effects>>
  BY DEF GuardDo, MoveTo
<1>2. DOMAIN tpc' = Tasks /\ tpc'[t] = p /\ \A u \in Tasks : u # t => tpc'[u] = tpc[u]
  BY <1>1 DEF BoxInv
<1>3. /\ DOMAIN guard' = DOMAIN guard \cup {Key(t)} /\ guard'[Key(t)] = t
      /\ \A k \in DOMAIN guard : k # Key(t) => guard'[k] = guard[k]
  BY <1>1
<1>4. \A what : ~AtHand(Key(t), what)
  BY <1>1 DEF BoxInv
<1>5. AtGuard(t)'
  <2>1. Key(t)' = Key(t) /\ (Docker' <=> Docker)
    BY <1>1, BoxFacts
  <2>2. Tried(Key(t))' /\ (guard[Key(t)])' = t
    BY <1>3, <2>1 DEF Tried
  <2>3. \A what : ~AtHand(Key(t), what)'
    BY <1>1, <1>4, <2>1 DEF AtHand, ToSet
  <2>4. p \notin {"prepared", "running", "done", "failed", "precheck"} /\ (p = "build" <=> Docker)
    OBVIOUS
  <2> HIDE DEF p
  <2> QED BY <1>2, <2>1, <2>2, <2>3, <2>4 DEF AtGuard
<1>6. guard'[Key(t)] # "ok"
  BY <1>3, ContainerAssumption
<1>7. DOMAIN name' = Tasks /\ name' = name
  BY <1>1 DEF BoxInv
<1> HIDE DEF p
<1> QED
  BY <1>1, <1>2, <1>3, <1>5, <1>6, <1>7, BoxStep

LEMMA GuardWaitStep ==
  ASSUME BoxInv, NEW t \in Tasks, GuardWait(t)
  PROVE  BoxInv'
<1> DEFINE p == IF guard[Key(t)] = "ok" THEN "prepared" ELSE "failed"
<1>1. /\ Tried(Key(t)) /\ guard[Key(t)] \in Decided /\ MoveTo(t, p)
      /\ UNCHANGED <<config, guard, name, effects>>
  BY DEF GuardWait
<1>2. /\ p \notin Working /\ p \notin {"running", "done"}
      /\ p = "prepared" => guard[Key(t)] = "ok"
      /\ p = "failed" => guard[Key(t)] = "failed"
  BY <1>1 DEF Working, Decided
<1>3. DOMAIN name' = Tasks /\ name' = name
  BY <1>1 DEF BoxInv
<1> HIDE DEF p
<1> QED
  BY <1>1, <1>2, <1>3, OnlyMoved

LEMMA RunStep ==
  ASSUME BoxInv, NEW t \in Tasks, Run(t) \/ Finish(t)
  PROVE  BoxInv'
<1>1. tpc[t] \in {"prepared", "running"} /\ UNCHANGED <<config, guard, name, effects>>
  BY DEF Run, Finish
<1>2. Tried(Key(t)) /\ guard[Key(t)] = "ok"
  BY <1>1, BoxFacts DEF AtGuard
<1>3. \E p \in {"running", "failed to start", "done"} : MoveTo(t, p)
  BY DEF Run, Finish
<1>4. PICK p \in {"running", "failed to start", "done"} : MoveTo(t, p)
  BY <1>3
<1>5. p \notin Working /\ p # "failed"
  BY <1>4 DEF Working
<1>6. DOMAIN name' = Tasks /\ name' = name
  BY <1>1 DEF BoxInv
<1> QED
  BY <1>1, <1>2, <1>4, <1>5, <1>6, OnlyMoved

LEMMA ExpireStep ==
  ASSUME BoxInv, UNCHANGED <<config, guard, tpc, name, effects>>
  PROVE  BoxInv'
<1>1. \A u \in Tasks : AtGuard(u)'
  BY TasksRest
<1>2. DOMAIN tpc' = Tasks /\ DOMAIN name' = Tasks
  BY DEF BoxInv
<1> QED
  BY <1>1, <1>2, BoxRest

\* The worker of a guard goes on, or tells what came of it.
LEMMA WorkStep ==
  ASSUME BoxInv, NEW t \in Tasks, tpc[t] \in Working, config' = config, name' = name,
         DOMAIN tpc' = Tasks, \A u \in Tasks : u # t => tpc'[u] = tpc[u],
         \/ effects' = effects
         \/ \E what : effects' = Append(effects, <<Key(t), what>>) /\ ~AtHand(Key(t), what),
         \/ /\ tpc[t] = "copy" /\ tpc'[t] = "precheck" /\ guard' = guard
            /\ ~AtHand(Key(t), "precheck")' /\ ~AtHand(Key(t), "build")'
            /\ HasBinary(config) => AtHand(Key(t), "copy")'
         \/ /\ tpc'[t] = "prepared" /\ guard' = [guard EXCEPT ![Key(t)] = "ok"]
            /\ \A what \in NeededFor(Key(t)) : AtHand(Key(t), what)'
         \/ tpc'[t] = "failed" /\ guard' = [guard EXCEPT ![Key(t)] = "failed"]
  PROVE  BoxInv'
<1>1. Tried(Key(t)) /\ guard[Key(t)] = t /\ (Docker <=> tpc[t] = "build")
  BY BoxFacts DEF AtGuard
<1>2. Key(t)' = Key(t) /\ (Docker' <=> Docker)
  BY BoxFacts
<1>3. /\ DOMAIN guard' = DOMAIN guard \cup {Key(t)}
      /\ \A k \in DOMAIN guard : k # Key(t) => guard'[k] = guard[k]
  BY <1>1 DEF Tried
<1>4. Tried(Key(t))'
  BY <1>1, <1>2, <1>3 DEF Tried
<1>5. CASE /\ tpc[t] = "copy" /\ tpc'[t] = "precheck" /\ guard' = guard
           /\ ~AtHand(Key(t), "precheck")' /\ ~AtHand(Key(t), "build")'
           /\ HasBinary(config) => AtHand(Key(t), "copy")'
  <2>1. AtGuard(t)'
    <3>1. (guard[Key(t)])' = t
      BY <1>1, <1>2, <1>5
    <3> QED BY <1>1, <1>2, <1>4, <1>5, <3>1 DEF AtGuard
  <2>2. guard'[Key(t)] # "ok"
    BY <1>1, <1>5, ContainerAssumption
  <2>3. DOMAIN name' = Tasks
    BY DEF BoxInv
  <2> QED BY <1>1, <1>3, <2>1, <2>2, <2>3, BoxStep
<1>6. CASE /\ tpc'[t] = "prepared" /\ guard' = [guard EXCEPT ![Key(t)] = "ok"]
           /\ \A what \in NeededFor(Key(t)) : AtHand(Key(t), what)'
  <2>1. guard'[Key(t)] = "ok"
    BY <1>1, <1>6 DEF Tried
  <2>2. AtGuard(t)'
    <3>1. (guard[Key(t)])' = "ok"
      BY <1>2, <2>1
    <3> QED BY <1>4, <1>6, <3>1 DEF AtGuard, Working
  <2>3. DOMAIN name' = Tasks
    BY DEF BoxInv
  <2> QED BY <1>1, <1>3, <1>6, <2>2, <2>3, BoxStep
<1>7. CASE tpc'[t] = "failed" /\ guard' = [guard EXCEPT ![Key(t)] = "failed"]
  <2>1. guard'[Key(t)] = "failed"
    BY <1>1, <1>7 DEF Tried
  <2>2. AtGuard(t)'
    <3>1. (guard[Key(t)])' = "failed"
      BY <1>2, <2>1
    <3> QED BY <1>4, <1>7, <3>1 DEF AtGuard, Working
  <2>3. DOMAIN name' = Tasks
    BY DEF BoxInv
  <2> QED BY <1>1, <1>3, <2>1, <2>2, <2>3, BoxStep
<1> QED
  BY <1>5, <1>6, <1>7

\* What a verdict does to the guard and to its worker.
LEMMA VerdictDoes ==
  ASSUME BoxInv, NEW t \in Tasks, NEW v \in {"ok", "failed"}, Verdict(t, v)
  PROVE  /\ guard' = [guard EXCEPT ![Key(t)] = v]
         /\ tpc'[t] = IF v = "ok" THEN "prepared" ELSE "failed"
         /\ DOMAIN tpc' = Tasks /\ \A u \in Tasks : u # t => tpc'[u] = tpc[u]
BY DEF Verdict, MoveTo, BoxInv

LEMMA EnsureBinaryStep ==
  ASSUME BoxInv, NEW t \in Tasks, EnsureBinary(t)
  PROVE  BoxInv'
<1>1. /\ tpc[t] = "copy" /\ tpc[t] \in Working
      /\ config' = config /\ name' = name
  BY DEF EnsureBinary, Working
<1>2. \A what \in {"build", "precheck", "copy"} : ~AtHand(Key(t), what)
  BY <1>1, BoxFacts DEF AtGuard
<1>3. Key(t)' = Key(t)
  BY <1>1, BoxFacts
<1>4. CASE ~HasBinary(config) /\ MoveTo(t, "precheck") /\ UNCHANGED <<guard, effects>>
  <2>1. DOMAIN tpc' = Tasks /\ tpc'[t] = "precheck" /\ \A u \in Tasks : u # t => tpc'[u] = tpc[u]
    BY <1>4, BoxFacts DEF MoveTo
  <2>2. ~AtHand(Key(t), "precheck")' /\ ~AtHand(Key(t), "build")'
    BY <1>2, <1>3, <1>4 DEF AtHand, ToSet
  <2> QED BY <1>1, <1>4, <2>1, <2>2, WorkStep
<1>5. CASE /\ HasBinary(config) /\ MoveTo(t, "precheck")
           /\ effects' = Append(effects, Done(t, "copy")) /\ UNCHANGED guard
  <2>1. DOMAIN tpc' = Tasks /\ tpc'[t] = "precheck" /\ \A u \in Tasks : u # t => tpc'[u] = tpc[u]
    BY <1>5, BoxFacts DEF MoveTo
  <2>2. effects' = Append(effects, <<Key(t), "copy">>) /\ ~AtHand(Key(t), "copy")
    BY <1>2, <1>5 DEF Done
  <2>3. PICK k : k = Key(t)
    OBVIOUS
  <2>4. \A what : AtHand(k, what)' <=> (AtHand(k, what) \/ <<k, what>> = <<k, "copy">>)
    BY <2>2, <2>3, OneMoreDone DEF AtHand
  <2>5. AtHand(k, "copy")' /\ ~AtHand(k, "precheck")' /\ ~AtHand(k, "build")'
    BY <1>2, <2>3, <2>4
  <2>6. AtHand(Key(t), "copy")' /\ ~AtHand(Key(t), "precheck")' /\ ~AtHand(Key(t), "build")'
    BY <1>3, <2>3, <2>5 DEF AtHand
  <2> QED BY <1>1, <1>5, <2>1, <2>2, <2>6, WorkStep
<1>6. CASE Verdict(t, "failed") /\ UNCHANGED effects
  <2>1. /\ guard' = [guard EXCEPT ![Key(t)] = "failed"] /\ tpc'[t] = "failed"
        /\ DOMAIN tpc' = Tasks /\ \A u \in Tasks : u # t => tpc'[u] = tpc[u]
    BY <1>6, VerdictDoes
  <2> QED BY <1>1, <1>6, <2>1, WorkStep
<1> QED
  BY <1>4, <1>5, <1>6 DEF EnsureBinary

LEMMA RunPrecheckStep ==
  ASSUME BoxInv, NEW t \in Tasks, RunPrecheck(t)
  PROVE  BoxInv'
<1> DEFINE cmd == ResolvePrecheckCmd(config, RunnerOf(t))
<1>1. /\ tpc[t] = "precheck" /\ tpc[t] \in Working
      /\ config' = config /\ name' = name
  BY DEF RunPrecheck, Working
<1>2. /\ ~AtHand(Key(t), "precheck") /\ ~Docker
      /\ HasBinary(config) => AtHand(Key(t), "copy")
  BY <1>1, BoxFacts DEF AtGuard
<1>3. Key(t)' = Key(t)
  BY <1>1, BoxFacts
<1>4. NeededFor(Key(t)) = (IF HasBinary(config) THEN {"copy"} ELSE {}) \cup (IF cmd # <<>> THEN {"precheck"} ELSE {})
  <2>1. Key(t)[1] = RunnerOf(t)
    BY DEF Key
  <2> HIDE DEF cmd
  <2> QED BY <1>2, <2>1 DEF NeededFor, cmd
<1> HIDE DEF cmd
<1>5. CASE cmd = <<>> /\ Verdict(t, "ok") /\ UNCHANGED effects
  <2>1. /\ guard' = [guard EXCEPT ![Key(t)] = "ok"] /\ tpc'[t] = "prepared"
        /\ DOMAIN tpc' = Tasks /\ \A u \in Tasks : u # t => tpc'[u] = tpc[u]
    BY <1>5, VerdictDoes
  <2>2. AtHand(Key(t), "copy") => AtHand(Key(t), "copy")'
    BY <1>3, <1>5 DEF AtHand, ToSet
  <2>3. \A what \in NeededFor(Key(t)) : what = "copy" /\ HasBinary(config)
    BY <1>4, <1>5
  <2>4. \A what \in NeededFor(Key(t)) : AtHand(Key(t), what)'
    <3> SUFFICES ASSUME NEW what \in NeededFor(Key(t)) PROVE AtHand(Key(t), what)'
      OBVIOUS
    <3> QED BY <1>2, <2>2, <2>3
  <2> QED BY <1>1, <1>5, <2>1, <2>4, WorkStep
<1>6. CASE cmd # <<>> /\ Verdict(t, "ok") /\ effects' = Append(effects, Done(t, "precheck"))
  <2>1. /\ guard' = [guard EXCEPT ![Key(t)] = "ok"] /\ tpc'[t] = "prepared"
        /\ DOMAIN tpc' = Tasks /\ \A u \in Tasks : u # t => tpc'[u] = tpc[u]
    BY <1>6, VerdictDoes
  <2>2. effects' = Append(effects, <<Key(t), "precheck">>)
    BY <1>6 DEF Done
  <2>3. PICK k : k = Key(t)
    OBVIOUS
  <2>4. \A what : AtHand(k, what)' <=> (AtHand(k, what) \/ <<k, what>> = <<k, "precheck">>)
    BY <1>2, <2>2, <2>3, OneMoreDone DEF AtHand
  <2>5. \A what \in NeededFor(k) : what = "precheck" \/ (what = "copy" /\ HasBinary(config))
    BY <1>4, <2>3
  <2>6. \A what \in NeededFor(k) : AtHand(k, what)'
    BY <1>2, <2>3, <2>4, <2>5
  <2>7. \A what \in NeededFor(Key(t)) : AtHand(Key(t), what)'
    BY <1>3, <2>3, <2>6 DEF AtHand
  <2> QED BY <1>1, <1>2, <2>1, <2>2, <2>7, WorkStep
<1>7. CASE Verdict(t, "failed") /\ UNCHANGED effects
  <2>1. /\ guard' = [guard EXCEPT ![Key(t)] = "failed"] /\ tpc'[t] = "failed"
        /\ DOMAIN tpc' = Tasks /\ \A u \in Tasks : u # t => tpc'[u] = tpc[u]
    BY <1>7, VerdictDoes
  <2> QED BY <1>1, <1>7, <2>1, WorkStep
<1> QED
  BY <1>5, <1>6, <1>7 DEF RunPrecheck, cmd

LEMMA EnsureImageStep ==
  ASSUME BoxInv, NEW t \in Tasks, EnsureImage(t)
  PROVE  BoxInv'
<1>1. /\ tpc[t] = "build" /\ tpc[t] \in Working
      /\ config' = config /\ name' = name
  BY DEF EnsureImage, Working
<1>2. ~AtHand(Key(t), "build") /\ Docker
  BY <1>1, BoxFacts DEF AtGuard
<1>3. Key(t)' = Key(t)
  BY <1>1, BoxFacts
<1>4. CASE Verdict(t, "ok") /\ effects' = Append(effects, Done(t, "build"))
  <2>1. /\ guard' = [guard EXCEPT ![Key(t)] = "ok"] /\ tpc'[t] = "prepared"
        /\ DOMAIN tpc' = Tasks /\ \A u \in Tasks : u # t => tpc'[u] = tpc[u]
    BY <1>4, VerdictDoes
  <2>2. effects' = Append(effects, <<Key(t), "build">>)
    BY <1>4 DEF Done
  <2>3. PICK k : k = Key(t)
    OBVIOUS
  <2>4. \A what : AtHand(k, what)' <=> (AtHand(k, what) \/ <<k, what>> = <<k, "build">>)
    BY <1>2, <2>2, <2>3, OneMoreDone DEF AtHand
  <2>5. \A what \in NeededFor(k) : what = "build"
    BY <1>2 DEF NeededFor
  <2>6. \A what \in NeededFor(k) : AtHand(k, what)'
    BY <2>4, <2>5
  <2>7. \A what \in NeededFor(Key(t)) : AtHand(Key(t), what)'
    BY <1>3, <2>3, <2>6 DEF AtHand
  <2> QED BY <1>1, <1>2, <2>1, <2>2, <2>7, WorkStep
<1>5. CASE Verdict(t, "failed") /\ UNCHANGED effects
  <2>1. /\ guard' = [guard EXCEPT ![Key(t)] = "failed"] /\ tpc'[t] = "failed"
        /\ DOMAIN tpc' = Tasks /\ \A u \in Tasks : u # t => tpc'[u] = tpc[u]
    BY <1>5, VerdictDoes
  <2> QED BY <1>1, <1>5, <2>1, WorkStep
<1> QED
  BY <1>4, <1>5 DEF EnsureImage

LEMMA BoxInvInit ==
  ASSUME BoxInit
  PROVE  BoxInv
<1>1. /\ config \in Cases /\ guard = <<>> /\ effects = <<>>
      /\ DOMAIN tpc = Tasks /\ DOMAIN name = Tasks
      /\ \A t \in Tasks : tpc[t] \in {"not built", "guard", "resolve"}
  BY DEF BoxInit
<1>2. effects \in Seq({}) /\ DOMAIN effects = {} /\ DOMAIN guard = {}
  <2>1. <<>> \in Seq({}) /\ DOMAIN <<>> = {}
    BY EmptySeq
  <2> QED BY <1>1, <2>1
<1>3. \A t \in Tasks : AtGuard(t)
  BY <1>1 DEF AtGuard, Working
<1>4. \A k, what : ~AtHand(k, what)
  BY <1>2 DEF AtHand, ToSet
<1> QED
  BY <1>1, <1>2, <1>3, <1>4 DEF BoxInv

LEMMA BoxInvNext ==
  ASSUME BoxInv, [BoxNext]_boxVars
  PROVE  BoxInv'
<1>1. CASE UNCHANGED boxVars
  BY <1>1, ExpireStep DEF boxVars
<1>2. ASSUME NEW t \in Tasks, ResolveRunningContainerName(t) PROVE BoxInv'
  BY <1>2, ResolveStep
<1>3. ASSUME NEW t \in Tasks, GuardDo(t) PROVE BoxInv'
  BY <1>3, GuardDoStep
<1>4. ASSUME NEW t \in Tasks, GuardWait(t) PROVE BoxInv'
  BY <1>4, GuardWaitStep
<1>5. ASSUME NEW t \in Tasks, EnsureBinary(t) PROVE BoxInv'
  BY <1>5, EnsureBinaryStep
<1>6. ASSUME NEW t \in Tasks, RunPrecheck(t) PROVE BoxInv'
  BY <1>6, RunPrecheckStep
<1>7. ASSUME NEW t \in Tasks, EnsureImage(t) PROVE BoxInv'
  BY <1>7, EnsureImageStep
<1>8. ASSUME NEW t \in Tasks, Run(t) \/ Finish(t) PROVE BoxInv'
  BY <1>8, RunStep
<1>9. ASSUME NEW t \in Tasks, Expire(t) PROVE BoxInv'
  BY <1>9, ExpireStep DEF Expire
<1>10. ASSUME NEW c, Stop(c) \/ StartAgain(c) \/ Recreate(c) PROVE BoxInv'
  BY <1>10, ExpireStep DEF Stop, StartAgain, Recreate
<1> QED
  BY <1>1, <1>2, <1>3, <1>4, <1>5, <1>6, <1>7, <1>8, <1>9, <1>10 DEF BoxNext

\* Who has a guard, and what has been done of its work, for any number of tasks and
\* any configuration, whatever stops, fails or runs out of time
\* (container/prepare_guard.go:10-44).
THEOREM BoxInvHolds == BoxSpec => []BoxInv
BY BoxInvInit, BoxInvNext, PTL DEF BoxSpec

-----------------------------------------------------------------------------
(* What is left of the work of the guards: in a container that its owner may make  *)
(* anew, and behind the tag that other runners build under.                        *)

LeftInv ==
  /\ DOMAIN ran = Tasks
  /\ \A i \in DOMAIN effects : ~Docker =>
       <<effects[i][1][2], effects[i][2]>> \in inside \/ effects[i] \in lost
  /\ Docker /\ effects # <<>> => image = ResolveDockerfile(config, effects[Len(effects)][1][1])
  /\ ImageOfABuild

\* A step that does nothing of the work, and starts no agent.
LEMMA LeftAlone ==
  ASSUME LeftInv, UNCHANGED <<config, inside, image, ran, effects, lost>>,
         \A t \in Tasks : Running(t)' => Running(t)
  PROVE  LeftInv'
<1>1. (Docker' <=> Docker) /\ \A t \in Tasks : RunnerOf(t)' = RunnerOf(t)
  BY DEF Docker, RunnerOf
<1>2. ImageOfABuild'
  BY <1>1 DEF LeftInv, ImageOfABuild
<1> QED
  BY <1>1, <1>2 DEF LeftInv

\* One thing more is done.
LEMMA LeftMore ==
  ASSUME BoxInv, LeftInv, NEW k, NEW what, effects' = Append(effects, <<k, what>>),
         UNCHANGED <<config, ran, lost>>, inside \subseteq inside',
         ~Docker => <<k[2], what>> \in inside',
         Docker => image' = ResolveDockerfile(config, k[1]),
         \A t \in Tasks : Running(t)' => Running(t)
  PROVE  LeftInv'
<1>1. PICK e : e = <<k, what>>
  OBVIOUS
<1>2. e[1] = k /\ e[2] = what /\ e[1][1] = k[1] /\ e[1][2] = k[2]
  BY <1>1
<1>3. PICK S : effects \in Seq(S)
  BY DEF BoxInv
<1>4. PICK new : new = Append(effects, e)
  OBVIOUS
<1>5. /\ new \in Seq(S \cup {e})
      /\ Len(effects) \in Nat /\ DOMAIN effects = 1..Len(effects) /\ DOMAIN new = 1..(Len(effects) + 1)
      /\ \A i \in 1..Len(effects) : new[i] = effects[i]
      /\ new[Len(effects) + 1] = e
  BY <1>3, <1>4, AppendAny
<1>6. effects' = new /\ Len(new) = Len(effects) + 1
  BY <1>1, <1>3, <1>4, <1>5, AppendProperties, LenProperties
<1>7. (Docker' <=> Docker) /\ \A t \in Tasks : RunnerOf(t)' = RunnerOf(t)
  BY DEF Docker, RunnerOf
<1>8. \A i \in DOMAIN new : ~Docker => <<new[i][1][2], new[i][2]>> \in inside' \/ new[i] \in lost
  <2> SUFFICES ASSUME NEW i \in DOMAIN new, ~Docker
               PROVE  <<new[i][1][2], new[i][2]>> \in inside' \/ new[i] \in lost
    OBVIOUS
  <2>1. CASE i = Len(effects) + 1
    BY <1>2, <1>5, <2>1
  <2>2. CASE i # Len(effects) + 1
    <3>1. i \in DOMAIN effects /\ new[i] = effects[i]
      BY <1>5, <2>2
    <3> QED BY <3>1 DEF LeftInv
  <2> QED BY <2>1, <2>2
<1>9. Docker => image' = ResolveDockerfile(config, new[Len(new)][1][1])
  BY <1>2, <1>5, <1>6
<1>10. ImageOfABuild'
  <2>1. \A i \in DOMAIN effects : i \in DOMAIN new /\ new[i] = effects[i]
    BY <1>5
  <2> SUFFICES ASSUME NEW t \in Tasks, Running(t), Docker
               PROVE  \E i, j \in DOMAIN new :
                        /\ i <= j /\ new[i] = <<<<RunnerOf(t), "">>, "build">>
                        /\ ran[t] = ResolveDockerfile(config, new[j][1][1])
    BY <1>6, <1>7 DEF ImageOfABuild
  <2>2. PICK i \in DOMAIN effects, j \in DOMAIN effects :
          /\ i <= j /\ effects[i] = <<<<RunnerOf(t), "">>, "build">>
          /\ ran[t] = ResolveDockerfile(config, effects[j][1][1])
    BY DEF LeftInv, ImageOfABuild
  <2> QED BY <2>1, <2>2
<1> QED
  BY <1>6, <1>7, <1>8, <1>9, <1>10 DEF LeftInv

\* What a move of a task has to do with agents that run.
LEMMA MovesTo ==
  ASSUME BoxInv, NEW t \in Tasks, NEW p, MoveTo(t, p), p \notin {"running", "done"} \/ tpc[t] = "running"
  PROVE  \A u \in Tasks : Running(u)' => Running(u)
<1>1. tpc' = [tpc EXCEPT ![t] = p] /\ DOMAIN tpc = Tasks
  BY DEF MoveTo, BoxInv
<1> QED
  BY <1>1 DEF Running

LEMMA LeftWork ==
  ASSUME BoxInv, LeftInv, NEW t \in Tasks, EnsureBinary(t) \/ RunPrecheck(t) \/ EnsureImage(t)
  PROVE  LeftInv'
<1>1. \A u \in Tasks : Running(u)' => Running(u)
  <2>1. \E p \in {"precheck", "prepared", "failed"} : MoveTo(t, p)
    BY DEF EnsureBinary, RunPrecheck, EnsureImage, Verdict
  <2> QED BY <2>1, MovesTo
<1>2. tpc[t] \in {"copy", "precheck", "build"} /\ (Docker <=> tpc[t] = "build")
  <2>1. tpc[t] \in {"copy", "precheck", "build"}
    BY DEF EnsureBinary, RunPrecheck, EnsureImage
  <2>2. AtGuard(t)
    BY BoxFacts
  <2> QED BY <2>1, <2>2 DEF AtGuard, Working
<1>3. Key(t)[1] = RunnerOf(t) /\ (~Docker => Key(t)[2] = name[t])
  BY DEF Key
<1>4. UNCHANGED <<config, ran, lost>>
  BY DEF EnsureBinary, RunPrecheck, EnsureImage
<1>5. CASE UNCHANGED <<inside, image, effects>>
  BY <1>1, <1>4, <1>5, LeftAlone
<1>6. ASSUME NEW what \in {"copy", "precheck"}, ~Docker, effects' = Append(effects, Done(t, what)),
             inside' = inside \cup {<<name[t], what>>}
      PROVE  LeftInv'
  <2>1. effects' = Append(effects, <<Key(t), what>>)
    BY <1>6 DEF Done
  <2> QED BY <1>1, <1>3, <1>4, <1>6, <2>1, LeftMore
<1>7. ASSUME Docker, effects' = Append(effects, Done(t, "build")), inside' = inside,
             image' = ResolveDockerfile(config, RunnerOf(t))
      PROVE  LeftInv'
  <2>1. effects' = Append(effects, <<Key(t), "build">>)
    BY <1>7 DEF Done
  <2> QED BY <1>1, <1>3, <1>4, <1>7, <2>1, LeftMore
<1>8. CASE EnsureBinary(t)
  <2>1. tpc[t] = "copy"
    BY <1>8 DEF EnsureBinary
  <2>2. ~Docker
    BY <1>2, <2>1
  <2>3. \/ UNCHANGED <<inside, image, effects>>
        \/ effects' = Append(effects, Done(t, "copy")) /\ inside' = inside \cup {<<name[t], "copy">>}
    BY <1>8 DEF EnsureBinary
  <2> QED BY <1>5, <1>6, <2>2, <2>3
<1>9. CASE RunPrecheck(t)
  <2>1. tpc[t] = "precheck"
    BY <1>9 DEF RunPrecheck
  <2>2. ~Docker
    BY <1>2, <2>1
  <2>3. \/ UNCHANGED <<inside, image, effects>>
        \/ effects' = Append(effects, Done(t, "precheck")) /\ inside' = inside \cup {<<name[t], "precheck">>}
    BY <1>9 DEF RunPrecheck
  <2> QED BY <1>5, <1>6, <2>2, <2>3
<1>10. CASE EnsureImage(t)
  <2>1. tpc[t] = "build"
    BY <1>10 DEF EnsureImage
  <2>2. Docker
    BY <1>2, <2>1
  <2>3. \/ UNCHANGED <<inside, image, effects>>
        \/ /\ effects' = Append(effects, Done(t, "build")) /\ inside' = inside
           /\ image' = ResolveDockerfile(config, RunnerOf(t))
    BY <1>10 DEF EnsureImage
  <2> QED BY <1>5, <1>7, <2>2, <2>3
<1> QED
  BY <1>8, <1>9, <1>10

LEMMA LeftRun ==
  ASSUME BoxInv, LeftInv, NEW t \in Tasks, Run(t)
  PROVE  LeftInv'
<1>1. UNCHANGED <<config, inside, image, effects, lost>> /\ tpc[t] = "prepared"
  BY DEF Run
<1>2. CASE MoveTo(t, "failed to start") /\ UNCHANGED ran
  <2>1. \A u \in Tasks : Running(u)' => Running(u)
    BY <1>2, MovesTo
  <2> QED BY <1>1, <1>2, <2>1, LeftAlone
<1>3. CASE MoveTo(t, "running") /\ ran' = [ran EXCEPT ![t] = image]
  <2>1. (Docker' <=> Docker) /\ \A u \in Tasks : RunnerOf(u)' = RunnerOf(u)
    BY <1>1 DEF Docker, RunnerOf
  <2>2. \A u \in Tasks : u # t => (Running(u)' => Running(u)) /\ ran'[u] = ran[u]
    <3>1. tpc' = [tpc EXCEPT ![t] = "running"] /\ DOMAIN tpc = Tasks
      BY <1>3 DEF MoveTo, BoxInv
    <3>2. \A u \in Tasks : u # t => tpc'[u] = tpc[u]
      BY <3>1
    <3>3. \A u \in Tasks : u # t => ran'[u] = ran[u]
      BY <1>3
    <3> QED BY <3>2, <3>3 DEF Running
  <2>3. ASSUME Docker
        PROVE  \E i, j \in DOMAIN effects :
                 /\ i <= j /\ effects[i] = <<<<RunnerOf(t), "">>, "build">>
                 /\ image = ResolveDockerfile(config, effects[j][1][1])
    <3>1. AtHand(Key(t), "build")
      <4>1. Tried(Key(t)) /\ guard[Key(t)] = "ok"
        BY <1>1, BoxFacts DEF AtGuard
      <4>2. "build" \in NeededFor(Key(t))
        BY <2>3 DEF NeededFor
      <4> QED BY <4>1, <4>2 DEF BoxInv, Tried
    <3>2. PICK i \in DOMAIN effects : effects[i] = <<<<RunnerOf(t), "">>, "build">>
      BY <2>3, <3>1 DEF AtHand, ToSet, Key
    <3>3. PICK S : effects \in Seq(S)
      BY DEF BoxInv
    <3>4. Len(effects) \in Nat /\ DOMAIN effects = 1..Len(effects)
      BY <3>3, LenProperties
    <3>5. i <= Len(effects) /\ Len(effects) \in DOMAIN effects
      <4>1. PICK n : n = Len(effects)
        OBVIOUS
      <4>2. n \in Nat /\ DOMAIN effects = 1..n
        BY <3>4, <4>1
      <4>3. i \in 1..n
        BY <4>2
      <4>4. i <= n /\ n \in 1..n
        BY <4>2, <4>3
      <4> QED BY <4>1, <4>2, <4>4
    <3>6. effects # <<>>
      <4>1. DOMAIN <<>> = {}
        BY EmptySeq
      <4>2. DOMAIN effects # {}
        BY <3>5
      <4> QED BY <4>1, <4>2
    <3>7. image = ResolveDockerfile(config, effects[Len(effects)][1][1])
      BY <2>3, <3>6 DEF LeftInv
    <3> QED BY <3>2, <3>5, <3>7
  <2>4. ran'[t] = image /\ DOMAIN ran' = Tasks
    BY <1>3 DEF LeftInv
  <2>5. ImageOfABuild'
    <3> SUFFICES ASSUME NEW u \in Tasks, Running(u)', Docker
                 PROVE  \E i, j \in DOMAIN effects :
                          /\ i <= j /\ effects[i] = <<<<RunnerOf(u), "">>, "build">>
                          /\ ran'[u] = ResolveDockerfile(config, effects[j][1][1])
      BY <1>1, <2>1 DEF ImageOfABuild
    <3>1. CASE u = t
      BY <2>3, <2>4, <3>1
    <3>2. CASE u # t
      <4>1. Running(u) /\ ran'[u] = ran[u]
        BY <2>2, <3>2
      <4> QED BY <4>1 DEF LeftInv, ImageOfABuild
    <3> QED BY <3>1, <3>2
  <2> QED BY <1>1, <2>1, <2>4, <2>5 DEF LeftInv
<1> QED
  BY <1>2, <1>3 DEF Run

LEMMA LeftOwner ==
  ASSUME BoxInv, LeftInv, NEW c, Recreate(c)
  PROVE  LeftInv'
<1>1. /\ ~Docker /\ UNCHANGED <<config, image, tpc, ran, effects>>
      /\ inside' = {d \in inside : d[1] # c}
      /\ lost' = lost \cup {e \in ToSet(effects) : e[1][2] = c}
  BY DEF Recreate
<1>2. (Docker' <=> Docker)
  BY <1>1 DEF Docker
<1>3. \A i \in DOMAIN effects : <<effects[i][1][2], effects[i][2]>> \in inside' \/ effects[i] \in lost'
  <2> SUFFICES ASSUME NEW i \in DOMAIN effects
               PROVE  <<effects[i][1][2], effects[i][2]>> \in inside' \/ effects[i] \in lost'
    OBVIOUS
  <2>1. CASE effects[i][1][2] = c
    <3>1. effects[i] \in ToSet(effects)
      BY DEF ToSet
    <3> QED BY <1>1, <2>1, <3>1
  <2>2. CASE effects[i][1][2] # c
    <3>1. <<effects[i][1][2], effects[i][2]>> \in inside \/ effects[i] \in lost
      BY <1>1 DEF LeftInv
    <3>2. <<effects[i][1][2], effects[i][2]>>[1] # c
      BY <2>2
    <3> QED BY <1>1, <3>1, <3>2
  <2> QED BY <2>1, <2>2
<1>4. ImageOfABuild'
  BY <1>1, <1>2 DEF ImageOfABuild
<1> QED
  BY <1>1, <1>2, <1>3, <1>4 DEF LeftInv

LEMMA LeftNext ==
  ASSUME BoxInv, LeftInv, [BoxNext]_boxVars
  PROVE  LeftInv'
<1>1. ASSUME UNCHANGED <<config, inside, image, tpc, ran, effects, lost>> PROVE LeftInv'
  <2>1. \A u \in Tasks : Running(u)' => Running(u)
    BY <1>1 DEF Running
  <2> QED BY <1>1, <2>1, LeftAlone
<1>2. CASE UNCHANGED boxVars
  BY <1>1, <1>2 DEF boxVars
<1>3. ASSUME NEW t \in Tasks, NEW p, MoveTo(t, p), p \notin {"running", "done"} \/ tpc[t] = "running",
             UNCHANGED <<config, inside, image, ran, effects, lost>>
      PROVE  LeftInv'
  BY <1>3, MovesTo, LeftAlone
<1>4. ASSUME NEW t \in Tasks, ResolveRunningContainerName(t) PROVE LeftInv'
  <2>1. \E p \in {"guard", "not running", "ambiguous", "timed out", "not listed"} : MoveTo(t, p)
    BY <1>4 DEF ResolveRunningContainerName
  <2>2. UNCHANGED <<config, inside, image, ran, effects, lost>>
    BY <1>4 DEF ResolveRunningContainerName
  <2> QED BY <1>3, <2>1, <2>2
<1>5. ASSUME NEW t \in Tasks, GuardDo(t) PROVE LeftInv'
  <2>1. \E p \in {"build", "copy"} : MoveTo(t, p)
    BY <1>5 DEF GuardDo
  <2>2. UNCHANGED <<config, inside, image, ran, effects, lost>>
    BY <1>5 DEF GuardDo
  <2> QED BY <1>3, <2>1, <2>2
<1>6. ASSUME NEW t \in Tasks, GuardWait(t) PROVE LeftInv'
  <2>1. \E p \in {"prepared", "failed"} : MoveTo(t, p)
    BY <1>6 DEF GuardWait
  <2>2. UNCHANGED <<config, inside, image, ran, effects, lost>>
    BY <1>6 DEF GuardWait
  <2> QED BY <1>3, <2>1, <2>2
<1>7. ASSUME NEW t \in Tasks, Finish(t) PROVE LeftInv'
  <2>1. MoveTo(t, "done") /\ tpc[t] = "running"
    BY <1>7 DEF Finish
  <2>2. UNCHANGED <<config, inside, image, ran, effects, lost>>
    BY <1>7 DEF Finish
  <2> QED BY <1>3, <2>1, <2>2
<1>8. ASSUME NEW t \in Tasks, Expire(t) PROVE LeftInv'
  BY <1>1, <1>8 DEF Expire
<1>9. ASSUME NEW c, Stop(c) \/ StartAgain(c) PROVE LeftInv'
  BY <1>1, <1>9 DEF Stop, StartAgain
<1> QED
  BY <1>2, <1>4, <1>5, <1>6, <1>7, <1>8, <1>9, LeftWork, LeftRun, LeftOwner DEF BoxNext

LEMMA LeftInit ==
  ASSUME BoxInit
  PROVE  LeftInv
<1>1. /\ effects = <<>> /\ DOMAIN ran = Tasks
      /\ \A t \in Tasks : tpc[t] \in {"not built", "guard", "resolve"}
  BY DEF BoxInit
<1>2. DOMAIN effects = {}
  <2>1. DOMAIN <<>> = {}
    BY EmptySeq
  <2> QED BY <1>1, <2>1
<1>3. \A t \in Tasks : ~Running(t)
  BY <1>1 DEF Running
<1> QED
  BY <1>1, <1>2, <1>3 DEF LeftInv, ImageOfABuild

LEMMA BoxLeft == BoxSpec => [](BoxInv /\ LeftInv)
<1>1. BoxInit => BoxInv /\ LeftInv
  BY BoxInvInit, LeftInit
<1>2. BoxInv /\ LeftInv /\ [BoxNext]_boxVars => (BoxInv /\ LeftInv)'
  BY BoxInvNext, LeftNext
<1> QED
  BY <1>1, <1>2, PTL DEF BoxSpec

LEMMA OnceFromInv ==
  ASSUME BoxInv, LeftInv
  PROVE  PreparedOnce
<1>1. ASSUME NEW t \in Tasks, Running(t), NEW what \in Needed(t)
      PROVE  LET work == <<<<RunnerOf(t), IF Docker THEN "" ELSE name[t]>>, what>>
             IN work \in ToSet(effects) /\ (Docker \/ <<name[t], what>> \in inside \/ work \in lost)
  <2>1. Tried(Key(t)) /\ guard[Key(t)] = "ok"
    BY <1>1, BoxFacts DEF AtGuard, Running
  <2>2. Key(t)[1] = RunnerOf(t)
    BY DEF Key
  <2>3. what \in NeededFor(Key(t))
    BY <1>1, <2>2 DEF Needed, NeededFor
  <2>4. AtHand(Key(t), what)
    BY <2>1, <2>3 DEF BoxInv, Tried
  <2>5. PICK work : work = <<Key(t), what>>
    OBVIOUS
  <2>6. work \in ToSet(effects) /\ work[1] = Key(t) /\ work[2] = what
    BY <2>4, <2>5 DEF AtHand
  <2>7. PICK i \in DOMAIN effects : effects[i] = work
    BY <2>6 DEF ToSet
  <2>8. Docker \/ <<work[1][2], work[2]>> \in inside \/ work \in lost
    BY <2>7 DEF LeftInv
  <2>9. ~Docker => work[1][2] = name[t]
    BY <2>6 DEF Key
  <2>10. Key(t) = <<RunnerOf(t), IF Docker THEN "" ELSE name[t]>>
    BY DEF Key
  <2> QED BY <2>5, <2>6, <2>8, <2>9, <2>10
<1>2. ASSUME NEW t \in Tasks, NEW u \in Tasks, Running(t), Key(t) = Key(u)
      PROVE  tpc[u] \notin Working \cup {"failed"}
  <2>1. guard[Key(t)] = "ok"
    BY <1>2, BoxFacts DEF AtGuard, Running
  <2>2. AtGuard(u)
    BY BoxFacts
  <2> QED BY <1>2, <2>1, <2>2, ContainerAssumption DEF AtGuard
<1> QED
  BY <1>1, <1>2 DEF PreparedOnce, BoxInv

-----------------------------------------------------------------------------
(* Paths *)

LEMMA PrefixIs ==
  ASSUME NEW S, NEW s \in Seq(S), NEW t \in Seq(S)
  PROVE  IsPrefix(s, t) <=> Len(s) <= Len(t) /\ \A i \in 1..Len(s) : s[i] = t[i]
<1>1. Len(s) \in Nat /\ Len(t) \in Nat
  BY LenProperties
<1>2. SUFFICES ASSUME Len(s) <= Len(t)
               PROVE  SubSeq(s, 1, Len(s)) = SubSeq(t, 1, Len(s)) <=> \A i \in 1..Len(s) : s[i] = t[i]
  BY DEF IsPrefix
<1>3. SubSeq(s, 1, Len(s)) = s
  BY SubSeqFull
<1>4. /\ SubSeq(t, 1, Len(s)) \in Seq(S)
      /\ Len(SubSeq(t, 1, Len(s))) = Len(s)
      /\ \A i \in 1..Len(s) : SubSeq(t, 1, Len(s))[i] = t[i]
  <2>1. \A i \in 1..Len(s) : t[i] \in S
    BY <1>1, <1>2, ElementOfSeq
  <2>2. 1 \in Int /\ Len(s) \in Int
    BY <1>1
  <2>3. /\ SubSeq(t, 1, Len(s)) \in Seq(S)
        /\ Len(SubSeq(t, 1, Len(s))) = IF 1 <= Len(s) THEN Len(s) - 1 + 1 ELSE 0
        /\ \A i \in 1..Len(s) - 1 + 1 : SubSeq(t, 1, Len(s))[i] = t[1 + i - 1]
    BY <2>1, <2>2, SubSeqProperties
  <2> QED BY <1>1, <2>3
<1>5. s = SubSeq(t, 1, Len(s)) <=> \A i \in 1..Len(s) : s[i] = t[i]
  BY <1>4, SeqEqual
<1> QED
  BY <1>3, <1>5

\* What comes after the first n.
LEMMA AfterIs ==
  ASSUME NEW S, NEW t \in Seq(S), NEW n \in 0..Len(t)
  PROVE  /\ SubSeq(t, n + 1, Len(t)) \in Seq(S)
         /\ Len(SubSeq(t, n + 1, Len(t))) = Len(t) - n
         /\ \A i \in 1..Len(t) - n : SubSeq(t, n + 1, Len(t))[i] = t[n + i]
<1>1. Len(t) \in Nat /\ n \in Nat
  BY LenProperties
<1>2. \A i \in n + 1..Len(t) : t[i] \in S
  BY <1>1, ElementOfSeq
<1>3. n + 1 \in Int /\ Len(t) \in Int
  BY <1>1
<1>4. /\ SubSeq(t, n + 1, Len(t)) \in Seq(S)
      /\ Len(SubSeq(t, n + 1, Len(t))) = IF n + 1 <= Len(t) THEN Len(t) - (n + 1) + 1 ELSE 0
      /\ \A i \in 1..Len(t) - (n + 1) + 1 : SubSeq(t, n + 1, Len(t))[i] = t[n + 1 + i - 1]
  BY <1>2, <1>3, SubSeqProperties
<1>5. 1..Len(t) - (n + 1) + 1 = 1..Len(t) - n /\ \A i \in 1..Len(t) - n : n + 1 + i - 1 = n + i
  BY <1>1
<1> QED
  BY <1>1, <1>4, <1>5

\* A path is what it begins with, and what comes after.
LEMMA Joined ==
  ASSUME NEW S, NEW s \in Seq(S), NEW t \in Seq(S), IsPrefix(s, t)
  PROVE  /\ Len(s) \in 0..Len(t)
         /\ SubSeq(t, Len(s) + 1, Len(t)) \in Seq(S)
         /\ s \o SubSeq(t, Len(s) + 1, Len(t)) = t
<1> DEFINE u == SubSeq(t, Len(s) + 1, Len(t))
<1>1. Len(s) \in Nat /\ Len(t) \in Nat /\ Len(s) <= Len(t) /\ \A i \in 1..Len(s) : s[i] = t[i]
  BY LenProperties, PrefixIs
<1>2. Len(s) \in 0..Len(t)
  BY <1>1
<1>3. u \in Seq(S) /\ Len(u) = Len(t) - Len(s) /\ \A i \in 1..Len(t) - Len(s) : u[i] = t[Len(s) + i]
  BY <1>2, AfterIs
<1> HIDE DEF u
<1>4. /\ s \o u \in Seq(S) /\ Len(s \o u) = Len(s) + Len(u)
      /\ \A i \in 1..Len(s) + Len(u) : (s \o u)[i] = IF i <= Len(s) THEN s[i] ELSE u[i - Len(s)]
  BY <1>3, ConcatProperties
<1>5. Len(s \o u) = Len(t)
  BY <1>1, <1>3, <1>4
<1>6. ASSUME NEW i \in 1..Len(t) PROVE (s \o u)[i] = t[i]
  <2>1. CASE i <= Len(s)
    BY <2>1, <1>1, <1>3, <1>4
  <2>2. CASE ~(i <= Len(s))
    <3>1. i - Len(s) \in 1..Len(t) - Len(s) /\ Len(s) + (i - Len(s)) = i /\ i \in 1..Len(s) + Len(u)
      BY <2>2, <1>1, <1>3
    <3> QED BY <3>1, <1>3, <1>4
  <2> QED BY <2>1, <2>2
<1>7. s \o u = t
  BY <1>4, <1>5, <1>6, SeqEqual
<1> QED
  BY <1>2, <1>3, <1>7 DEF u

\* Of two places under one, which is under the other.
LEMMA UnderOne ==
  ASSUME NEW S, NEW r \in Seq(S), NEW v \in Seq(S), NEW u \in Seq(S)
  PROVE  /\ IsPrefix(r \o v, r \o u) <=> IsPrefix(v, u)
         /\ IsPrefix(v, u) => SubSeq(r \o u, Len(r \o v) + 1, Len(r \o u)) = SubSeq(u, Len(v) + 1, Len(u))
<1>1. Len(r) \in Nat /\ Len(v) \in Nat /\ Len(u) \in Nat
  BY LenProperties
<1>2. PICK x : x = r \o v
  OBVIOUS
<1>3. PICK y : y = r \o u
  OBVIOUS
<1>4. /\ x \in Seq(S) /\ Len(x) = Len(r) + Len(v)
      /\ \A i \in 1..Len(r) + Len(v) : x[i] = IF i <= Len(r) THEN r[i] ELSE v[i - Len(r)]
  BY <1>2, ConcatProperties
<1>5. /\ y \in Seq(S) /\ Len(y) = Len(r) + Len(u)
      /\ \A i \in 1..Len(r) + Len(u) : y[i] = IF i <= Len(r) THEN r[i] ELSE u[i - Len(r)]
  BY <1>3, ConcatProperties
<1>6. IsPrefix(v, u) <=> Len(v) <= Len(u) /\ \A i \in 1..Len(v) : v[i] = u[i]
  BY PrefixIs
<1>7. IsPrefix(x, y) <=> Len(x) <= Len(y) /\ \A i \in 1..Len(x) : x[i] = y[i]
  BY <1>4, <1>5, PrefixIs
<1>8. ASSUME IsPrefix(v, u) PROVE IsPrefix(x, y)
  <2>1. Len(x) <= Len(y)
    BY <1>1, <1>4, <1>5, <1>6, <1>8
  <2>2. ASSUME NEW i \in 1..Len(x) PROVE x[i] = y[i]
    <3>1. i \in 1..Len(r) + Len(v) /\ i \in 1..Len(r) + Len(u)
      BY <1>1, <1>4, <1>5, <2>1
    <3>2. CASE i <= Len(r)
      BY <3>1, <3>2, <1>4, <1>5
    <3>3. CASE ~(i <= Len(r))
      <4>1. i - Len(r) \in 1..Len(v)
        BY <3>1, <3>3, <1>1
      <4> QED BY <3>1, <3>3, <4>1, <1>4, <1>5, <1>6, <1>8
    <3> QED BY <3>2, <3>3
  <2> QED BY <2>1, <2>2, <1>7
<1>9. ASSUME IsPrefix(x, y) PROVE IsPrefix(v, u)
  <2>1. Len(v) <= Len(u)
    BY <1>1, <1>4, <1>5, <1>7, <1>9
  <2>2. ASSUME NEW i \in 1..Len(v) PROVE v[i] = u[i]
    <3>1. /\ Len(r) + i \in 1..Len(x) /\ Len(r) + i \in 1..Len(r) + Len(v) /\ Len(r) + i \in 1..Len(r) + Len(u)
          /\ ~(Len(r) + i <= Len(r)) /\ (Len(r) + i) - Len(r) = i
      BY <1>1, <1>4, <2>1
    <3>2. x[Len(r) + i] = y[Len(r) + i]
      BY <3>1, <1>7, <1>9
    <3> QED BY <3>1, <3>2, <1>4, <1>5
  <2> QED BY <2>1, <2>2, <1>6
<1>10. ASSUME IsPrefix(v, u)
       PROVE  SubSeq(y, Len(x) + 1, Len(y)) = SubSeq(u, Len(v) + 1, Len(u))
  <2>1. Len(x) \in 0..Len(y) /\ Len(v) \in 0..Len(u) /\ Len(y) - Len(x) = Len(u) - Len(v)
    BY <1>1, <1>4, <1>5, <1>6, <1>10
  <2>2. PICK a : a = SubSeq(y, Len(x) + 1, Len(y))
    OBVIOUS
  <2>3. PICK c : c = SubSeq(u, Len(v) + 1, Len(u))
    OBVIOUS
  <2>4. a \in Seq(S) /\ Len(a) = Len(y) - Len(x) /\ \A i \in 1..Len(y) - Len(x) : a[i] = y[Len(x) + i]
    BY <2>1, <2>2, <1>5, AfterIs
  <2>5. c \in Seq(S) /\ Len(c) = Len(u) - Len(v) /\ \A i \in 1..Len(u) - Len(v) : c[i] = u[Len(v) + i]
    BY <2>1, <2>3, AfterIs
  <2>6. ASSUME NEW i \in 1..Len(a) PROVE a[i] = c[i]
    <3>1. /\ Len(x) + i \in 1..Len(r) + Len(u) /\ ~(Len(x) + i <= Len(r)) /\ (Len(x) + i) - Len(r) = Len(v) + i
          /\ i \in 1..Len(y) - Len(x) /\ i \in 1..Len(u) - Len(v)
      BY <1>1, <1>4, <1>5, <2>1, <2>4
    <3> QED BY <3>1, <2>4, <2>5, <1>5
  <2>7. a = c
    BY <2>1, <2>4, <2>5, <2>6, SeqEqual
  <2> QED BY <2>2, <2>3, <2>7
<1> QED
  BY <1>2, <1>3, <1>8, <1>9, <1>10

LEMMA PrefixOfBoth ==
  ASSUME NEW S, NEW s \in Seq(S), NEW t \in Seq(S), IsPrefix(s, t), Len(s) = Len(t)
  PROVE  s = t
BY PrefixIs, SeqEqual

\* Where one path is from another.
LEMMA RelPathIs ==
  ASSUME NEW S, NEW base \in Seq(S), NEW p \in Seq(S)
  PROVE  /\ IsPrefix(base, p) => RelPath(base, p) = SubSeq(p, Len(base) + 1, Len(p))
         /\ ~IsPrefix(base, p) => RelPath(base, p) # <<>> /\ Head(RelPath(base, p)) = <<"..">>
<1>0. Len(base) \in Nat /\ Len(p) \in Nat
  BY LenProperties
<1> DEFINE common == CommonPrefixes({base, p})
           lcp == LongestCommonPrefix({base, p})
<1>1. \A x \in common : x \in Seq(S) /\ IsPrefix(x, base) /\ IsPrefix(x, p)
  <2> SUFFICES ASSUME NEW x \in common PROVE x \in Seq(S)
    BY DEF CommonPrefixes
  <2>1. PICK t \in {base, p} : x \in Prefixes(t)
    BY DEF CommonPrefixes
  <2>2. PICK l \in 0..Len(t) : x = SubSeq(t, 1, l)
    BY <2>1 DEF Prefixes
  <2>3. t \in Seq(S) /\ Len(t) \in Nat
    BY <2>1, <1>0
  <2>4. \A i \in 1..l : t[i] \in S
    BY <2>2, <2>3, ElementOfSeq
  <2> QED BY <2>2, <2>3, <2>4, SubSeqProperties
<1>2. <<>> \in common
  <2>1. SubSeq(base, 1, 0) = <<>> /\ 0 \in 0..Len(base)
    BY <1>0, SubSeqEmpty
  <2>2. <<>> \in Prefixes(base)
    BY <2>1 DEF Prefixes
  <2>3. ASSUME NEW none \in Seq(S), Len(none) = 0 PROVE IsPrefix(none, base) /\ IsPrefix(none, p)
    <3>1. Len(none) <= Len(base) /\ Len(none) <= Len(p) /\ 1..Len(none) = {}
      BY <1>0, <2>3
    <3> QED BY <3>1, PrefixIs
  <2>4. <<>> \in Seq(S) /\ Len(<<>>) = 0
    BY EmptySeq
  <2>5. IsPrefix(<<>>, base) /\ IsPrefix(<<>>, p)
    BY <2>3, <2>4
  <2> QED BY <2>2, <2>5 DEF CommonPrefixes
<1>3. lcp \in common /\ \A x \in common : Len(x) <= Len(lcp)
  <2> DEFINE lens == [x \in common |-> Len(x)]
  <2>1. ASSUME NEW x \in common PROVE Len(x) \in 0..Len(base)
    <3>1. x \in Seq(S) /\ IsPrefix(x, base)
      BY <1>1
    <3>2. Len(x) \in Nat /\ Len(x) <= Len(base)
      BY <3>1, PrefixIs, LenProperties
    <3> QED BY <3>2, <1>0
  <2> HIDE DEF common
  <2>2. lens \in [common -> 0..Len(base)]
    BY <2>1
  <2>3. common # {}
    BY <1>2
  <2>4. \E x \in common : \A y \in common : lens[y] <= lens[x]
    <3> HIDE DEF lens
    <3> QED BY <2>2, <2>3, <1>0, GreatestOf
  <2>5. \E x \in common : \A y \in common : Len(y) <= Len(x)
    BY <2>4
  <2> QED BY <2>5 DEF LongestCommonPrefix, common
<1>4. lcp \in Seq(S) /\ IsPrefix(lcp, base) /\ IsPrefix(lcp, p) /\ Len(lcp) \in Nat /\ Len(lcp) <= Len(base)
  <2> HIDE DEF common, lcp
  <2>1. lcp \in Seq(S) /\ IsPrefix(lcp, base) /\ IsPrefix(lcp, p)
    BY <1>1, <1>3
  <2> QED BY <2>1, PrefixIs, LenProperties
<1> DEFINE n == Len(lcp)
           ups == [i \in 1..(Len(base) - n) |-> <<"..">>]
<1>5. RelPath(base, p) = ups \o SubSeq(p, n + 1, Len(p))
  BY DEF RelPath
<1> HIDE DEF lcp, common
<1>6. CASE IsPrefix(base, p)
  <2>1. base \in common
    <3>1. SubSeq(base, 1, Len(base)) = base /\ Len(base) \in 0..Len(base)
      BY <1>0, SubSeqFull
    <3>2. base \in Prefixes(base)
      BY <3>1 DEF Prefixes
    <3>3. IsPrefix(base, base)
      BY PrefixIs, <1>0
    <3> QED BY <1>6, <3>2, <3>3 DEF CommonPrefixes, common
  <2>2. n = Len(base)
    BY <2>1, <1>0, <1>3, <1>4
  <2>3. ups = <<>>
    BY <2>2, <1>0
  <2>4. SubSeq(p, n + 1, Len(p)) \in Seq(S)
    BY <1>6, <2>2, Joined
  <2>5. RelPath(base, p) = SubSeq(p, n + 1, Len(p))
    <3> HIDE DEF ups, n
    <3> QED BY <1>5, <2>3, <2>4, ConcatEmptySeq
  <2> QED BY <1>6, <2>2, <2>5
<1>7. CASE ~IsPrefix(base, p)
  <2>1. n # Len(base)
    <3> SUFFICES ASSUME n = Len(base) PROVE FALSE
      OBVIOUS
    <3>1. lcp = base
      BY <1>4, PrefixOfBoth
    <3> QED BY <1>4, <1>7, <3>1
  <2>2. Len(base) - n \in Nat /\ Len(base) - n >= 1 /\ n \in Nat
    BY <2>1, <1>0, <1>4
  <2>3. PICK T : T = S \cup {<<"..">>}
    OBVIOUS
  <2> HIDE DEF n
  <2>4. ups \in Seq(T) /\ Len(ups) = Len(base) - n /\ ups[1] = <<"..">>
    <3>1. PICK m \in Nat : m = Len(base) - n /\ m >= 1
      BY <2>2
    <3>2. ups = [i \in 1..m |-> <<"..">>] /\ <<"..">> \in T
      BY <2>3, <3>1
    <3>3. ups \in [1..m -> T]
      BY <3>2
    <3>4. ups \in Seq(T)
      BY <3>3, SeqDef
    <3>5. DOMAIN ups = 1..m
      BY <3>2
    <3>6. Len(ups) = m
      <4>1. Len(ups) \in Nat /\ DOMAIN ups = 1..Len(ups)
        BY <3>4, LenProperties
      <4>2. 1..m = 1..Len(ups)
        BY <4>1, <3>5
      <4> QED BY <4>1, <4>2, <3>1
    <3>7. 1 \in 1..m
      BY <3>1
    <3>8. ups[1] = <<"..">>
      BY <3>2, <3>7
    <3> QED BY <3>1, <3>4, <3>6, <3>8
  <2>5. SubSeq(p, n + 1, Len(p)) \in Seq(T)
    <3>1. n \in 0..Len(p)
      BY <1>4, <1>0, PrefixIs DEF n
    <3>2. p \in Seq(T)
      <4>1. p \in [1..Len(p) -> S]
        BY LenProperties
      <4>2. p \in [1..Len(p) -> T]
        BY <4>1, <2>3
      <4> QED BY <4>2, <1>0
    <3> QED BY <3>1, <3>2, AfterIs
  <2>6. PICK rest \in Seq(T) : rest = SubSeq(p, n + 1, Len(p))
    BY <2>5
  <2> HIDE DEF ups
  <2>7. RelPath(base, p) = ups \o rest
    BY <1>5, <2>6
  <2>8. /\ ups \o rest \in Seq(T) /\ Len(ups \o rest) = Len(ups) + Len(rest) /\ Len(rest) \in Nat
        /\ \A i \in 1..Len(ups) + Len(rest) : (ups \o rest)[i] = IF i <= Len(ups) THEN ups[i] ELSE rest[i - Len(ups)]
    BY <2>4, ConcatProperties, LenProperties
  <2>9. 1 \in 1..Len(ups) + Len(rest) /\ 1 <= Len(ups) /\ Len(ups) + Len(rest) # 0
    BY <2>2, <2>4, <2>8
  <2>10. (ups \o rest)[1] = <<"..">> /\ ups \o rest # <<>>
    BY <2>4, <2>8, <2>9, EmptySeq
  <2>11. Head(ups \o rest) = (ups \o rest)[1]
    BY <2>8, <2>10, HeadTailProperties
  <2> QED BY <2>7, <2>10, <2>11, <1>7
<1> QED
  BY <1>6, <1>7

\* filepath.Join leaves what does not go up as it is.
LEMMA CleanIs ==
  ASSUME NEW S, NEW p \in Seq(S), \A i \in 1..Len(p) : p[i] # <<"..">>
  PROVE  Clean(p) = p
<1> DEFINE L == Len(p)
           Longer(out, i) == IF p[i] # <<"..">> THEN Append(out[i - 1], p[i])
                           ELSE IF out[i - 1] = <<>> THEN <<>> ELSE Front(out[i - 1])
           Is(out) == out = [i \in 0..L |-> IF i = 0 THEN <<>> ELSE Longer(out, i)]
           g == [i \in 0..L |-> SubSeq(p, 1, i)]
<1>1. L \in Nat /\ DOMAIN p = 1..L /\ SubSeq(p, 1, 0) = <<>>
  BY LenProperties, SubSeqEmpty
<1>2. ASSUME NEW i \in 1..L PROVE SubSeq(p, 1, i) = Append(SubSeq(p, 1, i - 1), p[i])
  <2>1. 1 \in 1..L /\ i \in 1..L /\ i - 1 \in Int /\ \A j \in 1..i - 1 : j \in 1..L
    BY <1>1
  <2>2. SubSeq(p, 1, i) = SubSeq(p, 1, i - 1) \o <<p[i]>>
    BY <2>1, SubSeqRecursiveSecond
  <2>3. SubSeq(p, 1, i - 1) \in Seq(S) /\ p[i] \in S
    <3>1. \A j \in 1..i - 1 : p[j] \in S
      BY <2>1, ElementOfSeq
    <3> QED BY <2>1, <3>1, SubSeqProperties, ElementOfSeq
  <2> QED BY <2>2, <2>3, AppendIsConcat
<1> HIDE DEF L
<1>3. Is(g)
  <2>1. ASSUME NEW i \in 0..L PROVE g[i] = IF i = 0 THEN <<>> ELSE Longer(g, i)
    <3>1. CASE i = 0
      BY <3>1, <1>1
    <3>2. CASE i # 0
      <4>1. i \in 1..L /\ i - 1 \in 0..L
        BY <3>2, <1>1
      <4>2. g[i] = SubSeq(p, 1, i) /\ g[i - 1] = SubSeq(p, 1, i - 1)
        BY <4>1
      <4>3. p[i] # <<"..">>
        BY <4>1 DEF L
      <4>4. g[i] = Append(g[i - 1], p[i])
        BY <4>1, <4>2, <1>2
      <4> HIDE DEF g
      <4> QED BY <3>2, <4>3, <4>4
    <3> QED BY <3>1, <3>2
  <2> HIDE DEF Longer
  <2> QED BY <2>1
<1>4. PICK f : Is(f) /\ Clean(p) = f[L]
  <2> DEFINE out == CHOOSE o : Is(o)
  <2>1. Is(out)
    <3> HIDE DEF Is, g
    <3> QED BY <1>3
  <2>2. Clean(p) = out[L]
    BY DEF Clean, L
  <2> HIDE DEF Is, out
  <2> QED BY <2>1, <2>2
<1>5. f[0] = <<>> /\ \A i \in 1..L : f[i] = Append(f[i - 1], p[i])
  <2>1. \A i \in 0..L : f[i] = IF i = 0 THEN <<>> ELSE Longer(f, i)
    <3> HIDE DEF Longer
    <3> QED BY <1>4
  <2>2. 0 \in 0..L
    BY <1>1
  <2>3. f[0] = <<>>
    <3> HIDE DEF Longer
    <3> QED BY <2>1, <2>2
  <2>4. ASSUME NEW i \in 1..L PROVE f[i] = Append(f[i - 1], p[i])
    <3>1. i \in 0..L /\ i # 0
      BY <1>1
    <3>2. f[i] = Longer(f, i)
      <4> HIDE DEF Longer
      <4> QED BY <2>1, <3>1
    <3>3. p[i] # <<"..">>
      BY DEF L
    <3> QED BY <3>2, <3>3
  <2> QED BY <2>3, <2>4
<1> DEFINE T == {i \in Nat : i <= L => f[i] = SubSeq(p, 1, i)}
<1>6. T = Nat
  <2>1. 0 \in T
    BY <1>1, <1>5
  <2>2. ASSUME NEW m \in T PROVE m + 1 \in T
    <3> SUFFICES ASSUME m + 1 <= L PROVE f[m + 1] = SubSeq(p, 1, m + 1)
      OBVIOUS
    <3>1. m + 1 \in 1..L /\ (m + 1) - 1 = m /\ m <= L
      BY <1>1
    <3>2. f[m] = SubSeq(p, 1, m)
      BY <3>1
    <3> QED BY <3>1, <3>2, <1>2, <1>5
  <2> HIDE DEF T
  <2>3. T \in SUBSET Nat
    BY DEF T
  <2> QED BY <2>1, <2>2, <2>3, Induct
<1>7. f[L] = SubSeq(p, 1, L)
  BY <1>1, <1>6
<1>8. SubSeq(p, 1, L) = p
  BY SubSeqFull DEF L
<1> QED
  BY <1>4, <1>7, <1>8

-----------------------------------------------------------------------------
(* The containers: where the files are. *)

Component == Seq(STRING) \cup {<<"workspace">>, <<".ateamorg">>, <<"..">>}
Path == Seq(Component)

After(base, p) == SubSeq(p, Len(base) + 1, Len(p))

LEMMA PlainPath ==
  ASSUME NEW p \in Path, Plain(p)
  PROVE  \A i \in 1..Len(p) : Head(p[i]) # ".." /\ p[i] # <<"..">>
<1>1. DOMAIN p = 1..Len(p)
  BY LenProperties DEF Path
<1>2. Head(<<"..">>) = ".."
  OBVIOUS
<1> QED
  BY <1>1, <1>2 DEF Plain

\* What is in a directory is below it, as long as nothing is called "..something".
LEMMA UnderIs ==
  ASSUME NEW p \in Path, NEW base \in Path, Plain(p)
  PROVE  /\ RelativeUnder(p, base) <=> IsPrefix(base, p)
         /\ IsPrefix(base, p) => RelPath(base, p) = After(base, p)
<1>1. /\ IsPrefix(base, p) => RelPath(base, p) = After(base, p)
      /\ ~IsPrefix(base, p) => RelPath(base, p) # <<>> /\ Head(RelPath(base, p)) = <<"..">>
  BY RelPathIs DEF Path, After
<1>2. ASSUME IsPrefix(base, p) PROVE ~Outside(After(base, p))
  <2> SUFFICES ASSUME After(base, p) # <<>> PROVE Head(Head(After(base, p))) # ".."
    BY DEF Outside
  <2>1. Len(base) \in Nat /\ Len(p) \in Nat /\ Len(base) <= Len(p)
    BY <1>2, PrefixIs, LenProperties DEF Path
  <2>2. Len(base) + 1 <= Len(p)
    <3> SUFFICES ASSUME Len(p) < Len(base) + 1 PROVE FALSE
      BY <2>1
    <3> QED BY <2>1, SubSeqEmpty DEF After
  <2>3. Len(base) + 1 \in 1..Len(p) /\ Len(p) \in Len(base) + 1..Len(p)
    BY <2>1, <2>2
  <2>4. Head(After(base, p)) = p[Len(base) + 1]
    BY <2>3, HeadTailOfSubSeq DEF After, Path
  <2> QED BY <2>3, <2>4, PlainPath
<1>3. Head(<<"..">>) = ".."
  OBVIOUS
<1>4. ~IsPrefix(base, p) => Outside(RelPath(base, p))
  BY <1>1, <1>3 DEF Outside
<1> QED
  BY <1>1, <1>2, <1>4 DEF RelativeUnder

\* A root of the container, and what is there.
Roots(b, base, root) ==
  \/ b.org # NoDir /\ base = b.org /\ root = OrgRoot
  \/ base = MountDir(b) /\ root = CodeRoot

RootIs(root) == root \in Path /\ Len(root) = 1 /\ root[1] \in {<<"workspace">>, <<".ateamorg">>}

LEMMA RootsAre ==
  /\ RootIs(OrgRoot) /\ OrgRoot[1] = <<".ateamorg">>
  /\ RootIs(CodeRoot) /\ CodeRoot[1] = <<"workspace">>
  /\ OrgRoot[1] # CodeRoot[1]
<1>1. Org = <<".ateamorg">>
  BY DEF Org
<1>2. ASSUME NEW c \in Component PROVE <<c>> \in Path /\ Len(<<c>>) = 1 /\ <<c>>[1] = c
  BY DEF Path
<1>3. <<"workspace">> \in Component /\ <<".ateamorg">> \in Component
  BY DEF Component
<1>4. <<".ateamorg">> # <<"workspace">>
  <2>1. <<".ateamorg">>[1] = ".ateamorg" /\ <<"workspace">>[1] = "workspace" /\ ".ateamorg" # "workspace"
    OBVIOUS
  <2> QED BY <2>1
<1> QED
  BY <1>1, <1>2, <1>3, <1>4 DEF OrgRoot, CodeRoot, RootIs

LEMMA BelowRoot ==
  ASSUME NEW root \in Path, Len(root) = 1, NEW u \in Path
  PROVE  /\ root \o u \in Path /\ Len(root \o u) = 1 + Len(u) /\ Len(u) \in Nat
         /\ \A i \in 1..1 + Len(u) : (root \o u)[i] = IF i <= 1 THEN root[i] ELSE u[i - 1]
<1>1. PICK n : n = Len(root)
  OBVIOUS
<1>2. /\ root \o u \in Path /\ Len(root \o u) = n + Len(u)
      /\ \A i \in 1..n + Len(u) : (root \o u)[i] = IF i <= n THEN root[i] ELSE u[i - n]
  BY <1>1, ConcatProperties DEF Path
<1>3. n = 1 /\ Len(u) \in Nat
  BY <1>1, LenProperties DEF Path
<1> QED
  BY <1>2, <1>3

\* A path below a root, whatever it is that is put there.
LEMMA UnderRoot ==
  ASSUME NEW base \in Path, NEW p \in Path, IsPrefix(base, p), NEW root, RootIs(root)
  PROVE  /\ After(base, p) \in Path /\ base \o After(base, p) = p
         /\ root \o After(base, p) \in Path /\ root \o After(base, p) # <<>>
         /\ (root \o After(base, p))[1] = root[1]
         /\ After(root, root \o After(base, p)) = After(base, p)
<1>1. After(base, p) \in Path /\ base \o After(base, p) = p
  BY Joined DEF Path, After
<1>2. PICK u \in Path : u = After(base, p)
  BY <1>1
<1>3. PICK q : q = root \o u
  OBVIOUS
<1>4. root \in Path /\ Len(root) = 1
  BY DEF RootIs
<1>5. /\ q \in Path /\ Len(q) = 1 + Len(u) /\ Len(u) \in Nat
      /\ \A i \in 1..1 + Len(u) : q[i] = IF i <= 1 THEN root[i] ELSE u[i - 1]
  BY <1>3, <1>4, BelowRoot
<1>6. q[1] = root[1]
  <2>1. 1 \in 1..1 + Len(u) /\ 1 <= 1
    BY <1>5
  <2> QED BY <1>5, <2>1
<1>7. q # <<>>
  BY <1>5, EmptySeq
<1>8. After(root, q) = u
  <2>1. Len(root) \in 0..Len(q) /\ Len(q) - Len(root) = Len(u)
    BY <1>4, <1>5
  <2>2. PICK v : v = After(root, q)
    OBVIOUS
  <2>3. /\ v \in Path /\ Len(v) = Len(u)
        /\ \A i \in 1..Len(u) : v[i] = q[Len(root) + i]
    BY <2>1, <2>2, <1>5, AfterIs DEF Path, After
  <2>4. ASSUME NEW i \in 1..Len(u) PROVE v[i] = u[i]
    <3>1. Len(root) + i = 1 + i /\ 1 + i \in 1..1 + Len(u) /\ ~(1 + i <= 1) /\ (1 + i) - 1 = i
      BY <1>4, <1>5
    <3> QED BY <2>3, <3>1, <1>5
  <2>5. v = u
    BY <2>3, <2>4, SeqEqual DEF Path
  <2> QED BY <2>2, <2>5
<1> QED
  BY <1>1, <1>2, <1>3, <1>5, <1>6, <1>7, <1>8

LEMMA JoinIs ==
  ASSUME NEW base \in Path, NEW p \in Path, IsPrefix(base, p), NEW root, RootIs(root),
         Plain(p) \/ p = base
  PROVE  Join(root, After(base, p)) = root \o After(base, p)
<1>1. PICK u \in Path : u = After(base, p)
  BY UnderRoot
<1>2. PICK q \in Path : q = root \o u
  BY <1>1, UnderRoot
<1>3. Len(base) \in 0..Len(p) /\ Len(p) \in Nat
  <2>1. Len(base) \in Nat /\ Len(p) \in Nat /\ Len(base) <= Len(p)
    BY PrefixIs, LenProperties DEF Path
  <2> QED BY <2>1
<1>4. Len(u) = Len(p) - Len(base) /\ \A i \in 1..Len(p) - Len(base) : u[i] = p[Len(base) + i]
  BY <1>1, <1>3, AfterIs DEF Path, After
<1>5. ASSUME NEW i \in 1..Len(u) PROVE u[i] # <<"..">>
  <2>1. i \in 1..Len(p) - Len(base) /\ Len(base) + i \in 1..Len(p)
    BY <1>3, <1>4
  <2>2. Plain(p)
    BY <2>1, <1>3
  <2> QED BY <2>1, <2>2, <1>4, PlainPath
<1>6. root \in Path /\ Len(root) = 1 /\ root[1] # <<"..">>
  <2>1. <<"workspace">> # <<"..">> /\ <<".ateamorg">> # <<"..">>
    <3>1. /\ <<"workspace">>[1] = "workspace" /\ <<".ateamorg">>[1] = ".ateamorg" /\ <<"..">>[1] = ".."
          /\ "workspace" # ".." /\ ".ateamorg" # ".."
      OBVIOUS
    <3> QED BY <3>1
  <2> QED BY <2>1 DEF RootIs
<1>7. /\ Len(q) = 1 + Len(u) /\ Len(u) \in Nat
      /\ \A i \in 1..1 + Len(u) : q[i] = IF i <= 1 THEN root[i] ELSE u[i - 1]
  BY <1>2, <1>6, BelowRoot
<1>8. ASSUME NEW i \in 1..Len(q) PROVE q[i] # <<"..">>
  <2>1. CASE i = 1
    <3>1. 1 \in 1..1 + Len(u) /\ 1 <= 1
      BY <1>7
    <3> QED BY <2>1, <3>1, <1>6, <1>7
  <2>2. CASE i # 1
    <3>1. i \in 1..1 + Len(u) /\ ~(i <= 1) /\ i - 1 \in 1..Len(u)
      BY <2>2, <1>7
    <3> QED BY <3>1, <1>5, <1>7
  <2> QED BY <2>1, <2>2
<1>9. Clean(q) = q
  BY <1>8, CleanIs DEF Path
<1> QED
  BY <1>1, <1>2, <1>9 DEF Join

\* A container of docker without volumes.
Boxed(b) ==
  /\ {b.org, b.project, b.source, b.repo} \subseteq Path
  /\ b.volumes = <<>> /\ b.writable
  /\ b.repo # NoDir => IsPrefix(b.repo, b.source)
  /\ Plain(b.project) /\ Plain(b.source)

LEMMA MountDirIs ==
  ASSUME NEW b, Boxed(b)
  PROVE  MountDir(b) \in Path /\ IsPrefix(MountDir(b), b.source)
<1>1. IsPrefix(b.source, b.source)
  <2>1. b.source \in Path /\ Len(b.source) \in Nat
    BY LenProperties DEF Boxed, Path
  <2> QED BY <2>1, PrefixIs DEF Path
<1> QED
  BY <1>1 DEF Boxed, MountDir

LEMMA RootsOf ==
  ASSUME NEW b, Boxed(b), NEW base, NEW root, Roots(b, base, root)
  PROVE  base \in Path /\ RootIs(root)
BY MountDirIs, RootsAre DEF Roots, Boxed

\* A path is below a root of the container, or it is left as it is.
LEMMA TranslateIs ==
  ASSUME NEW b, Boxed(b), NEW p \in Path, Plain(p)
  PROVE  \/ \E base, root : /\ Roots(b, base, root) /\ IsPrefix(base, p)
                            /\ TranslatePath(b, p) = root \o After(base, p)
         \/ /\ TranslatePath(b, p) = p
            /\ ~IsPrefix(MountDir(b), p) /\ (b.org # NoDir => ~IsPrefix(b.org, p))
<1>1. b.org \in Path /\ MountDir(b) \in Path
  BY MountDirIs DEF Boxed
<1>2. /\ RelativeUnder(p, b.org) <=> IsPrefix(b.org, p)
      /\ IsPrefix(b.org, p) => RelPath(b.org, p) = After(b.org, p)
      /\ RelativeUnder(p, MountDir(b)) <=> IsPrefix(MountDir(b), p)
      /\ IsPrefix(MountDir(b), p) => RelPath(MountDir(b), p) = After(MountDir(b), p)
  BY <1>1, UnderIs
<1>3. CASE b.org # NoDir /\ IsPrefix(b.org, p)
  <2>1. TranslatePath(b, p) = Join(OrgRoot, After(b.org, p))
    BY <1>2, <1>3 DEF TranslatePath
  <2>2. Join(OrgRoot, After(b.org, p)) = OrgRoot \o After(b.org, p)
    BY <1>1, <1>3, JoinIs, RootsAre
  <2>3. Roots(b, b.org, OrgRoot)
    BY <1>3 DEF Roots
  <2> QED BY <1>3, <2>1, <2>2, <2>3
<1>4. CASE ~(b.org # NoDir /\ IsPrefix(b.org, p)) /\ IsPrefix(MountDir(b), p)
  <2>1. TranslatePath(b, p) = Join(CodeRoot, After(MountDir(b), p))
    BY <1>2, <1>4 DEF TranslatePath
  <2>2. Join(CodeRoot, After(MountDir(b), p)) = CodeRoot \o After(MountDir(b), p)
    BY <1>1, <1>4, JoinIs, RootsAre
  <2>3. Roots(b, MountDir(b), CodeRoot)
    BY DEF Roots
  <2> QED BY <1>4, <2>1, <2>2, <2>3
<1>5. CASE ~(b.org # NoDir /\ IsPrefix(b.org, p)) /\ ~IsPrefix(MountDir(b), p)
  BY <1>2, <1>5 DEF TranslatePath
<1> QED
  BY <1>3, <1>4, <1>5

\* The mounts of a container, and what is mounted at a root.
LEMMA MountsAre ==
  ASSUME NEW b, Boxed(b)
  PROVE  /\ \A m \in BaseRunArgs(b) :
              \/ \E base, root : Roots(b, base, root) /\ m = Mount(base, root, "rw")
              \/ m = Mount(b.project, TranslatePath(b, b.project), "rw") /\ TranslatePath(b, b.project) # b.project
         /\ \A base, root : Roots(b, base, root) => Mount(base, root, "rw") \in BaseRunArgs(b)
<1>1. {Mount(ResolveVolumePath(b, v), v.at, v.mode) : v \in ToSet(b.volumes)} = {}
  <2>1. ToSet(<<>>) = {}
    BY DEF ToSet
  <2> QED BY <2>1 DEF Boxed
<1>2. SourceMountMode(b) = "rw"
  BY DEF SourceMountMode, Boxed
<1>3. BaseRunArgs(b) = {Mount(MountDir(b), CodeRoot, "rw")}
        \cup (IF b.org = NoDir THEN {} ELSE {Mount(b.org, OrgRoot, "rw")}) \cup ProjectDirArgs(b)
  BY <1>1, <1>2 DEF BaseRunArgs
<1>4. ASSUME NEW m \in BaseRunArgs(b)
      PROVE  \/ \E base, root : Roots(b, base, root) /\ m = Mount(base, root, "rw")
             \/ m = Mount(b.project, TranslatePath(b, b.project), "rw") /\ TranslatePath(b, b.project) # b.project
  <2>1. CASE m = Mount(MountDir(b), CodeRoot, "rw")
    BY <2>1 DEF Roots
  <2>2. CASE b.org # NoDir /\ m = Mount(b.org, OrgRoot, "rw")
    BY <2>2 DEF Roots
  <2>3. CASE m \in ProjectDirArgs(b)
    BY <2>3 DEF ProjectDirArgs
  <2> QED BY <1>3, <2>1, <2>2, <2>3
<1>5. ASSUME NEW base, NEW root, Roots(b, base, root) PROVE Mount(base, root, "rw") \in BaseRunArgs(b)
  BY <1>3, <1>5 DEF Roots
<1> QED
  BY <1>4, <1>5

LEMMA MountIs ==
  ASSUME NEW from, NEW place, NEW mode
  PROVE  Mount(from, place, mode).from = from /\ Mount(from, place, mode).at = place /\ Mount(from, place, mode).mode = mode
BY DEF Mount

\* Of two roots of a container, what is mounted at one is not over the other.
LEMMA RootOver ==
  ASSUME NEW b, Boxed(b), NEW base, NEW root, Roots(b, base, root),
         NEW base2, NEW root2, Roots(b, base2, root2),
         NEW v \in Path, NEW u \in Path, IsPrefix(root2 \o v, root \o u)
  PROVE  base2 = base /\ root2 = root
<1>1. RootIs(root) /\ RootIs(root2)
  BY RootsOf
<1>2. root \in Path /\ Len(root) = 1 /\ root2 \in Path /\ Len(root2) = 1
  BY <1>1 DEF RootIs
<1>3. PICK x \in Path : x = root2 \o v
  BY <1>2, BelowRoot
<1>4. PICK y \in Path : y = root \o u
  BY <1>2, BelowRoot
<1>5. 1 \in 1..Len(x) /\ x[1] = root2[1] /\ y[1] = root[1]
  <2>1. Len(v) \in Nat /\ Len(u) \in Nat /\ Len(x) = 1 + Len(v)
    BY <1>2, <1>3, BelowRoot
  <2>2. 1 \in 1..1 + Len(v) /\ 1 \in 1..1 + Len(u) /\ 1 <= 1
    BY <2>1
  <2> QED BY <2>1, <2>2, <1>2, <1>3, <1>4, BelowRoot
<1>6. x[1] = y[1]
  <2>1. IsPrefix(x, y)
    BY <1>3, <1>4
  <2>2. \A i \in 1..Len(x) : x[i] = y[i]
    BY <2>1, PrefixIs DEF Path
  <2> QED BY <2>2, <1>5
<1> QED
  BY <1>5, <1>6, RootsAre DEF Roots

\* Whatever is mounted over a path below a root is what is at that path.
LEMMA MountOver ==
  ASSUME NEW b, Boxed(b), NEW base, NEW root, Roots(b, base, root), NEW p \in Path, IsPrefix(base, p),
         NEW m \in BaseRunArgs(b), IsPrefix(m.at, root \o After(base, p))
  PROVE  m.mode = "rw" /\ m.from \o After(m.at, root \o After(base, p)) = p /\ m.at \in Path
<1>1. base \in Path /\ RootIs(root)
  BY RootsOf
<1>2. PICK u \in Path : u = After(base, p) /\ base \o u = p
  BY <1>1, UnderRoot
<1>3. PICK q \in Path : q = root \o u /\ After(root, q) = u
  <2>1. root \o u \in Path /\ After(root, root \o u) = u
    <3>1. root \o After(base, p) \in Path /\ After(root, root \o After(base, p)) = After(base, p)
      BY <1>1, UnderRoot
    <3> QED BY <3>1, <1>2
  <2> QED BY <2>1
<1>4. root \in Path /\ root \o <<>> = root /\ <<>> \in Path
  BY <1>1, ConcatEmptySeq, EmptySeq DEF RootIs, Path
<1>5. ASSUME NEW base2, NEW root2, Roots(b, base2, root2), m = Mount(base2, root2, "rw")
      PROVE  m.mode = "rw" /\ m.from \o After(m.at, q) = p /\ m.at \in Path
  <2>1. m.mode = "rw" /\ m.at = root2 /\ m.from = base2
    BY <1>5, MountIs
  <2>2. RootIs(root2) /\ root2 \o <<>> = root2
    BY <1>5, RootsOf, ConcatEmptySeq DEF RootIs, Path
  <2>3. IsPrefix(root2 \o <<>>, root \o u)
    BY <1>2, <2>1, <2>2
  <2>4. base2 = base /\ root2 = root
    <3>1. PICK none \in Path : none = <<>>
      BY <1>4
    <3>2. IsPrefix(root2 \o none, root \o u)
      BY <2>3, <3>1
    <3> QED BY <1>5, <3>2, RootOver
  <2> QED BY <1>2, <1>3, <1>4, <2>1, <2>4
<1>6. ASSUME m = Mount(b.project, TranslatePath(b, b.project), "rw"), TranslatePath(b, b.project) # b.project
      PROVE  m.mode = "rw" /\ m.from \o After(m.at, q) = p /\ m.at \in Path
  <2>1. m.mode = "rw" /\ m.at = TranslatePath(b, b.project) /\ m.from = b.project
    BY <1>6, MountIs
  <2>2. b.project \in Path /\ Plain(b.project)
    BY DEF Boxed
  <2>3. PICK base2, root2 : /\ Roots(b, base2, root2) /\ IsPrefix(base2, b.project)
                            /\ TranslatePath(b, b.project) = root2 \o After(base2, b.project)
    BY <2>2, <1>6, TranslateIs
  <2>4. base2 \in Path /\ RootIs(root2)
    BY <2>3, RootsOf
  <2>5. PICK v \in Path : v = After(base2, b.project) /\ base2 \o v = b.project
    BY <2>2, <2>3, <2>4, UnderRoot
  <2>6. IsPrefix(root2 \o v, root \o u) /\ m.at = root2 \o v
    BY <1>2, <2>1, <2>3, <2>5
  <2>7. base2 = base /\ root2 = root
    BY <2>3, <2>6, RootOver
  <2>8. IsPrefix(root \o v, root \o u)
    BY <2>6, <2>7
  <2>9. IsPrefix(v, u) /\ After(root \o v, root \o u) = After(v, u)
    BY <2>8, <1>4, UnderOne DEF Path, After
  <2>10. After(v, u) \in Path /\ v \o After(v, u) = u
    BY <2>9, Joined DEF Path, After
  <2>11. (base \o v) \o After(v, u) = base \o (v \o After(v, u))
    <3>1. PICK w \in Path : w = After(v, u)
      BY <2>10
    <3>2. (base \o v) \o w = base \o (v \o w)
      BY <1>1, ConcatAssociative DEF Path
    <3> QED BY <3>1, <3>2
  <2>12. m.at \in Path
    BY <2>6, <2>7, <1>4, ConcatProperties DEF Path
  <2>13. m.from = base \o v /\ After(m.at, q) = After(v, u)
    BY <1>3, <2>1, <2>5, <2>6, <2>7, <2>9
  <2>14. m.from \o After(m.at, q) = base \o u
    BY <2>10, <2>11, <2>13
  <2> QED BY <1>2, <2>1, <2>12, <2>14
<1> QED
  BY <1>2, <1>3, <1>5, <1>6, MountsAre

\* So the innermost of the mounts is, and it can be written.
LEMMA BehindRoot ==
  ASSUME NEW b, Boxed(b), NEW base, NEW root, Roots(b, base, root), NEW p \in Path, IsPrefix(base, p)
  PROVE  Behind(b, root \o After(base, p)) = Mount(p, root \o After(base, p), "rw")
<1>1. base \in Path /\ RootIs(root)
  BY RootsOf
<1>2. PICK q \in Path : q = root \o After(base, p)
  BY <1>1, UnderRoot
<1> DEFINE over == {m \in BaseRunArgs(b) : PathInside(q, m.at)}
           Inner(n) == \A k \in over : Len(k.at) <= Len(n.at)
<1>3. \A m \in over : m.mode = "rw" /\ m.from \o After(m.at, q) = p /\ m.at \in Path /\ IsPrefix(m.at, q)
  <2> SUFFICES ASSUME NEW m \in BaseRunArgs(b), IsPrefix(m.at, q)
               PROVE  m.mode = "rw" /\ m.from \o After(m.at, q) = p /\ m.at \in Path
    BY DEF PathInside
  <2>1. IsPrefix(m.at, root \o After(base, p))
    BY <1>2
  <2>2. m.mode = "rw" /\ m.from \o After(m.at, root \o After(base, p)) = p /\ m.at \in Path
    BY <2>1, MountOver
  <2> QED BY <2>2, <1>2
<1>4. over # {}
  <2>1. PICK m \in BaseRunArgs(b) : m = Mount(base, root, "rw")
    BY MountsAre
  <2>2. m.at = root
    BY <2>1, MountIs
  <2>3. IsPrefix(root, q)
    <3>1. PICK u \in Path : u = After(base, p)
      BY <1>1, UnderRoot
    <3>2. <<>> \in Path /\ Len(<<>>) = 0 /\ Len(u) \in Nat /\ root \in Path
      BY <1>1, EmptySeq, LenProperties DEF Path, RootIs
    <3>3. IsPrefix(<<>>, u)
      <4>1. ASSUME NEW none \in Path, Len(none) = 0 PROVE IsPrefix(none, u)
        <5>1. Len(none) <= Len(u) /\ 1..Len(none) = {}
          BY <3>2, <4>1
        <5> QED BY <5>1, PrefixIs DEF Path
      <4> QED BY <3>2, <4>1
    <3>4. IsPrefix(root \o <<>>, root \o u)
      BY <3>2, <3>3, UnderOne DEF Path
    <3> QED BY <3>1, <3>2, <3>4, <1>2, ConcatEmptySeq DEF Path
  <2> QED BY <2>1, <2>2, <2>3 DEF PathInside
<1>5. \E n \in over : Inner(n)
  <2> DEFINE lens == [m \in over |-> Len(m.at)]
  <2>1. Len(q) \in Nat
    BY LenProperties DEF Path
  <2>2. ASSUME NEW m \in over PROVE Len(m.at) \in 0..Len(q)
    <3>1. m.at \in Path /\ IsPrefix(m.at, q)
      BY <1>3
    <3>2. Len(m.at) \in Nat /\ Len(m.at) <= Len(q)
      BY <3>1, PrefixIs, LenProperties DEF Path
    <3> QED BY <2>1, <3>2
  <2> HIDE DEF over
  <2>3. lens \in [over -> 0..Len(q)]
    BY <2>2
  <2>4. \E x \in over : \A y \in over : lens[y] <= lens[x]
    <3> HIDE DEF lens
    <3> QED BY <2>1, <2>3, <1>4, GreatestOf
  <2> QED BY <2>4
<1>6. PICK m \in over : /\ m = CHOOSE n \in over : Inner(n)
                        /\ Behind(b, q) = Mount(m.from \o SubSeq(q, Len(m.at) + 1, Len(q)), q, m.mode)
  <2> DEFINE in == CHOOSE n \in over : Inner(n)
  <2>1. Behind(b, q) = IF over = {} THEN Mount(NoDir, q, "none")
                       ELSE Mount(in.from \o SubSeq(q, Len(in.at) + 1, Len(q)), q, in.mode)
    BY DEF Behind
  <2>2. in \in over
    <3> HIDE DEF over, Inner
    <3> QED BY <1>5
  <2> HIDE DEF over, Inner, in
  <2>3. in = CHOOSE n \in over : Inner(n)
    BY DEF in
  <2> QED BY <1>4, <2>1, <2>2, <2>3
<1> HIDE DEF over
<1> QED
  BY <1>2, <1>3, <1>6 DEF After

LEMMA BoxedIs ==
  ASSUME config \in Cases, config.volumes = <<>>, NEW b, b = BuildContainer(config), Plain(b.project), Plain(b.source)
  PROVE  Boxed(b) /\ config.env.fs.dirs \subseteq Path
<1>1. /\ b.org = config.env.org /\ b.project = config.env.project /\ b.source = config.env.work
      /\ b.repo = config.env.repo /\ b.volumes = <<>> /\ b.writable
  BY DEF BuildContainer, SetSourceWritable, BoxDirs
<1>2. /\ {config.env.org, config.env.project, config.env.repo, config.env.work} \subseteq Seq(Seq(STRING))
      /\ config.env.fs.dirs \subseteq Seq(Seq(STRING))
      /\ config.env.repo # NoDir => IsPrefix(config.env.repo, config.env.work)
  BY ContainerAssumption DEF PathInside
<1>3. Seq(Seq(STRING)) \subseteq Path
  <2>1. Seq(STRING) \subseteq Component
    BY DEF Component
  <2> QED BY <2>1, SeqMonotonic DEF Path
<1> QED
  BY <1>1, <1>2, <1>3 DEF Boxed

LEMMA FilesFromCases == ASSUME config \in Cases PROVE SeesItsFiles
<1> SUFFICES ASSUME config.volumes = <<>>, NEW b, b = BuildContainer(config), Plain(b.project), Plain(b.source)
             PROVE  /\ \A p \in config.env.fs.dirs :
                         Plain(p) /\ (PathInside(p, MountDir(b)) \/ (b.org # NoDir /\ PathInside(p, b.org))) =>
                           Behind(b, TranslatePath(b, p)).from = p
                    /\ Behind(b, ContainerPaths(b)).from = b.source
                    /\ Whole(b) => Behind(b, TranslatePath(b, b.project))
                                     = Mount(b.project, TranslatePath(b, b.project), "rw")
                    /\ b.org # NoDir => Behind(b, TranslatePath(b, b.org)).mode = "rw"
  BY DEF SeesItsFiles
<1>1. Boxed(b) /\ config.env.fs.dirs \subseteq Path
  BY BoxedIs
<1>2. ASSUME NEW p \in Path, Plain(p), PathInside(p, MountDir(b)) \/ (b.org # NoDir /\ PathInside(p, b.org))
      PROVE  Behind(b, TranslatePath(b, p)) = Mount(p, TranslatePath(b, p), "rw")
  <2>1. IsPrefix(MountDir(b), p) \/ (b.org # NoDir /\ IsPrefix(b.org, p))
    BY <1>2 DEF PathInside
  <2>2. PICK base, root : /\ Roots(b, base, root) /\ IsPrefix(base, p)
                          /\ TranslatePath(b, p) = root \o After(base, p)
    BY <1>1, <1>2, <2>1, TranslateIs
  <2>3. Behind(b, root \o After(base, p)) = Mount(p, root \o After(base, p), "rw")
    BY <1>1, <2>2, BehindRoot
  <2> QED BY <2>2, <2>3
<1>3. ASSUME NEW p \in config.env.fs.dirs, Plain(p),
             PathInside(p, MountDir(b)) \/ (b.org # NoDir /\ PathInside(p, b.org))
      PROVE  Behind(b, TranslatePath(b, p)).from = p
  BY <1>1, <1>2, <1>3, MountIs
<1>4. Behind(b, ContainerPaths(b)).from = b.source
  <2>1. b.source \in Path /\ MountDir(b) \in Path /\ IsPrefix(MountDir(b), b.source)
    BY <1>1, MountDirIs DEF Boxed
  <2>2. ~Outside(RelPath(MountDir(b), b.source)) /\ RelPath(MountDir(b), b.source) = After(MountDir(b), b.source)
    BY <2>1, UnderIs DEF RelativeUnder
  <2>3. ContainerPaths(b) = Join(CodeRoot, After(MountDir(b), b.source))
    BY <2>2 DEF ContainerPaths
  <2>4. ContainerPaths(b) = CodeRoot \o After(MountDir(b), b.source)
    BY <2>1, <2>3, JoinIs, RootsAre
  <2>5. Roots(b, MountDir(b), CodeRoot)
    BY DEF Roots
  <2> QED BY <1>1, <2>1, <2>4, <2>5, BehindRoot, MountIs
<1>5. Whole(b) => Behind(b, TranslatePath(b, b.project)) = Mount(b.project, TranslatePath(b, b.project), "rw")
  BY <1>1, <1>2 DEF Whole, Boxed
<1>6. ASSUME b.org # NoDir PROVE Behind(b, TranslatePath(b, b.org)).mode = "rw"
  <2>1. b.org \in Path /\ Len(b.org) \in Nat
    BY <1>1, LenProperties DEF Boxed, Path
  <2>2. IsPrefix(b.org, b.org)
    BY <2>1, PrefixIs DEF Path
  <2>3. After(b.org, b.org) = <<>>
    BY <2>1, SubSeqEmpty DEF After
  <2>4. RelPath(b.org, b.org) = <<>>
    BY <2>1, <2>2, <2>3, RelPathIs DEF Path, After
  <2>5. TranslatePath(b, b.org) = Join(OrgRoot, <<>>)
    BY <1>6, <2>4 DEF TranslatePath, RelativeUnder, Outside
  <2>6. TranslatePath(b, b.org) = OrgRoot \o After(b.org, b.org)
    BY <2>1, <2>2, <2>3, <2>5, JoinIs, RootsAre
  <2>7. Roots(b, b.org, OrgRoot)
    BY <1>6 DEF Roots
  <2> QED BY <1>1, <2>1, <2>2, <2>6, <2>7, BehindRoot, MountIs
<1> QED
  BY <1>3, <1>4, <1>5, <1>6

\* Of PreparedBeforeUse: the work of a guard is done before an agent is in its container,
\* once, and is still there unless the owner has made that container anew; a docker
\* agent has the image of its own runner's Dockerfile or of a later build; and what is
\* under the mounts is the file that the runner names, without volumes and without
\* directories called "..something" (PrepareGuard, RunPrecheck, EnsureImage,
\* deriveDockerImageName, TranslatePath, BaseRunArgs).
THEOREM PreparedBeforeUseHolds == BoxSpec => []PreparedBeforeUse
<1>1. BoxInv /\ LeftInv => PreparedBeforeUse
  BY OnceFromInv, FilesFromCases DEF BoxInv, LeftInv, PreparedBeforeUse
<1> QED
  BY <1>1, BoxLeft, PTL
=============================================================================
