------------------------------ MODULE StateDir ------------------------------
(***************************************************************************)
(* Bringing the state directory of an older ateam up to date: V1Layout of  *)
(* internal/migrate/v1_layout.go, which every command runs when it         *)
(* resolves its environment, and then MigrateLogsLayout of                 *)
(* internal/root/migrate_logs.go, which it runs when it opens the          *)
(* database.  Several commands may start at once, any of them may die at   *)
(* any step, and a rename, a copy or an update may fail.                   *)
(*                                                                         *)
(* The sources are the files that end up at one target, in the order in    *)
(* which they are tried: a role's report, then the two nested places an    *)
(* earlier version used.  Of a row's log files only the stream is kept.    *)
(***************************************************************************)
EXTENDS Naturals, FiniteSets

CONSTANTS
  Cmds,       \* the commands
  Texts,      \* what a file may say
  Legacy,     \* sources 1..Legacy lie under roles/ or supervisor/
  Nested,     \* and as many under shared/ after them
  Begins,     \* the files a directory may begin with
  Rows,       \* rows with an old stream file, 1..Rows
  Prompts,    \* archived prompts, numbers
  Near,       \* Near[r]: the prompts within the window of row r
  Optouts,    \* what ATEAM_NO_MIGRATE may be
  Devices,    \* may a rename cross devices
  MayFail,    \* may the file system or the database refuse
  Crashes,    \* bound: commands killed
  Restarts    \* bound: commands started again

Sources == 1..(Legacy + Nested)
File(t, w) == [text |-> t, whole |-> w]
Absent == File("none", TRUE)
Files == {Absent} \cup [text : Texts, whole : BOOLEAN]

ASSUME StateDirAssumption ==
  /\ Legacy \in Nat \ {0} /\ Nested \in Nat \ {0} /\ Rows \in Nat
  /\ "none" \notin Texts
  /\ Begins \subseteq [src : [Sources -> Files], aside : [Sources -> Files], dst : Files]
  /\ \A b \in Begins : \A f \in {b.dst} \cup {b.src[i] : i \in Sources}
                                 \cup {b.aside[i] : i \in Sources} : f.whole
  /\ Prompts \subseteq Nat \ {0} /\ Near \in [1..Rows -> SUBSET Prompts]
  /\ {Optouts, Devices} \subseteq SUBSET BOOLEAN
  /\ MayFail \in BOOLEAN /\ {Crashes, Restarts} \subseteq Nat

VARIABLES
  pc,         \* pc[c]: where a command is
  at,         \* at[c]: the source, then the row, it is at
  got,        \* got[c]: the file it has read, or has open
  list,       \* list[c]: the rows it migrates
  found,      \* found[c]: the prompt it is about to move; 0 for none
  begin,      \* the files the directory began with
  exdev,      \* targets are on another device
  src, aside, \* the sources, and <source>.legacy of each
  dst,        \* the target
  history,    \* archived prompts in the history directories
  stream,     \* stream[r]: where the stream is: old, new or gone
  entry,      \* entry[r]: stream_file of row r: old or new
  prompt,     \* prompt[r]: logs/<r>/prompt.md; 0 for none
  oldlogs,    \* legacy log directories, or runner.log, are there
  sentinel,   \* logs/.layout-v2
  crashes, restarts,
  hurt        \* history: rows at which an operation failed or a command died

local == <<got, list, found>>
prompts == <<src, aside, dst>>
logs == <<stream, entry, prompt, oldlogs, sentinel>>
world == <<begin, exdev, crashes, restarts>>
vars == <<pc, at, local, world, prompts, history, logs, hurt>>

Init ==
  /\ begin \in Begins /\ exdev \in Devices
  /\ src = begin.src /\ aside = begin.aside /\ dst = begin.dst
  /\ history = Prompts
  /\ stream \in [1..Rows -> {"old", "gone"}]
  /\ entry = [r \in 1..Rows |-> "old"]
  /\ prompt = [r \in 1..Rows |-> 0]
  /\ oldlogs = TRUE /\ sentinel = FALSE
  /\ pc = [c \in Cmds |-> "start"] /\ at = [c \in Cmds |-> 1]
  /\ got = [c \in Cmds |-> Absent] /\ list = [c \in Cmds |-> {}]
  /\ found = [c \in Cmds |-> 0]
  /\ crashes = 0 /\ restarts = 0 /\ hurt = {}

Go(c, p) == pc' = [pc EXCEPT ![c] = p]
Here(c) == src[at[c]]
Exists(f) == f # Absent

-----------------------------------------------------------------------------
(* V1Layout: the sources one after the other. *)

\* roles/ and supervisor/ stay while anything is in them.
NeedsMigration == history # {} \/ \E i \in 1..Legacy : Exists(src[i]) \/ Exists(aside[i])

Start(c) ==
  /\ pc[c] = "start"
  /\ \/ TRUE \in Optouts /\ Go(c, "sentinel") /\ UNCHANGED at
     \/ /\ FALSE \in Optouts /\ Go(c, "src")
        /\ at' = [at EXCEPT ![c] = IF NeedsMigration THEN 1 ELSE Legacy + 1]
  /\ UNCHANGED <<local, prompts, history, logs, hurt>>

\* What a call had read goes with it.
Leave(c, p) ==
  /\ Go(c, p)
  /\ at' = [at EXCEPT ![c] = 1] /\ got' = [got EXCEPT ![c] = Absent]
  /\ list' = [list EXCEPT ![c] = {}] /\ found' = [found EXCEPT ![c] = 0]

\* On to the next source; cleanup comes between the two kinds.
NextSource(c) ==
  /\ got' = [got EXCEPT ![c] = Absent]
  /\ at' = [at EXCEPT ![c] = @ + 1]
  /\ Go(c, CASE at[c] = Legacy -> "cleanup"
             [] at[c] = Legacy + Nested -> "sentinel"
             [] OTHER -> "src")

\* move: is there a source
StatSource(c) ==
  /\ pc[c] = "src"
  /\ IF Exists(Here(c)) THEN Go(c, "dst") /\ UNCHANGED <<at, got>> ELSE NextSource(c)
  /\ UNCHANGED <<list, found, prompts, history, logs, hurt>>

StatTarget(c) ==
  /\ pc[c] = "dst"
  /\ Go(c, IF Exists(dst) THEN "readsrc" ELSE "rename")
  /\ UNCHANGED <<at, local, prompts, history, logs, hurt>>

\* os.Rename replaces whatever is at the target.
Rename(c) ==
  /\ pc[c] = "rename" /\ ~exdev /\ Exists(Here(c))
  /\ dst' = Here(c)
  /\ src' = [src EXCEPT ![at[c]] = Absent]
  /\ NextSource(c)
  /\ UNCHANGED <<list, found, aside, history, logs, hurt>>

\* copyFile: the target must not be there; it is not whole until the copy is.
BeginCopy(c) ==
  /\ pc[c] = "rename" /\ exdev /\ Exists(Here(c)) /\ ~Exists(dst)
  /\ got' = [got EXCEPT ![c] = Here(c)]
  /\ dst' = File(Here(c).text, FALSE)
  /\ Go(c, "copy")
  /\ UNCHANGED <<at, list, found, src, aside, history, logs, hurt>>

EndCopy(c) ==
  /\ pc[c] = "copy"
  /\ dst' = got[c]
  /\ Go(c, "remove")
  /\ UNCHANGED <<at, local, src, aside, history, logs, hurt>>

\* The source goes: its copy is whole, or it said what the target says.
RemoveOld(c) ==
  /\ pc[c] = "remove" /\ Exists(Here(c))
  /\ src' = [src EXCEPT ![at[c]] = Absent]
  /\ NextSource(c)
  /\ UNCHANGED <<list, found, aside, dst, history, logs, hurt>>

\* resolveExistingTarget
ReadSource(c) ==
  /\ pc[c] = "readsrc" /\ Exists(Here(c))
  /\ got' = [got EXCEPT ![c] = Here(c)]
  /\ Go(c, "readdst")
  /\ UNCHANGED <<at, list, found, prompts, history, logs, hurt>>

SameText(c) ==
  /\ pc[c] = "readdst"
  /\ Go(c, IF dst.text = got[c].text THEN "remove" ELSE "aside")
  /\ UNCHANGED <<at, local, prompts, history, logs, hurt>>

Compare(c) ==
  /\ pc[c] = "readdst"
  /\ Go(c, IF dst = got[c] THEN "remove" ELSE "aside")
  /\ UNCHANGED <<at, local, prompts, history, logs, hurt>>

AsideUnchecked(c) ==
  /\ pc[c] = "aside"
  /\ Go(c, "shift")
  /\ UNCHANGED <<at, local, prompts, history, logs, hurt>>

\* Is <source>.legacy taken?  Then both files stay.
StatAside(c) ==
  /\ pc[c] = "aside"
  /\ IF Exists(aside[at[c]]) THEN NextSource(c)
                              ELSE Go(c, "shift") /\ UNCHANGED <<at, got>>
  /\ UNCHANGED <<list, found, prompts, history, logs, hurt>>

Shift(c) ==
  /\ pc[c] = "shift" /\ Exists(Here(c))
  /\ aside' = [aside EXCEPT ![at[c]] = Here(c)]
  /\ src' = [src EXCEPT ![at[c]] = Absent]
  /\ NextSource(c)
  /\ UNCHANGED <<list, found, dst, history, logs, hurt>>

\* cleanup: history directories and junk go, then empty directories.
Cleanup(c) ==
  /\ pc[c] = "cleanup"
  /\ history' = {}
  /\ Go(c, "src")
  /\ UNCHANGED <<at, local, prompts, logs, hurt>>

\* The call finds its source gone, or its target there, or is refused: the
\* command stops.  RemoveAll may have removed some of it by then.
Fail(c) ==
  /\ \/ pc[c] \in {"rename", "remove", "readsrc", "shift"} /\ ~Exists(Here(c))
     \/ pc[c] = "rename" /\ exdev /\ Exists(dst)
     \/ MayFail /\ pc[c] \in {"rename", "copy", "remove", "readsrc", "readdst", "shift",
                              "cleanup"}
  /\ Leave(c, "failed")
  /\ history' \in IF pc[c] = "cleanup" THEN SUBSET history ELSE {history}
  /\ UNCHANGED <<prompts, logs, hurt>>

Layout(c) == \/ Start(c) \/ StatSource(c) \/ StatTarget(c) \/ Rename(c) \/ BeginCopy(c)
             \/ EndCopy(c) \/ RemoveOld(c) \/ ReadSource(c) \/ Compare(c) \/ StatAside(c)
             \/ Shift(c) \/ Cleanup(c) \/ Fail(c)

-----------------------------------------------------------------------------
(* MigrateLogsLayout: the rows one after the other. *)

CheckSentinel(c) ==
  /\ pc[c] = "sentinel"
  /\ Go(c, IF sentinel THEN "over" ELSE "needs")
  /\ UNCHANGED <<at, local, prompts, history, logs, hurt>>

\* needsMigration: nothing legacy, nothing to do but to say so.
CheckNeed(c) ==
  /\ pc[c] = "needs"
  /\ Go(c, IF oldlogs THEN "query" ELSE "mark")
  /\ UNCHANGED <<at, local, prompts, history, logs, hurt>>

\* The legacy rows are read at once, the cursor closed, and then they are
\* migrated; a query that fails ends the migration with a warning.
Query(c) ==
  /\ pc[c] = "query"
  /\ \/ /\ list' = [list EXCEPT ![c] = {r \in 1..Rows : entry[r] = "old"}]
        /\ at' = [at EXCEPT ![c] = 1]
        /\ Go(c, "stat")
     \/ MayFail /\ Go(c, "over") /\ UNCHANGED <<list, at>>
  /\ UNCHANGED <<got, found, prompts, history, logs, hurt>>

NextRow(c) == at' = [at EXCEPT ![c] = @ + 1] /\ Go(c, "stat")
Row(c) == at[c]

StatStreamBreaks(c) ==
  /\ pc[c] = "stat" /\ Row(c) <= Rows
  /\ IF Row(c) \in list[c] /\ stream[Row(c)] = "old"
     THEN Go(c, "stream") /\ UNCHANGED at
     ELSE at' = [at EXCEPT ![c] = Rows + 1] /\ Go(c, "stat")
  /\ UNCHANGED <<local, prompts, history, logs, hurt>>

\* A row whose stream is not at its old place is passed over.
StatStream(c) ==
  /\ pc[c] = "stat" /\ Row(c) <= Rows
  /\ IF Row(c) \in list[c] /\ stream[Row(c)] = "old"
     THEN Go(c, "stream") /\ UNCHANGED at
     ELSE NextRow(c)
  /\ UNCHANGED <<local, prompts, history, logs, hurt>>

\* The files that are still there are renamed; a failure is a warning.
MoveStream(c) ==
  /\ pc[c] = "stream"
  /\ \/ /\ stream' = [stream EXCEPT ![Row(c)] = IF @ = "old" THEN "new" ELSE @]
        /\ UNCHANGED hurt
     \/ MayFail /\ UNCHANGED stream /\ hurt' = hurt \cup {Row(c)}
  /\ Go(c, "prompt")
  /\ UNCHANGED <<at, local, prompts, history, entry, prompt, oldlogs, sentinel>>

\* findLegacyPrompt: one of those within the window.
FindPrompt(c) ==
  /\ pc[c] = "prompt"
  /\ IF history \cap Near[Row(c)] = {}
     THEN Go(c, "update") /\ UNCHANGED found
     ELSE /\ \E p \in history \cap Near[Row(c)] : found' = [found EXCEPT ![c] = p]
          /\ Go(c, "keep")
  /\ UNCHANGED <<at, got, list, prompts, history, logs, hurt>>

\* It becomes prompt.md of the row, in the place of what was there.
KeepPrompt(c) ==
  /\ pc[c] = "keep"
  /\ \/ /\ found[c] \in history
        /\ prompt' = [prompt EXCEPT ![Row(c)] = found[c]]
        /\ history' = history \ {found[c]}
     \/ (MayFail \/ found[c] \notin history) /\ UNCHANGED <<prompt, history>>
  /\ Go(c, "update")
  /\ UNCHANGED <<at, local, prompts, stream, entry, oldlogs, sentinel, hurt>>

\* UpdateStreamFile
UpdateEntry(c) ==
  /\ pc[c] = "update"
  /\ \/ entry' = [entry EXCEPT ![Row(c)] = "new"] /\ UNCHANGED hurt
     \/ MayFail /\ hurt' = hurt \cup {Row(c)} /\ UNCHANGED entry
  /\ NextRow(c)
  /\ found' = [found EXCEPT ![c] = 0]
  /\ UNCHANGED <<got, list, prompts, history, stream, prompt, oldlogs, sentinel>>

\* Error files and runner.log are removed, and the directories that are empty.
Sweep(c) ==
  /\ pc[c] = "stat" /\ Row(c) > Rows
  /\ oldlogs' = \E r \in 1..Rows : stream[r] = "old"
  /\ Go(c, "mark")
  /\ UNCHANGED <<at, local, prompts, history, stream, entry, prompt, sentinel, hurt>>

WriteSentinel(c) ==
  /\ pc[c] = "mark"
  /\ sentinel' \in {TRUE} \cup IF MayFail THEN {sentinel} ELSE {}
  /\ Leave(c, "over")
  /\ UNCHANGED <<prompts, history, stream, entry, prompt, oldlogs, hurt>>

Logs(c) == \/ CheckSentinel(c) \/ CheckNeed(c) \/ Query(c) \/ StatStream(c)
           \/ MoveStream(c) \/ FindPrompt(c) \/ KeepPrompt(c) \/ UpdateEntry(c)
           \/ Sweep(c) \/ WriteSentinel(c)

-----------------------------------------------------------------------------
Resting == {"start", "failed", "dead", "over"}
InRow == {"prompt", "keep", "update"}

Die(c) ==
  /\ crashes < Crashes /\ pc[c] \notin Resting
  /\ crashes' = crashes + 1
  /\ Leave(c, "dead")
  /\ hurt' = IF pc[c] \in InRow THEN hurt \cup {at[c]} ELSE hurt
  /\ UNCHANGED <<begin, exdev, restarts, prompts, history, logs>>

\* The user tries again.
Restart(c) ==
  /\ restarts < Restarts /\ pc[c] \in {"failed", "dead", "over"}
  /\ restarts' = restarts + 1
  /\ Leave(c, "start")
  /\ UNCHANGED <<begin, exdev, crashes, prompts, history, logs, hurt>>

Next == \E c \in Cmds : \/ (Layout(c) \/ Logs(c)) /\ UNCHANGED world
                        \/ Die(c) \/ Restart(c)

Spec == Init /\ [][Next]_vars

-----------------------------------------------------------------------------
TypeOK ==
  /\ pc \in [Cmds -> Resting \cup InRow \cup
               {"src", "dst", "rename", "copy", "remove", "readsrc", "readdst", "aside",
                "shift", "cleanup", "sentinel", "needs", "query", "stat", "stream", "mark"}]
  /\ at \in [Cmds -> Nat] /\ got \in [Cmds -> Files]
  /\ list \in [Cmds -> SUBSET (1..Rows)] /\ found \in [Cmds -> {0} \cup Prompts]
  /\ begin \in Begins /\ exdev \in BOOLEAN
  /\ {src, aside} \subseteq [Sources -> Files] /\ dst \in Files
  /\ history \in SUBSET Prompts
  /\ stream \in [1..Rows -> {"old", "new", "gone"}] /\ entry \in [1..Rows -> {"old", "new"}]
  /\ prompt \in [1..Rows -> {0} \cup Prompts]
  /\ {oldlogs, sentinel} \subseteq BOOLEAN
  /\ crashes \in 0..Crashes /\ restarts \in 0..Restarts /\ hurt \in SUBSET (1..Rows)

OnDisk == {dst} \cup {src[i] : i \in Sources} \cup {aside[i] : i \in Sources}
AtFirst == {begin.dst} \cup {begin.src[i] : i \in Sources}
             \cup {begin.aside[i] : i \in Sources}

\* No report or prompt is lost: whatever a file said before the migration, a
\* whole file says it at every moment, with two commands between each other's
\* checks and renames, copies cut short and commands killed
\* (v1_layout.go:207-281 and 551-581; no lock is held).
NothingLost == AtFirst \ {Absent} \subseteq OnDisk

\* What one undisturbed pass makes of the directory: the first source goes to
\* a target that is free; a later one goes if it says the same, else aside,
\* else it stays.
Present == {i \in Sources : Exists(begin.src[i])}
First == IF Exists(begin.dst) THEN 0 ELSE CHOOSE i \in Present : \A j \in Present : i <= j
Winner == IF Exists(begin.dst) \/ Present = {} THEN begin.dst ELSE begin.src[First]
Rival(i) == begin.src[i] \notin {Absent, Winner}
Blocked(i) == Rival(i) /\ Exists(begin.aside[i])
OnePass ==
  /\ dst = Winner
  /\ \A i \in Sources :
       /\ src[i] = IF Blocked(i) THEN begin.src[i] ELSE Absent
       /\ aside[i] = IF Rival(i) /\ ~Blocked(i) THEN begin.src[i] ELSE begin.aside[i]

\* A command that gets past the layout finds what one undisturbed pass leaves,
\* whoever else was at it and whatever was cut short before: "re-running picks
\* up where it left off" (v1_layout.go:7).  A target on another device may be
\* the half of a copy that nobody completed.
SameAsOnePass ==
  ~exdev /\ (\E c \in Cmds : pc[c] = "sentinel" /\ at[c] > Legacy + Nested) => OnePass

\* A row tells where its stream is, but while a command is between the rename
\* and the update, or where that step failed or its command died; and the
\* sentinel, after which nobody looks again, leaves no other row behind
\* (migrate_logs.go:109-149).
StreamFound ==
  \A r \in 1..Rows \ hurt :
    /\ stream[r] \in {entry[r], "gone"} \/ \E c \in Cmds : pc[c] \in InRow /\ at[c] = r
    /\ sentinel => stream[r] # "old"

\* migrate_logs.go:33: archives without a row "are left in place", and the
\* others "are moved into logs/<id>/prompt.md": none is destroyed.
PromptsKept == Prompts \subseteq history \cup {prompt[r] : r \in 1..Rows}
=============================================================================
