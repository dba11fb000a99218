-------------------------- MODULE CodexTmux_proofs --------------------------
(***************************************************************************)
(* Proofs about the two halves of a codex-tmux run, for any dialogs,       *)
(* rounds, follow-up lines and timing of codex, a rollout of any records   *)
(* and any fall of the tailer's reads between the writes of codex.         *)
(*                                                                         *)
(* TmuxRun: what a run leaves behind, that a success is of a prompt that   *)
(* was delivered, and under which timing waitIdle cannot take a codex at   *)
(* work for one at rest.  SessionTail: agent.jsonl is one rollout          *)
(* translated, and that of the run if the tailer looks for its marker.     *)
(***************************************************************************)
EXTENDS TmuxRun, SessionTail, FiniteSetTheorems, SequenceTheorems, TLAPS

(***************************************************************************)
(* TmuxRun                                                                 *)
(***************************************************************************)
-----------------------------------------------------------------------------
(* The inductive invariants. *)

Waiting == {"idle", "follow", "keys"}

\* Where an error is pending, what is returned, and the counters of a wait that
\* goes on.
Run ==
  /\ err => pc \in {"capture", "kill", "done"}
  /\ result = "none" <=> pc \notin {"kill", "done"}
  /\ pc = "keys" => ready = 0 /\ quiet = 0 /\ still = 0 /\ was = TRUE
  /\ pc = "idle" => ready < Matches /\ quiet < Matches
  /\ pc = "follow" => steps > 0

\* What there is of the tmux server before and after the run.
Kept ==
  /\ pc = "script" => server = "none" /\ ~sock /\ ~script /\ tui = "none"
  /\ pc = "server" => server = "none" /\ ~sock /\ tui = "none"
  /\ server # "up" => tui = "none"

\* codex has the prompt, or it is in the box.
Delivered == taken \/ queued \/ text = "ours"

Sent ==
  /\ pc \in {"submit", "capture"} \cup Waiting => Delivered
  /\ result = "ok" => Delivered

\* What a capture shows of a codex that works.
Screens ==
  /\ tui = "busy" => CodexBusy(look)
  /\ tui = "gap" => look = "prompt"
  /\ tui \in {"pending", "menu"} => look \in {"plain", "prompt"}

\* The clock of codex stands still until the first wait.
Unpolled ==
  pc \notin Waiting \cup {"capture", "kill", "done"} =>
    age = 0 /\ (tui # "none" => dirty)

\* How far the counters of a wait can be while codex owes a reaction, works, or
\* shows a prompt between two tools: no further than the polls it took.
Counting ==
  pc = "idle" =>
    /\ tui = "pending" => /\ ready = 0
                          /\ PromptReady(look) => was
                          /\ ~dirty => still < age
                          /\ quiet > 0 => age > Window
    /\ tui = "busy" /\ age > 0 => ready = 0 /\ quiet = 0
    /\ tui = "gap" => ready <= age /\ quiet <= age

\* Before a follow-up key, codex owes no reaction to the last one.
Rests == pc \in {"follow", "keys"} => tui # "pending"

\* The timing under which waitIdle is right: a reaction takes no longer than its
\* quiescence window and one poll more, and codex shows its work for a poll
\* before it shows a prompt again.  A gap may be of any length.
Timing == Lag <= Window + 1 /\ Work > 0

IInv == TypeOK /\ Run /\ Kept /\ Sent /\ NothingLeftBehind

TInv == IInv /\ Screens /\ Unpolled /\ Counting /\ Rests

-----------------------------------------------------------------------------
(* Types.  First the pane, then what the driver keeps. *)

Tuis == {"none", "shell", "boot", "dialog", "closing", "prompt",
         "pending", "busy", "gap", "menu", "answered", "exited"}

PaneTyped ==
  /\ tui \in Tuis /\ look \in Looks /\ dirty \in BOOLEAN
  /\ age \in 0..(Gap + Work + Lag)
  /\ text \in {"empty", "command", "ours"} /\ queued \in BOOLEAN /\ taken \in BOOLEAN
  /\ printed \in {"none", "text", "error"}
  /\ dialogs \in 0..MaxDialogs /\ rounds \in 0..MaxRounds

Pcs == {"script", "server", "session", "settle", "launch", "ready",
        "dismiss", "send", "echo", "submit", "idle", "follow", "keys",
        "capture", "kill", "done"}

RunTyped ==
  /\ pc \in Pcs /\ ctx \in {"live", "done"} /\ result \in {"none", "ok", "error"}
  /\ late \in BOOLEAN /\ err \in BOOLEAN /\ slash \in BOOLEAN /\ steps \in 0..MaxSteps
  /\ server \in {"none", "up", "down"}
  /\ sock \in BOOLEAN /\ script \in BOOLEAN /\ leak \in BOOLEAN

IdleTyped ==
  /\ was \in BOOLEAN /\ fresh \in BOOLEAN
  /\ ready \in 0..Matches /\ quiet \in 0..Matches /\ still \in 0..Window

LEMMA TypeParts == TypeOK <=> PaneTyped /\ RunTyped /\ IdleTyped
<1>1. {late, err, slash, sock, script, leak, dirty, queued, taken, was, fresh} \subseteq BOOLEAN
        <=> /\ late \in BOOLEAN /\ err \in BOOLEAN /\ slash \in BOOLEAN /\ sock \in BOOLEAN
            /\ script \in BOOLEAN /\ leak \in BOOLEAN /\ dirty \in BOOLEAN /\ queued \in BOOLEAN
            /\ taken \in BOOLEAN /\ was \in BOOLEAN /\ fresh \in BOOLEAN
  OBVIOUS
<1>2. {ready, quiet} \subseteq 0..Matches <=> ready \in 0..Matches /\ quiet \in 0..Matches
  OBVIOUS
<1> QED
  BY <1>1, <1>2, Zenon DEF TypeOK, PaneTyped, RunTyped, IdleTyped, Tuis, Pcs

LEMMA Bounds ==
  /\ MaxDialogs \in Nat /\ MaxRounds \in Nat /\ MaxSteps \in Nat
  /\ Gap \in Nat /\ Work \in Nat /\ Lag \in Nat /\ Window \in Nat /\ Window > 0
  BY TmuxRunAssumption

LEMMA ShowTyped ==
  ASSUME NEW t \in Tuis, NEW l \in Looks, Show(t, l)
  PROVE  (tui \in Tuis /\ look \in Looks /\ dirty \in BOOLEAN /\ age \in 0..(Gap + Work + Lag))'
  BY Bounds DEF Show

LEMMA TypeTyped ==
  ASSUME PaneTyped, NEW s \in {"command", "ours"}, Type(s)
  PROVE  (text \in {"empty", "command", "ours"} /\ dirty \in BOOLEAN)'
  BY DEF Type, PaneTyped

LEMMA EnterTyped ==
  ASSUME PaneTyped, Enter
  PROVE  /\ (tui \in Tuis /\ look \in Looks /\ dirty \in BOOLEAN /\ age \in 0..(Gap + Work + Lag))'
         /\ (text \in {"empty", "command", "ours"} /\ queued \in BOOLEAN /\ taken \in BOOLEAN)'
<1>1. \/ \E t \in {"boot", "closing", "pending"}, l \in Looks : Show(t, l)
      \/ UNCHANGED <<tui, look, age>> /\ dirty' \in BOOLEAN
  BY DEF Enter, PaneTyped, Looks
<1>2. (tui \in Tuis /\ look \in Looks /\ dirty \in BOOLEAN /\ age \in 0..(Gap + Work + Lag))'
  BY <1>1, ShowTyped DEF PaneTyped, Tuis
<1>3. (text \in {"empty", "command", "ours"} /\ queued \in BOOLEAN /\ taken \in BOOLEAN)'
  BY DEF Enter, PaneTyped
<1> QED
  BY <1>2, <1>3

\* The steps of codex change nothing but the pane.
LEMMA CodexTyped ==
  ASSUME PaneTyped, Codex
  PROVE  PaneTyped' /\ Other
<1> USE Bounds
<1>1. CASE OpenDialog
  <2>1. dialogs' \in 0..MaxDialogs
    BY <1>1 DEF OpenDialog, PaneTyped
  <2> QED
    BY <1>1, <2>1, ShowTyped DEF OpenDialog, PaneTyped, Tuis, Looks
<1>2. CASE ShowPrompt
  BY <1>2, ShowTyped DEF ShowPrompt, PaneTyped, Tuis, Looks, turnVars
<1>3. CASE React
  <2>1. PICK t \in {"menu", "busy", "answered"}, l \in Looks : Show(t, l)
    BY <1>3 DEF React, Looks
  <2> QED
    BY <1>3, <2>1, ShowTyped DEF React, PaneTyped, Tuis
<1>4. CASE BeginGap
  <2>1. rounds' \in 0..MaxRounds
    BY <1>4 DEF BeginGap, PaneTyped
  <2> QED
    BY <1>4, <2>1, ShowTyped DEF BeginGap, PaneTyped, Tuis, Looks
<1>5. CASE EndGap
  BY <1>5, ShowTyped DEF EndGap, PaneTyped, Tuis, Looks, turnVars
<1>6. CASE EndTurn
  BY <1>6, ShowTyped DEF EndTurn, PaneTyped, Tuis, Looks
<1>7. CASE Redraw
  BY <1>7 DEF Redraw, PaneTyped, turnVars
<1>8. CASE Exit
  BY <1>8, ShowTyped DEF Exit, PaneTyped, Tuis, Looks
<1> QED
  BY <1>1, <1>2, <1>3, <1>4, <1>5, <1>6, <1>7, <1>8 DEF Codex, OpenDialog, ShowPrompt, React,
     BeginGap, EndGap, EndTurn, Redraw, Exit

\* A poll changes the counters as the capture says.
LEMMA PollTyped ==
  ASSUME TypeOK, Run, Poll
  PROVE  IdleTyped' /\ (dirty \in BOOLEAN /\ age \in 0..(Gap + Work + Lag))'
<1> USE Bounds
<1>a. PaneTyped /\ RunTyped /\ IdleTyped /\ ready \in {0, 1} /\ quiet \in {0, 1}
  BY TypeParts DEF Poll, Run, Matches, IdleTyped
<1>1. CASE ~Reaches
  BY <1>a, <1>1 DEF Poll, IdleTyped, PaneTyped, idleVars
<1>2. CASE Reaches
  <2>1. ReadyNow \in 0..Matches
    BY <1>a DEF ReadyNow, Matches
  <2>2. StillNow \in 0..Window
    BY <1>a DEF StillNow, IdleTyped, PaneTyped
  <2>3. QuietNow \in 0..Matches
    BY <1>a DEF QuietNow, Matches
  <2>4. age' \in 0..(Gap + Work + Lag)
    BY <1>a, <1>2 DEF Poll, Tick, PaneTyped
  <2>5. was' \in BOOLEAN /\ fresh' \in BOOLEAN /\ dirty' \in BOOLEAN
    <3>1. was' = (was /\ PromptReady(look) /\ ~CodexBusy(look)) /\ fresh' = (fresh /\ ~dirty)
      BY <1>2 DEF Poll
    <3>2. dirty' = FALSE
      BY <1>2 DEF Poll
    <3> QED
      BY <3>1, <3>2, Zenon
  <2> QED
    BY <1>2, <2>1, <2>2, <2>3, <2>4, <2>5 DEF Poll, IdleTyped
<1> QED
  BY <1>1, <1>2

LEMMA PaneStep ==
  ASSUME TypeOK, Run, [Next]_vars
  PROVE  PaneTyped'
<1> USE Bounds
<1>a. PaneTyped
  BY TypeParts
<1>1. CASE Codex
  BY <1>a, <1>1, CodexTyped
<1>2. CASE WriteScript \/ StartServer \/ WaitReady \/ WaitEcho \/ Judge \/ Deadline \/ Cancel
           \/ Done \/ UNCHANGED vars
  <2>1. UNCHANGED paneVars
    BY <1>2 DEF WriteScript, StartServer, WaitReady, WaitEcho, Judge, Deadline, Cancel, Done, vars
  <2> QED
    BY <1>a, <2>1 DEF PaneTyped, paneVars, turnVars
<1>3. CASE NewSession \/ Kill \/ ServerDies
  <2>1. UNCHANGED turnVars
    BY <1>3 DEF NewSession, Kill, ServerDies, GiveUp, CleanupServer, paneVars
  <2>2. (tui \in Tuis /\ look \in Looks /\ dirty \in BOOLEAN /\ age \in 0..(Gap + Work + Lag))'
    <3>1. CASE CleanupServer \/ ServerDies
      BY <1>a, <3>1 DEF CleanupServer, ServerDies, PaneTyped, Tuis, Looks
    <3>2. CASE UNCHANGED paneVars
      BY <1>a, <3>2 DEF PaneTyped, paneVars
    <3>3. CASE Show("shell", "plain")
      BY <3>3, ShowTyped DEF Tuis, Looks
    <3> QED
      BY <1>3, <3>1, <3>2, <3>3 DEF NewSession, Kill, GiveUp
  <2> QED
    BY <1>a, <2>1, <2>2 DEF turnVars, PaneTyped
<1>4. CASE PasteCommand
  <2>1. CASE Type("command") /\ UNCHANGED <<tui, look, age, queued, taken, printed, dialogs, rounds>>
    BY <1>a, <2>1, TypeTyped DEF PaneTyped
  <2>2. CASE CleanupServer
    BY <1>a, <2>2 DEF CleanupServer, PaneTyped, turnVars, Tuis, Looks
  <2> QED
    BY <1>4, <2>1, <2>2 DEF PasteCommand, GiveUp
<1>5. CASE Launch \/ Dismiss \/ Submit \/ SendStep
  <2>1. CASE Enter /\ UNCHANGED <<printed, dialogs, rounds>>
    BY <1>a, <2>1, EnterTyped DEF PaneTyped
  <2>2. CASE CleanupServer
    BY <1>a, <2>2 DEF CleanupServer, PaneTyped, turnVars, Tuis, Looks
  <2>3. CASE UNCHANGED paneVars
    BY <1>a, <2>3 DEF PaneTyped, paneVars, turnVars
  <2>4. CASE Show("pending", "prompt") /\ UNCHANGED turnVars
    BY <1>a, <2>4, ShowTyped DEF PaneTyped, turnVars, Tuis, Looks
  <2> QED
    BY <1>5, <2>1, <2>2, <2>3, <2>4 DEF Launch, Dismiss, Submit, SendStep, GiveUp
<1>6. CASE SendPrompt
  <2>1. CASE Type("ours")
    BY <1>a, <1>6, <2>1, TypeTyped DEF SendPrompt, PaneTyped
  <2>2. CASE UNCHANGED <<text, dirty>>
    BY <1>a, <1>6, <2>2 DEF SendPrompt, PaneTyped
  <2> QED
    BY <1>6, <2>1, <2>2 DEF SendPrompt
<1>7. CASE Poll
  BY <1>a, <1>7, PollTyped DEF Poll, PaneTyped, turnVars
<1>8. CASE FollowUp
  BY <1>a, <1>8 DEF FollowUp, PaneTyped, turnVars
<1> QED
  BY <1>1, <1>2, <1>3, <1>4, <1>5, <1>6, <1>7, <1>8 DEF Next, Driver

LEMMA IdleStep ==
  ASSUME TypeOK, Run, [Next]_vars
  PROVE  IdleTyped'
<1>a. IdleTyped
  BY TypeParts
<1>1. CASE Poll
  BY <1>1, PollTyped
<1>2. CASE Submit \/ FollowUp
  <2>1. \/ UNCHANGED idleVars
        \/ was' = TRUE /\ ready' = 0 /\ quiet' = 0 /\ still' = 0 /\ fresh' \in BOOLEAN
    BY <1>2 DEF Submit, FollowUp, BeginIdle
  <2>2. CASE UNCHANGED idleVars
    BY <1>a, <2>2 DEF IdleTyped, idleVars
  <2>3. CASE was' = TRUE /\ ready' = 0 /\ quiet' = 0 /\ still' = 0 /\ fresh' \in BOOLEAN
    <3>1. was' \in BOOLEAN /\ fresh' \in BOOLEAN
      BY <2>3, Zenon
    <3>2. ready' \in 0..Matches /\ quiet' \in 0..Matches /\ still' \in 0..Window
      BY <2>3, Bounds DEF Matches
    <3> QED
      BY <3>1, <3>2 DEF IdleTyped
  <2> QED
    BY <2>1, <2>2, <2>3
<1>3. CASE UNCHANGED idleVars
  BY <1>a, <1>3 DEF IdleTyped, idleVars
<1> QED
  BY <1>1, <1>2, <1>3 DEF Next, Driver, Codex, WriteScript, StartServer, NewSession, PasteCommand,
     Launch, WaitReady, Dismiss, SendPrompt, WaitEcho, SendStep, Judge, Kill, OpenDialog,
     ShowPrompt, React, BeginGap, EndGap, EndTurn, Redraw, Exit, Other, Deadline, Cancel,
     ServerDies, Done, vars

\* Which steps move the run on.
LEMMA DriverMoves ==
  ASSUME [Next]_vars
  PROVE  /\ UNCHANGED slash
         /\ UNCHANGED runVars \/ Driver
         /\ UNCHANGED ctx \/ Cancel
         /\ UNCHANGED <<sock, script, leak>> \/ Driver
<1>1. CASE Driver
  BY <1>1 DEF Driver, WriteScript, StartServer, NewSession, PasteCommand, Launch, WaitReady, Dismiss,
     SendPrompt, WaitEcho, Submit, Poll, FollowUp, SendStep, Judge, Kill, Untouched
<1>2. CASE Codex
  BY <1>2 DEF Codex, OpenDialog, ShowPrompt, React, BeginGap, EndGap, EndTurn, Redraw, Exit,
     Other, tmuxVars
<1>3. CASE Deadline \/ Cancel \/ ServerDies \/ Done \/ UNCHANGED vars
  BY <1>3 DEF Deadline, Cancel, ServerDies, Done, vars, tmuxVars
<1> QED
  BY <1>1, <1>2, <1>3 DEF Next

LEMMA Resting ==
  ASSUME [Next]_vars, ~Driver
  PROVE  UNCHANGED idleVars
  BY DEF Next, Codex, OpenDialog, ShowPrompt, React, BeginGap, EndGap, EndTurn, Redraw, Exit, Other,
     Deadline, Cancel, ServerDies, Done, vars, idleVars

LEMMA RunStep ==
  ASSUME TypeOK, Run, [Next]_vars
  PROVE  Run' /\ (pc \in Pcs /\ result \in {"none", "ok", "error"} /\ err \in BOOLEAN /\ steps \in 0..MaxSteps)'
<1> USE Bounds DEF Run, Matches, Pcs
<1>a. RunTyped /\ IdleTyped
  BY TypeParts
<1>1. CASE WriteScript \/ StartServer \/ NewSession \/ PasteCommand \/ Launch
  <2>1. /\ pc \in {"script", "server", "session", "settle", "launch"}
        /\ \/ pc' \in {"server", "session", "settle", "launch", "ready"} /\ UNCHANGED <<err, result, steps>>
           \/ pc' = "done" /\ result' = "error" /\ UNCHANGED <<err, steps>>
    BY <1>1 DEF WriteScript, StartServer, NewSession, PasteCommand, Launch, Goto, GiveUp, Abandon
  <2> QED
    BY <1>a, <2>1 DEF RunTyped
<1>2. CASE WaitReady \/ Dismiss \/ SendPrompt \/ WaitEcho
  <2>1. /\ pc \in {"ready", "dismiss", "send", "echo"}
        /\ \/ pc' \in {"ready", "dismiss", "send", "echo", "submit"} /\ UNCHANGED <<err, result, steps>>
           \/ pc' = "kill" /\ result' = "error" /\ UNCHANGED <<err, steps>>
    BY <1>2 DEF WaitReady, Dismiss, SendPrompt, WaitEcho, Goto, Fail
  <2> QED
    BY <1>a, <2>1 DEF RunTyped
<1>3. CASE Submit
  <2>1. /\ pc = "submit"
        /\ \/ pc' = "idle" /\ UNCHANGED <<err, result, steps>> /\ ready' = 0 /\ quiet' = 0
           \/ pc' = "kill" /\ result' = "error" /\ UNCHANGED <<err, steps>>
    BY <1>3 DEF Submit, Goto, Fail, BeginIdle
  <2> QED
    BY <1>a, <2>1 DEF RunTyped
<1>4. CASE Poll
  <2>1. CASE Broken
    BY <1>a, <1>4, <2>1 DEF Poll, Broken, RunTyped
  <2>2. CASE Reaches /\ (ReadyNow >= Matches \/ QuietNow >= Matches) /\ IdleFound
    <3>1. pc' = (IF steps > 0 THEN "follow" ELSE "capture") /\ UNCHANGED <<err, result, steps>>
      BY <2>2 DEF IdleFound
    <3> QED
      BY <1>a, <1>4, <3>1 DEF Poll, RunTyped
  <2>3. CASE Reaches /\ ~(ReadyNow >= Matches \/ QuietNow >= Matches) /\ UNCHANGED runVars
    <3>1. ReadyNow \in Nat /\ QuietNow \in Nat
      BY <1>a DEF ReadyNow, QuietNow, IdleTyped
    <3>2. ready' = ReadyNow /\ quiet' = QuietNow
      BY <1>4, <2>3 DEF Poll
    <3> QED
      BY <1>a, <1>4, <2>3, <3>1, <3>2 DEF Poll, RunTyped, runVars
  <2> QED
    BY <1>4, <2>1, <2>2, <2>3 DEF Poll
<1>5. CASE FollowUp
  <2>1. /\ pc = "follow"
        /\ \/ /\ pc' = "keys" /\ steps' = steps - 1 /\ UNCHANGED <<err, result>>
              /\ was' = TRUE /\ ready' = 0 /\ quiet' = 0 /\ still' = 0
           \/ pc' = "capture" /\ err' = TRUE /\ UNCHANGED <<result, steps>>
    BY <1>5 DEF FollowUp, BeginIdle, Broken
  <2>2. steps \in 0..MaxSteps /\ steps > 0 /\ err \in BOOLEAN /\ ~err /\ result = "none" /\ result' = "none"
    BY <1>a, <2>1 DEF RunTyped
  <2>3. CASE pc' = "keys"
    <3>1. steps' \in 0..MaxSteps
      BY <2>1, <2>2, <2>3
    <3> QED
      BY <2>1, <2>2, <2>3, <3>1
  <2>4. CASE pc' = "capture"
    BY <2>1, <2>2, <2>4
  <2> QED
    BY <2>1, <2>3, <2>4
<1>6. CASE SendStep
  <2>1. /\ pc = "keys" /\ UNCHANGED <<ready, quiet>>
        /\ \/ pc' = "idle" /\ UNCHANGED <<err, result, steps>>
           \/ pc' = "capture" /\ err' = TRUE /\ UNCHANGED <<result, steps>>
    BY <1>6 DEF SendStep, Goto, Broken, idleVars
  <2>2. steps \in 0..MaxSteps /\ err \in BOOLEAN /\ ~err /\ result = "none" /\ ready = 0 /\ quiet = 0
    BY <1>a, <2>1 DEF RunTyped
  <2>3. CASE pc' = "idle"
    BY <2>1, <2>2, <2>3
  <2>4. CASE pc' = "capture"
    BY <2>1, <2>2, <2>4
  <2> QED
    BY <2>1, <2>3, <2>4
<1>7. CASE Judge
  <2>1. pc = "capture" /\ pc' = "kill" /\ result' \in {"ok", "error"} /\ UNCHANGED <<err, steps>>
    BY <1>7 DEF Judge
  <2> QED
    BY <1>a, <2>1 DEF RunTyped
<1>8. CASE Kill
  BY <1>a, <1>8 DEF Kill, RunTyped
<1>9. CASE UNCHANGED runVars /\ UNCHANGED idleVars
  BY <1>a, <1>9 DEF RunTyped, runVars, idleVars
<1> QED
  BY <1>1, <1>2, <1>3, <1>4, <1>5, <1>6, <1>7, <1>8, <1>9, DriverMoves, Resting DEF Driver

\* The tmux server and its files.
LEMMA ServerStep ==
  ASSUME TypeOK, Run, Kept, [Next]_vars
  PROVE  /\ Kept'
         /\ (server \in {"none", "up", "down"} /\ sock \in BOOLEAN /\ script \in BOOLEAN /\ leak \in BOOLEAN)'
<1>a. RunTyped
  BY TypeParts
<1> USE DEF Kept, Goto, tmuxVars, paneVars
<1>1. CASE WriteScript
  BY <1>a, <1>1 DEF WriteScript, Abandon, RunTyped
<1>2. CASE StartServer
  BY <1>a, <1>2 DEF StartServer, Abandon, RunTyped
<1>3. CASE NewSession \/ PasteCommand \/ Launch
  <2>1. CASE GiveUp
    BY <1>a, <2>1 DEF GiveUp, Abandon, CleanupServer, RunTyped
  <2>2. CASE server = "up" /\ pc' \in {"settle", "launch", "ready"} /\ UNCHANGED tmuxVars
    BY <1>a, <2>2 DEF RunTyped
  <2> QED
    BY <1>3, <2>1, <2>2 DEF NewSession, PasteCommand, Launch, Reaches
<1>4. CASE Kill
  BY <1>a, <1>4 DEF Kill, CleanupServer, RunTyped
<1>5. CASE WaitReady \/ Dismiss \/ SendPrompt \/ WaitEcho \/ Submit \/ Poll \/ FollowUp \/ SendStep \/ Judge
  <2>1. UNCHANGED tmuxVars /\ pc' \notin {"script", "server"}
    BY <1>5 DEF WaitReady, Dismiss, SendPrompt, WaitEcho, Submit, Poll, FollowUp, SendStep, Judge,
       Untouched, Fail, Broken, IdleFound, runVars
  <2>2. tui' # tui => server = "up"
    BY <1>5 DEF WaitReady, Dismiss, SendPrompt, WaitEcho, Submit, Poll, FollowUp, SendStep, Judge,
       Reaches
  <2> QED
    BY <1>a, <2>1, <2>2 DEF RunTyped
<1>6. CASE Codex
  <2>1. UNCHANGED <<pc, server, sock, script, leak>> /\ tui # "none"
    BY <1>6 DEF Codex, OpenDialog, ShowPrompt, React, BeginGap, EndGap, EndTurn, Redraw, Exit, Other,
       runVars, Pane
  <2> QED
    BY <1>a, <2>1 DEF RunTyped
<1>7. CASE ServerDies
  BY <1>a, <1>7 DEF ServerDies, RunTyped, runVars
<1>8. CASE Deadline \/ Cancel \/ Done \/ UNCHANGED vars
  <2>1. UNCHANGED <<pc, tui, tmuxVars>>
    BY <1>8 DEF Deadline, Cancel, Done, vars, runVars
  <2> QED
    BY <1>a, <2>1 DEF RunTyped
<1> QED
  BY <1>1, <1>2, <1>3, <1>4, <1>5, <1>6, <1>7, <1>8 DEF Next, Driver

LEMMA TypeStep ==
  ASSUME TypeOK, Run, Kept, [Next]_vars
  PROVE  TypeOK'
<1>1. RunTyped
  BY TypeParts
<1>2. slash' \in BOOLEAN /\ ctx' \in {"live", "done"}
  BY <1>1, DriverMoves DEF RunTyped, Cancel
<1>3. late' \in BOOLEAN
  BY <1>1 DEF RunTyped, Next, Driver, WriteScript, StartServer, NewSession, PasteCommand, Launch, WaitReady,
     Dismiss, SendPrompt, WaitEcho, Submit, Poll, FollowUp, SendStep, Judge, Kill, BeginIdle,
     Codex, OpenDialog, ShowPrompt, React, BeginGap, EndGap, EndTurn, Redraw, Exit, Other,
     Deadline, Cancel, ServerDies, Done, vars
<1>4. RunTyped'
  BY <1>2, <1>3, RunStep, ServerStep DEF RunTyped
<1>5. PaneTyped' /\ IdleTyped'
  BY PaneStep, IdleStep
<1>6. PaneTyped' /\ RunTyped' /\ IdleTyped' => TypeOK'
  BY TypeParts, PTL
<1> QED
  BY <1>4, <1>5, <1>6

-----------------------------------------------------------------------------
(* The prompt. *)

\* Keys may move the prompt on, never lose it.
LEMMA EnterDelivers ==
  ASSUME Enter, Delivered
  PROVE  Delivered'
  BY DEF Enter, Delivered

\* Only the command that starts codex is typed before the prompt.
LEMMA StaysDelivered ==
  ASSUME TypeOK, [Next]_vars, Delivered, ~PasteCommand
  PROVE  Delivered'
<1> USE DEF Delivered, turnVars, paneVars
<1>1. CASE WriteScript \/ StartServer \/ WaitReady \/ WaitEcho \/ Poll \/ FollowUp \/ Judge
  BY <1>1 DEF WriteScript, StartServer, WaitReady, WaitEcho, Poll, FollowUp, Judge
<1>2. CASE NewSession \/ Kill
  BY <1>2 DEF NewSession, Kill, GiveUp, CleanupServer
<1>3. CASE Launch \/ Dismiss \/ Submit \/ SendStep
  BY <1>3, EnterDelivers DEF Launch, Dismiss, Submit, SendStep, GiveUp, CleanupServer
<1>4. CASE SendPrompt
  BY <1>4 DEF SendPrompt, Type
<1>5. CASE Codex
  <2>1. CASE React
    BY <2>1 DEF React
  <2>2. CASE EndTurn
    BY <2>2 DEF EndTurn
  <2>3. CASE ~React /\ ~EndTurn
    BY <1>5, <2>3 DEF Codex, OpenDialog, ShowPrompt, BeginGap, EndGap, Redraw, Exit
  <2> QED
    BY <2>1, <2>2, <2>3
<1>6. CASE Deadline \/ Cancel \/ ServerDies \/ Done \/ UNCHANGED vars
  BY <1>6 DEF Deadline, Cancel, ServerDies, Done, vars
<1> QED
  BY <1>1, <1>2, <1>3, <1>4, <1>5, <1>6 DEF Next, Driver

LEMMA SentStep ==
  ASSUME TypeOK, Run, Sent, [Next]_vars
  PROVE  Sent'
<1> USE DEF Sent, Waiting
<1>1. CASE WriteScript \/ StartServer \/ NewSession \/ PasteCommand \/ Launch
  BY <1>1 DEF WriteScript, StartServer, NewSession, PasteCommand, Launch, Goto, GiveUp, Abandon, Run
<1>2. CASE WaitReady \/ Dismiss \/ SendPrompt
  BY <1>2 DEF WaitReady, Dismiss, SendPrompt, Goto, Fail, Run
<1>3. CASE WaitEcho
  <2>1. pc' = "submit" => Delivered'
    BY <1>3 DEF WaitEcho, EchoVisible, Goto, Fail, Delivered, paneVars, turnVars
  <2> QED
    BY <1>3, <2>1 DEF WaitEcho, Goto, Fail, Run
<1>4. CASE Submit \/ Poll \/ FollowUp \/ SendStep
  <2>1. Delivered /\ ~PasteCommand /\ result = "none"
    BY <1>4 DEF Submit, Poll, FollowUp, SendStep, PasteCommand, Run
  <2> QED
    BY <2>1, StaysDelivered
<1>5. CASE Judge
  <2>1. Delivered /\ ~PasteCommand
    BY <1>5 DEF Judge, PasteCommand
  <2> QED
    BY <2>1, StaysDelivered
<1>6. CASE Kill
  <2>1. UNCHANGED result /\ pc' = "done" /\ ~PasteCommand
    BY <1>6 DEF Kill, PasteCommand
  <2> QED
    BY <2>1, StaysDelivered
<1>7. CASE ~Driver
  <2>1. UNCHANGED <<pc, result>>
    BY <1>7, DriverMoves DEF runVars
  <2> QED
    BY <1>7, <2>1, StaysDelivered DEF Driver
<1> QED
  BY <1>1, <1>2, <1>3, <1>4, <1>5, <1>6, <1>7 DEF Driver

\* The run is over: nothing is left, or it is on record that it is.
LEMMA LeftStep ==
  ASSUME TypeOK, Run, Kept, NothingLeftBehind, [Next]_vars
  PROVE  NothingLeftBehind'
<1> USE DEF NothingLeftBehind
<1>1. CASE WriteScript \/ StartServer
  BY <1>1 DEF WriteScript, StartServer, Abandon, Goto, Kept, paneVars
<1>2. CASE NewSession \/ PasteCommand \/ Launch
  BY <1>2 DEF NewSession, PasteCommand, Launch, GiveUp, CleanupServer, Goto
<1>3. CASE Kill
  BY <1>3 DEF Kill, CleanupServer
<1>4. CASE WaitReady \/ Dismiss \/ SendPrompt \/ WaitEcho \/ Submit \/ Poll \/ FollowUp \/ SendStep \/ Judge
  BY <1>4 DEF WaitReady, Dismiss, SendPrompt, WaitEcho, Submit, Poll, FollowUp, SendStep, Judge,
     Fail, Goto, Broken, IdleFound, runVars
<1>5. CASE ~Driver
  <2>1. UNCHANGED <<pc, sock, script, leak>>
    BY <1>5, DriverMoves DEF runVars
  <2>2. server # "up" => server' # "up"
    BY <1>5 DEF Next, Codex, OpenDialog, ShowPrompt, React, BeginGap, EndGap, EndTurn, Redraw,
       Exit, Other, Pane, Deadline, Cancel, ServerDies, Done, vars, tmuxVars, paneVars
  <2> QED
    BY <2>1, <2>2
<1> QED
  BY <1>1, <1>2, <1>3, <1>4, <1>5 DEF Driver

LEMMA Starts == Init => TInv
<1> SUFFICES ASSUME Init PROVE TInv
  OBVIOUS
<1>1. /\ pc = "script" /\ ctx = "live" /\ late = FALSE /\ err = FALSE /\ result = "none"
      /\ slash \in BOOLEAN
      /\ server = "none" /\ sock = FALSE /\ script = FALSE /\ leak = FALSE
  BY DEF Init
<1>2. steps \in 0..MaxSteps
  BY Bounds DEF Init
<1>3. /\ tui = "none" /\ look = "plain" /\ dirty = FALSE
      /\ text = "empty" /\ queued = FALSE /\ taken = FALSE /\ printed = "none"
  BY DEF Init
<1>4. age = 0 /\ dialogs = MaxDialogs /\ rounds = MaxRounds /\ ready = 0 /\ quiet = 0 /\ still = 0
  BY DEF Init
<1>5. was = TRUE /\ fresh = FALSE
  BY DEF Init
<1>6. RunTyped
  BY <1>1, <1>2 DEF RunTyped, Pcs
<1>7. PaneTyped
  <2>1. age \in 0..(Gap + Work + Lag) /\ dialogs \in 0..MaxDialogs /\ rounds \in 0..MaxRounds
    BY <1>4, Bounds
  <2> QED
    BY <1>3, <2>1 DEF PaneTyped, Tuis, Looks
<1>8. IdleTyped
  <2>1. was \in BOOLEAN /\ fresh \in BOOLEAN
    BY <1>5
  <2>2. ready \in 0..Matches /\ quiet \in 0..Matches /\ still \in 0..Window
    BY <1>4, Bounds DEF Matches
  <2> QED
    BY <2>1, <2>2 DEF IdleTyped
<1>9. TypeOK
  BY <1>6, <1>7, <1>8, TypeParts
<1>10. Run /\ Kept /\ Sent /\ NothingLeftBehind
  BY <1>1, <1>3 DEF Run, Kept, Sent, Waiting, NothingLeftBehind
<1>11. Screens /\ Unpolled /\ Counting /\ Rests
  BY <1>1, <1>3, <1>4 DEF Screens, Unpolled, Counting, Rests
<1> QED
  BY <1>9, <1>10, <1>11 DEF TInv, IInv

LEMMA Steps ==
  ASSUME IInv, [Next]_vars
  PROVE  IInv'
  BY TypeStep, RunStep, ServerStep, SentStep, LeftStep DEF IInv

-----------------------------------------------------------------------------
(* The theorems that need no timing. *)

\* Everything the first theorems rest on: what is left running at each place of
\* the driver, what it has kept of it, and where the prompt is.
THEOREM Invariant == Spec => []IInv
<1>1. Init => IInv
  BY Starts DEF TInv
<1>2. IInv /\ [Next]_vars => IInv'
  BY Steps
<1> QED
  BY <1>1, <1>2, PTL DEF Spec

\* The variables of a codex-tmux run keep their types.
THEOREM Typed == Spec => []TypeOK
<1>1. IInv => TypeOK
  BY DEF IInv
<1> QED
  BY <1>1, Invariant, PTL

\* A success is of a prompt that reached codex, or its box, whole.
THEOREM SuccessIsDeliveredHolds == Spec => []SuccessIsDelivered
<1>1. IInv => SuccessIsDelivered
  BY DEF IInv, Sent, SuccessIsDelivered, Delivered
<1> QED
  BY <1>1, Invariant, PTL

\* Once RunTmux has returned, no server, socket or script is left, but where
\* that is on record.
THEOREM NothingLeftBehindHolds == Spec => []NothingLeftBehind
<1>1. IInv => NothingLeftBehind
  BY DEF IInv
<1> QED
  BY <1>1, Invariant, PTL

-----------------------------------------------------------------------------
(* With codex in time. *)

LEMMA EnterScreens ==
  ASSUME Enter, Screens
  PROVE  Screens'
  BY DEF Enter, Show, Screens, CodexBusy, PromptReady

LEMMA ScreensStep ==
  ASSUME Screens, [Next]_vars
  PROVE  Screens'
<1> USE DEF Screens, CodexBusy
<1>1. CASE NewSession \/ Kill \/ PasteCommand \/ ServerDies
  BY <1>1 DEF NewSession, Kill, PasteCommand, ServerDies, GiveUp, CleanupServer, Show, paneVars
<1>2. CASE Launch \/ Dismiss \/ Submit \/ SendStep
  BY <1>2, EnterScreens DEF Launch, Dismiss, Submit, SendStep, GiveUp, CleanupServer, Show, paneVars
<1>3. CASE Codex
  BY <1>3 DEF Codex, OpenDialog, ShowPrompt, React, BeginGap, EndGap, EndTurn, Redraw, Exit, Show
<1>4. CASE UNCHANGED <<tui, look>>
  BY <1>4
<1> QED
  BY <1>1, <1>2, <1>3, <1>4 DEF Next, Driver, WriteScript, StartServer, WaitReady, SendPrompt,
     WaitEcho, Poll, FollowUp, Judge, Deadline, Cancel, Done, vars, paneVars

LEMMA UnpolledStep ==
  ASSUME TypeOK, Unpolled, [Next]_vars
  PROVE  Unpolled'
<1> USE DEF Unpolled, Waiting
<1>a. PaneTyped /\ RunTyped
  BY TypeParts
<1>1. CASE Poll \/ FollowUp \/ SendStep \/ Submit \/ Judge \/ Kill
  BY <1>1 DEF Poll, FollowUp, SendStep, Submit, Judge, Kill, Broken, IdleFound, Goto, Fail, runVars
<1>2. CASE WriteScript \/ StartServer \/ WaitReady \/ WaitEcho
  BY <1>2 DEF WriteScript, StartServer, WaitReady, WaitEcho, Goto, Fail, Abandon, paneVars
<1>3. CASE NewSession \/ PasteCommand \/ SendPrompt
  BY <1>3 DEF NewSession, PasteCommand, SendPrompt, GiveUp, Abandon, Goto, Fail, Show, Type
<1>4. CASE Launch \/ Dismiss
  BY <1>4 DEF Launch, Dismiss, GiveUp, Abandon, Goto, Fail, Enter, Show, paneVars, Reaches, Pane
<1>5. CASE Codex
  <2>1. UNCHANGED pc
    BY <1>5 DEF Codex, OpenDialog, ShowPrompt, React, BeginGap, EndGap, EndTurn, Redraw, Exit, Other,
       runVars
  <2>2. dirty' = TRUE /\ (age' = 0 \/ age' = age)
    BY <1>5 DEF Codex, OpenDialog, ShowPrompt, React, BeginGap, EndGap, EndTurn, Redraw, Exit, Show
  <2> QED
    BY <2>1, <2>2
<1>6. CASE Deadline \/ Cancel \/ ServerDies \/ Done \/ UNCHANGED vars
  BY <1>6 DEF Deadline, Cancel, ServerDies, Done, vars, runVars, paneVars
<1> QED
  BY <1>1, <1>2, <1>3, <1>4, <1>5, <1>6 DEF Next, Driver

\* The counters at a poll, while codex is at work.
LEMMA PollAtWork ==
  ASSUME Timing, TypeOK, Run, Screens, Counting, Poll, Reaches, Working
  PROVE  /\ \/ ReadyNow < Matches /\ QuietNow < Matches
            \/ tui = "gap" /\ age' >= 2
         /\ Counting'
<1> USE Bounds DEF Matches
<1>a. PaneTyped /\ IdleTyped /\ pc = "idle" /\ ready < 2 /\ quiet < 2
  BY TypeParts DEF Poll, Run
<1>b. /\ ready \in Nat /\ quiet \in Nat /\ still \in 0..Window /\ was \in BOOLEAN
      /\ age \in 0..(Gap + Work + Lag) /\ dirty \in BOOLEAN
  BY <1>a DEF PaneTyped, IdleTyped
<1>c. /\ UNCHANGED <<tui, look>> /\ dirty' = FALSE /\ Tick
      /\ was' = (was /\ PromptReady(look) /\ ~CodexBusy(look))
      /\ ready' = ReadyNow /\ still' = StillNow /\ quiet' = QuietNow /\ InTime
  BY DEF Poll
<1>1. CASE tui = "pending"
  <2>1. /\ ready = 0 /\ (PromptReady(look) => was) /\ look \in {"plain", "prompt"}
        /\ (~dirty => still < age) /\ (quiet > 0 => age > Window)
    BY <1>1, <1>a DEF Counting, Screens
  <2>2. age < Lag /\ age' = age + 1 /\ Lag <= Window + 1
    BY <1>1, <1>b, <1>c DEF InTime, Tick, Timing
  <2>3. ~CodexBusy(look) /\ ReadyNow = 0
    BY <2>1 DEF CodexBusy, ReadyNow, PromptReady
  <2>4. PromptReady(look) => was'
    BY <1>c, <2>1, <2>3
  <2>5. StillNow \in Nat /\ StillNow <= age
    <3>1. CASE dirty
      BY <1>b, <3>1 DEF StillNow
    <3>2. CASE ~dirty
      BY <1>b, <2>1, <3>2 DEF StillNow
    <3> QED
      BY <3>1, <3>2
  <2>6. QuietNow \in Nat /\ QuietNow <= 1 /\ (QuietNow > 0 => age >= Window)
    <3>1. quiet = 0
      BY <1>b, <2>1, <2>2
    <3> QED
      BY <1>b, <2>5, <3>1 DEF QuietNow
  <2>7. still' < age' /\ (quiet' > 0 => age' > Window)
    BY <1>b, <1>c, <2>2, <2>5, <2>6
  <2> QED
    BY <1>1, <1>c, <2>3, <2>4, <2>6, <2>7 DEF Counting
<1>2. CASE tui = "busy"
  <2>1. CodexBusy(look)
    BY <1>2 DEF Screens
  <2>2. ReadyNow = 0 /\ QuietNow = 0
    BY <2>1 DEF ReadyNow, QuietNow
  <2> QED
    BY <1>2, <1>c, <2>2 DEF Counting
<1>3. CASE tui = "gap"
  <2>1. ready <= age /\ quiet <= age
    BY <1>3, <1>a DEF Counting
  <2>2. age < Gap /\ age' = age + 1
    BY <1>3, <1>b, <1>c, Bounds DEF InTime, Tick
  <2>3. ReadyNow \in Nat /\ ReadyNow <= ready + 1
    BY <1>b DEF ReadyNow
  <2>4. QuietNow \in Nat /\ QuietNow <= quiet + 1
    BY <1>b DEF QuietNow
  <2>5. ReadyNow <= age + 1 /\ QuietNow <= age + 1 /\ (age + 1 < 2 \/ age' >= 2)
    BY <1>b, <2>1, <2>2, <2>3, <2>4
  <2> QED
    BY <1>3, <1>b, <1>c, <2>2, <2>3, <2>4, <2>5 DEF Counting
<1> QED
  BY <1>1, <1>2, <1>3 DEF Working

\* Keys start codex on a reaction at once, and on nothing else.
LEMMA EnterStarts ==
  ASSUME Enter
  PROVE  /\ tui' = "pending" => tui = "pending" \/ (dirty' = TRUE /\ age' = 0)
         /\ tui' = "pending" /\ tui = "pending" => UNCHANGED <<dirty, age>>
         /\ tui' \in {"busy", "gap"} => tui' = tui
  BY DEF Enter, Show

LEMMA CountingStep ==
  ASSUME Timing, TInv, [Next]_vars
  PROVE  Counting'
<1> USE Bounds DEF Matches
<1>a. /\ TypeOK /\ Run /\ Screens /\ Screens' /\ Unpolled /\ Counting /\ Rests
      /\ PaneTyped /\ IdleTyped /\ PaneTyped'
  BY TypeParts, ScreensStep, PaneStep DEF TInv, IInv
<1>1. CASE Submit
  <2>1. CASE pc' = "idle"
    <3>1. Enter /\ pc = "submit" /\ was' = TRUE /\ ready' = 0 /\ quiet' = 0
      BY <1>1, <2>1 DEF Submit, Fail, BeginIdle
    <3>2. tui' = "pending" => dirty' = TRUE
      BY <1>a, <3>1, EnterStarts DEF Unpolled, Waiting
    <3>3. age' \in Nat
      BY <1>a DEF PaneTyped
    <3> QED
      BY <3>1, <3>2, <3>3 DEF Counting
  <2> QED
    BY <2>1 DEF Counting
<1>2. CASE SendStep
  <2>1. CASE pc' = "idle"
    <3>1. /\ Enter /\ pc = "keys" /\ UNCHANGED <<was, ready, quiet, still>>
      BY <1>a, <1>2, <2>1 DEF SendStep, Broken, idleVars, Run
    <3>2. was = TRUE /\ ready = 0 /\ quiet = 0 /\ tui # "pending"
      BY <1>a, <3>1 DEF Run, Rests
    <3>3. tui' = "pending" => dirty' = TRUE
      BY <3>1, <3>2, EnterStarts
    <3>4. age' \in Nat
      BY <1>a DEF PaneTyped
    <3> QED
      BY <3>1, <3>2, <3>3, <3>4 DEF Counting
  <2> QED
    BY <2>1 DEF Counting
<1>3. CASE Poll
  <2>1. CASE Reaches /\ Working
    BY <1>a, <1>3, <2>1, PollAtWork
  <2>2. CASE ~Reaches
    BY <1>3, <2>2 DEF Poll, Broken, Counting
  <2>3. CASE ~Working
    <3>1. UNCHANGED tui
      BY <1>3 DEF Poll
    <3> QED
      BY <2>3, <3>1 DEF Counting, Working
  <2> QED
    BY <2>1, <2>2, <2>3
<1>4. CASE Codex
  <2>1. UNCHANGED <<pc, was, ready, quiet, still>>
    BY <1>4 DEF Codex, OpenDialog, ShowPrompt, React, BeginGap, EndGap, EndTurn, Redraw, Exit, Other,
       runVars, idleVars
  <2>2. CASE BeginGap
    <3>1. tui = "busy" /\ age > 0 /\ tui' = "gap" /\ age' = 0
      BY <1>a, <2>2 DEF BeginGap, Show, Timing, PaneTyped
    <3> QED
      BY <1>a, <2>1, <3>1 DEF Counting
  <2>3. CASE Redraw
    BY <1>a, <2>1, <2>3 DEF Redraw, Counting
  <2>4. CASE ~BeginGap /\ ~Redraw
    <3>1. tui' \notin {"pending", "gap"} /\ (tui' = "busy" => age' = 0)
      BY <1>4, <2>4 DEF Codex, OpenDialog, ShowPrompt, React, EndGap, EndTurn, Exit, Show
    <3> QED
      BY <3>1 DEF Counting
  <2> QED
    BY <2>2, <2>3, <2>4
<1>5. CASE ServerDies
  BY <1>5 DEF ServerDies, Counting
<1>6. CASE Deadline \/ Cancel \/ Done \/ UNCHANGED vars
  <2>1. UNCHANGED <<pc, tui, look, dirty, age, was, ready, quiet, still>>
    BY <1>6 DEF Deadline, Cancel, Done, vars, runVars, paneVars, idleVars
  <2> QED
    BY <1>a, <2>1 DEF Counting, PromptReady
<1>7. CASE Driver /\ ~Submit /\ ~SendStep /\ ~Poll
  <2>1. pc' # "idle"
    BY <1>7 DEF Driver, WriteScript, StartServer, NewSession, PasteCommand, Launch, WaitReady,
       Dismiss, SendPrompt, WaitEcho, FollowUp, Judge, Kill, Goto, GiveUp, Abandon, Fail, Broken
  <2> QED
    BY <2>1 DEF Counting
<1> QED
  BY <1>1, <1>2, <1>3, <1>4, <1>5, <1>6, <1>7 DEF Next, Driver

\* A poll that ends the wait without an error sees codex at rest, or a second
\* time in a gap.
LEMMA WaitEnds ==
  ASSUME Timing, TInv, Poll, pc' # "idle", ~err'
  PROVE  ~Working \/ BetweenTools(2)'
<1> SUFFICES ASSUME Working
             PROVE  BetweenTools(2)'
  OBVIOUS
<1>a. TypeOK /\ Run /\ Screens /\ Counting /\ RunTyped /\ IdleTyped
  BY TypeParts DEF TInv, IInv
<1>1. Reaches
  BY DEF Poll, Broken
<1>2. \/ ReadyNow < Matches /\ QuietNow < Matches
      \/ tui = "gap" /\ age' >= 2
  BY <1>a, <1>1, PollAtWork
<1>3. CASE ReadyNow < Matches /\ QuietNow < Matches
  <2>1. ReadyNow \in Nat /\ QuietNow \in Nat
    BY <1>a DEF ReadyNow, QuietNow, IdleTyped
  <2>2. pc' = "idle" \/ err' = TRUE
    BY <1>1, <1>3, <2>1 DEF Poll, Broken, runVars, Matches
  <2> QED
    BY <2>2
<1>4. CASE tui = "gap" /\ age' >= 2
  <2>1. tui' = tui
    BY DEF Poll
  <2> QED
    BY <1>4, <2>1 DEF BetweenTools
<1> QED
  BY <1>2, <1>3, <1>4

LEMMA RestsStep ==
  ASSUME Timing, TInv, [Next]_vars
  PROVE  Rests'
<1>a. Run /\ Rests
  BY DEF TInv, IInv
<1>1. CASE Poll
  <2>1. CASE pc' # "idle" /\ ~err'
    <3>1. ~Working \/ BetweenTools(2)'
      BY <1>1, <2>1, WaitEnds
    <3>2. tui' = tui
      BY <1>1 DEF Poll
    <3> QED
      BY <3>1, <3>2 DEF Working, BetweenTools, Rests
  <2>2. CASE pc' = "idle"
    BY <2>2 DEF Rests
  <2>3. CASE err'
    <3>1. pc' = "capture" \/ err' = err
      BY <1>1 DEF Poll, Broken, IdleFound, runVars
    <3>2. ~err
      BY <1>1, <1>a DEF Poll, Run
    <3> QED
      BY <2>3, <3>1, <3>2 DEF Rests
  <2> QED
    BY <2>1, <2>2, <2>3
<1>2. CASE FollowUp
  BY <1>a, <1>2 DEF FollowUp, Broken, Rests
<1>3. CASE Codex
  <2>1. UNCHANGED pc
    BY <1>3 DEF Codex, OpenDialog, ShowPrompt, React, BeginGap, EndGap, EndTurn, Redraw, Exit, Other,
       runVars
  <2>2. tui' = tui \/ tui' # "pending"
    BY <1>3 DEF Codex, OpenDialog, ShowPrompt, React, BeginGap, EndGap, EndTurn, Redraw, Exit, Show
  <2> QED
    BY <1>a, <2>1, <2>2 DEF Rests
<1>4. CASE Deadline \/ Cancel \/ ServerDies \/ Done \/ UNCHANGED vars
  <2>1. UNCHANGED pc /\ (tui' = tui \/ tui' = "none")
    BY <1>4 DEF Deadline, Cancel, ServerDies, Done, vars, runVars, paneVars
  <2> QED
    BY <1>a, <2>1 DEF Rests
<1>5. CASE Driver /\ ~Poll /\ ~FollowUp
  <2>1. pc' \notin {"follow", "keys"}
    BY <1>5 DEF Driver, WriteScript, StartServer, NewSession, PasteCommand, Launch, WaitReady,
       Dismiss, SendPrompt, WaitEcho, Submit, SendStep, Judge, Kill, Goto, GiveUp, Abandon, Fail,
       Broken
  <2> QED
    BY <2>1 DEF Rests
<1> QED
  BY <1>1, <1>2, <1>3, <1>4, <1>5 DEF Next, Driver

\* waitIdle never ends a wait while codex is at work or about to be, but between two
\* tools once two polls have seen the prompt there, however long such gaps are,
\* as long as codex keeps to Timing.
THEOREM IdleIsRestHolds == ASSUME Timing PROVE Spec => IdleIsRest
<1>1. Init => TInv
  BY Starts
<1>2. TInv /\ [Next]_vars => TInv'
  <2> SUFFICES ASSUME TInv, [Next]_vars PROVE TInv'
    OBVIOUS
  <2>1. IInv' /\ Screens' /\ Unpolled'
    BY Steps, ScreensStep, UnpolledStep DEF TInv, IInv
  <2>2. Counting' /\ Rests'
    BY CountingStep, RestsStep
  <2> QED
    BY <2>1, <2>2 DEF TInv
<1> DEFINE Ending == pc = "idle" /\ pc' # "idle" /\ ~err' => ~Working \/ BetweenTools(2)'
<1>3. TInv /\ [Next]_vars => [Ending]_vars
  <2> SUFFICES ASSUME TInv, [Next]_vars, pc = "idle", pc' # "idle", ~err'
               PROVE  ~Working \/ BetweenTools(2)'
    OBVIOUS
  <2>1. Poll
    <3>1. ~Codex /\ ~Deadline /\ ~Cancel /\ ~ServerDies /\ ~Done /\ ~UNCHANGED vars
      BY DEF Codex, OpenDialog, ShowPrompt, React, BeginGap, EndGap, EndTurn, Redraw, Exit, Other,
         Deadline, Cancel, ServerDies, Done, vars, runVars
    <3> QED
      BY <3>1 DEF Next, Driver, WriteScript, StartServer, NewSession, PasteCommand, Launch,
         WaitReady, Dismiss, SendPrompt, WaitEcho, Submit, FollowUp, SendStep, Judge, Kill
  <2> QED
    BY <2>1, WaitEnds
<1>4. Spec => [][Ending]_vars
  BY <1>1, <1>2, <1>3, PTL DEF Spec
<1> QED
  BY <1>4 DEF IdleIsRest

(***************************************************************************)
(* SessionTail                                                             *)
(***************************************************************************)
-----------------------------------------------------------------------------
(* The inductive invariant. *)

\* What the places of agent and tailer say of the file, and of each other.
Places ==
  /\ tpc \in {"off", "none"} => stream = <<>>
  /\ tpc = "off" => apc \in {"begin", "done"}
  /\ apc = "begin" => tpc = "off"
  /\ apc \in {"assistant", "result"} => tpc \in {"none", "done"}
  /\ apc = "done" => tpc \in {"off", "none", "done"}
  /\ tpc \in {"off", "none", "seek", "verify"} => open = None
  /\ tpc \in {"read", "emit"} => open \in Files
  /\ tpc = "verify" => path.tail \in Files
  /\ apc = "stats" => path.agent \in Files

\* The tailer has taken n records, and half of the next when it keeps one.
Seen(n) == [model |-> Before(n + 1, "context"), usage |-> Before(n + 1, "count")]

Took(n) ==
  /\ read = 2 * n + partial
  /\ tail = Seen(n)
  /\ open = None => n = 0
  /\ tpc = "emit" => n > 0 /\ Shown(Records[n]) /\ line = Told(open, n)

Own == {Synthetic("assistant"), Synthetic("result")}

\* agent.jsonl begins with tmux.start, has the lines of m records, and then
\* those of the run.
Wrote(m) ==
  /\ Len(stream) >= Rank(m) + 1
  /\ stream[1] = Synthetic("tmux.start")
  /\ \A i \in 1..m : Shown(Records[i]) => stream[Rank(i) + 1] = Told(open, i)
  /\ \A i \in 2..(Rank(m) + 1) : stream[i].of = open /\ stream[i].kind # "result"
  /\ \A i \in (Rank(m) + 2)..Len(stream) : stream[i] \in Own
  /\ apc \notin {"assistant", "result", "done"} => Len(stream) = Rank(m) + 1
  /\ \A i \in 1..Len(stream) : stream[i].kind = "result" => i = Len(stream) /\ apc = "done"

Translating ==
  tpc \notin {"off", "none"} =>
    \E n \in 0..Len(Records) : Took(n) /\ Wrote(IF tpc = "emit" THEN n - 1 ELSE n)

\* Nothing is taken before a file is open; with the marker none but ours is
\* opened, nor found by the end of RunTmux once the marker is on file.
OnlyOurs ==
  /\ open = None => read = 0 /\ partial = 0 /\ tail = Fresh
  /\ asked => open # Theirs
  /\ known => sent /\ stats.of # Theirs
  /\ known /\ apc = "stats" => path.agent = Ours
  /\ apc \in {"begin", "tmux", "stats"} => stats.of = None

StreamIInv == StreamTypeOK /\ Places /\ Translating /\ OnlyOurs
-----------------------------------------------------------------------------
(* Records and lines. *)

LEMMA RankTyped ==
  ASSUME NEW n \in Nat
  PROVE  Rank(n) \in Nat /\ IsFiniteSet({i \in 1..n : Shown(Records[i])})
<1>1. IsFiniteSet(1..n)
  BY FS_Interval
<1>2. IsFiniteSet({i \in 1..n : Shown(Records[i])})
  BY <1>1, FS_Subset
<1> QED
  BY <1>2, FS_CardinalityType DEF Rank

LEMMA RankZero == Rank(0) = 0
<1>1. {i \in 1..0 : Shown(Records[i])} = {}
  OBVIOUS
<1> QED
  BY <1>1, FS_EmptySet DEF Rank

\* One record makes one line, or none.
LEMMA RankStep ==
  ASSUME NEW n \in Nat
  PROVE  Rank(n + 1) = IF Shown(Records[n + 1]) THEN Rank(n) + 1 ELSE Rank(n)
<1> DEFINE S == {i \in 1..n : Shown(Records[i])}
           T == {i \in 1..(n + 1) : Shown(Records[i])}
<1>1. IsFiniteSet(S) /\ n + 1 \notin S
  BY RankTyped
<1>2. Rank(n) = Cardinality(S) /\ Rank(n + 1) = Cardinality(T)
  BY DEF Rank
<1>3. CASE Shown(Records[n + 1])
  <2>1. T = S \cup {n + 1}
    BY <1>3
  <2> HIDE DEF S, T
  <2>2. Cardinality(S \cup {n + 1}) = Cardinality(S) + 1
    BY <1>1, FS_AddElement
  <2> QED
    BY <1>2, <1>3, <2>1, <2>2
<1>4. CASE ~Shown(Records[n + 1])
  <2>1. T = S
    BY <1>4
  <2> QED
    BY <1>2, <1>4, <2>1
<1> QED
  BY <1>3, <1>4

LEMMA RankBetween ==
  ASSUME NEW n \in Nat, NEW i \in 1..n, Shown(Records[i])
  PROVE  Rank(i) \in 1..Rank(n)
<1> DEFINE S == {j \in 1..i : Shown(Records[j])}
           T == {j \in 1..n : Shown(Records[j])}
<1>1. S \subseteq T /\ i \in S
  OBVIOUS
<1>2. IsFiniteSet(T) /\ IsFiniteSet(S) /\ Rank(i) \in Nat /\ Rank(n) \in Nat
  BY RankTyped
<1>3. Rank(i) = Cardinality(S) /\ Rank(n) = Cardinality(T)
  BY DEF Rank
<1> HIDE DEF S, T
<1>4. Cardinality(S) <= Cardinality(T)
  BY <1>1, <1>2, FS_Subset
<1>5. Cardinality(S) # 0
  BY <1>1, <1>2, FS_EmptySet
<1> QED
  BY <1>2, <1>3, <1>4, <1>5

\* A rollout begins with its meta record.
LEMMA RankOne == Shown(Records[1]) /\ Rank(1) = 1
<1>1. Shown(Records[1])
  BY RecordsAssumption DEF Shown
<1>2. Rank(0 + 1) = Rank(0) + 1
  BY <1>1, RankStep
<1> QED
  BY <1>1, <1>2, RankZero

LEMMA RecordTyped ==
  /\ Len(Records) \in Nat \ {0}
  /\ \A i \in 1..Len(Records) : Records[i] \in Kinds
BY RecordsAssumption, LenProperties, EmptySeq, ElementOfSeq

LEMMA ToldTyped ==
  ASSUME NEW f \in Files, NEW i \in 1..Len(Records), Shown(Records[i])
  PROVE  /\ Told(f, i) \in Lines
         /\ Told(f, i).of = f /\ Told(f, i).kind = Records[i]
         /\ Told(f, i).kind \notin {"result", "tmux.start", "assistant"}
BY DEF Told, Line, Lines, Shown, Fresh, Before

LEMMA OwnTyped ==
  /\ Own \subseteq Lines /\ Synthetic("tmux.start") \in Lines /\ NoLine \in Lines
  /\ \A l \in Own : l.of = None /\ l.kind \notin {"meta", "tmux.start"}
  /\ Synthetic("tmux.start").of = None
  /\ Synthetic("tmux.start").kind = "tmux.start"
  /\ Synthetic("assistant").kind = "assistant"
BY DEF Own, Synthetic, Lines, NoLine

\* What the tailer knows after one record more.
LEMMA SeenStep ==
  ASSUME NEW n \in 0..(Len(Records) - 1), tail = Seen(n)
  PROVE  TailState(Records[n + 1]) = Seen(n + 1)
<1>1. n \in Nat /\ 1..((n + 2) - 1) = (1..((n + 1) - 1)) \cup {n + 1}
  BY RecordTyped
<1>2. \A k : Before(n + 2, k) <=> Before(n + 1, k) \/ Records[n + 1] = k
  BY <1>1 DEF Before
<1>3. tail.model = Before(n + 1, "context") /\ tail.usage = Before(n + 1, "count")
  BY DEF Seen
<1>4. Seen(n + 1) = [model |-> Before(n + 2, "context"), usage |-> Before(n + 2, "count")]
  <2>1. (n + 1) + 1 = n + 2
    BY <1>1
  <2> QED
    BY <2>1 DEF Seen
<1>5. Before(n + 2, "context") = (Before(n + 1, "context") \/ Records[n + 1] = "context")
  BY <1>2 DEF Before
<1>6. Before(n + 2, "count") = (Before(n + 1, "count") \/ Records[n + 1] = "count")
  BY <1>2 DEF Before
<1> QED
  BY <1>3, <1>4, <1>5, <1>6 DEF TailState

\* The line that the tailer makes is the one the records tell.
LEMMA ShownIsTold ==
  ASSUME NEW n \in 0..(Len(Records) - 1), tail = Seen(n), NEW f
  PROVE  ShownLine(f, Records[n + 1]) = Told(f, n + 1)
BY DEF ShownLine, Told, Seen

-----------------------------------------------------------------------------
LEMMA StreamTypeParts ==
  StreamTypeOK <=>
    /\ apc \in {"begin", "tmux", "stats", "stop", "wait", "assistant", "result", "done"}
    /\ tpc \in {"off", "none", "seek", "verify", "read", "emit", "done"}
    /\ sent \in BOOLEAN /\ asked \in BOOLEAN /\ known \in BOOLEAN
    /\ runCtx \in {"live", "done"} /\ tailCtx \in {"live", "done"}
    /\ path \in [tail : Files \cup {None}, agent : Files \cup {None}]
    /\ open \in Files \cup {None}
    /\ read \in 0..(2 * Len(Records)) /\ partial \in {0, 1}
    /\ tail \in [model : BOOLEAN, usage : BOOLEAN] /\ line \in Lines
    /\ size \in [Files -> 0..(2 * Len(Records))] /\ first \in Files
    /\ stream \in Seq(Lines)
    /\ stats \in [of : Files \cup {None}, upto : 0..Len(Records)]
BY DEF StreamTypeOK

LEMMA WholeTyped ==
  ASSUME StreamTypeOK, NEW f \in Files
  PROVE  Whole(f) \in 0..Len(Records) /\ 2 * Whole(f) <= size[f]
<1>1. size[f] \in 0..(2 * Len(Records)) /\ Len(Records) \in Nat
  BY RecordTyped DEF StreamTypeOK
<1> QED
  BY <1>1 DEF Whole

LEMMA FoundTyped ==
  ASSUME StreamTypeOK, NEW marker \in BOOLEAN
  PROVE  FindSessionLog(marker) \in Files \cup {None}
BY DEF FindSessionLog, Newest, Files, Ours, Theirs, None

\* The marker is in no rollout but ours, and decides what is found.
LEMMA MarkedFound ==
  ASSUME StreamTypeOK, Marked(Ours)
  PROVE  sent /\ FindSessionLog(sent) = Ours
<1>1. Whole(Ours) \in Nat /\ \E i \in 1..Whole(Ours) : TRUE
  BY WholeTyped, RecordTyped DEF Marked, HasUser, Files, Ours
<1>2. HasMeta(Ours)
  BY <1>1 DEF HasMeta
<1> QED
  BY <1>2 DEF Marked, FindSessionLog, Files
-----------------------------------------------------------------------------
(* The steps.  First those that leave tailer and stream file alone. *)

LEMMA InitInv == StreamInit => StreamIInv
<1> SUFFICES ASSUME StreamInit PROVE StreamIInv
  OBVIOUS
<1>1. size \in [Files -> 0..(2 * Len(Records))]
  <2>1. 2 * Len(Records) \in 0..(2 * Len(Records)) /\ 0 \in 0..(2 * Len(Records))
    BY RecordTyped
  <2> QED
    BY <2>1 DEF StreamInit
<1>2. stream \in Seq(Lines) /\ line \in Lines /\ tail \in [model : BOOLEAN, usage : BOOLEAN]
  BY OwnTyped, EmptySeq DEF StreamInit, Fresh
<1>3. 0 \in 0..(2 * Len(Records)) /\ 0 \in 0..Len(Records)
  BY RecordTyped
<1>4. StreamTypeOK
  BY <1>1, <1>2, <1>3 DEF StreamInit, StreamTypeOK, None
<1>5. Places /\ Translating /\ OnlyOurs
  BY DEF StreamInit, Places, Translating, OnlyOurs, None, Theirs
<1> QED
  BY <1>4, <1>5 DEF StreamIInv

\* The lines of a file that does not change, while the agent goes on but does
\* not finish.
LEMMA StreamKept ==
  ASSUME StreamIInv, UNCHANGED <<read, partial, tail, line, open, stream>>,
         tpc' \in {"off", "none"} \/
           (tpc \notin {"off", "none"} /\ (tpc' = "emit" <=> tpc = "emit")),
         apc' \notin {"assistant", "result", "done"} => apc \notin {"assistant", "result", "done"},
         apc = "done" => apc' = "done"
  PROVE  Translating'
<1> SUFFICES ASSUME tpc' \notin {"off", "none"}
             PROVE  \E n \in 0..Len(Records) :
                      Took(n)' /\ Wrote(IF tpc = "emit" THEN n - 1 ELSE n)'
  BY DEF Translating
<1>1. PICK n \in 0..Len(Records) : Took(n) /\ Wrote(IF tpc = "emit" THEN n - 1 ELSE n)
  BY DEF StreamIInv, Translating
<1>2. Took(n)'
  BY <1>1 DEF Took, Seen, Told, Before
<1>3. ASSUME NEW m, Wrote(m) PROVE Wrote(m)'
  BY <1>3 DEF Wrote, Rank
<1>4. CASE tpc = "emit"
  BY <1>1, <1>2, <1>3, <1>4
<1>5. CASE tpc # "emit"
  BY <1>1, <1>2, <1>3, <1>5
<1> QED
  BY <1>4, <1>5

LEMMA SeekInv == StreamIInv /\ Seek => StreamIInv'
<1> SUFFICES ASSUME StreamIInv, Seek PROVE StreamIInv'
  OBVIOUS
<1>1. /\ tpc = "seek" /\ open = None
      /\ UNCHANGED <<apc, sent, asked, runCtx, tailCtx, size, first, stats, known,
                     open, read, partial, tail, line, stream>>
  BY DEF Seek, Tailer, StreamIInv, Places
<1>2. \/ tpc' = "done" /\ path' = path
      \/ tpc' = "seek" /\ path' = [path EXCEPT !.tail = FindSessionLog(asked)]
      \/ tpc' = "verify" /\ path' = [path EXCEPT !.tail = FindSessionLog(asked)]
                          /\ FindSessionLog(asked) # None
  BY DEF Seek
<1>3. FindSessionLog(asked) \in Files \cup {None}
  BY FoundTyped, StreamTypeParts DEF StreamIInv
<1>4. StreamTypeOK'
  BY <1>1, <1>2, <1>3 DEF StreamIInv, StreamTypeOK
<1>5. Translating'
  BY <1>1, <1>2, StreamKept
<1>6. path'.agent = path.agent /\ (tpc' = "verify" => path'.tail \in Files)
  BY <1>2, <1>3 DEF StreamIInv, StreamTypeOK
<1>7. Places' /\ OnlyOurs'
  BY <1>1, <1>2, <1>6 DEF StreamIInv, Places, OnlyOurs
<1> QED
  BY <1>4, <1>5, <1>7 DEF StreamIInv

\* A file is opened that has the marker, if there is one.
LEMMA VerifyInv == StreamIInv /\ Verify => StreamIInv'
<1> SUFFICES ASSUME StreamIInv, Verify PROVE StreamIInv'
  OBVIOUS
<1>1. /\ tpc = "verify" /\ open = None /\ path.tail \in Files
      /\ UNCHANGED <<apc, sent, asked, runCtx, tailCtx, size, first, stats, known,
                     path, read, partial, tail, line, stream>>
  BY DEF Verify, Tailer, StreamIInv, Places
<1>2. \/ tpc' = "seek" /\ open' = open
      \/ tpc' = "read" /\ open' = path.tail /\ (asked => Marked(path.tail))
  BY DEF Verify
<1>3. StreamTypeOK'
  BY <1>1, <1>2 DEF StreamIInv, StreamTypeOK
<1>4. CASE tpc' = "seek" /\ open' = open
  <2>1. Translating'
    BY <1>1, <1>4, StreamKept
  <2>2. Places' /\ OnlyOurs'
    BY <1>1, <1>4 DEF StreamIInv, Places, OnlyOurs
  <2> QED
    BY <1>3, <2>1, <2>2 DEF StreamIInv
<1>5. CASE tpc' = "read" /\ open' = path.tail /\ (asked => Marked(path.tail))
  <2>1. PICK n \in 0..Len(Records) : Took(n) /\ Wrote(n)
    BY <1>1 DEF StreamIInv, Translating
  <2>2. n = 0
    BY <1>1, <2>1 DEF Took
  <2>3. Took(0)'
    BY <1>1, <1>5, <2>1, <2>2 DEF Took, Seen, Before
  <2>4. Wrote(0)'
    <3>1. 1..0 = {} /\ 2..(0 + 1) = {}
      OBVIOUS
    <3> QED
      BY <1>1, <2>1, <2>2, <3>1, RankZero DEF Wrote, Rank
  <2>5. Translating'
    BY <1>5, <2>3, <2>4, RecordTyped DEF Translating
  <2>6. Places'
    BY <1>1, <1>5 DEF StreamIInv, Places
  <2>7. OnlyOurs'
    BY <1>1, <1>5 DEF StreamIInv, OnlyOurs, Marked, Ours, Theirs, Files, None
  <2> QED
    BY <1>3, <2>5, <2>6, <2>7 DEF StreamIInv
<1> QED
  BY <1>2, <1>4, <1>5

\* One record more is taken, which makes a line or none.
LEMMA TakeRecordInv == StreamIInv /\ TakeRecord => StreamIInv'
<1> SUFFICES ASSUME StreamIInv, TakeRecord PROVE StreamIInv'
  OBVIOUS
<1>1. /\ tpc = "read" /\ open \in Files
      /\ UNCHANGED <<apc, sent, asked, runCtx, tailCtx, size, first, stats, known,
                     path, open, stream>>
  BY DEF TakeRecord, Tailer, StreamIInv, Places
<1>2. PICK n \in 0..Len(Records) : Took(n) /\ Wrote(n)
  BY <1>1 DEF StreamIInv, Translating
<1>3. /\ read = 2 * n + partial /\ partial \in {0, 1} /\ n \in Nat
      /\ read + 2 - partial = 2 * (n + 1) /\ tail = Seen(n)
  BY <1>2, RecordTyped DEF Took, StreamIInv, StreamTypeOK
<1>4. (read + 2 - partial) \div 2 = n + 1
  <2>1. (2 * (n + 1)) \div 2 = n + 1
    BY <1>3
  <2> QED
    BY <1>3, <2>1
<1>5. n + 1 \in 1..Len(Records) /\ 2 * (n + 1) \in 0..(2 * Len(Records)) /\ n \in 0..(Len(Records) - 1)
  <2>1. Whole(open) * 2 >= 2 * (n + 1)
    BY <1>3 DEF TakeRecord
  <2>2. Whole(open) \in 0..Len(Records)
    BY <1>1, WholeTyped DEF StreamIInv
  <2> QED
    BY <1>3, <2>1, <2>2, RecordTyped
<1>6. /\ read' = 2 * (n + 1) /\ partial' = 0
      /\ tail' = TailState(Records[n + 1])
      /\ IF Shown(Records[n + 1]) THEN tpc' = "emit" /\ line' = ShownLine(open, Records[n + 1])
         ELSE UNCHANGED <<tpc, line>>
  BY <1>3, <1>4 DEF TakeRecord
<1>7. tail' = Seen(n + 1)
  BY <1>3, <1>5, <1>6, SeenStep
<1>8. Shown(Records[n + 1]) => line' = Told(open, n + 1)
  BY <1>3, <1>5, <1>6, ShownIsTold
<1>9. StreamTypeOK'
  <2>1. tail' \in [model : BOOLEAN, usage : BOOLEAN]
    BY <1>7 DEF Seen, Before
  <2>2. line' \in Lines
    <3>1. CASE Shown(Records[n + 1])
      BY <1>1, <1>5, <1>8, <3>1, ToldTyped
    <3>2. CASE ~Shown(Records[n + 1])
      BY <1>6, <3>2 DEF StreamIInv, StreamTypeOK
    <3> QED
      BY <3>1, <3>2
  <2>3. tpc' \in {"read", "emit"}
    BY <1>1, <1>6
  <2>4. read' \in 0..(2 * Len(Records)) /\ partial' \in {0, 1}
    BY <1>5, <1>6
  <2> QED
    BY <1>1, <2>1, <2>2, <2>3, <2>4 DEF StreamIInv, StreamTypeOK
<1>10. Took(n + 1)'
  <2>1. open # None
    BY <1>1 DEF Files, Ours, Theirs, None
  <2>2. read' = 2 * (n + 1) + partial'
    BY <1>3, <1>6
  <2>3. tpc' = "emit" => /\ n + 1 > 0 /\ Shown(Records[n + 1]) /\ line' = Told(open, n + 1)
    BY <1>1, <1>3, <1>6, <1>8
  <2> QED
    BY <1>1, <1>7, <2>1, <2>2, <2>3 DEF Took, Seen, Before, Told
<1>11. Wrote(n)'
  BY <1>1, <1>2 DEF Wrote, Rank, Told, Before
<1>12. ~Shown(Records[n + 1]) => Wrote(n + 1)'
  <2> SUFFICES ASSUME ~Shown(Records[n + 1]) PROVE Wrote(n + 1)'
    OBVIOUS
  <2>1. Rank(n + 1) = Rank(n)
    BY <1>3, RankStep
  <2>2. \A i \in 1..(n + 1) : Shown(Records[i]) => i \in 1..n
    BY <1>3
  <2> QED
    BY <1>11, <2>1, <2>2 DEF Wrote, Rank
<1>13. Translating'
  <2>1. CASE Shown(Records[n + 1])
    <3>1. tpc' = "emit" /\ (n + 1) - 1 = n /\ n + 1 \in 0..Len(Records)
      BY <1>3, <1>5, <1>6, <2>1
    <3> QED
      BY <1>10, <1>11, <3>1 DEF Translating
  <2>2. CASE ~Shown(Records[n + 1])
    <3>1. tpc' = "read" /\ n + 1 \in 0..Len(Records)
      BY <1>1, <1>5, <1>6, <2>2
    <3> QED
      BY <1>10, <1>12, <2>2, <3>1 DEF Translating
  <2> QED
    BY <2>1, <2>2
<1>14. Places' /\ OnlyOurs'
  <2>1. tpc' \in {"read", "emit"} /\ open # None
    BY <1>1, <1>6 DEF Files, Ours, Theirs, None
  <2> QED
    BY <1>1, <2>1 DEF StreamIInv, Places, OnlyOurs
<1> QED
  BY <1>9, <1>13, <1>14 DEF StreamIInv

\* Half a record is kept for the next read.
LEMMA TakePartialInv == StreamIInv /\ TakePartial => StreamIInv'
<1> SUFFICES ASSUME StreamIInv, TakePartial PROVE StreamIInv'
  OBVIOUS
<1>1. /\ tpc = "read" /\ open \in Files /\ open # None
      /\ UNCHANGED <<apc, sent, asked, runCtx, tailCtx, size, first, stats, known,
                     tpc, path, open, tail, line, stream>>
      /\ partial = 0 /\ partial' = 1 /\ read' = read + 1 /\ size[open] = read + 1
  BY DEF TakePartial, Tailer, StreamIInv, Places, Files, Ours, Theirs, None
<1>2. PICK n \in 0..Len(Records) : Took(n) /\ Wrote(n)
  BY <1>1 DEF StreamIInv, Translating
<1>3. Took(n)' /\ Wrote(n)'
  <2>1. read = 2 * n + partial /\ n \in Nat
    BY <1>2, RecordTyped DEF Took
  <2>2. read' = 2 * n + partial'
    BY <1>1, <2>1
  <2>3. Took(n)'
    BY <1>1, <1>2, <2>2 DEF Took, Seen, Before, Told
  <2> QED
    BY <1>1, <1>2, <2>3 DEF Wrote, Rank
<1>4. Translating'
  BY <1>1, <1>3 DEF Translating
<1>5. StreamTypeOK'
  <2>1. size[open] \in 0..(2 * Len(Records))
    BY <1>1 DEF StreamIInv, StreamTypeOK
  <2> QED
    BY <1>1, <2>1 DEF StreamIInv, StreamTypeOK
<1>6. Places' /\ OnlyOurs'
  BY <1>1 DEF StreamIInv, Places, OnlyOurs
<1> QED
  BY <1>4, <1>5, <1>6 DEF StreamIInv

\* The tailer is done.
LEMMA LeaveInv == StreamIInv /\ (AtEnd \/ ReadFails) => StreamIInv'
<1> SUFFICES ASSUME StreamIInv, AtEnd \/ ReadFails PROVE StreamIInv'
  OBVIOUS
<1>1. /\ tpc = "read" /\ tpc' = "done"
      /\ UNCHANGED <<apc, sent, asked, runCtx, tailCtx, size, first, stats, known,
                     path, open, read, partial, tail, line, stream>>
  BY DEF AtEnd, ReadFails, Tailer
<1>2. Translating'
  BY <1>1, StreamKept
<1>3. StreamTypeOK' /\ Places' /\ OnlyOurs'
  BY <1>1 DEF StreamIInv, StreamTypeOK, Places, OnlyOurs
<1> QED
  BY <1>2, <1>3 DEF StreamIInv
\* What a line at the end changes of those before it.
LEMMA AppendLine ==
  ASSUME StreamTypeOK, NEW l \in Lines, stream' = Append(stream, l)
  PROVE  /\ stream' \in Seq(Lines) /\ Len(stream) \in Nat /\ Len(stream') = Len(stream) + 1
         /\ DOMAIN stream = 1..Len(stream) /\ DOMAIN stream' = 1..(Len(stream) + 1)
         /\ stream'[Len(stream) + 1] = l
         /\ \A i \in 1..Len(stream) : stream'[i] = stream[i]
<1>1. stream \in Seq(Lines)
  BY DEF StreamTypeOK
<1> QED
  BY <1>1, AppendProperties, LenProperties

\* The line of the record just taken is written.
LEMMA EmitInv == StreamIInv /\ Emit => StreamIInv'
<1> SUFFICES ASSUME StreamIInv, Emit PROVE StreamIInv'
  OBVIOUS
<1>1. /\ tpc = "emit" /\ tpc' = "read" /\ open \in Files /\ open # None
      /\ apc \notin {"assistant", "result", "done"}
      /\ stream' = Append(stream, line) /\ line' = NoLine
      /\ UNCHANGED <<apc, sent, asked, runCtx, tailCtx, size, first, stats, known,
                     path, open, read, partial, tail>>
  BY DEF Emit, Tailer, StreamIInv, Places, Files, Ours, Theirs, None
<1>2. PICK n \in 0..Len(Records) : Took(n) /\ Wrote(n - 1)
  BY <1>1 DEF StreamIInv, Translating
<1>3. /\ n \in 1..Len(Records) /\ n - 1 \in Nat /\ (n - 1) + 1 = n
      /\ Shown(Records[n]) /\ line = Told(open, n)
  BY <1>1, <1>2, RecordTyped DEF Took
<1>4. /\ line \in Lines /\ line.of = open
      /\ line.kind \notin {"result", "tmux.start", "assistant"}
  BY <1>1, <1>3, ToldTyped
<1>5. StreamTypeOK
  BY DEF StreamIInv
<1>6. /\ stream' \in Seq(Lines) /\ Len(stream) \in Nat /\ Len(stream') = Len(stream) + 1
      /\ stream'[Len(stream) + 1] = line
      /\ \A i \in 1..Len(stream) : stream'[i] = stream[i]
  BY <1>1, <1>4, <1>5, AppendLine
<1>7. Rank(n - 1) \in Nat /\ Rank(n) = Rank(n - 1) + 1
  BY <1>3, RankTyped, RankStep
<1>8. Len(stream) = Rank(n - 1) + 1
  BY <1>1, <1>2 DEF Wrote
<1>9. Wrote(n)'
  <2>1. Len(stream') = Rank(n) + 1 /\ stream'[1] = Synthetic("tmux.start")
    BY <1>2, <1>6, <1>7, <1>8 DEF Wrote
  <2>2. ASSUME NEW i \in 1..n, Shown(Records[i]) PROVE stream'[Rank(i) + 1] = Told(open, i)
    <3>1. CASE i = n
      BY <1>3, <1>6, <1>7, <1>8, <3>1
    <3>2. CASE i # n
      <4>1. i \in 1..(n - 1)
        BY <1>3, <3>2
      <4>2. Rank(i) \in 1..Rank(n - 1)
        BY <1>3, <2>2, <4>1, RankBetween
      <4>3. stream[Rank(i) + 1] = Told(open, i)
        BY <1>2, <2>2, <4>1 DEF Wrote
      <4> QED
        BY <1>6, <1>7, <1>8, <4>2, <4>3
    <3> QED
      BY <3>1, <3>2
  <2>3. ASSUME NEW i \in 2..(Rank(n) + 1) PROVE stream'[i].of = open /\ stream'[i].kind # "result"
    <3>1. CASE i = Rank(n) + 1
      BY <1>4, <1>6, <1>7, <1>8, <3>1
    <3>2. CASE i # Rank(n) + 1
      <4>1. i \in 2..(Rank(n - 1) + 1) /\ i \in 1..Len(stream)
        BY <1>7, <1>8, <3>2
      <4> QED
        BY <1>2, <1>6, <4>1 DEF Wrote
    <3> QED
      BY <3>1, <3>2
  <2>4. ASSUME NEW i \in 1..Len(stream'), stream'[i].kind = "result" PROVE FALSE
    <3>1. CASE i = 1
      <4>1. Synthetic("tmux.start").kind # "result"
        BY OwnTyped
      <4> QED
        BY <2>1, <2>4, <3>1, <4>1
    <3>2. CASE i # 1
      BY <1>7, <2>1, <2>3, <2>4, <3>2
    <3> QED
      BY <3>1, <3>2
  <2>5. (Rank(n) + 2)..Len(stream') = {}
    BY <1>7, <2>1
  <2>6. \A i \in 1..n : Shown(Records[i]) => stream'[Rank(i) + 1] = Told(open, i)
    BY <2>2
  <2>7. \A i \in (Rank(n) + 2)..Len(stream') : stream'[i] \in Own
    BY <2>5
  <2>8. Len(stream') >= Rank(n) + 1
    BY <1>7, <2>1
  <2>9. \A i \in 2..(Rank(n) + 1) : stream'[i].of = open /\ stream'[i].kind # "result"
    BY <2>3
  <2>10. \A i \in 1..Len(stream') : stream'[i].kind = "result" => i = Len(stream') /\ apc' = "done"
    BY <2>4
  <2> QED
    BY <1>1, <2>1, <2>6, <2>7, <2>8, <2>9, <2>10 DEF Wrote, Rank, Told, Before
<1>10. Took(n)'
  BY <1>1, <1>2 DEF Took, Seen, Before
<1>11. Translating'
  BY <1>1, <1>9, <1>10 DEF Translating
<1>12. StreamTypeOK'
  BY <1>1, <1>5, <1>6, OwnTyped DEF StreamTypeOK
<1>13. Places' /\ OnlyOurs'
  BY <1>1 DEF StreamIInv, Places, OnlyOurs
<1> QED
  BY <1>11, <1>12, <1>13 DEF StreamIInv

-----------------------------------------------------------------------------
(* The steps of the agent. *)

LEMMA RefuseInv == StreamIInv /\ Refuse => StreamIInv'
<1> SUFFICES ASSUME StreamIInv, Refuse PROVE StreamIInv'
  OBVIOUS
<1>1. /\ apc = "begin" /\ apc' = "done" /\ tpc = "off" /\ tpc' = "off"
      /\ UNCHANGED <<sent, asked, runCtx, tailCtx, size, first, stats, known, path,
                     open, read, partial, tail, line, stream>>
  BY DEF Refuse, Agent, tailVars, StreamIInv, Places
<1> QED
  BY <1>1 DEF StreamIInv, StreamTypeOK, Places, OnlyOurs, Translating

LEMMA BeginInv == StreamIInv /\ Begin => StreamIInv'
<1> SUFFICES ASSUME StreamIInv, Begin PROVE StreamIInv'
  OBVIOUS
<1>1. /\ apc = "begin" /\ apc' = "tmux" /\ tpc = "off" /\ tpc' = "seek" /\ open = None
      /\ stream = <<>> /\ stream' = Append(stream, Synthetic("tmux.start"))
      /\ UNCHANGED <<sent, asked, runCtx, tailCtx, size, first, stats, known, path,
                     open, read, partial, tail, line>>
  BY DEF Begin, Agent, StreamIInv, Places
<1>2. StreamTypeOK /\ read = 0 /\ partial = 0 /\ tail = Fresh
  BY <1>1 DEF StreamIInv, OnlyOurs
<1>3. Len(stream) = 0
  BY <1>1, EmptySeq
<1>4. stream' \in Seq(Lines) /\ Len(stream') = 1 /\ stream'[1] = Synthetic("tmux.start")
  BY <1>1, <1>2, <1>3, OwnTyped, AppendLine
<1>5. Took(0)'
  <2>1. Seen(0) = Fresh
    BY DEF Seen, Before, Fresh
  <2> QED
    BY <1>1, <1>2, <2>1 DEF Took, Seen, Before
<1>6. Wrote(0)'
  <2>1. 1..0 = {} /\ 2..(0 + 1) = {} /\ (0 + 2)..1 = {}
    OBVIOUS
  <2>2. Synthetic("tmux.start").kind # "result"
    BY OwnTyped
  <2>3. \A i \in 1..Len(stream') : stream'[i].kind # "result"
    BY <1>4, <2>2
  <2> QED
    BY <1>1, <1>4, <2>1, <2>3, RankZero DEF Wrote, Rank
<1>7. Translating'
  BY <1>1, <1>5, <1>6, RecordTyped DEF Translating
<1>8. StreamTypeOK' /\ Places' /\ OnlyOurs'
  BY <1>1, <1>4 DEF StreamIInv, StreamTypeOK, Places, OnlyOurs
<1> QED
  BY <1>7, <1>8 DEF StreamIInv

LEMMA BeginMuteInv == StreamIInv /\ BeginMute => StreamIInv'
<1> SUFFICES ASSUME StreamIInv, BeginMute PROVE StreamIInv'
  OBVIOUS
<1>1. /\ apc = "begin" /\ apc' = "tmux" /\ tpc = "off" /\ tpc' = "none"
      /\ UNCHANGED <<sent, asked, runCtx, tailCtx, size, first, stats, known, path,
                     open, read, partial, tail, line, stream>>
  BY DEF BeginMute, Agent, StreamIInv, Places
<1> QED
  BY <1>1 DEF StreamIInv, StreamTypeOK, Places, OnlyOurs, Translating

\* The agent goes on to the end of its tailer; what it finds of the rollout is
\* found once.
LEMMA AgentOn ==
  ASSUME StreamIInv, TmuxFails \/ FindLog \/ ReadSessionStats \/ StopTailer \/ WaitTailer
  PROVE  StreamIInv'
<1>1. /\ UNCHANGED <<sent, asked, runCtx, size, first, tpc, open, read, partial, tail, line, stream>>
      /\ apc \in {"tmux", "stats", "stop", "wait"} /\ apc' \notin {"begin", "tmux", "done"}
      /\ apc' \in {"assistant", "result"} => tpc \in {"none", "done"}
  BY DEF TmuxFails, FindLog, ReadSessionStats, StopTailer, WaitTailer, Agent, tailVars
<1>2. Translating'
  BY <1>1, StreamKept
<1>3. FindSessionLog(sent) \in Files \cup {None} /\ Marked(Ours) \in BOOLEAN
  BY FoundTyped, StreamTypeParts DEF StreamIInv, Marked, HasUser
<1>4. CASE FindLog
  <2>1. /\ path' = [path EXCEPT !.agent = FindSessionLog(sent)] /\ known' = Marked(Ours)
        /\ apc = "tmux" /\ UNCHANGED <<tailCtx, stats>>
        /\ apc' = IF FindSessionLog(sent) = None THEN "stop" ELSE "stats"
    BY <1>4 DEF FindLog
  <2>2. path'.agent = FindSessionLog(sent) /\ path'.tail = path.tail
    BY <2>1 DEF StreamIInv, StreamTypeOK
  <2>3. StreamTypeOK'
    BY <1>1, <1>3, <2>1 DEF StreamIInv, StreamTypeOK
  <2>4. Places'
    BY <1>1, <1>3, <2>1, <2>2 DEF StreamIInv, Places
  <2>5. stats.of = None /\ known' => sent /\ path'.agent = Ours
    BY <2>1, <2>2, MarkedFound DEF StreamIInv
  <2>6. stats.of = None /\ None # Theirs
    BY <2>1 DEF StreamIInv, OnlyOurs, None, Theirs
  <2>7. OnlyOurs'
    BY <1>1, <2>1, <2>5, <2>6 DEF StreamIInv, OnlyOurs
  <2> QED
    BY <1>2, <2>3, <2>4, <2>7 DEF StreamIInv
<1>5. CASE ReadSessionStats
  <2>1. /\ apc = "stats" /\ apc' = "stop" /\ UNCHANGED <<tailCtx, path, known>>
        /\ path.agent \in Files
        /\ stats' \in {stats, [of |-> path.agent, upto |-> Whole(path.agent)]}
    BY <1>5 DEF ReadSessionStats, StreamIInv, Places
  <2>2. Whole(path.agent) \in 0..Len(Records)
    BY <2>1, WholeTyped DEF StreamIInv
  <2>3. StreamTypeOK'
    <3>1. stats' \in [of : Files \cup {None}, upto : 0..Len(Records)]
      BY <2>1, <2>2 DEF StreamIInv, StreamTypeOK
    <3> QED
      BY <1>1, <2>1, <3>1 DEF StreamIInv, StreamTypeOK
  <2>4. Places'
    BY <1>1, <2>1 DEF StreamIInv, Places
  <2>5. known => stats'.of # Theirs
    BY <2>1 DEF StreamIInv, OnlyOurs, Ours, Theirs, None
  <2>6. OnlyOurs'
    BY <1>1, <2>1, <2>5 DEF StreamIInv, OnlyOurs
  <2> QED
    BY <1>2, <2>3, <2>4, <2>6 DEF StreamIInv
<1>6. CASE TmuxFails \/ StopTailer \/ WaitTailer
  <2>1. /\ UNCHANGED <<path, stats, known>> /\ tailCtx' \in {tailCtx, "done"}
        /\ apc' \in {"stop", "wait", "assistant", "result"}
    BY <1>6 DEF TmuxFails, StopTailer, WaitTailer
  <2>2. StreamTypeOK'
    BY <1>1, <2>1 DEF StreamIInv, StreamTypeOK
  <2>3. Places' /\ OnlyOurs'
    BY <1>1, <2>1 DEF StreamIInv, Places, OnlyOurs
  <2> QED
    BY <1>2, <2>2, <2>3 DEF StreamIInv
<1> QED
  BY <1>4, <1>5, <1>6

\* The run's own lines follow those of the rollout.
LEMMA OwnLines ==
  ASSUME StreamIInv, WriteAssistant \/ WriteResult
  PROVE  StreamIInv'
<1>1. /\ apc \in {"assistant", "result"} /\ tpc \in {"none", "done"}
      /\ apc' = IF apc = "assistant" THEN "result" ELSE "done"
      /\ stream' = IF tpc = "none" THEN stream ELSE Append(stream, Synthetic(apc))
      /\ UNCHANGED <<sent, asked, runCtx, tailCtx, size, first, stats, known, path,
                     tpc, open, read, partial, tail, line>>
  BY DEF WriteAssistant, WriteResult, Say, Agent, tailVars, StreamIInv, Places
<1>2. Synthetic(apc) \in Own /\ Synthetic(apc) \in Lines
  <2>1. Synthetic(apc) \in Own
    BY <1>1 DEF Own
  <2> QED
    BY <2>1, OwnTyped
<1>3. StreamTypeOK
  BY DEF StreamIInv
<1>4. stream' \in Seq(Lines)
  BY <1>1, <1>2, <1>3, AppendLine DEF StreamTypeOK
<1>5. StreamTypeOK' /\ Places' /\ OnlyOurs'
  BY <1>1, <1>4 DEF StreamIInv, StreamTypeOK, Places, OnlyOurs
<1>6. CASE tpc = "none"
  BY <1>1, <1>5, <1>6 DEF StreamIInv, Translating
<1>7. CASE tpc = "done"
  <2>1. PICK n \in 0..Len(Records) : Took(n) /\ Wrote(n)
    BY <1>7 DEF StreamIInv, Translating
  <2>2. Took(n)'
    BY <1>1, <1>7, <2>1 DEF Took, Seen, Before
  <2>3. /\ Len(stream) \in Nat /\ Len(stream') = Len(stream) + 1
        /\ stream'[Len(stream) + 1] = Synthetic(apc)
        /\ \A i \in 1..Len(stream) : stream'[i] = stream[i]
    BY <1>1, <1>2, <1>3, <1>7, AppendLine
  <2>4. Rank(n) \in Nat /\ \A i \in 1..n : Shown(Records[i]) => Rank(i) \in 1..Rank(n)
    <3>1. n \in Nat
      BY RecordTyped
    <3> QED
      BY <3>1, RankTyped, RankBetween
  <2>12. /\ Len(stream) >= Rank(n) + 1 /\ stream[1] = Synthetic("tmux.start")
         /\ \A i \in 1..n : Shown(Records[i]) => stream[Rank(i) + 1] = Told(open, i)
    BY <2>1 DEF Wrote
  <2>5. Len(stream') >= Rank(n) + 1 /\ stream'[1] = Synthetic("tmux.start")
    BY <2>3, <2>4, <2>12
  <2>6. ASSUME NEW i \in 1..n, Shown(Records[i]) PROVE stream'[Rank(i) + 1] = Told(open, i)
    <3>1. Rank(i) \in 1..Rank(n)
      BY <2>4, <2>6
    <3>2. Rank(i) + 1 \in 1..Len(stream)
      BY <2>3, <2>4, <2>12, <3>1
    <3>3. stream'[Rank(i) + 1] = stream[Rank(i) + 1]
      BY <2>3, <3>2
    <3> QED
      BY <2>6, <2>12, <3>3
  <2>7. ASSUME NEW i \in 2..(Rank(n) + 1) PROVE stream'[i].of = open /\ stream'[i].kind # "result"
    <3>1. i \in 1..Len(stream)
      BY <2>3, <2>4, <2>12
    <3>2. stream'[i] = stream[i]
      BY <2>3, <3>1
    <3>3. stream[i].of = open /\ stream[i].kind # "result"
      BY <2>1 DEF Wrote
    <3> QED
      BY <3>2, <3>3
  <2>8. \A i \in (Rank(n) + 2)..Len(stream') : stream'[i] \in Own
    <3> SUFFICES ASSUME NEW i \in (Rank(n) + 2)..Len(stream') PROVE stream'[i] \in Own
      OBVIOUS
    <3>1. CASE i = Len(stream) + 1
      BY <1>2, <2>3, <3>1
    <3>2. CASE i # Len(stream) + 1
      <4>1. i \in (Rank(n) + 2)..Len(stream) /\ i \in 1..Len(stream)
        BY <2>3, <2>4, <3>2
      <4>2. stream[i] \in Own
        BY <2>1, <4>1 DEF Wrote
      <4> QED
        BY <2>3, <4>1, <4>2
    <3> QED
      BY <3>1, <3>2
  <2>9. ASSUME NEW i \in 1..Len(stream'), stream'[i].kind = "result"
        PROVE  i = Len(stream') /\ apc' = "done"
    <3>1. CASE i = Len(stream) + 1
      <4>1. apc # "assistant"
        BY <2>3, <2>9, <3>1, OwnTyped
      <4> QED
        BY <1>1, <2>3, <3>1, <4>1
    <3>2. CASE i # Len(stream) + 1
      <4>1. i \in 1..Len(stream) /\ stream[i].kind = "result"
        BY <2>3, <2>9, <3>2
      <4>2. apc = "done"
        BY <2>1, <4>1 DEF Wrote
      <4> QED
        BY <1>1, <4>2
    <3> QED
      BY <3>1, <3>2
  <2>10. Wrote(n)'
    BY <1>1, <2>5, <2>6, <2>7, <2>8, <2>9 DEF Wrote, Rank, Told, Before
  <2>11. Translating'
    BY <1>1, <1>7, <2>2, <2>10 DEF Translating
  <2> QED
    BY <1>5, <2>11 DEF StreamIInv
<1> QED
  BY <1>1, <1>6, <1>7

\* codex writes, and the user cancels, whatever the tailer is at.
LEMMA WriteInv ==
  ASSUME StreamIInv, NEW f \in Files, Write(f)
  PROVE  StreamIInv'
<1>1. /\ size' = [size EXCEPT ![f] = @ + 1] /\ size[f] < 2 * Len(Records)
      /\ UNCHANGED <<apc, sent, asked, runCtx, tailCtx, path, first, stats, known,
                     tpc, open, read, partial, tail, line, stream>>
  BY DEF Write, tailVars
<1>2. size' \in [Files -> 0..(2 * Len(Records))]
  <2>1. size[f] + 1 \in 0..(2 * Len(Records))
    BY <1>1, RecordTyped DEF StreamIInv, StreamTypeOK
  <2> QED
    BY <1>1, <2>1 DEF StreamIInv, StreamTypeOK
<1>3. Translating'
  BY <1>1, StreamKept
<1>4. StreamTypeOK' /\ Places' /\ OnlyOurs'
  BY <1>1, <1>2 DEF StreamIInv, StreamTypeOK, Places, OnlyOurs
<1> QED
  BY <1>3, <1>4 DEF StreamIInv

LEMMA CancelInv == StreamIInv /\ (CancelRun \/ UNCHANGED streamVars) => StreamIInv'
<1> SUFFICES ASSUME StreamIInv, CancelRun \/ UNCHANGED streamVars PROVE StreamIInv'
  OBVIOUS
<1>1. /\ runCtx' \in {runCtx, "done"}
      /\ UNCHANGED <<apc, sent, asked, tailCtx, size, path, first, stats, known,
                     tpc, open, read, partial, tail, line, stream>>
  BY DEF CancelRun, streamVars, tailVars
<1>2. Translating'
  BY <1>1, StreamKept
<1>3. StreamTypeOK' /\ Places' /\ OnlyOurs'
  BY <1>1 DEF StreamIInv, StreamTypeOK, Places, OnlyOurs
<1> QED
  BY <1>2, <1>3 DEF StreamIInv

LEMMA NextInv == StreamIInv /\ [StreamNext]_streamVars => StreamIInv'
<1> SUFFICES ASSUME StreamIInv, [StreamNext]_streamVars PROVE StreamIInv'
  OBVIOUS
<1>1. CASE TailStep \/ ReadFails
  BY <1>1, SeekInv, VerifyInv, TakeRecordInv, TakePartialInv, LeaveInv, EmitInv DEF TailStep
<1>2. CASE AgentStep
  BY <1>2, RefuseInv, BeginInv, BeginMuteInv, AgentOn, OwnLines DEF AgentStep
<1>3. CASE CodexStep
  BY <1>3, WriteInv DEF CodexStep
<1>4. CASE CancelRun \/ UNCHANGED streamVars
  BY <1>4, CancelInv
<1> QED
  BY <1>1, <1>2, <1>3, <1>4 DEF StreamNext, Over

-----------------------------------------------------------------------------
(* The theorems. *)

\* The inductive invariant: how many records the tailer has taken, and that the
\* file holds their lines (sessionlog_tail.go:36-160, codex_tmux.go:170-320).
THEOREM StreamInvariant == StreamSpec => []StreamIInv
<1> QED
  BY InitInv, NextInv, PTL DEF StreamSpec

\* The typing invariant; no read goes beyond the end of a rollout.
THEOREM StreamTyped == StreamSpec => []StreamTypeOK
<1>1. StreamIInv => StreamTypeOK
  BY DEF StreamIInv
<1> QED
  BY <1>1, StreamInvariant, PTL

\* In every state with lines of a rollout they are its first m.
LEMMA InvRollout ==
  ASSUME StreamIInv
  PROVE  StreamIsRollout
<1>1. CASE tpc \in {"off", "none"}
  <2>1. stream = <<>> /\ (apc \in {"assistant", "result"} => tpc \in {"none", "done"})
    BY <1>1 DEF StreamIInv, Places
  <2>2. DOMAIN stream = {}
    BY <2>1
  <2>3. 2..(Rank(0) + 1) = {} /\ 1..0 = {} /\ 0 \in 0..Len(Records) /\ Ours \in Files
    BY RankZero, RecordTyped DEF Files
  <2> QED
    BY <2>1, <2>2, <2>3 DEF StreamIsRollout
<1>2. CASE tpc \notin {"off", "none"}
  <2>1. \E m \in 0..Len(Records) : Wrote(m) /\ (open = None => m = 0)
    <3>1. PICK n \in 0..Len(Records) : Took(n) /\ Wrote(IF tpc = "emit" THEN n - 1 ELSE n)
      BY <1>2 DEF StreamIInv, Translating
    <3>2. CASE tpc = "emit"
      <4>1. n - 1 \in 0..Len(Records) /\ open # None
        BY <3>1, <3>2, RecordTyped DEF Took
      <4> QED
        BY <3>1, <3>2, <4>1
    <3>3. CASE tpc # "emit"
      BY <3>1, <3>3 DEF Took
    <3> QED
      BY <3>2, <3>3
  <2>2. PICK m \in 0..Len(Records) : Wrote(m) /\ (open = None => m = 0)
    BY <2>1
  <2>3. Len(stream) \in Nat /\ DOMAIN stream = 1..Len(stream) /\ Rank(m) \in Nat
    <3>1. stream \in Seq(Lines) /\ m \in Nat
      BY RecordTyped DEF StreamIInv, StreamTypeOK
    <3> QED
      BY <3>1, LenProperties, RankTyped
  <2>4. ASSUME NEW i \in 1..Len(stream) PROVE stream[i].of # None <=> i \in 2..(Rank(m) + 1)
    <3>1. CASE i = 1
      BY <2>2, <3>1, OwnTyped DEF Wrote
    <3>2. CASE i \in 2..(Rank(m) + 1)
      <4>1. m # 0
        BY <3>2, RankZero
      <4> QED
        BY <2>2, <3>2, <4>1 DEF Wrote
    <3>3. CASE i \in (Rank(m) + 2)..Len(stream)
      <4>1. stream[i] \in Own
        BY <2>2, <3>3 DEF Wrote
      <4>2. i \notin 2..(Rank(m) + 1)
        BY <2>3, <3>3
      <4> QED
        BY <4>1, <4>2, OwnTyped
    <3> QED
      BY <2>3, <3>1, <3>2, <3>3
  <2>5. {i \in DOMAIN stream : stream[i].of # None} = 2..(Rank(m) + 1)
    <3>1. Len(stream) >= Rank(m) + 1
      BY <2>2 DEF Wrote
    <3>2. 2..(Rank(m) + 1) \subseteq 1..Len(stream)
      BY <2>3, <3>1
    <3> QED
      BY <2>3, <2>4, <3>2
  <2>6. \E f \in Files : \A i \in 1..m : Shown(Records[i]) => stream[Rank(i) + 1] = Told(f, i)
    <3>1. CASE open = None
      BY <2>2, <3>1 DEF Files
    <3>2. CASE open # None
      BY <2>2, <3>2 DEF Wrote, StreamIInv, StreamTypeOK
    <3> QED
      BY <3>1, <3>2
  <2>7. \A i \in DOMAIN stream : stream[i].kind = "result" => i = Len(stream)
    BY <2>2, <2>3 DEF Wrote
  <2>8. apc \in {"assistant", "result"} => tpc \in {"none", "done"}
    BY DEF StreamIInv, Places
  <2> QED
    BY <2>5, <2>6, <2>7, <2>8 DEF StreamIsRollout
<1> QED
  BY <1>1, <1>2

\* agent.jsonl is one rollout, every record once and in order, then the result
\* (sessionlog_tail.go:82-104, codex_tmux.go:188).
THEOREM StreamIsRolloutHolds == StreamSpec => []StreamIsRollout
<1>1. StreamIInv => StreamIsRollout
  BY InvRollout
<1> QED
  BY <1>1, StreamInvariant, PTL

\* With a marker every line is ours, or the run's own; the first line of a
\* session is that of its meta record.
LEMMA InvOurs ==
  ASSUME StreamIInv
  PROVE  OnlyOurSession
<1>0. Len(stream) \in Nat /\ DOMAIN stream = 1..Len(stream) /\ StreamTypeOK
  BY LenProperties DEF StreamIInv, StreamTypeOK
<1>1. ASSUME asked, NEW i \in DOMAIN stream PROVE stream[i].of \in {Ours, None}
  <2>1. tpc \notin {"off", "none"}
    BY <1>1 DEF StreamIInv, Places
  <2>2. \E m \in Nat : Wrote(m)
    <3>1. PICK n \in 0..Len(Records) : Took(n) /\ Wrote(IF tpc = "emit" THEN n - 1 ELSE n)
      BY <2>1 DEF StreamIInv, Translating
    <3>2. n \in Nat /\ (tpc = "emit" => n - 1 \in Nat)
      BY <3>1, RecordTyped DEF Took
    <3> QED
      BY <3>1, <3>2
  <2>3. PICK m \in Nat : Wrote(m)
    BY <2>2
  <2>4. open \in {Ours, None}
    BY <1>0, <1>1 DEF StreamIInv, OnlyOurs, StreamTypeOK, Files
  <2>5. Rank(m) \in Nat
    BY RankTyped
  <2>6. CASE i = 1
    BY <2>3, <2>6, OwnTyped DEF Wrote
  <2>7. CASE i \in 2..(Rank(m) + 1)
    BY <2>3, <2>4, <2>7 DEF Wrote
  <2>8. CASE i \in (Rank(m) + 2)..Len(stream)
    BY <2>3, <2>8, OwnTyped DEF Wrote
  <2> QED
    BY <1>0, <1>1, <2>5, <2>6, <2>7, <2>8
<1>2. Ours # Theirs /\ None # Theirs
  BY DEF Ours, Theirs, None
<1>3. known => stats.of # Theirs
  BY DEF StreamIInv, OnlyOurs
<1>4. ASSUME known, ResolveSessionID = Theirs PROVE ~asked /\ open = Theirs
  <2> DEFINE begun == {i \in DOMAIN stream : stream[i].kind = "meta"}
  <2>2. CASE begun = {}
    BY <1>2, <1>3, <1>4, <2>2 DEF ResolveSessionID, ResultSession
  <2>3. CASE begun # {}
    <3>1. /\ \E i \in begun : \A j \in begun : i <= j
          /\ \A i \in begun : stream[i].of = open
      <4>1. tpc \notin {"off", "none"}
        BY <2>3 DEF StreamIInv, Places
      <4>2. PICK n \in 0..Len(Records) : Took(n) /\ Wrote(IF tpc = "emit" THEN n - 1 ELSE n)
        BY <4>1 DEF StreamIInv, Translating
      <4>3. PICK m \in 0..Len(Records) : Wrote(m)
        <5>1. tpc = "emit" => n - 1 \in 0..Len(Records)
          BY <4>2, RecordTyped DEF Took
        <5> QED
          BY <4>2, <5>1
      <4>4. Rank(m) \in Nat /\ \A j \in begun : j \in 2..(Rank(m) + 1)
        <5>1. Rank(m) \in Nat
          <6>1. m \in Nat
            BY RecordTyped
          <6> QED
            BY <6>1, RankTyped
        <5>2. 1 \notin begun
          BY <4>3, OwnTyped DEF Wrote
        <5>3. \A j \in (Rank(m) + 2)..Len(stream) : stream[j].kind # "meta"
          BY <4>3, OwnTyped DEF Wrote
        <5> QED
          BY <1>0, <5>1, <5>2, <5>3
      <4>5. m # 0
        BY <2>3, <4>4, RankZero
      <4>6. 1 \in 1..m /\ Shown(Records[1]) /\ Rank(1) = 1 /\ Rank(1) \in 1..Rank(m)
        BY <4>5, RankOne, RankBetween, RecordTyped
      <4>7. stream[2] = Told(open, 1) /\ 2 \in DOMAIN stream
        <5>1. Len(stream) >= Rank(m) + 1 /\ stream[Rank(1) + 1] = Told(open, 1)
          BY <4>3, <4>6 DEF Wrote
        <5>2. Rank(1) + 1 = 2 /\ 2 \in 1..Len(stream)
          BY <1>0, <4>4, <4>6, <5>1
        <5> QED
          BY <1>0, <5>1, <5>2
      <4>8. Told(open, 1).kind = "meta"
        BY RecordsAssumption DEF Told, Line
      <4>9. 2 \in begun
        BY <4>7, <4>8
      <4>10. \A j \in begun : stream[j].of = open
        BY <4>3, <4>4 DEF Wrote
      <4> QED
        BY <4>4, <4>9, <4>10
    <3>2. ResolveSessionID = stream[CHOOSE i \in begun : \A j \in begun : i <= j].of
      BY <2>3 DEF ResolveSessionID
    <3>3. (CHOOSE i \in begun : \A j \in begun : i <= j) \in begun
      BY <3>1
    <3>4. open = Theirs /\ \E i \in DOMAIN stream : stream[i].of = Theirs
      BY <1>4, <3>1, <3>2, <3>3
    <3> QED
      BY <1>1, <1>2, <3>4
  <2> QED
    BY <2>2, <2>3
<1> QED
  BY <1>1, <1>2, <1>3, <1>4 DEF OnlyOurSession

\* With a tailer that looks for the marker no line is of another run; once codex had
\* it on file tokens and model are of this one; and then the session of a resume
\* is another only where another was tailed
\* (sessionlog_tail.go:60-68, sessionlog.go:117-128, resume.go:311-368).
THEOREM OnlyOurSessionHolds == StreamSpec => []OnlyOurSession
<1>1. StreamIInv => OnlyOurSession
  BY InvOurs
<1> QED
  BY <1>1, StreamInvariant, PTL
=============================================================================
