------------------------------ MODULE TmuxRun -------------------------------
(***************************************************************************)
(* One codex-tmux run: RunTmux of internal/codex/adapter.go and the        *)
(* Session of internal/tmuxctl, against the codex TUI in a tmux pane.      *)
(*                                                                         *)
(* The driver sees codex only through captures of the pane, and decides    *)
(* from them when to press keys and when the turn is over.  The TUI, the   *)
(* tmux server and the user's cancellation move between any two of its     *)
(* steps.  A pane is abstracted to what the predicates of adapter.go tell  *)
(* of it (its look), and time to polls: one poll is 250 ms.                *)
(***************************************************************************)
EXTENDS Naturals

CONSTANTS
  MaxDialogs,   \* bound: dialogs codex may open
  MaxRounds,    \* bound: times codex goes back to work
  MaxSteps,     \* bound: follow-up lines of a slash command
  Gap,          \* polls a prompt may show while codex still works
  Work,         \* polls codex shows as busy before a gap, at least
  Lag,          \* polls codex may take to react to Enter
  Window,       \* QuiescenceWindow in polls
  EnterDrops,   \* may codex lose an Enter
  KillFails     \* may kill-session fail though the session is there

ASSUME TmuxRunAssumption ==
  /\ {MaxDialogs, MaxRounds, MaxSteps, Gap, Work, Lag} \subseteq Nat
  /\ Window \in Nat \ {0}
  /\ {EnterDrops, KillFails} \subseteq BOOLEAN

VARIABLES
  pc,         \* where RunTmux is
  ctx,        \* the run's context: live or done
  late,       \* the deadline of the current wait has passed
  err,        \* an error is pending
  result,     \* what RunTmux returned: none, ok, error
  slash,      \* the prompt is a slash command
  steps,      \* follow-up lines still to send
  server,     \* the tmux server: none, up, down
  sock,       \* its socket file exists
  script,     \* the bootstrap script exists
  leak,       \* history: cleanup was given up or never reached
  tui,        \* what runs in the pane
  look,       \* what a capture shows
  dirty,      \* the pane changed since the last capture of waitIdle
  text,       \* what the input box, or the shell's line, holds
  queued,     \* codex has taken the prompt but not begun it
  taken,      \* codex has begun a turn on the prompt
  printed,    \* what the turn has put on the pane: none, text, error
  age,        \* polls since codex last moved on, up to what matters
  dialogs,    \* dialogs codex may still open
  rounds,     \* rounds codex may still work
  was,        \* waitIdle: promptWasReady
  ready,      \* waitIdle: consecutiveReady
  quiet,      \* waitIdle: consecutiveQuiet
  still,      \* waitIdle: polls since lastChanged, up to Window
  fresh       \* waitIdle: the pane is still the initial one

runVars  == <<pc, err, result, steps>>
tmuxVars == <<server, sock, script, leak>>
turnVars == <<text, queued, taken, printed, dialogs, rounds>>
paneVars == <<tui, look, dirty, age, turnVars>>
idleVars == <<was, ready, quiet, still, fresh>>
vars == <<runVars, ctx, late, slash, tmuxVars, paneVars, idleVars>>

MatchesOnce == 1

\* idleConsecutiveMatches
Matches == 2

Looks == {"plain", "prompt", "busy", "both", "dialog"}
PromptReady(l) == l \in {"prompt", "both"}
CodexBusy(l) == l \in {"busy", "both"}

Init ==
  /\ pc = "script" /\ ctx = "live" /\ late = FALSE /\ err = FALSE
  /\ result = "none"
  /\ slash \in BOOLEAN
  /\ steps \in IF slash THEN 0..MaxSteps ELSE {0}
  /\ server = "none" /\ sock = FALSE /\ script = FALSE /\ leak = FALSE
  /\ tui = "none" /\ look = "plain" /\ dirty = FALSE
  /\ text = "empty" /\ queued = FALSE /\ taken = FALSE /\ printed = "none"
  /\ age = 0 /\ dialogs = MaxDialogs /\ rounds = MaxRounds
  /\ was = TRUE /\ ready = 0 /\ quiet = 0 /\ still = 0 /\ fresh = FALSE

-----------------------------------------------------------------------------
(* What keys do in the pane. *)

Pane == tui # "none"
Working == tui \in {"pending", "busy", "gap"}

\* The pane after codex moved on to screen t with look l.
Show(t, l) == tui' = t /\ look' = l /\ dirty' = TRUE /\ age' = 0

\* Typed or pasted text reaches the input box, or is swallowed.
Type(s) ==
  IF tui \in {"shell", "prompt", "answered", "busy", "gap"}
  THEN text' = s /\ dirty' = TRUE
  ELSE UNCHANGED <<text, dirty>>

\* Enter at a shell, in a dialog or menu, or on a filled input box.
Enter ==
  \/ /\ tui = "shell" /\ text = "command"
     /\ Show("boot", "plain") /\ text' = "empty"
     /\ UNCHANGED <<queued, taken>>
  \/ /\ tui = "dialog"
     /\ Show("closing", "dialog")
     /\ UNCHANGED <<text, queued, taken>>
  \/ /\ tui = "menu"
     /\ Show("pending", look)
     /\ UNCHANGED <<text, queued, taken>>
  \/ /\ tui \in {"prompt", "answered"} /\ text = "ours"
     /\ Show("pending", "prompt")
     /\ text' = "empty" /\ queued' = TRUE /\ UNCHANGED taken
  \/ /\ tui \in {"busy", "gap"} /\ text = "ours"
     /\ text' = "empty" /\ queued' = TRUE /\ dirty' = TRUE
     /\ UNCHANGED <<tui, look, age, taken>>
  \/ /\ \/ tui \in {"none", "boot", "closing", "pending", "exited"}
        \/ tui \in {"shell", "prompt", "answered", "busy", "gap"}
             /\ (text = "empty" \/ EnterDrops)
     /\ UNCHANGED <<tui, look, dirty, age, text, queued, taken>>

\* A tmux client command reaches the session.
Reaches == ctx = "live" /\ server = "up" /\ Pane

-----------------------------------------------------------------------------
(* tmuxctl.New *)

\* Return with an error before the deferred Kill is registered.
Abandon == pc' = "done" /\ result' = "error" /\ UNCHANGED <<err, steps>>

\* cleanupServer: wait a second for the server, kill it, remove its files.
CleanupServer ==
  /\ server' = "down" /\ sock' = FALSE /\ script' = FALSE
  /\ UNCHANGED leak
  /\ tui' = "none" /\ look' = "plain"
  /\ UNCHANGED <<dirty, age, turnVars>>

\* The steps of New: on failure it cleans up and returns the error.
GiveUp == Abandon /\ CleanupServer

Goto(p) == pc' = p /\ UNCHANGED <<err, result, steps>>

\* The socket directory and writeCommandScript, which may fail halfway.
WriteScript ==
  /\ pc = "script"
  /\ \/ Goto("server") /\ script' = TRUE /\ UNCHANGED leak
     \/ Abandon /\ script' \in BOOLEAN /\ leak' = script'
  /\ UNCHANGED <<ctx, late, slash, server, sock, paneVars, idleVars>>

\* startServer: exec refuses when the context is done already, and New then
\* returns without cleanupServer.
StartServer ==
  /\ pc = "server"
  /\ \/ /\ ctx = "live"
        /\ Goto("session") /\ server' = "up" /\ sock' = TRUE
        /\ UNCHANGED leak
     \/ /\ Abandon /\ leak' = TRUE
        /\ UNCHANGED <<server, sock>>
  /\ UNCHANGED <<ctx, late, slash, script, paneVars, idleVars>>

\* new-session: the client may fail though the session was made.
NewSession ==
  /\ pc = "session"
  /\ \/ /\ server = "up" /\ ctx = "live"
        /\ Goto("settle") /\ Show("shell", "plain")
        /\ UNCHANGED <<tmuxVars, turnVars>>
     \/ GiveUp
  /\ UNCHANGED <<ctx, late, slash, idleVars>>

\* sleepReady, then the command is pasted at the shell.
PasteCommand ==
  /\ pc = "settle"
  /\ \/ /\ Reaches
        /\ Goto("launch") /\ Type("command")
        /\ UNCHANGED <<tmuxVars, tui, look, age, queued, taken, printed,
                       dialogs, rounds>>
     \/ GiveUp
  /\ UNCHANGED <<ctx, late, slash, idleVars>>

\* Enter starts codex under the shell; the wait for it begins.
Launch ==
  /\ pc = "launch"
  /\ \/ /\ Reaches
        /\ Goto("ready") /\ late' = FALSE /\ Enter
        /\ UNCHANGED <<tmuxVars, printed, dialogs, rounds>>
     \/ GiveUp /\ UNCHANGED late
  /\ UNCHANGED <<ctx, slash, idleVars>>

-----------------------------------------------------------------------------
(* RunTmux up to the submit key. *)

Untouched == UNCHANGED <<ctx, slash, tmuxVars>>

\* Return with an error; the deferred Kill follows.
Fail == pc' = "kill" /\ result' = "error" /\ UNCHANGED <<err, steps>>

\* waitReady: one capture.  A prompt is taken for readiness before the exit
\* of the command and the dialogs are looked at.
WaitReady ==
  /\ pc = "ready"
  /\ \/ ~Reaches /\ Fail
     \/ /\ Reaches
        /\ \/ PromptReady(look) /\ Goto("send")
           \/ ~PromptReady(look) /\ tui = "exited" /\ Fail
           \/ ~PromptReady(look) /\ tui # "exited" /\ look = "dialog"
                /\ Goto("dismiss")
           \/ ~PromptReady(look) /\ tui # "exited" /\ look # "dialog"
                /\ late /\ Fail
  /\ UNCHANGED <<late, paneVars, idleVars>> /\ Untouched

\* dismissStartupDialog acts on the capture; codex may have moved since.
\* "2" is typed first when the update choices were seen.
Dismiss ==
  /\ pc = "dismiss"
  /\ \/ ~Reaches /\ Fail /\ UNCHANGED paneVars
     \/ /\ Reaches /\ Goto("ready")
        /\ \/ Enter /\ UNCHANGED <<printed, dialogs, rounds>>
           \/ /\ tui = "prompt" /\ text = "empty"
              /\ Show("pending", "prompt")
              /\ UNCHANGED turnVars
  /\ UNCHANGED <<late, idleVars>> /\ Untouched

\* pane_pid is best effort; then the prompt is typed or pasted.
SendPrompt ==
  /\ pc = "send"
  /\ \/ ~Reaches /\ Fail /\ UNCHANGED <<late, text, dirty>>
     \/ Reaches /\ Goto("echo") /\ late' = FALSE /\ Type("ours")
  /\ UNCHANGED <<tui, look, age, queued, taken, printed, dialogs, rounds,
                 idleVars>> /\ Untouched

\* waitInputEcho: the end of the prompt shows in the input box.
EchoVisible == text = "ours" /\ look # "dialog"

WaitEchoSkipped ==
  /\ pc = "echo"
  /\ \/ ~Reaches /\ Fail
     \/ Reaches /\ Goto("submit")
  /\ UNCHANGED <<late, paneVars, idleVars>> /\ Untouched

WaitEcho ==
  /\ pc = "echo"
  /\ \/ ~Reaches /\ Fail
     \/ Reaches /\ EchoVisible /\ Goto("submit")
     \/ Reaches /\ ~EchoVisible /\ late /\ Fail
  /\ UNCHANGED <<late, paneVars, idleVars>> /\ Untouched

\* The state of a waitIdle that starts from a given pane.
BeginIdle(same) ==
  /\ late' = FALSE /\ was' = TRUE /\ ready' = 0 /\ quiet' = 0 /\ still' = 0
  /\ fresh' = same

\* submitDebounce, then Enter.  The first waitIdle compares with the pane of
\* waitReady, which the typed prompt has changed already.
Submit ==
  /\ pc = "submit"
  /\ \/ ~Reaches /\ Fail /\ UNCHANGED <<late, paneVars, idleVars>>
     \/ /\ Reaches /\ Goto("idle") /\ BeginIdle(FALSE) /\ Enter
        /\ UNCHANGED <<printed, dialogs, rounds>>
  /\ Untouched

-----------------------------------------------------------------------------
(* waitIdle *)

\* A wait that ends with an error still captures the pane for the report.
Broken == pc' = "capture" /\ err' = TRUE /\ UNCHANGED <<result, steps>>

\* The turn is over: the next follow-up line, or the final capture.
IdleFound ==
  /\ pc' = IF steps > 0 THEN "follow" ELSE "capture"
  /\ UNCHANGED <<err, result, steps>>

\* consecutiveReady after this capture: a prompt counts only once codex has
\* been seen at work or without a prompt.
ReadyNow ==
  IF CodexBusy(look) \/ ~PromptReady(look) THEN 0
  ELSE IF was THEN ready
  ELSE ready + 1

\* Polls since the pane last changed, as far as the window asks.
StillNow == IF dirty THEN 0 ELSE IF still < Window THEN still + 1 ELSE still

QuietNow ==
  IF ~CodexBusy(look) /\ ~(fresh /\ ~dirty) /\ StillNow >= Window
  THEN quiet + 1 ELSE 0

\* codex may still owe a reaction only for so many polls.
InTime == CASE tui = "gap"     -> age < Gap
            [] tui = "pending" -> age < Lag
            [] OTHER           -> TRUE

Tick == age' = IF age < Gap + Work + Lag THEN age + 1 ELSE age

PollForever ==
  /\ pc = "idle"
  /\ InTime
  /\ \/ ~Reaches /\ Broken /\ UNCHANGED <<idleVars, dirty, age>>
     \/ /\ Reaches
        /\ dirty' = FALSE /\ Tick
        /\ fresh' = (fresh /\ ~dirty)
        /\ was' = (was /\ PromptReady(look) /\ ~CodexBusy(look))
        /\ ready' = ReadyNow /\ still' = StillNow /\ quiet' = QuietNow
        /\ IF ReadyNow >= Matches \/ QuietNow >= Matches THEN IdleFound
           ELSE UNCHANGED runVars
  /\ UNCHANGED <<late, tui, look, turnVars>> /\ Untouched

\* One poll: context, capture, the two ways to be idle, the deadline (where
\* C-c goes to codex without regard to the context), and the sleep.
Poll ==
  /\ pc = "idle"
  /\ InTime
  /\ \/ /\ ~Reaches /\ Broken
        /\ UNCHANGED <<idleVars, dirty, age>>
     \/ /\ Reaches
        /\ dirty' = FALSE /\ Tick
        /\ fresh' = (fresh /\ ~dirty)
        /\ was' = (was /\ PromptReady(look) /\ ~CodexBusy(look))
        /\ ready' = ReadyNow /\ still' = StillNow /\ quiet' = QuietNow
        /\ IF ReadyNow >= Matches \/ QuietNow >= Matches THEN IdleFound
           ELSE IF late THEN Broken
           ELSE UNCHANGED runVars
  /\ UNCHANGED <<late, tui, look, turnVars>> /\ Untouched

\* Follow-up line: the pane is captured, and after the debounce the keys go
\* in.  The next wait is for a pane that differs from this one.
FollowUp ==
  /\ pc = "follow"
  /\ \/ ~Reaches /\ Broken /\ UNCHANGED <<late, idleVars>>
     \/ /\ Reaches /\ BeginIdle(TRUE)
        /\ pc' = "keys" /\ steps' = steps - 1 /\ UNCHANGED <<err, result>>
  /\ dirty' = IF Reaches THEN FALSE ELSE dirty
  /\ UNCHANGED <<tui, look, age, turnVars>> /\ Untouched

SendStep ==
  /\ pc = "keys"
  /\ \/ ~Reaches /\ Broken /\ UNCHANGED paneVars
     \/ Reaches /\ Goto("idle") /\ Enter /\ UNCHANGED <<printed, dialogs, rounds>>
  /\ UNCHANGED <<late, idleVars>> /\ Untouched

-----------------------------------------------------------------------------
(* The verdict and the teardown. *)

\* The last capture does not depend on the context.  The command is found on
\* the pane when codex took it, or when the box or the banner still shows
\* something the extraction counts as its output (chrome).
Judge ==
  /\ pc = "capture"
  /\ \E chrome \in BOOLEAN :
       LET shown  == server = "up" /\ Pane
           found  == taken \/ (chrome /\ (slash \/ queued \/ text = "ours"))
           output == IF taken THEN printed
                     ELSE IF chrome THEN "text" ELSE "none"
       IN  /\ ~shown => ~chrome
           /\ result' = IF ~err /\ shown /\ found /\ output = "text"
                        THEN "ok" ELSE "error"
  /\ pc' = "kill"
  /\ UNCHANGED <<err, steps, late, paneVars, idleVars>> /\ Untouched

\* Kill with the context of the run: kill-session is not even started.
KillInContext ==
  /\ pc = "kill"
  /\ pc' = "done"
  /\ \/ ctx = "live" /\ CleanupServer
     \/ ctx = "done" /\ UNCHANGED <<tmuxVars, paneVars>>
     \/ /\ KillFails /\ server = "up"
        /\ leak' = TRUE /\ UNCHANGED <<server, sock, script, paneVars>>
  /\ UNCHANGED <<ctx, late, slash, err, result, steps, idleVars>>

\* The deferred Kill with a fresh context: a missing session is fine, any
\* other failure of kill-session leaves everything in place.
Kill ==
  /\ pc = "kill"
  /\ pc' = "done"
  /\ \/ CleanupServer
     \/ /\ KillFails /\ server = "up"
        /\ leak' = TRUE /\ UNCHANGED <<server, sock, script, paneVars>>
  /\ UNCHANGED <<ctx, late, slash, err, result, steps, idleVars>>

Driver ==
  \/ WriteScript \/ StartServer \/ NewSession \/ PasteCommand \/ Launch
  \/ WaitReady \/ Dismiss \/ SendPrompt \/ WaitEcho \/ Submit
  \/ Poll \/ FollowUp \/ SendStep \/ Judge \/ Kill

-----------------------------------------------------------------------------
(* codex, tmux and the user. *)

Other == UNCHANGED <<runVars, ctx, late, slash, tmuxVars, idleVars>>

\* A startup dialog, an update notice over the prompt, or the prompt itself.
OpenDialog ==
  /\ tui \in {"boot", "closing", "prompt"} /\ dialogs > 0
  /\ dialogs' = dialogs - 1
  /\ Show("dialog", "dialog")
  /\ UNCHANGED <<text, queued, taken, printed, rounds>> /\ Other

ShowPrompt ==
  /\ tui \in {"boot", "closing"}
  /\ Show("prompt", "prompt")
  /\ UNCHANGED turnVars /\ Other

\* codex takes the Enter: a menu, a turn, or an answer at once.
React ==
  /\ tui = "pending"
  /\ taken' = (taken \/ queued) /\ queued' = FALSE
  /\ \/ \E l \in {"plain", "prompt"} : Show("menu", l) /\ slash /\ steps > 0
                                         /\ UNCHANGED printed
     \/ \E l \in {"busy", "both"} : Show("busy", l) /\ UNCHANGED printed
     \/ Show("answered", "prompt") /\ printed' \in {"text", "error"}
  /\ UNCHANGED <<text, dialogs, rounds>> /\ Other

\* Between two tools the prompt shows and nothing says busy.
BeginGap ==
  /\ tui = "busy" /\ rounds > 0 /\ age >= Work
  /\ rounds' = rounds - 1
  /\ Show("gap", "prompt")
  /\ UNCHANGED <<text, queued, taken, printed, dialogs>> /\ Other

EndGap ==
  /\ tui = "gap"
  /\ \E l \in {"busy", "both"} : Show("busy", l)
  /\ UNCHANGED turnVars /\ Other

\* The turn ends.  A queued prompt begins at once.
EndTurn ==
  /\ tui = "busy"
  /\ IF queued
     THEN /\ Show("busy", look)
          /\ taken' = TRUE /\ queued' = FALSE /\ UNCHANGED printed
     ELSE /\ Show("answered", "prompt")
          /\ printed' \in {"none", "text", "error"}
          /\ UNCHANGED <<queued, taken>>
  /\ UNCHANGED <<text, dialogs, rounds>> /\ Other

\* Spinner, output, status line.
Redraw ==
  /\ Pane /\ tui # "shell" /\ ~dirty /\ dirty' = TRUE
  /\ UNCHANGED <<tui, look, age, turnVars>> /\ Other

\* codex exits; the script says so and sleeps.  What was on the pane stays.
Exit ==
  /\ tui \in {"boot", "dialog", "closing", "prompt", "pending", "busy", "gap",
              "menu", "answered"}
  /\ \E l \in {"plain", "prompt", "both"} : Show("exited", l)
  /\ printed' = IF taken THEN "text" ELSE printed
  /\ UNCHANGED <<text, queued, taken, dialogs, rounds>> /\ Other

Deadline ==
  /\ pc \in {"ready", "dismiss", "echo", "idle"} /\ ~late
  /\ late' = TRUE
  /\ UNCHANGED <<runVars, ctx, slash, tmuxVars, paneVars, idleVars>>

Cancel ==
  /\ ctx = "live" /\ pc # "done"
  /\ ctx' = "done"
  /\ UNCHANGED <<runVars, late, slash, tmuxVars, paneVars, idleVars>>

\* The server crashes, or the canceled context has it terminated.
ServerDies ==
  /\ server = "up"
  /\ server' = "down" /\ tui' = "none" /\ look' = "plain"
  /\ UNCHANGED <<runVars, ctx, late, slash, sock, script, leak, dirty, age,
                 turnVars, idleVars>>

Codex == OpenDialog \/ ShowPrompt \/ React \/ BeginGap \/ EndGap \/ EndTurn
           \/ Redraw \/ Exit

Done == pc = "done" /\ UNCHANGED vars

Next == Driver \/ Codex \/ Deadline \/ Cancel \/ ServerDies \/ Done

Spec == Init /\ [][Next]_vars

\* The driver runs, its deadlines pass, codex leaves a gap and reacts.
Fairness ==
  /\ WF_vars(Driver) /\ WF_vars(Deadline)
  /\ WF_vars(React) /\ WF_vars(EndGap)

FairSpec == Spec /\ Fairness

\* codex also leaves a dialog that was answered.
ObligingSpec == FairSpec /\ WF_vars(ShowPrompt)

-----------------------------------------------------------------------------
(* Properties. *)

TypeOK ==
  /\ pc \in {"script", "server", "session", "settle", "launch", "ready",
             "dismiss", "send", "echo", "submit", "idle", "follow", "keys",
             "capture", "kill", "done"}
  /\ ctx \in {"live", "done"} /\ result \in {"none", "ok", "error"}
  /\ {late, err, slash, sock, script, leak, dirty, queued, taken, was, fresh}
       \subseteq BOOLEAN
  /\ steps \in 0..MaxSteps /\ server \in {"none", "up", "down"}
  /\ tui \in {"none", "shell", "boot", "dialog", "closing", "prompt",
              "pending", "busy", "gap", "menu", "answered", "exited"}
  /\ look \in Looks /\ text \in {"empty", "command", "ours"}
  /\ printed \in {"none", "text", "error"}
  /\ age \in 0..(Gap + Work + Lag) /\ dialogs \in 0..MaxDialogs /\ rounds \in 0..MaxRounds
  /\ {ready, quiet} \subseteq 0..Matches /\ still \in 0..Window

\* codex shows a prompt between two tools, for n polls so far.
BetweenTools(n) == tui = "gap" /\ age >= n

\* waitIdle (adapter.go:538) never ends a wait while codex is at work or about
\* to be, but between two tools when two polls have seen the prompt there.  One
\* does not do ("a single match is unreliable", adapter.go:31-34); two fit into the
\* 500 ms that the same comment gives such a gap, and then a follow-up key goes into a
\* running turn, or the kill cuts it short.
IdleIsRest ==
  [][pc = "idle" /\ pc' # "idle" /\ ~err' => ~Working \/ BetweenTools(2)']_vars

\* A success is of a prompt that reached codex whole, whatever dialogs came
\* up in between: begun, or taken, or at least in the input box
\* (waitInputEcho and validateCommandOutput, adapter.go:492 and 891).
SuccessIsDelivered == result = "ok" => taken \/ queued \/ text = "ours"

\* Once RunTmux has returned, no server, socket or script is left, but where
\* the server could not be started or kill-session failed (the deferred
\* Kill, adapter.go:291-301).
NothingLeftBehind == pc = "done" /\ ~leak => server # "up" /\ ~sock /\ ~script

\* RunTmux returns, under FairSpec or ObligingSpec: every wait has a deadline
\* ("TUI never reaches READY | start_timeout elapsed",
\* plans/feature_codex_tmux_agent.md:347).
Ends == <>(pc = "done")
=============================================================================
