---------------------------- MODULE MCCodexTmux -----------------------------
(***************************************************************************)
(* Instances of TmuxRun and of SessionTail for TLC: the pane of a          *)
(* codex-tmux run, or its stream file.  The part that is not looked at     *)
(* rests.                                                                  *)
(***************************************************************************)
EXTENDS TmuxRun, SessionTail

VARIABLE part                       \* "pane" or "stream"

OneTurn == <<"meta", "user", "message", "count", "complete">>

NoPane ==
  /\ pc = "done" /\ ctx = "live" /\ late = FALSE /\ err = FALSE /\ result = "none"
  /\ slash = FALSE /\ steps = 0
  /\ server = "none" /\ sock = FALSE /\ script = FALSE /\ leak = FALSE
  /\ tui = "none" /\ look = "plain" /\ dirty = FALSE
  /\ text = "empty" /\ queued = FALSE /\ taken = FALSE /\ printed = "none"
  /\ age = 0 /\ dialogs = 0 /\ rounds = 0
  /\ was = TRUE /\ ready = 0 /\ quiet = 0 /\ still = 0 /\ fresh = FALSE

NoStream ==
  /\ apc = "done" /\ sent = FALSE /\ asked = FALSE /\ runCtx = "live" /\ tailCtx = "live"
  /\ tpc = "done" /\ path = [tail |-> None, agent |-> None] /\ open = None
  /\ read = 0 /\ partial = 0 /\ tail = Fresh /\ line = NoLine
  /\ first = Ours /\ size = [f \in Files |-> 0]
  /\ stream = <<>> /\ stats = [of |-> None, upto |-> 0] /\ known = FALSE

PartInit == \/ part = "pane" /\ Init /\ NoStream
            \/ part = "stream" /\ StreamInit /\ NoPane

PartNext == \/ part = "pane" /\ Next /\ UNCHANGED <<part, streamVars>>
            \/ part = "stream" /\ StreamNext /\ UNCHANGED <<part, vars>>

CodexSpec ==
  /\ PartInit /\ [][PartNext]_<<part, vars, streamVars>>
  /\ Fairness /\ WF_vars(ShowPrompt) /\ StreamFairness

\* See TmuxRun and SessionTail: every run ends, and its tailer never holds it up.
BothEnd == Ends /\ StreamEnds
=============================================================================
