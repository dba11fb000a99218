\* Dialogs, gaps and follow-up lines, with every failure of tmux and codex; a turn
\* of each of two sessions, with a marker or none, and with one that the tailer does
\* not look for. A gap is as long as adapter.go:33 says (500 ms, two polls), a reaction
\* as long as IdleIsRest stands: Lag = Window + 1.
SPECIFICATION CodexSpec
CONSTANTS
  MaxDialogs = 1
  MaxRounds = 2
  MaxSteps = 1
  Gap = 2
  Work = 1
  Lag = 3
  Window = 2
  EnterDrops = TRUE
  KillFails = TRUE
  Records <- OneTurn
INVARIANTS SuccessIsDelivered NothingLeftBehind StreamIsRollout OnlyOurSession
PROPERTIES IdleIsRest BothEnd
