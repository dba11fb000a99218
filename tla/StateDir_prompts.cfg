\* One command, nothing fails: the archived prompt of a row.
SPECIFICATION Spec
CONSTANTS
  Cmds = {c1}
  Texts <- TwoTexts
  Legacy = 1
  Nested = 2
  Begins <- OneReport
  Rows = 1
  Prompts <- OnePrompt
  Near <- OfFirst
  Optouts <- Off
  Devices <- Off
  MayFail = FALSE
  Crashes = 0
  Restarts = 0
CHECK_DEADLOCK FALSE
INVARIANT PromptsKept
