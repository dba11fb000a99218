\* Two commands on an old state directory of every kind, one killed, one started
\* again; two on an old database; files in three anchors; every place, flag and
\* line of agents; two `ateam secret` at a time; two roles in containers that come and go.
SPECIFICATION SetUpSpec
CONSTANTS
  Cmds = {c1, c2}
  Texts <- TwoTexts
  Legacy = 1
  Nested = 2
  Begins <- Several
  Rows = 2
  Prompts <- OnePrompt
  Near <- OfFirst
  Optouts <- Either
  Devices <- Either
  MayFail = TRUE
  Crashes = 1
  Restarts = 1
  Openers = {c1, c2}
  Databases <- Left
  WorkDirs <- Somewhere
  Kills = 1
  Reopens = 1
  MaxRows = 3
  Commands <- CommandLines
  Configurations <- ConfigFiles
  Alternatives <- Requirement
  Situations <- Stores
  Jobs <- SecretJobs
  Writers = {c1, c2}
  Tasks <- PoolRoles
  Cases <- Boxes
SYMMETRY Alike
CHECK_DEADLOCK FALSE
INVARIANTS NothingLost SameAsOnePass StreamFound OpensWhole
INVARIANTS EveryFileInItsPlace SameOnEverySurface SetUpAsSaid ResumesWhereItRan RightCredential PreparedBeforeUse
