------------------------------- MODULE MCSetUp -------------------------------
(***************************************************************************)
(* Instances for TLC of what a command does before an agent runs: the old  *)
(* state directory (StateDir) and database (Schema), the prompt            *)
(* (PromptAssembly), the runner (RuntimeConfig, and Resume), its           *)
(* credential (Credentials) and its container (ContainerPrep).  One of     *)
(* them is looked at, the others rest.                                     *)
(***************************************************************************)
EXTENDS MCStateDir, Schema, Credentials, ContainerPrep, Resume, TLC

VARIABLES
  part,                                            \* the one that is looked at
  question, given                                  \* the variables of PromptAssembly

promptVars == <<question, given>>

\* What is put in, taken from the modules of instances.
PI == INSTANCE MCPromptAssembly WITH
        Chain <- <<"project", "org", "embedded">>, Pool <- <<>>, Typos <- {}, MaxDepth <- 2, Requests <- {}, asked <- question
RI == INSTANCE MCRuntimeConfig WITH Commands <- {}, Configurations <- {}
KI == INSTANCE MCCredentials WITH
        Alternatives <- <<>>, Situations <- {}, Jobs <- {}, Writers <- {}
CI == INSTANCE MCContainerPrep WITH Tasks <- {}, Cases <- {}
SI == INSTANCE MCSchema WITH
        Openers <- {}, Databases <- {}, WorkDirs <- {}, Kills <- 0, Reopens <- 0, MaxRows <- 0

Anchors3 == PI!Standard
FilePool == PI!Files
Asks == PI!Asks
CommandLines == RI!Typed
ConfigFiles == RI!Configs
Requirement == KI!Two
Stores == KI!Held
SecretJobs == KI!Typed
Boxes == CI!Configured
PoolRoles == CI!Roles
NearRoles == PI!NearRoles
Left == SI!Left
Somewhere == SI!Somewhere

P == INSTANCE PromptAssembly WITH
       Chain <- Anchors3, Pool <- FilePool, Typos <- NearRoles, MaxDepth <- 2, Requests <- Asks, asked <- question

\* One command is as another.
Alike == Permutations(Cmds)

NoState ==
  /\ begin = (CHOOSE b \in Begins : TRUE) /\ exdev = FALSE
  /\ src = begin.src /\ aside = begin.aside /\ dst = begin.dst /\ history = {}
  /\ stream = [r \in 1..Rows |-> "old"] /\ entry = [r \in 1..Rows |-> "old"]
  /\ prompt = [r \in 1..Rows |-> 0] /\ oldlogs = TRUE /\ sentinel = FALSE
  /\ pc = [c \in Cmds |-> "start"] /\ at = [c \in Cmds |-> 1]
  /\ got = [c \in Cmds |-> Absent] /\ list = [c \in Cmds |-> {}] /\ found = [c \in Cmds |-> 0]
  /\ crashes = 0 /\ restarts = 0 /\ hurt = {}

NoPrompt == question = 0 /\ given = 0
NoRunner == asked = 0 /\ env = Nil /\ agents = <<>> /\ resolved = {} /\ path = <<>> /\ runner = Nil
NoSecret ==
  /\ held = 0 /\ file = 0 /\ chain = 0 /\ job = 0 /\ lines = 0
  /\ wpc = [w \in Writers |-> "idle"] /\ run = [pc |-> "idle"] /\ clean = TRUE /\ latest = "nobody"
NoBox ==
  /\ config = 0 /\ up = {} /\ inside = {} /\ image = 0 /\ guard = <<>> /\ ctx = 0 /\ name = 0
  /\ ran = 0 /\ effects = <<>> /\ lost = {}
  /\ tpc = [t \in Tasks |-> "idle"]
NoSchema == begun = SI!Empty /\ SchemaInit

\* Another device with two files alike; a stream that is gone with a target that is there.
StateInit ==
  Init /\ (exdev <=> begin.src = <<A, Absent, A>>)
  /\ \A r \in 1..Rows : stream[r] = "gone" => begin.dst # Absent /\ r = 1

SetUpInit ==
  \/ part = "state" /\ StateInit /\ NoPrompt /\ NoRunner /\ NoSecret /\ NoBox /\ NoSchema
  \/ part = "schema" /\ SchemaInit /\ NoState /\ NoPrompt /\ NoRunner /\ NoSecret /\ NoBox
  \/ part = "prompt" /\ P!Init /\ NoState /\ NoRunner /\ NoSecret /\ NoBox /\ NoSchema
  \/ part = "runner" /\ RuntimeInit /\ NoState /\ NoPrompt /\ NoSecret /\ NoBox /\ NoSchema
  \/ part = "secret" /\ CredentialsInit /\ NoState /\ NoPrompt /\ NoRunner /\ NoBox /\ NoSchema
  \/ part = "box" /\ BoxInit /\ NoState /\ NoPrompt /\ NoRunner /\ NoSecret /\ NoSchema

SetUpNext ==
  \/ part = "state" /\ Next /\ UNCHANGED <<part, promptVars, runtimeVars, secretVars, boxVars, schemaVars>>
  \/ part = "schema" /\ SchemaNext /\ UNCHANGED <<part, vars, promptVars, runtimeVars, secretVars, boxVars>>
  \/ part = "prompt" /\ P!Next /\ UNCHANGED <<part, vars, runtimeVars, secretVars, boxVars, schemaVars>>
  \/ part = "runner" /\ RuntimeNext /\ UNCHANGED <<part, vars, promptVars, secretVars, boxVars, schemaVars>>
  \/ part = "secret" /\ CredentialsNext /\ UNCHANGED <<part, vars, promptVars, runtimeVars, boxVars, schemaVars>>
  \/ part = "box" /\ BoxNext /\ UNCHANGED <<part, vars, promptVars, runtimeVars, secretVars, schemaVars>>

SetUpSpec == SetUpInit /\ [][SetUpNext]_<<part, vars, promptVars, runtimeVars, secretVars, boxVars, schemaVars>>

\* See PromptAssembly: the files that frame a prompt and no others, in their order.
EveryFileInItsPlace == part = "prompt" => P!EveryFileInItsPlace

\* See PromptAssembly: a prompt is the same wherever it is shown, and when it is run.
SameOnEverySurface == part = "prompt" => P!SameOnEverySurface
=============================================================================
