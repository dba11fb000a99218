--------------------------- MODULE RuntimeConfig ---------------------------
(***************************************************************************)
(* How a command gets its runner: where it is (ProjectRoot), config.toml   *)
(* (internal/config), the levels of runtime.hcl and the agents that        *)
(* inherit from one another (internal/runtime), and what the flags change  *)
(* (cmd/table.go, cmd/exec_bundle.go, cmd/runner_overrides.go).            *)
(*                                                                         *)
(* The agents are resolved in the order of a Go map, which is any order;   *)
(* the rest of the work is done at once.  "" is a value that is not set.   *)
(* Of the twenty-odd fields an agent inherits one by one, type, command,   *)
(* model and config_dir stand for all, env, as a whole, for the lists, and *)
(* inside for the flag that is or-ed.  Of env there is CLAUDE_CONFIG_DIR.  *)
(***************************************************************************)
EXTENDS ProjectRoot, TLC

CONSTANTS
  Commands,            \* what is typed, and where
  Configurations       \* what config.toml may say

\* The fields of an agent that are kept here.
AgentConfigs ==
  [base : STRING, type : STRING, command : STRING, model : STRING, inside : BOOLEAN,
   dir : {"", "abs", "rel", "role"}, env : STRING]

\* The profile of a run by --agent, and the agent it names.
OfAgent(name) == "a:" \o name
ByAgent(profile) == Len(profile) > 1 /\ SubSeq(profile, 1, 2) = "a:"
TrimPrefix(profile) == SubSeq(profile, 3, Len(profile))
ReadBack(name) == ByAgent(OfAgent(name)) /\ TrimPrefix(OfAgent(name)) = name

\* What is typed has all its fields; the files have agents by name, which "a:" is put
\* before and taken from; a config.toml is in a directory; there is no project in the root
\* directory, which NoDir is too.
IsCommand(q) ==
  /\ q = [fs |-> q.fs, cwd |-> q.cwd, flags |-> q.flags, files |-> q.files, config |-> q.config,
          action |-> q.action, role |-> q.role, profile |-> q.profile, agent |-> q.agent,
          supervisor |-> q.supervisor, model |-> q.model, cheaper |-> q.cheaper, budget |-> q.budget,
          containerName |-> q.containerName, stored |-> q.stored, exported |-> q.exported,
          secrets |-> q.secrets, dockerfiles |-> q.dockerfiles]
  /\ q.cwd \in Seq(Seq(STRING)) /\ q.fs.dirs \subseteq Seq(Seq(STRING)) /\ q.fs.configs \subseteq q.fs.dirs
  /\ <<Project>> \notin q.fs.dirs
  /\ LET files == {q.files.embedded, q.files.orgDefaults, q.files.org, q.files.project}
         names == UNION {DOMAIN f.agents : f \in files}
     IN /\ \A f \in files : IsFiniteSet(DOMAIN f.agents) /\ f.agents \in [DOMAIN f.agents -> AgentConfigs]
        /\ \A n \in names : ReadBack(n)

ASSUME CommandsAssumption == \A q \in Commands : IsCommand(q)

VARIABLES
  asked,               \* the command
  env,                 \* root.ResolvedEnv
  agents,              \* Config.Agents
  resolved, path,      \* resolveInheritance: the memo and the names under way
  runner               \* the answer

runtimeVars == <<asked, env, agents, resolved, path, runner>>

Nil == [kind |-> "none"]
Failure(why) == [kind |-> "error", why |-> why]

-----------------------------------------------------------------------------
(* Load: embedded, .ateamorg/defaults, .ateamorg, .ateam; a block replaces *)
(* the block of its name as a whole                                        *)

NoFile == [bad |-> FALSE, agents |-> <<>>, profiles |-> <<>>, containers |-> <<>>]

Levels(q, e) ==
  <<q.files.embedded>>
    \o (IF e.org # NoDir THEN <<q.files.orgDefaults, q.files.org>> ELSE <<>>)
    \o (IF e.project # NoDir THEN <<q.files.project>> ELSE <<>>)

\* mergeHCL, file after file: a name has the block of the last file that has one.
Merged(files, blocks) ==
  [n \in UNION {DOMAIN files[i][blocks] : i \in DOMAIN files} |->
     files[Max({i \in DOMAIN files : n \in DOMAIN files[i][blocks]})][blocks][n]]

AgentConfig(q, e) == Merged(Levels(q, e), "agents")
ProfileConfig(q, e) == Merged(Levels(q, e), "profiles")
ContainerConfig(q, e) == Merged(Levels(q, e), "containers")

\* A map that is nil, which is not an empty one.
Unset == "nil"

FirstSet(s) ==
  LET set == {i \in DOMAIN s : s[i] # ""} IN IF set = {} THEN "" ELSE s[Min(set)]

\* What is not set is taken from the base; a flag cannot be taken back.
Inherited(ac, base) ==
  [ac EXCEPT !.type = FirstSet(<<@, base.type>>), !.command = FirstSet(<<@, base.command>>),
             !.model = FirstSet(<<@, base.model>>), !.inside = @ \/ base.inside,
             !.dir = FirstSet(<<@, base.dir>>), !.env = IF @ = Unset THEN base.env ELSE @]

-----------------------------------------------------------------------------
(* config.toml: which profile *)

\* config.ResolveProfile.  Supervisors other than review and code have none of their own.
ActionProfile(c, action) ==
  CASE action = "review" -> c.review [] action = "code" -> c.code [] OTHER -> ""

ConfiguredProfile(c, action, role) ==
  FirstSet(<<IF role # "" /\ role \in DOMAIN c.roles THEN c.roles[role] ELSE "", ActionProfile(c, action),
          c.supervisor, c.project, "default">>)

ResolveSupervisorProfile(c, action) ==
  FirstSet(<<IF action = "code" THEN c.codeSupervisor ELSE "", c.supervisor, c.project, "default">>)

-----------------------------------------------------------------------------
(* The runner *)

\* The command is the name of the agent for claude, also when it is inherited as unset.
DefaultCommand(name, ac) ==
  IF ac.type = "builtin" THEN ""
  ELSE IF ac.command # "" THEN ac.command
  ELSE IF ac.type \in {"codex", "codex-tmux"} THEN "codex" ELSE name

BuildAgent(name, ac) ==
  [type |-> IF ac.type \in {"builtin", "codex", "codex-tmux"} THEN ac.type ELSE "claude",
   command |-> DefaultCommand(name, ac),
   model |-> IF ac.type = "builtin" THEN "" ELSE ac.model]

\* Nil for the host and for a type it does not know.
ContainerOf(q, e, cc, role) ==
  CASE cc.type = "docker" ->
         [type |-> "docker", name |-> "", image |-> Last(e.source),
          file |-> IF role # "" /\ role \in q.dockerfiles THEN role ELSE "shared"]
    [] cc.type = "docker-exec" ->
         [type |-> "docker-exec", name |-> FirstSet(<<cc.name, "{{CONTAINER_NAME}}">>),
          image |-> <<>>, file |-> ""]
    [] OTHER -> Nil

BuiltRunner(name, ac, profile, args, ct, type) ==
  [kind |-> "runner", agent |-> BuildAgent(name, ac), profile |-> profile, args |-> args,
   inside |-> ac.inside, dir |-> ac.dir, env |-> IF ac.type = "builtin" THEN Unset ELSE ac.env,
   container |-> ct, containerType |-> type, name |-> "", source |-> "", subRuns |-> ""]

NewRunnerFromAgent(as, name) ==
  IF name \notin DOMAIN as THEN Failure("unknown agent")
  ELSE BuiltRunner(name, as[name], OfAgent(name), "", Nil, "none")

\* Config.ResolveProfile: the profile, its agent and its container are all known.
WholeProfile(q, e, as, name) ==
  LET ps == ProfileConfig(q, e)
  IN name \in DOMAIN ps /\ ps[name].agent \in DOMAIN as /\ ps[name].container \in DOMAIN ContainerConfig(q, e)

PreflightContainerSupportsWorkDir(e, cc) ==
  cc.type \in {"", "none"} \/ ~HasProject(e) \/ PathInside(e.work, e.source)

\* A container without a type passes every check as the host does, and then has
\* no container to ask for its name.
NewRunnerFromProfile(q, e, as, name, role) ==
  LET prof == ProfileConfig(q, e)[name]
      cc == ContainerConfig(q, e)[prof.container]
      ac == as[prof.agent]
      ct == ContainerOf(q, e, cc, role)
  IN IF ac.type = "codex-tmux" /\ cc.type # "none" THEN Failure("codex-tmux is host-only")
     ELSE IF cc.type # "none" /\ ~q.secrets THEN Failure("missing secrets")
     ELSE IF ~PreflightContainerSupportsWorkDir(e, cc) THEN Failure("work-dir outside the project")
     ELSE IF cc.type # "none" /\ ct = Nil THEN Failure("panic")
     ELSE [BuiltRunner(prof.agent, ac, name, prof.args, ct, cc.type)
             EXCEPT !.name = IF ct = Nil THEN "" ELSE ct.name]

\* A name that is no whole profile may be that of an agent.
NewRunner(q, e, as, name, role) ==
  IF WholeProfile(q, e, as, name) THEN NewRunnerFromProfile(q, e, as, name, role)
  ELSE IF name \in DOMAIN as THEN NewRunnerFromAgent(as, name)
  ELSE Failure("unknown profile")

ResolveRunner(q, e, as, spec) ==
  IF spec.profile # "" /\ spec.agent # "" THEN Failure("mutually exclusive")
  ELSE IF spec.agent # "" THEN NewRunnerFromAgent(as, spec.agent)
  ELSE NewRunner(q, e, as, FirstSet(<<spec.profile, ConfiguredProfile(q.config, spec.action, spec.role)>>), spec.role)

RejectCodexTmuxWithoutStateDir(e, r) ==
  IF r.kind = "runner" /\ r.agent.type = "codex-tmux" /\ e.org = NoDir
  THEN Failure("codex-tmux requires a state directory") ELSE r

\* Without a project: no container, whatever the profile says.
ResolveRunnerMinimal(q, e, as, spec) ==
  LET name == FirstSet(<<spec.profile, "default">>)
      prof == ProfileConfig(q, e)[name]
  IN IF spec.profile # "" /\ spec.agent # "" THEN Failure("mutually exclusive")
     ELSE IF spec.agent # "" THEN RejectCodexTmuxWithoutStateDir(e, NewRunnerFromAgent(as, spec.agent))
     ELSE IF WholeProfile(q, e, as, name)
     THEN RejectCodexTmuxWithoutStateDir(e, BuiltRunner(prof.agent, as[prof.agent], "", prof.args, Nil, ""))
     ELSE Failure("unknown profile")

-----------------------------------------------------------------------------
(* The flags that change a runner, in the order they are applied; an error  *)
(* ends it                                                                 *)

\* SetContainerName: docker has no name to set.
ApplyContainerNameOverride(r, name) ==
  IF r.container # Nil /\ r.container.type = "docker-exec"
  THEN [r EXCEPT !.container.name = name, !.name = name] ELSE r

\* --container-name; or what config gives, unless it is the old placeholder, which
\* the secret store or the process environment fills in.
ApplyContainerName(q, r) ==
  IF r.kind = "error" THEN r
  ELSE IF q.containerName # "" THEN [ApplyContainerNameOverride(r, q.containerName) EXCEPT !.source = "cli"]
  ELSE IF r.name # "{{CONTAINER_NAME}}" THEN [r EXCEPT !.source = "config"]
  ELSE IF q.stored # "" THEN [ApplyContainerNameOverride(r, q.stored) EXCEPT !.source = "secret"]
  ELSE IF q.exported # "" THEN [ApplyContainerNameOverride(r, q.exported) EXCEPT !.source = "env"]
  ELSE Failure("container name not set")

CheaperModelName == "sonnet"

ApplyModelOverrides(q, r) ==
  LET chosen == FirstSet(<<q.model, IF q.cheaper THEN CheaperModelName ELSE "">>)
  IN IF r.kind = "runner" /\ chosen # "" /\ r.agent.type # "builtin" THEN [r EXCEPT !.agent.model = chosen] ELSE r

\* Only claude keeps to a budget of its own.
ApplyMaxBudgetUSD(q, spec, r) ==
  IF q.budget /\ r.kind = "runner" /\ r.agent.type \in {"codex", "codex-tmux"} /\ spec.action \notin {"parallel", "report"}
  THEN Failure("no native cap") ELSE r

ApplyRunnerOverrides(q, spec, r) ==
  ApplyMaxBudgetUSD(q, spec, ApplyModelOverrides(q, ApplyContainerName(q, r)))

BuildRunner(q, e, as, spec) ==
  ApplyRunnerOverrides(q, spec,
    IF HasProject(e) THEN ResolveRunner(q, e, as, spec) ELSE ResolveRunnerMinimal(q, e, as, spec))

-----------------------------------------------------------------------------
(* The commands *)

AskFor(q, profile, role) == [profile |-> profile, agent |-> q.agent, action |-> q.action, role |-> role]

\* The profile of the supervisor of `ateam code`, which has flags of its own: agent is
\* --supervisor-agent then, and --agent is not given.
SupervisorProfile(q) ==
  IF q.agent # "" THEN q.supervisor ELSE FirstSet(<<q.supervisor, ResolveSupervisorProfile(q.config, "code")>>)

\* The profile `ateam code` has its sub-runs use: that of an `ateam exec`.
SubRunProfile(q) == FirstSet(<<q.profile, ConfiguredProfile(q.config, "exec", "")>>)

\* The runner of the command, before a role of a report is looked at.
Asked(q) ==
  CASE q.action = "report" -> AskFor(q, q.profile, "")
    [] q.action = "code" -> AskFor(q, SupervisorProfile(q), "")
    [] OTHER -> AskFor(q, q.profile, q.role)

\* `ateam report`: a role whose profile is another gets a runner of its own, or,
\* when that fails, the runner of the others.
OwnProfile(q) == ConfiguredProfile(q.config, "report", q.role)

RoleRunner(q, common, own) ==
  IF \/ q.profile # "" \/ q.agent # "" \/ own.kind = "error"
     \/ OwnProfile(q) = ConfiguredProfile(q.config, "report", "")
  THEN common ELSE own

Dressed(q, common, own) ==
  IF common.kind = "error" THEN common
  ELSE CASE q.action = "report" -> RoleRunner(q, common, own)
         [] q.action = "code" -> [common EXCEPT !.subRuns = SubRunProfile(q)]
         [] OTHER -> common

Answer(q, e, as) ==
  Dressed(q, BuildRunner(q, e, as, Asked(q)), BuildRunner(q, e, as, AskFor(q, OwnProfile(q), q.role)))

RuntimeInit ==
  /\ asked \in Commands
  /\ env = Nil /\ agents = <<>> /\ resolved = {} /\ path = <<>> /\ runner = Nil

RequiresGit(q) == q.action \in {"report", "review", "code", "verify"}
RequiresProject(q) == q.action \notin {"exec", "parallel"}

Locate ==
  /\ env = Nil
  /\ env' = IF RequiresProject(asked) THEN ResolveEnv(asked.fs, asked.cwd, asked.flags)
            ELSE LookupEnv(asked.fs, asked.cwd, asked.flags)
  /\ runner' = IF ~env'.ok THEN Failure("no project")
               ELSE IF RequiresGit(asked) /\ env'.repo = NoDir THEN Failure("no git repo")
               ELSE IF ~HasProject(env') /\ asked.role # "" THEN Failure("--role requires a project") ELSE Nil
  /\ UNCHANGED <<asked, agents, resolved, path>>

Load ==
  /\ env # Nil /\ runner = Nil /\ agents = <<>>
  /\ IF \E i \in DOMAIN Levels(asked, env) : Levels(asked, env)[i].bad
     THEN runner' = Failure("cannot parse") /\ UNCHANGED agents
     ELSE agents' = AgentConfig(asked, env) /\ UNCHANGED runner
  /\ UNCHANGED <<asked, env, resolved, path>>

Underway == runner = Nil /\ agents # <<>>

Visit(n) ==
  /\ Underway /\ path = <<>> /\ n \in DOMAIN agents \ resolved
  /\ path' = <<n>>
  /\ UNCHANGED <<asked, env, agents, resolved, runner>>

Base == agents[Last(path)].base

\* Mutant: a base that is known is taken as it is.
InheritUnresolved ==
  /\ Underway /\ path # <<>> /\ (Base = "" \/ Base \in DOMAIN agents)
  /\ agents' = IF Base = "" THEN agents ELSE [agents EXCEPT ![Last(path)] = Inherited(@, agents[Base])]
  /\ resolved' = resolved \cup {Last(path)} /\ path' = Front(path)
  /\ UNCHANGED <<asked, env, runner>>

Inherit ==
  /\ Underway /\ path # <<>> /\ (Base = "" \/ Base \in resolved)
  /\ agents' = IF Base = "" THEN agents ELSE [agents EXCEPT ![Last(path)] = Inherited(@, agents[Base])]
  /\ resolved' = resolved \cup {Last(path)} /\ path' = Front(path)
  /\ UNCHANGED <<asked, env, runner>>

\* The base first; a name that is under way, or unknown, ends it.
Descend ==
  /\ Underway /\ path # <<>> /\ Base # "" /\ Base \notin resolved
  /\ IF Base \in ToSet(path) THEN runner' = Failure("circular") /\ UNCHANGED path
     ELSE IF Base \notin DOMAIN agents THEN runner' = Failure("unknown base") /\ UNCHANGED path
     ELSE path' = Append(path, Base) /\ UNCHANGED runner
  /\ UNCHANGED <<asked, env, agents, resolved>>

Choose ==
  /\ Underway /\ path = <<>> /\ resolved = DOMAIN agents
  /\ runner' = Answer(asked, env, agents)
  /\ UNCHANGED <<asked, env, agents, resolved, path>>

RuntimeNext == Locate \/ Load \/ (\E n \in DOMAIN agents : Visit(n)) \/ Inherit \/ Descend \/ Choose

RuntimeSpec == RuntimeInit /\ [][RuntimeNext]_runtimeVars
-----------------------------------------------------------------------------
(* Properties *)

Written == AgentConfig(asked, env)

Fields == {"type", "command", "model", "dir", "env", "inside"}

\* What an agent says of a field: nothing, or one value.
Said(ac, f) ==
  CASE f = "env" -> IF ac.env = Unset THEN {} ELSE {ac.env}
    [] f = "inside" -> IF ac.inside THEN {TRUE} ELSE {}
    [] OTHER -> IF ac[f] = "" THEN {} ELSE {ac[f]}

Bases(written, names) == {written[m].base : m \in names \cap DOMAIN written} \ {""}

\* Going from base to base, as it was written: the name one has after k steps, or none.
Lineage(written, n) ==
  LET up[k \in 0..Cardinality(DOMAIN written)] == IF k = 0 THEN {n} ELSE Bases(written, up[k - 1])
  IN up

\* A line that ends, with no name that is unknown.
Grounded(written, n) ==
  /\ \E k \in DOMAIN Lineage(written, n) : Lineage(written, n)[k] = {}
  /\ \A k \in DOMAIN Lineage(written, n) : Lineage(written, n)[k] \subseteq DOMAIN written

Nearest(written, n, f) ==
  LET says(k) == UNION {Said(written[m], f) : m \in Lineage(written, n)[k] \cap DOMAIN written}
      depth == {k \in DOMAIN Lineage(written, n) : says(k) # {}}
  IN IF depth = {} THEN {} ELSE says(Min(depth))

\* Whatever the order of the map: an agent has what the nearest of its line says,
\* and a line that does not end fails every command, and nothing else does.
InheritsFromNearest ==
  /\ Underway /\ resolved = DOMAIN agents =>
       \A n \in DOMAIN agents :
         Grounded(Written, n) /\ \A f \in Fields : Said(agents[n], f) = Nearest(Written, n, f)
  /\ runner \in {Failure("circular"), Failure("unknown base")} =>
       \E n \in DOMAIN agents : ~Grounded(Written, n)

NoFlags == [org |-> NoDir, project |-> NoDir, work |-> NoDir]

\* Not within an organisation's own directory, and with none on the way from source.
NoOrgBelow(fs, source, p) ==
  /\ \A n \in DOMAIN p : p[n] # Org
  /\ \A n \in (Len(source) + 1)..Len(p) : Prefix(p, n) \o <<Org>> \notin fs.dirs

\* From every directory of a project, its own .ateam/ too, a command has the same
\* project, organisation and work directory, and --project names the same; the
\* commands that need a project agree with those that do not.  A directory of the
\* project with an .ateamorg of its own is of another organisation.
SameFromEverywhere ==
  env # Nil /\ env.ok /\ agents = <<>> /\ asked.flags = NoFlags /\ HasProject(env) =>
    LET within == PathInside(asked.cwd, env.source) /\ NoOrgBelow(asked.fs, env.source, asked.cwd)
        alike == {p \in asked.fs.dirs : /\ PathInside(p, env.source) /\ NoOrgBelow(asked.fs, env.source, p)
                                        /\ FindDirUp(asked.fs, p, Project) = env.project}
    IN /\ LookupEnv(asked.fs, asked.cwd, NoFlags) = env
       /\ \A p \in {asked.cwd} \cup (IF within THEN alike ELSE {}) : ResolveEnv(asked.fs, p, NoFlags) = env
       /\ within => \A p \in asked.fs.dirs :
                      \E there \in {Resolve(asked.fs, p, NoDir, env.source)} :
                        there.org = env.org /\ there.project = env.project

\* The same command under every config.toml.
WithAnyConfiguration == {[asked EXCEPT !.config = c] : c \in Configurations}

\* A flag leaves nothing to the configuration, also for a role with a profile of
\* its own, and a role without one runs as the others do.
FlagsSpeakLast ==
  LET chosen == runner # Nil /\ env.ok /\ resolved # {} /\ resolved = DOMAIN agents
      alike == (IF asked.profile # "" /\ asked.action # "code" THEN WithAnyConfiguration ELSE {})
                 \cup (IF asked.action = "report" /\ asked.role \notin DOMAIN asked.config.roles
                       THEN {[asked EXCEPT !.role = ""]} ELSE {})
  IN chosen =>
       /\ \A q \in alike : Answer(q, env, agents) = runner
       /\ runner.kind = "runner" /\ asked.model # "" /\ runner.agent.type # "builtin" =>
            runner.agent.model = asked.model

\* The runner of a command is what the files, the configuration and the flags say
\* of it, the nearest first, wherever the command is typed.
SetUpAsSaid == InheritsFromNearest /\ SameFromEverywhere /\ FlagsSpeakLast
=============================================================================
