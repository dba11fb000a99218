-------------------------------- MODULE Resume --------------------------------
(***************************************************************************)
(* `ateam resume` of a claude run (cmd/resume.go): which CLAUDE_CONFIG_DIR *)
(* the run had (buildRequest of internal/runner, buildProcessEnv of        *)
(* internal/agent), what its row and its cmd.md keep of that, and where,   *)
(* possibly after runtime.hcl was edited, the session is resumed: a claude *)
(* session is only found in the directory it was written to.               *)
(*                                                                         *)
(* A config_dir is "abs", "rel" for one in the state directory, or "role"  *)
(* for one there that has {{ROLE}} in its name.                            *)
(***************************************************************************)
EXTENDS RuntimeConfig

NoPath == <<>>

Below(e, name) == <<StateDir(e), name>>

-----------------------------------------------------------------------------
(* The run *)

\* buildRequest: the template is filled in, and a relative path is in the state directory.
RequestDir(q, e, r) ==
  CASE r.dir = "" -> NoPath
    [] r.dir = "abs" -> <<"abs">>
    [] r.dir = "rel" -> Below(e, "rel")
    [] r.dir = "role" -> Below(e, q.role)

\* buildProcessEnv: the request, then the env of the agent, where "" takes a variable
\* away, then the shell of the command.
RanIn(q, e, r, shell) ==
  CASE RequestDir(q, e, r) # NoPath -> RequestDir(q, e, r)
    [] OTHER -> CASE r.env = Unset -> shell [] r.env = "" -> NoPath [] OTHER -> <<r.env>>

\* cmd.md, "## Specified": what is taken away is another kind of line.
SpecifiedEnv(q, e, r) ==
  CASE RequestDir(q, e, r) # NoPath -> RequestDir(q, e, r)
    [] OTHER -> IF r.env \in {Unset, ""} THEN NoPath ELSE <<r.env>>

\* The row of agent_execs.
RowOf(r) ==
  [agent |-> IF r.agent.type = "builtin" THEN "mock" ELSE r.agent.type,
   profile |-> r.profile, container |-> r.containerType]

-----------------------------------------------------------------------------
(* The resume *)

\* Mutant: every profile is looked up by its name.
AgentOfProfile(ps, as, row) ==
  IF row.profile \in DOMAIN ps /\ ps[row.profile].agent # "" THEN ps[row.profile].agent ELSE row.agent

\* The row has the kind of its agent; the profile tells which of that kind.
AgentOf(ps, as, row) ==
  IF ByAgent(row.profile) THEN TrimPrefix(row.profile)
  ELSE IF row.profile \in DOMAIN ps /\ ps[row.profile].agent # "" THEN ps[row.profile].agent
  ELSE row.agent

\* configDirFromRuntime: templates are left as they are.
ConfigDirFromRuntime(e, ps, as, row) ==
  LET n == AgentOf(ps, as, row)
      dir == IF n \in DOMAIN as THEN as[n].dir ELSE ""
  IN CASE dir = "" -> NoPath [] dir = "abs" -> <<"abs">> [] OTHER -> Below(e, IF dir = "role" THEN "{{ROLE}}" ELSE dir)

\* What cmd.md has, when it can be read and says it, before what the files say now.
ResolveResumeConfigDir(specified, e, ps, as, row) ==
  IF specified # NoPath THEN specified ELSE ConfigDirFromRuntime(e, ps, as, row)

Resumable == {"claude", "codex", "codex-tmux"}

\* --launch, for what ran on the host.
MayLaunch(row) == row.agent \in Resumable /\ row.container \in {"", "none"}

\* launchResume: claude gets the directory, and with none it has that of the shell.
ResumedIn(specified, e, ps, as, row, shell) ==
  LET dir == ResolveResumeConfigDir(specified, e, ps, as, row)
  IN IF row.agent # "claude" \/ dir = NoPath THEN shell ELSE dir

-----------------------------------------------------------------------------
(* Properties *)

Shells == {NoPath, <<"shell">>}
Profiled(r) == r.profile # ""

\* No profile reads as that of a run by --agent, and no agent is without a name.
ToldApart(ps, as) == "" \notin DOMAIN as /\ \A p \in DOMAIN ps : ~ByAgent(p)

\* The agents as runtime.hcl may give them later.
Edited(as) == {as, <<>>} \cup {[n \in DOMAIN as |-> [as[n] EXCEPT !.dir = d]] : d \in {"", "abs", "rel"}}

\* A claude session that may be resumed is looked for where it was written: with its
\* cmd.md, however runtime.hcl was edited since, if the directory was specified at all;
\* without it while nothing was edited, unless the directory came from the env of the
\* agent or from a template, or the run had no project to name its profile, or the name
\* of its profile reads as that of a run by --agent (resume.go:419-507; COMMANDS.md:703-705).
ResumesWhereItRan ==
  runner.kind = "runner" /\ RowOf(runner).agent = "claude" /\ MayLaunch(RowOf(runner)) =>
    LET row == RowOf(runner)
        ps == ProfileConfig(asked, env)
        cmd == SpecifiedEnv(asked, env, runner)
    IN \A shell \in Shells :
         /\ cmd # NoPath =>
              \A as \in Edited(agents) : ResumedIn(cmd, env, ps, as, row, shell) = RanIn(asked, env, runner, shell)
         /\ Profiled(runner) /\ ToldApart(ps, agents) /\ runner.env = Unset /\ runner.dir # "role" =>
              \A specified \in {cmd, NoPath} :
                ResumedIn(specified, env, ps, agents, row, shell) = RanIn(asked, env, runner, shell)
=============================================================================
