---------------------------- MODULE ContainerPrep ----------------------------
(***************************************************************************)
(* The containers of a pool (internal/container, buildContainer of         *)
(* cmd/table.go): what they are built and prepared with, once for all the  *)
(* workers that share them, where their files are, and what the agents     *)
(* that run in them find.                                                  *)
(*                                                                         *)
(* A runner is the one of the pool, or that of a task whose role has a     *)
(* profile of its own; a run clones the container of its runner.  "docker" *)
(* starts a container for each run from one image, "docker-exec" enters a  *)
(* container that its owner starts, stops and makes anew.  Any docker      *)
(* command may fail, and fails when the run it is for has ended.           *)
(***************************************************************************)
EXTENDS ProjectRoot, TLC

CONSTANTS
  Tasks,      \* the roles of the pool
  Cases       \* how it is configured, and where

\* A verdict of a guard is no task; a work directory is in its repository.
ASSUME ContainerAssumption ==
  /\ Tasks \cap {"ok", "failed"} = {}
  /\ \A q \in Cases :
       /\ {q.env.org, q.env.project, q.env.repo, q.env.work} \cup q.env.fs.dirs \subseteq Seq(Seq(STRING))
       /\ q.env.repo # NoDir => PathInside(q.env.work, q.env.repo)

VARIABLES
  config,     \* the configuration
  up,         \* the containers that run
  inside,     \* what has been done to each container as it is now
  image,      \* the Dockerfile behind the tag of the project
  guard,      \* PrepareGuard of each runner and, for docker-exec, container
  tpc, ctx,   \* of each run: where it is; whether its time is up
  name,       \* ContainerName of its clone
  ran,        \* the image of the agent of each run
  effects,    \* history: what was done, for which guard
  lost        \* history: what of it was done to a container made anew since

boxVars == <<config, up, inside, image, guard, tpc, ctx, name, ran, effects, lost>>

-----------------------------------------------------------------------------
(* What a runner's container is built with *)

Pool == "pool"

RunnerOf(t) == IF t \in config.own THEN t ELSE Pool

\* The role's, the project's, the organisation's, its default.
SearchPath == <<"role", "project", "org", "defaults">>

Found(present, r, otherwise) ==
  LET at == SelectInSeq(SearchPath, LAMBDA p : p \in present /\ ~(p = "role" /\ r = Pool))
  IN IF at = 0 THEN otherwise ELSE <<SearchPath[at], IF SearchPath[at] = "role" THEN r ELSE "">>

\* A project without a Dockerfile is given one when its tools are recognised.
AutoSetupDockerfile(q) ==
  IF q.autoSetup /\ q.toolchains THEN q.dockerfiles \cup {"project"} ELSE q.dockerfiles

ResolveDockerfile(q, r) == Found(AutoSetupDockerfile(q), r, <<"embedded", "">>)

\* What runtime.hcl says, or a script of that name.
ResolvePrecheckCmd(q, r) ==
  IF q.precheck THEN <<"config", "">> ELSE Found(q.scripts, r, <<>>)

\* A copy made before goes first, however old it is; without one it is compiled.
FindLinuxBinary(q) ==
  LET at == SelectInSeq(<<"self", "build", "companion", "cache", "source">>, LAMBDA p : p \in q.binaries)
  IN at # 0

HasBinary(q) == q.copyAteam /\ FindLinuxBinary(q)

-----------------------------------------------------------------------------
(* Where the files are.  b is a container: the work directory and its      *)
(* repository, the project, the organisation, the volumes.                 *)

CodeRoot == <<<<"workspace">>>>
OrgRoot == <<Org>>

\* Going up, or into what is called "..something".
Outside(rel) == rel # <<>> /\ Head(Head(rel)) = ".."
RelativeUnder(p, base) == ~Outside(RelPath(base, p))

\* filepath.Join
Clean(p) ==
  LET out[i \in 0..Len(p)] ==
        IF i = 0 THEN <<>>
        ELSE IF p[i] # <<"..">> THEN Append(out[i - 1], p[i])
        ELSE IF out[i - 1] = <<>> THEN <<>> ELSE Front(out[i - 1])
  IN out[Len(p)]
Join(p, rel) == Clean(p \o rel)

BoxDirs(e) == [source |-> e.work, repo |-> e.repo, project |-> e.project, org |-> e.org,
            volumes |-> <<>>, writable |-> FALSE]

MountDir(b) == IF b.repo # NoDir THEN b.repo ELSE b.source

\* A volume is in the source or in the organisation, or the runner is not built.
ResolveVolumePath(b, vol) == IF vol.absolute THEN Clean(vol.path) ELSE Join(b.source, vol.path)
Allowed(b, vol) ==
  \/ RelativeUnder(ResolveVolumePath(b, vol), b.source)
  \/ b.org # NoDir /\ RelativeUnder(ResolveVolumePath(b, vol), b.org)

SourceMountMode(b) == IF b.writable THEN "rw" ELSE "ro"

Mount(from, at, mode) == [from |-> from, at |-> at, mode |-> mode]

TranslatePath(b, p) ==
  IF b.org # NoDir /\ RelativeUnder(p, b.org) THEN Join(OrgRoot, RelPath(b.org, p))
  ELSE IF RelativeUnder(p, MountDir(b)) THEN Join(CodeRoot, RelPath(MountDir(b), p))
  ELSE p

\* Over the source, where it is part of it; else nowhere.
ProjectDirArgs(b) ==
  IF TranslatePath(b, b.project) = b.project THEN {}
  ELSE {Mount(b.project, TranslatePath(b, b.project), "rw")}

BaseRunArgs(b) ==
  {Mount(MountDir(b), CodeRoot, SourceMountMode(b))}
    \cup (IF b.org = NoDir THEN {} ELSE {Mount(b.org, OrgRoot, "rw")})
    \cup ProjectDirArgs(b)
    \cup {Mount(ResolveVolumePath(b, v), v.at, v.mode) : v \in ToSet(b.volumes)}

\* -w: of docker.
ContainerPaths(b) ==
  LET rel == RelPath(MountDir(b), b.source)
  IN IF Outside(rel) THEN CodeRoot ELSE Join(CodeRoot, rel)

\* -w: of docker-exec, which takes it for granted that the repository is mounted
\* there; any other template has none.
ExecWorkDir(b) == IF b.repo = NoDir THEN CodeRoot ELSE Join(CodeRoot, RelPath(b.repo, b.source))

\* buildRunner calls it for every command.
SetSourceWritable(b) == [b EXCEPT !.writable = TRUE]

BuildContainer(q) == SetSourceWritable([BoxDirs(q.env) EXCEPT !.volumes = q.volumes])

-----------------------------------------------------------------------------
(* Prepare *)

Docker == config.type = "docker"

\* ResolveTemplates: {{ROLE}}, or a name for all.
ConfiguredName(t) == IF config.name = "{{ROLE}}" THEN t ELSE config.name

\* Mutant: one guard for all the containers of a runner.
KeyOfRunner(t) == <<RunnerOf(t), "">>

Key(t) == <<RunnerOf(t), IF Docker THEN "" ELSE name[t]>>

Live(t) == ctx[t] = "live"
Tried(k) == k \in DOMAIN guard
Done(t, what) == <<Key(t), what>>
Decided == {"ok", "failed"}
Working == {"copy", "precheck", "build"}

MoveTo(t, where) == tpc' = [tpc EXCEPT ![t] = where]

\* docker ps, for each clone; a part of a name will do when it is that of one only.
Matching(t) == {c \in up : c \in config.like[ConfiguredName(t)]}

ResolveRunningContainerName(t) ==
  /\ tpc[t] = "resolve"
  /\ \/ Cardinality(Matching(t)) = 1 /\ Live(t) /\ name' = [name EXCEPT ![t] = CHOOSE c \in Matching(t) : TRUE] /\ MoveTo(t, "guard")
     \/ Matching(t) = {} /\ Live(t) /\ MoveTo(t, "not running") /\ UNCHANGED name
     \/ Cardinality(Matching(t)) > 1 /\ Live(t) /\ MoveTo(t, "ambiguous") /\ UNCHANGED name
     \/ ~Live(t) /\ MoveTo(t, "timed out") /\ UNCHANGED name
     \/ MoveTo(t, "not listed") /\ UNCHANGED name
  /\ UNCHANGED <<config, up, inside, image, guard, ctx, ran, effects, lost>>

\* The first does the work.
GuardDo(t) ==
  /\ tpc[t] = "guard" /\ ~Tried(Key(t))
  /\ guard' = [k \in DOMAIN guard \cup {Key(t)} |-> IF k = Key(t) THEN t ELSE guard[k]]
  /\ MoveTo(t, IF Docker THEN "build" ELSE "copy")
  /\ UNCHANGED <<config, up, inside, image, ctx, name, ran, effects, lost>>

\* The others wait, whatever becomes of their own time, and share its verdict.
GuardWait(t) ==
  /\ tpc[t] = "guard" /\ Tried(Key(t)) /\ guard[Key(t)] \in Decided
  /\ MoveTo(t, IF guard[Key(t)] = "ok" THEN "prepared" ELSE "failed")
  /\ UNCHANGED <<config, up, inside, image, guard, ctx, name, ran, effects, lost>>

Verdict(t, v) ==
  /\ guard' = [guard EXCEPT ![Key(t)] = v]
  /\ MoveTo(t, IF v = "ok" THEN "prepared" ELSE "failed")

EnsureBinary(t) ==
  /\ tpc[t] = "copy"
  /\ \/ ~HasBinary(config) /\ MoveTo(t, "precheck") /\ UNCHANGED <<guard, inside, effects>>
     \/ HasBinary(config) /\ Live(t) /\ name[t] \in up /\ MoveTo(t, "precheck")
          /\ effects' = Append(effects, Done(t, "copy")) /\ UNCHANGED guard
          /\ inside' = inside \cup {<<name[t], "copy">>}
     \/ HasBinary(config) /\ Verdict(t, "failed") /\ UNCHANGED <<inside, effects>>
  /\ UNCHANGED <<config, up, image, ctx, name, ran, lost>>

\* On the host; it may start the container.
RunPrecheck(t) ==
  /\ tpc[t] = "precheck"
  /\ \/ ResolvePrecheckCmd(config, RunnerOf(t)) = <<>> /\ Verdict(t, "ok") /\ UNCHANGED <<up, inside, effects>>
     \/ ResolvePrecheckCmd(config, RunnerOf(t)) # <<>> /\ Live(t) /\ Verdict(t, "ok")
          /\ up' = (up \cup IF config.starts THEN {name[t]} ELSE {})
          /\ effects' = Append(effects, Done(t, "precheck"))
          /\ inside' = inside \cup {<<name[t], "precheck">>}
     \/ ResolvePrecheckCmd(config, RunnerOf(t)) # <<>> /\ Verdict(t, "failed")
          /\ UNCHANGED <<up, inside, effects>>
  /\ UNCHANGED <<config, image, ctx, name, ran, lost>>

EnsureImage(t) ==
  /\ tpc[t] = "build"
  /\ \/ Live(t) /\ Verdict(t, "ok") /\ image' = ResolveDockerfile(config, RunnerOf(t))
          /\ effects' = Append(effects, Done(t, "build"))
     \/ Verdict(t, "failed") /\ UNCHANGED <<image, effects>>
  /\ UNCHANGED <<config, up, inside, ctx, name, ran, lost>>

\* setupContainer is over, the agent is started: `docker run` of what the tag names
\* by then, or `docker exec`.
Run(t) ==
  /\ tpc[t] = "prepared"
  /\ \/ Live(t) /\ (Docker \/ name[t] \in up) /\ MoveTo(t, "running")
          /\ ran' = [ran EXCEPT ![t] = image]
     \/ MoveTo(t, "failed to start") /\ UNCHANGED ran
  /\ UNCHANGED <<config, up, inside, image, guard, ctx, name, effects, lost>>

Finish(t) ==
  /\ tpc[t] = "running"
  /\ MoveTo(t, "done")
  /\ UNCHANGED <<config, up, inside, image, guard, ctx, name, ran, effects, lost>>

\* --timeout counts from before the container is prepared.
Expire(t) ==
  /\ Live(t) /\ tpc[t] \in Working \cup {"resolve", "guard", "prepared"}
  /\ ctx' = [ctx EXCEPT ![t] = "expired"]
  /\ UNCHANGED <<config, up, inside, image, guard, tpc, name, ran, effects, lost>>

\* What the owner of a container does: docker stop and docker start, which leave it as
\* it is, and docker run of a new one with its name.
Stop(c) ==
  /\ c \in up /\ ~Docker
  /\ up' = up \ {c}
  /\ UNCHANGED <<config, inside, image, guard, tpc, ctx, name, ran, effects, lost>>

StartAgain(c) ==
  /\ c \notin up /\ ~Docker
  /\ up' = up \cup {c}
  /\ UNCHANGED <<config, inside, image, guard, tpc, ctx, name, ran, effects, lost>>

Recreate(c) ==
  /\ ~Docker
  /\ up' = up \cup {c}
  /\ inside' = {d \in inside : d[1] # c}
  /\ lost' = lost \cup {e \in ToSet(effects) : e[1][2] = c}
  /\ UNCHANGED <<config, image, guard, tpc, ctx, name, ran, effects>>

BoxInit ==
  /\ config \in Cases
  /\ up = config.up /\ inside = {} /\ image = <<>> /\ guard = <<>> /\ effects = <<>> /\ lost = {}
  /\ tpc = [t \in Tasks |-> IF \E v \in ToSet(config.volumes) : ~Allowed(BuildContainer(config), v) THEN "not built"
                           ELSE IF Docker THEN "guard" ELSE "resolve"]
  /\ ctx = [t \in Tasks |-> "live"] /\ name = [t \in Tasks |-> ""]
  /\ ran = [t \in Tasks |-> <<>>]

BoxNext ==
  \/ \E t \in Tasks : \/ ResolveRunningContainerName(t) \/ GuardDo(t) \/ GuardWait(t)
                      \/ EnsureBinary(t) \/ RunPrecheck(t) \/ EnsureImage(t)
                      \/ Run(t) \/ Finish(t) \/ Expire(t)
  \/ \E c \in up : Stop(c)
  \/ \E c \in config.up : StartAgain(c) \/ Recreate(c)

BoxSpec == BoxInit /\ [][BoxNext]_boxVars
-----------------------------------------------------------------------------
(* Properties *)

Running(t) == tpc[t] \in {"running", "done"}

\* What an agent may count on in its container.
Needed(t) ==
  IF Docker THEN {"build"}
  ELSE (IF HasBinary(config) THEN {"copy"} ELSE {})
         \cup (IF ResolvePrecheckCmd(config, RunnerOf(t)) # <<>> THEN {"precheck"} ELSE {})

\* The work of a guard is for the container that is entered, whatever its name
\* was resolved to: it is done before an agent is, once, never while an agent of the
\* same runner is, and what the first of its workers makes of it is what all of them
\* do.  What of it the container has not, was lost with a container of that name that
\* its owner has made anew since: the guard does nothing for the new one.
PreparedOnce ==
  /\ \A t \in Tasks : Running(t) =>
       \A what \in Needed(t) :
         LET work == <<<<RunnerOf(t), IF Docker THEN "" ELSE name[t]>>, what>>
         IN work \in ToSet(effects) /\ (Docker \/ <<name[t], what>> \in inside \/ work \in lost)
  /\ \A i, j \in DOMAIN effects : effects[i] = effects[j] => i = j
  /\ \A t, u \in Tasks : Running(t) /\ Key(t) = Key(u) => tpc[u] \notin Working \cup {"failed"}

\* The runners of a project build under one tag.  An agent is in an image of its own
\* runner's Dockerfile, or of that of a runner which built after its own had.
ImageOfABuild ==
  \A t \in Tasks : Running(t) /\ Docker =>
    \E i, j \in DOMAIN effects :
      /\ i <= j /\ effects[i] = <<<<RunnerOf(t), "">>, "build">>
      /\ ran[t] = ResolveDockerfile(config, effects[j][1][1])

\* The file at a place of a docker container: that of the innermost mount.
Behind(b, p) ==
  LET over == {m \in BaseRunArgs(b) : PathInside(p, m.at)}
  IN IF over = {} THEN Mount(NoDir, p, "none")
     ELSE LET m == CHOOSE n \in over : \A k \in over : Len(k.at) <= Len(n.at)
          IN Mount(m.from \o SubSeq(p, Len(m.at) + 1, Len(p)), p, m.mode)

Plain(p) == \A i \in DOMAIN p : Head(p[i]) # ".."

\* The work directory is part of the mounted tree, and that of the project too.
Whole(b) == PathInside(b.project, MountDir(b)) \/ (b.org # NoDir /\ PathInside(b.project, b.org))

\* What the runner names to a docker agent that has no volumes is the file it means,
\* when it is under what is mounted (the repository, or the work directory, and the
\* organisation): the state of the organisation can be written, and of a project that
\* is there, and the agent starts where the work directory is.  No directory on the
\* way is called "..something", which is taken for one above.
SeesItsFiles ==
  \A t \in Tasks : Running(t) /\ Docker /\ config.volumes = <<>> =>
    LET b == BuildContainer(config)
    IN Plain(b.project) /\ Plain(b.source) =>
       /\ \A p \in config.env.fs.dirs :
            Plain(p) /\ (PathInside(p, MountDir(b)) \/ (b.org # NoDir /\ PathInside(p, b.org))) =>
              Behind(b, TranslatePath(b, p)).from = p
       /\ Behind(b, ContainerPaths(b)).from = b.source
       /\ Whole(b) => Behind(b, TranslatePath(b, b.project)) = Mount(b.project, TranslatePath(b, b.project), "rw")
       /\ b.org # NoDir => Behind(b, TranslatePath(b, b.org)).mode = "rw"

\* See the three: the container an agent is started in was made ready for it, as long
\* as it is the same one, the image is of a build that followed its own, and it finds
\* the files that are mounted.
PreparedBeforeUse == PreparedOnce /\ ImageOfABuild /\ SeesItsFiles

\* ISOLATION.md:191: "a precheck script that brings the container up".  False:
\* docker ps is asked for the container first, and nobody comes to the precheck.
PrecheckBringsItUp == \A t \in Tasks : config.starts => tpc[t] # "not running"
=============================================================================
