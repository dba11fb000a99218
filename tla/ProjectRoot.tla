---------------------------- MODULE ProjectRoot ----------------------------
(***************************************************************************)
(* Where a command finds its organisation (.ateamorg/), its project        *)
(* (.ateam/) and the directory the agent works in (internal/root,          *)
(* cmd/resolve_env.go), and the ids of projects (internal/config).         *)
(*                                                                         *)
(* A path is the sequence of its components, a component the sequence of   *)
(* its letters.  fs says which directories exist, which are the roots of   *)
(* git repositories and what is in a project's config.toml.  Symbolic      *)
(* links are resolved on arrival and left out.                             *)
(***************************************************************************)
EXTENDS Naturals, Sequences, FiniteSets, FiniteSetsExt, SequencesExt

Org == <<".ateamorg">>
Project == <<".ateam">>
Projects == <<"projects">>

NoDir == <<>>
NoEnv == [ok |-> FALSE]

Prefix(p, n) == SubSeq(p, 1, n)
Parent(p) == Front(p)
PathInside(p, q) == IsPrefix(q, p)

\* The part of the path down to the outermost component of that name; nothing is read.
FindInPath(p, target) ==
  LET at == {n \in DOMAIN p : p[n] = target} IN IF at = {} THEN NoDir ELSE Prefix(p, Min(at))

FindDirUp(fs, p, target) ==
  IF FindInPath(p, target) # NoDir THEN FindInPath(p, target)
  ELSE LET up == {n \in 0..Len(p) : Prefix(p, n) \o <<target>> \in fs.dirs}
       IN IF up = {} THEN NoDir ELSE Prefix(p, Max(up)) \o <<target>>

\* The directory itself, or one above it.
ResolveSpecialDir(fs, p, target) ==
  IF p # NoDir /\ p \in fs.dirs /\ Last(p) = target THEN p ELSE FindDirUp(fs, p, target)

-----------------------------------------------------------------------------
(* The id of a project: "_" twice, "/" as "_" *)

Escaped(c) == FlattenSeq([i \in DOMAIN c |-> IF c[i] = "_" THEN <<"_", "_">> ELSE <<c[i]>>])

PathToProjectID(p) ==
  FlattenSeq([i \in DOMAIN p |-> IF i = 1 THEN Escaped(p[i]) ELSE <<"_">> \o Escaped(p[i])])

\* Letter by letter: a second "_" makes the first a letter, any other makes it a "/".
Decode(r, c) ==
  LET at(letter) == [r EXCEPT !.path[Len(r.path)] = Append(@, letter), !.held = FALSE]
  IN IF c = "_" THEN IF r.held THEN at("_") ELSE [r EXCEPT !.held = TRUE]
     ELSE IF r.held THEN [path |-> Append(r.path, <<c>>), held |-> FALSE] ELSE at(c)

ProjectIDToPath(id) ==
  SelectSeq(FoldLeft(Decode, [path |-> << <<>> >>, held |-> FALSE], id).path, LAMBDA c : c # <<>>)

\* Relative to the directory of the organisation, up with ".." where it has to.
RelPath(base, p) ==
  LET n == Len(LongestCommonPrefix({base, p}))
  IN [i \in 1..(Len(base) - n) |-> <<"..">>] \o SubSeq(p, n + 1, Len(p))

ProjectID(e) ==
  IF e.source = NoDir \/ e.org = NoDir THEN <<>> ELSE PathToProjectID(RelPath(Parent(e.org), e.source))

\* In .ateamorg/projects/<id>/ the id says which project is meant.
FromStateDir(fs, org, p) ==
  LET below == Len(org) + 2
      candidate == Parent(org) \o ProjectIDToPath(p[below]) \o <<Project>>
  IN IF Len(p) >= below /\ PathInside(p, Append(org, Projects)) /\ candidate \in fs.dirs
     THEN candidate ELSE NoDir

DiscoverProject(fs, org, p) ==
  IF org # NoDir /\ FromStateDir(fs, org, p) # NoDir THEN FromStateDir(fs, org, p)
  ELSE FindDirUp(fs, p, Project)

-----------------------------------------------------------------------------
(* The environment of a command *)

TopLevel(fs, p) ==
  LET up == {n \in 0..Len(p) : Prefix(p, n) \in fs.repos} IN IF up = {} THEN NoDir ELSE Prefix(p, Max(up))

WithWorkDir(fs, e, p) == [e EXCEPT !.work = p, !.repo = TopLevel(fs, p)]

\* Without a project only the organisation's directory holds state: scratch mode.
Scratch(fs, org, p) ==
  WithWorkDir(fs, [ok |-> TRUE, org |-> org, project |-> NoDir, source |-> NoDir, work |-> p, repo |-> NoDir], p)

Loaded(fs, org, project, p) ==
  IF project \notin fs.configs THEN NoEnv
  ELSE [Scratch(fs, org, p) EXCEPT !.project = project, !.source = Parent(project)]

HasProject(e) == e.project # NoDir

StateDir(e) == IF HasProject(e) THEN e.project ELSE e.org

LookupFrom(fs, start) ==
  LET org == FindDirUp(fs, start, Org)
      project == DiscoverProject(fs, org, start)
  IN IF project # NoDir THEN Loaded(fs, org, project, start)
     ELSE IF org # NoDir THEN Scratch(fs, org, start) ELSE NoEnv

\* --org and --project name a directory at or above which the other is found.
Resolve(fs, cwd, orgFlag, projectFlag) ==
  LET given == IF projectFlag = NoDir THEN NoDir ELSE ResolveSpecialDir(fs, projectFlag, Project)
      named == IF orgFlag = NoDir THEN NoDir ELSE ResolveSpecialDir(fs, orgFlag, Org)
      org == IF named # NoDir THEN named
             ELSE FindDirUp(fs, IF given # NoDir THEN Parent(given) ELSE cwd, Org)
      project == IF given # NoDir THEN given ELSE DiscoverProject(fs, org, cwd)
  IN IF (projectFlag # NoDir /\ given = NoDir) \/ (orgFlag # NoDir /\ named = NoDir) THEN NoEnv
     ELSE IF project # NoDir THEN Loaded(fs, org, project, cwd)
     ELSE IF org # NoDir THEN Scratch(fs, org, cwd) ELSE NoEnv

Lookup(fs, cwd, orgFlag, projectFlag) ==
  IF orgFlag # NoDir \/ projectFlag # NoDir THEN Resolve(fs, cwd, orgFlag, projectFlag)
  ELSE LookupFrom(fs, cwd)

\* --work-dir, or the root of the project one is in, or where one is.
ApplyWorkDirFlag(fs, e, flag) ==
  IF ~e.ok THEN e
  ELSE IF flag # NoDir THEN WithWorkDir(fs, e, flag)
  ELSE IF HasProject(e) /\ PathInside(e.work, e.source) THEN WithWorkDir(fs, e, e.source)
  ELSE e

ResolveEnv(fs, cwd, flags) ==
  LET e == Resolve(fs, cwd, flags.org, flags.project)
  IN IF ~e.ok \/ ~HasProject(e) THEN NoEnv ELSE ApplyWorkDirFlag(fs, e, flags.work)

LookupEnv(fs, cwd, flags) ==
  ApplyWorkDirFlag(fs, Lookup(fs, cwd, flags.org, flags.project), flags.work)
=============================================================================
