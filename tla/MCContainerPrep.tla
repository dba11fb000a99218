-------------------------- MODULE MCContainerPrep --------------------------
(* Instances of ContainerPrep for TLC. *)
EXTENDS ContainerPrep

Roles == {"r1", "r2"}
Roles3 == {"r1", "r2", "r3"}

O == <<"o">>
P == <<"p">>
S == <<"s">>

\* A project at the top, or below it, of a repository, or of none; the
\* organisation above it, in it, or elsewhere.
Env(org, project, repo, work) ==
  [fs |-> [dirs |-> {org, project, repo, work, Append(project, Project), Append(Append(project, Project), S),
                     Append(Append(org, Org), S), Append(work, <<"..", "s">>), Append(repo, S), <<O, S>>}],
   org |-> Append(org, Org), project |-> Append(project, Project), repo |-> repo, work |-> work]

Envs ==
  {Env(<<O>>, <<O, P>>, r, w) : r \in {NoDir, <<O, P>>, <<O>>, <<O, P, S>>}, w \in {<<O, P>>, <<O, P, S>>}}
  \cup {Env(<<O, P>>, <<O, P>>, <<O, P>>, <<O, P>>), Env(<<O, P, S>>, <<O, P>>, <<O>>, <<O, P>>),
        Env(<<S>>, <<O, P>>, <<O>>, <<O, P>>)}

\* A work directory is in its repository.
Possible == {e \in Envs : e.repo = NoDir \/ PathInside(e.work, e.repo)}

Volume(path, abs) == [path |-> path, absolute |-> abs, at |-> <<S>>, mode |-> "ro"]

Plainly ==
  [type |-> "docker", action |-> "report", env |-> Env(<<O>>, <<O, P>>, <<O, P>>, <<O, P>>), volumes |-> <<>>,
   own |-> {}, autoSetup |-> TRUE, toolchains |-> FALSE, dockerfiles |-> {}, scripts |-> {}, precheck |-> FALSE,
   starts |-> FALSE, copyAteam |-> TRUE, binaries |-> {"self"}, name |-> "app", up |-> {},
   like |-> [n \in {"app", "r1", "r2", "r3"} |-> {n} \cup IF n = "app" THEN {"app-db"} ELSE {}]]

Dockers ==
  {[Plainly EXCEPT !.env = e, !.volumes = v] :
     e \in Possible, v \in {<<>>, <<Volume(<<S>>, FALSE)>>, <<Volume(<<<<"..">>, S>>, FALSE)>>, <<Volume(<<O, Org, S>>, TRUE)>>}}
  \cup {[Plainly EXCEPT !.own = w, !.dockerfiles = d, !.toolchains = t] :
          w \in {{}, {"r1"}}, d \in {{}, {"role"}, {"org", "role"}}, t \in BOOLEAN}

\* One name that is part of another's, or a container for each role.
Named == {<<"app", {"app"}>>, <<"app", {"app", "app-db"}>>, <<"{{ROLE}}", {"r1", "r2"}>>}

\* Whose the runner is, and the script that there is for it.
Scripted == {<<{}, {}>>, <<{}, {"project"}>>, <<{"r1"}, {"role"}>>}

\* A precheck of runtime.hcl, and a binary to copy.
Supplied == {<<FALSE, {}>>, <<FALSE, {"cache"}>>, <<TRUE, {"cache"}>>}

Execs ==
  {[Plainly EXCEPT !.type = "docker-exec", !.own = w[1], !.scripts = w[2], !.precheck = p[1], !.starts = p[1],
                   !.copyAteam = p[2] # {}, !.binaries = p[2], !.name = n[1], !.up = n[2]] :
     w \in Scripted, p \in Supplied, n \in Named}

Configured == Dockers \cup Execs
=============================================================================
