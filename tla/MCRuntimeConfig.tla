-------------------------- MODULE MCRuntimeConfig --------------------------
(* Instances of RuntimeConfig and Resume for TLC: where, from which files, with which flags. *)
EXTENDS Resume

\* An organisation with two projects, one within the other's tree, and a project without.
O == <<"o">>
P == <<"p">>
S == <<"s">>
A == <<"_", "a">>

Home == <<O, P>>
Inner == <<O, P, S, A>>
Alone == <<P, A>>
Roots == {Home, Inner, Alone}

StateOf(p) == <<O, Org, Projects, PathToProjectID(RelPath(<<O>>, p))>>

Tree(roots, repos) ==
  [dirs |-> {<<>>, <<O>>, <<O, Org>>, <<P>>, <<O, S>>, <<O, P, S>>, <<O, P, Project, S>>}
            \cup roots \cup {Append(p, Project) : p \in roots} \cup {StateOf(Home)},
   repos |-> repos,
   configs |-> {Append(p, Project) : p \in roots}]

\* An organisation within a project.
Divided(fs) == [fs EXCEPT !.dirs = @ \cup {<<O, P, S, Org>>}]

Broken(fs) == [fs EXCEPT !.configs = {}]

Trees == {Tree(r, g) : r \in SUBSET Roots, g \in {{}, {Home}, {<<O, P, S>>, Alone}}}
         \cup {Broken(Tree(Roots, {Home})), Divided(Tree(Roots, {Home}))}

Plain == [base |-> "", type |-> "", command |-> "", model |-> "", inside |-> FALSE, dir |-> "", env |-> Unset]
Claude == [Plain EXCEPT !.type = "claude", !.command = "claude"]

Prof(a, c) == [agent |-> a, container |-> c, args |-> ""]
Box(type, name) == [type |-> type, name |-> name]

Shipped ==
  [NoFile EXCEPT
    !.agents = "claude" :> Claude @@ "codex" :> [Plain EXCEPT !.type = "codex", !.command = "codex"]
               @@ "codex-tmux" :> [Plain EXCEPT !.base = "codex", !.type = "codex-tmux"]
               @@ "mock" :> [Plain EXCEPT !.type = "builtin"],
    !.profiles = "default" :> Prof("claude", "none") @@ "docker" :> Prof("claude", "docker")
                 @@ "docker-exec" :> Prof("claude", "docker-exec") @@ "test" :> Prof("mock", "none"),
    !.containers = "none" :> Box("none", "") @@ "docker" :> Box("docker", "")
                   @@ "docker-exec" :> Box("docker-exec", "{{container.name}}")]

Ours ==
  [NoFile EXCEPT
    !.agents = "claude" :> [Claude EXCEPT !.model = "opus"],
    !.profiles = "box" :> Prof("codex-tmux", "docker") @@ "bare" :> Prof("claude", "bare")
                 @@ "codex" :> Prof("codex", "gone") @@ "app" :> [Prof("codex", "app") EXCEPT !.args = "-x"],
    !.containers = "bare" :> Box("", "") @@ "app" :> Box("docker-exec", "") @@ "docker-exec" :> Box("docker-exec", "mine")]

FilesOf(p) == [embedded |-> Shipped, orgDefaults |-> NoFile, org |-> NoFile, project |-> p]

NoConfig == [roles |-> <<>>, review |-> "", code |-> "", codeSupervisor |-> "", supervisor |-> "", project |-> ""]

Configs ==
  {NoConfig, [NoConfig EXCEPT !.roles = "r" :> "app", !.project = "test", !.codeSupervisor = "docker"],
   [NoConfig EXCEPT !.supervisor = "docker-exec"]}

Plainly ==
  [fs |-> Tree({Home}, {Home}), cwd |-> Home, flags |-> NoFlags, files |-> FilesOf(NoFile), config |-> NoConfig,
   action |-> "exec", role |-> "", profile |-> "", agent |-> "", supervisor |-> "", model |-> "", cheaper |-> FALSE,
   budget |-> FALSE, containerName |-> "", stored |-> "", exported |-> "", secrets |-> TRUE, dockerfiles |-> {}]

\* Where it is typed, and the flags that say otherwise.
Places ==
  {[Plainly EXCEPT !.fs = t, !.cwd = d, !.action = a, !.flags = f] :
     t \in Trees, d \in {<<O, P, S>>, <<O, P, Project, S>>, <<P>>, Inner, Alone, StateOf(Home), <<O, S>>},
     a \in {"exec", "review"}, f \in {NoFlags, [NoFlags EXCEPT !.project = Home], [NoFlags EXCEPT !.org = <<O, S>>],
                                      [NoFlags EXCEPT !.work = <<O, S>>, !.project = <<O, P, Project>>]}}

\* Three agents, each with any base, with some of their fields.
Lines ==
  {[Plainly EXCEPT !.agent = "a", !.action = "parallel",
      !.files = [FilesOf([NoFile EXCEPT !.agents = "a" :> [Plain EXCEPT !.base = x, !.model = m[1]]])
                   EXCEPT !.embedded.agents =
                        "a" :> [Plain EXCEPT !.type = "codex"]
                     @@ "b" :> [Plain EXCEPT !.base = y, !.model = m[2], !.inside = i]
                     @@ "c" :> [Plain EXCEPT !.base = z, !.model = m[3], !.type = "codex"]]] :
     x \in {"", "b", "c"}, y \in {"", "a", "c", "d"}, z \in {"", "a", "b"},
     m \in {<<"", "", "m3">>, <<"", "m2", "m3">>, <<"m1", "", "m3">>, <<"", "", "">>}, i \in BOOLEAN}

Profiles == {"", "docker", "docker-exec", "bare", "box", "codex", "app", "mock", "nowhere"}

\* What is done, and by which role.
Done == {<<"exec", "">>, <<"exec", "r">>, <<"report", "r">>, <<"code", "">>, <<"verify", "">>}

\* With a project, or without; with the keychain and the files of secrets, or without.
Standing == {<<{Home}, TRUE>>, <<{}, TRUE>>, <<{Home}, FALSE>>}

Selections ==
  {[Plainly EXCEPT !.action = a[1], !.role = a[2], !.profile = p, !.agent = g, !.files = FilesOf(o),
                 !.fs = Tree(k[1], {Home}), !.secrets = k[2], !.config = c] :
     a \in Done, p \in Profiles, g \in {"", "codex-tmux"}, o \in {NoFile, Ours}, k \in Standing, c \in Configs}

Overrides ==
  {[Plainly EXCEPT !.profile = p, !.action = a, !.files = FilesOf(o), !.model = m, !.cheaper = c, !.budget = b,
                 !.containerName = n, !.stored = s, !.exported = x, !.dockerfiles = {"r"}, !.role = "r"] :
     p \in {"", "docker", "app", "docker-exec"}, a \in {"exec", "report"}, o \in {Ours}, m \in {"", "opus"},
     c \in BOOLEAN, b \in BOOLEAN, n \in {"", "cli"}, s \in {"", "stored"}, x \in {"", "exported"}}

\* Two kinds of claude, in any directory and with any env.
Isolated ==
  {[Plainly EXCEPT !.profile = s[1], !.agent = s[2], !.role = s[3], !.fs = t,
      !.files = FilesOf([NoFile EXCEPT
        !.agents = "own" :> [Plain EXCEPT !.base = "claude", !.dir = d, !.env = v]
                   @@ "claude" :> [Claude EXCEPT !.dir = b],
        !.profiles = "default" :> Prof("own", "none")])] :
     s \in {<<"", "", "">>, <<"default", "", "r">>, <<"", "own", "r">>, <<"test", "", "">>}, t \in {Tree({Home}, {Home}), Tree({}, {Home})},
     d \in {"", "abs", "rel", "role"}, b \in {"", "abs"}, v \in {Unset, "", "env"}}

Typed == Places \cup Lines \cup Selections \cup Overrides \cup Isolated
         \cup {[Plainly EXCEPT !.files.org.bad = TRUE]}
=============================================================================
