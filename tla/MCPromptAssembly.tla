-------------------------- MODULE MCPromptAssembly --------------------------
(* Instances of PromptAssembly for TLC: files in two or three anchors. *)
EXTENDS PromptAssembly

Standard == <<"project", "org", "embedded">>

In(name) == File(<<"report">>, name)
Top(name) == File(<<>>, name)

Intro == In(<<"_pre", "intro">>)
Scope == In(<<"a", "pre", "scope">>)
AFile == In(<<"a", "prompt">>)
Typo  == In(<<"aa", "pre">>)
Odd   == In(<<"a", "pre", "b", "prompt">>)
Part  == Top(<<"part">>)

AllFiles == <<Top(<<"_post">>), Top(<<"_pre">>), Part, In(<<"_post">>), Intro,
              Odd, Scope, In(<<"a", "pre">>), AFile, Typo, In(<<"a", "post">>)>>

\* The directory of a prompt file outside the anchors.
OutsideFiles == <<Top(<<"_pre">>), Top(<<"a", "pre">>), Top(<<"a", "prompt">>), Part>>

Files == AllFiles \o SelectSeq(OutsideFiles, LAMBDA f : f \notin ToSet(AllFiles))

NearRoles == {<<<<"aa">>, <<"a">>>>}

Do(kind, arg) == [do |-> kind, arg |-> arg, default |-> <<>>, file |-> Part]
Text(a) == [front |-> "none", body |-> <<Do("text", a)>>]
Of(front, body) == [front |-> front, body |-> body]

Tree(P) == [a \in ToSet(Places) |-> [f \in {g \in DOMAIN P : a \in P[g]} |-> Text(a)]]

Where == {{}, {"embedded"}, {"project"}, {"org"}, {"project", "embedded"}}
Fixed == [f \in {AFile, Part, Top(<<"_post">>), In(<<"a", "pre">>)} |->
            IF f = In(<<"a", "pre">>) THEN {"org", "embedded"} ELSE {"embedded"}]

\* Four fragments, each anywhere; and files that are not of the prompt.
Trees == {Tree(P @@ Fixed) : P \in [{Intro, Scope, Top(<<"_pre">>), In(<<"_post">>)} -> Where]}
OddTrees == {Tree(P @@ Fixed) : P \in [{Odd, Typo} -> {{}, {"org"}}]}

Base == Tree([f \in {Intro, Scope, Top(<<"_pre">>)} |-> {"project"}] @@ Fixed)

SomeBodies == {Of("none", <<>>), Of("bad", <<Do("text", "t")>>), Of("none", <<Do("unset", "v")>>)}
              \cup {Of("ok", <<Do("text", "t"), Do(k, "previous_report")>>) :
                      k \in {"include", "optional", "fallback", "glob", "dynamic", "nokey"}}
Keys == {"args", "config", "git", "name"} \cup ExecKeys
VarBodies == {Of("none", <<Do("var", k)>>) : k \in Keys}
PartBodies == {Of("ok", <<Do("text", "p")>>), Of("none", <<Do("include", "p")>>),
               Of("none", <<Do("dynamic", "project_info")>>)}

\* One file, and the file it may include, with every kind of body.
BodyTrees ==
  {[a \in ToSet(Places) |->
     [f \in DOMAIN Base[a] |-> IF a = "embedded" /\ f = Part THEN p
                               ELSE IF f = g THEN b ELSE Base[a][f]]] :
     g \in {AFile, Intro}, b \in SomeBodies \cup VarBodies, p \in PartBodies}
  \cup {[Base EXCEPT !["embedded"] = [f \in DOMAIN @ \ {Part} |-> IF f = AFile THEN b ELSE @[f]]] :
          b \in SomeBodies}

Ask(op, tree) ==
  [op |-> op, dirs |-> <<"report">>, role |-> <<"a">>, external |-> FALSE, tree |-> tree,
   custom |-> <<>>, pre |-> FALSE, post |-> FALSE, noinfo |-> FALSE, ignore |-> FALSE,
   at |-> TRUE, path |-> FALSE, raw |-> FALSE, label |-> FALSE, here |-> TRUE, batch |-> FALSE, wire |-> None]

Ops == {"report", "prompt", "paths", "web"}

Outside ==
  [Base EXCEPT !["external"] =
     [f \in {Top(<<"_pre">>), Top(<<"a", "pre">>), Top(<<"a", "prompt">>)} |->
        IF f = Top(<<"_pre">>) THEN Of("none", <<Do("dynamic", "project_info")>>) ELSE Text("external")]]

OutsideWith(k) ==
  [Base EXCEPT !["external"] = [f \in {Top(<<"a", "prompt">>)} |-> Of("none", <<Do("var", k)>>)]]

ArgAsks ==
  {[Ask(op, Outside) EXCEPT !.at = t, !.path = p, !.raw = r, !.label = l, !.pre = w, !.custom = c] :
     op \in {"exec", "show"}, t \in BOOLEAN, p \in BOOLEAN, r \in BOOLEAN, l \in BOOLEAN,
     w \in BOOLEAN, c \in {<<Do("text", "t")>>, <<Do("include", "t")>>}}
  \cup {[Ask(op, OutsideWith(k)) EXCEPT !.path = p, !.batch = b, !.custom = <<Do("var", k)>>] :
          op \in {"exec", "show"}, p \in BOOLEAN, b \in BOOLEAN, k \in Keys}

Asks ==
  {Ask(op, t) : op \in Ops, t \in Trees \cup OddTrees \cup BodyTrees}
  \cup {[Ask(op, t) EXCEPT !.ignore = TRUE, !.pre = TRUE, !.noinfo = n] :
          op \in Ops \ {"web"}, t \in BodyTrees, n \in BOOLEAN}
  \cup {[Ask("web", t) EXCEPT !.here = FALSE] : t \in BodyTrees}
  \cup {[Ask(op, t) EXCEPT !.batch = TRUE] : op \in {"prompt", "paths"}, t \in BodyTrees}
  \cup {[Ask("report", t) EXCEPT !.custom = c, !.post = TRUE] :
          t \in OddTrees \cup BodyTrees, c \in {<<Do("text", "cli")>>, <<Do("unset", "v")>>, <<Do("include", "p")>>}}
  \cup ArgAsks
=============================================================================
