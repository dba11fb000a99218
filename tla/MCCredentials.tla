--------------------------- MODULE MCCredentials ---------------------------
(* Instances of Credentials for TLC. *)
EXTENDS Credentials, TLC

Two == <<"OAUTH", "API">>

Tokens == {"OAUTH", "API"}
None == [n \in {} |-> ""]
Empty == [s \in ScopeNames |-> <<>>]
NoChain == [s \in ScopeNames |-> [n \in Tokens |-> ""]]

Envs == {None, "API" :> "e2", "OAUTH" :> "e1" @@ "API" :> "e2", "OAUTH" :> "" @@ "API" :> "e2"}
FilesHeld == {Empty, [Empty EXCEPT !["org"] = <<Line("API", "o2")>>],
              [Empty EXCEPT !["project"] = <<Line("API", "p2"), Line("OAUTH", "")>>, !["org"] = <<Line("OAUTH", "o1")>>]}
Chains == {NoChain, [NoChain EXCEPT !["global"]["OAUTH"] = "g1"]}

Situation(e, f, c, p, b) ==
  [env |-> e, file |-> f, chain |-> c, project |-> p, container |-> b, backend |-> "keychain", keyring |-> TRUE,
   agentEnv |-> None, extraEnv |-> None, forward |-> Tokens]

Plainly == {Situation(e, f, c, p, b) : e \in Envs, f \in FilesHeld, c \in Chains, p \in BOOLEAN, b \in BOOLEAN}

\* A file with a name twice; a configuration that names a credential, a file as the preferred store, nothing forwarded.
Twice == [Empty EXCEPT !["project"] = <<Line("OAUTH", "p1"), Line("OAUTH", "p2")>>]
Held ==
  {Situation(None, Twice, NoChain, TRUE, FALSE)} \cup
  {q \in Plainly : q.project \/ ~q.container}
  \cup {[q EXCEPT !.agentEnv = "API" :> "c2"] : q \in {r \in Plainly : r.project /\ r.chain = NoChain}}
  \cup {[q EXCEPT !.extraEnv = "API" :> "c2"] : q \in {r \in Plainly : r.project /\ r.container /\ r.chain = NoChain}}
  \cup {[q EXCEPT !.backend = "file", !.keyring = (q.chain # NoChain)] : q \in {r \in Plainly : r.project /\ ~r.container}}
  \cup {[q EXCEPT !.forward = {}] : q \in {r \in Plainly : r.project /\ r.container /\ r.chain = NoChain}}

Job(op, n, s, st) == [op |-> op, name |-> n, value |-> "w", scope |-> s, storage |-> st]
Typed ==
  {Job("set", "OAUTH", "project", "file"), Job("delete", "API", "org", "file"), Job("save", "OAUTH", "project", "file"),
   Job("set", "API", "org", "keychain"), Job("delete", "OAUTH", "global", "keychain")}
=============================================================================
