----------------------------- MODULE Credentials -----------------------------
(***************************************************************************)
(* Secrets and the credential an agent gets: the stores of `ateam secret`  *)
(* (internal/secret/store.go, cmd/secret.go), their resolution, and what   *)
(* is left of it in the environment of the agent's process or container    *)
(* (internal/secret, internal/agent, internal/container).                  *)
(*                                                                         *)
(* One requirement "A|B" of an agent.  Several `ateam secret` and one run  *)
(* that is launched work on the same files without a lock; any of them may *)
(* be killed.  A secrets.env is its lines, its comments left out.          *)
(***************************************************************************)
EXTENDS Naturals, Sequences, FiniteSets, SequencesExt

CONSTANTS
  Alternatives,   \* the names of the requirement, as declared
  Situations,     \* what is configured, and where
  Jobs,           \* what an `ateam secret` may be asked to do
  Writers         \* the processes that are

NotSet == "not set"
Blank == ""   \* an empty value
Names == ToSet(Alternatives)
ScopeNames == {"project", "org", "global"}
Lines == [key : STRING, value : STRING]

\* What `ateam secret` is given is not empty; an entry of the keychain is a value or Blank.
ASSUME CredentialsAssumption ==
  /\ Alternatives \in Seq(STRING) /\ Alternatives # <<>>
  /\ \A q \in Situations :
       /\ q.file \in [ScopeNames -> Seq(Lines)]
       /\ DOMAIN q.chain = ScopeNames
       /\ \A s \in ScopeNames :
            /\ q.chain[s] \in [DOMAIN q.chain[s] -> STRING]
            /\ Names \cup {j.name : j \in Jobs} \subseteq DOMAIN q.chain[s]
       /\ \A n \in DOMAIN q.env : q.env[n] \in STRING
       /\ q.project \in BOOLEAN
  /\ Jobs \subseteq [op : {"set", "delete", "save"}, name : STRING, value : STRING \ {NotSet, Blank},
                     scope : STRING, storage : {"file", "keychain"}]

VARIABLES
  held,           \* the situation
  file,           \* secrets.env of each scope
  chain,          \* the keychain
  wpc, job, lines, \* of each writer: where it is, what it does, what it has read
  run,            \* the run that is launched
  clean,          \* history: no two processes at a time, and none killed
  latest          \* history: the `ateam secret` that ended last

secretVars == <<held, file, chain, wpc, job, lines, run, clean, latest>>

Scopes(q) == IF q.project THEN <<"project", "org", "global">> ELSE <<"org", "global">>
Least(places) == CHOOSE i \in places : \A j \in places : i <= j

\* ScopeForName: the widest when there is none of that name.
ScopeForName(q, name) == IF name \in ToSet(Scopes(q)) THEN name ELSE Last(Scopes(q))

-----------------------------------------------------------------------------
(* One file.  Of two lines for a name, the last is read, the first changed. *)

Line(name, value) == [key |-> name, value |-> value]
At(ls, name) == {i \in DOMAIN ls : ls[i].key = name}

Get(ls, name) ==
  IF At(ls, name) = {} THEN NotSet
  ELSE ls[CHOOSE i \in At(ls, name) : \A j \in At(ls, name) : j <= i].value

WithSet(ls, name, value) ==
  IF At(ls, name) = {} THEN Append(ls, Line(name, value))
  ELSE [ls EXCEPT ![Least(At(ls, name))].value = value]

WithDelete(ls, name) ==
  LET out[i \in 0..Len(ls)] ==
        IF i = 0 THEN <<>>
        ELSE IF ls[i].key = name THEN out[i - 1] ELSE Append(out[i - 1], ls[i])
  IN out[Len(ls)]

-----------------------------------------------------------------------------
(* Resolution: the scopes, the preferred backend first in each, then the    *)
(* process environment                                                      *)

FromEnv(q, name) == IF name \in DOMAIN q.env THEN q.env[name] ELSE NotSet

LookupFile(scope, name) == Get(file[scope], name)

\* An empty entry is none, other than in a file.
LookupKeychain(q, scope, name) ==
  IF q.keyring /\ chain[scope][name] # Blank THEN chain[scope][name] ELSE NotSet

ResolveScope(q, scope, name) ==
  LET kept == LookupKeychain(q, scope, name)
      filed == LookupFile(scope, name)
  IN IF q.backend = "keychain"
     THEN IF kept # NotSet THEN kept ELSE filed
     ELSE IF filed # NotSet THEN filed ELSE kept

\* All at once, for `ateam secret`, which has no one to wait for.
ScopesWith(q, name) == {i \in DOMAIN Scopes(q) : ResolveScope(q, Scopes(q)[i], name) # NotSet}

ResolveName(q, name) ==
  IF ScopesWith(q, name) = {} THEN FromEnv(q, name)
  ELSE ResolveScope(q, Scopes(q)[Least(ScopesWith(q, name))], name)

-----------------------------------------------------------------------------
(* What the agent gets *)

Missed == [value |-> NotSet, tier |-> "none"]

\* The entries of one environment over those of another.
Over(e, f) == [n \in DOMAIN e \cup DOMAIN f |-> IF n \in DOMAIN e THEN e[n] ELSE f[n]]

\* The winner is set, the others are emptied where the process environment has them.
Won(q, found, at) ==
  LET winner == Alternatives[at]
      others == {n \in Names \ {winner} : FromEnv(q, n) # NotSet}
      isolated == [n \in others \cup {winner} |-> IF n = winner THEN found[winner].value ELSE Blank]
  IN Over(isolated, q.agentEnv)

Tier(found, tier) == {i \in DOMAIN Alternatives : found[Alternatives[i]].tier = tier}

\* Mutant: the name declared first wins, wherever it was found.
IsolateInOrder(q, found) ==
  LET hits == Tier(found, "store") \cup Tier(found, "env")
  IN IF hits = {} THEN q.agentEnv ELSE Won(q, found, Least(hits))

\* IsolateCredentials
Isolate(q, found) ==
  LET hits == IF Tier(found, "store") # {} THEN Tier(found, "store") ELSE Tier(found, "env")
  IN IF hits = {} THEN q.agentEnv ELSE Won(q, found, Least(hits))

\* buildProcessEnv, upsertEnv, filterEnv
ProcessEnv(q, ac) ==
  [n \in Names |-> IF n \notin DOMAIN ac THEN FromEnv(q, n)
                   ELSE IF ac[n] = Blank THEN NotSet ELSE ac[n]]

\* The container's own env: [container-extra], and the agent's over it.
ContainerEnv(q, ac) == Over(ac, q.extraEnv)

\* `docker -e NAME` takes the value from the environment docker is started with.
StagedEnv(q, d, n) == IF n \notin DOMAIN d THEN FromEnv(q, n) ELSE IF d[n] = Blank THEN NotSet ELSE d[n]

\* Names to forward, unless they have a value, or an empty one, of their own.
BoxEnv(q, d) ==
  [n \in Names |-> IF n \in DOMAIN d \/ n \in q.forward THEN StagedEnv(q, d, n) ELSE NotSet]

Sees(q, ac) == IF q.container THEN BoxEnv(q, ContainerEnv(q, ac)) ELSE ProcessEnv(q, ac)

-----------------------------------------------------------------------------
(* `ateam secret` *)

InFile(w) == job[w].storage = "file"
AtWork(w) == wpc[w] \notin {"idle", "done"}
Busy == (\E w \in Writers : AtWork(w)) \/ run.pc \in {"validate", "isolate"}

\* --save-project-scope writes what it has found anywhere, unless it is there.
Saved(j) ==
  IF j.op = "save" THEN [op |-> "set", name |-> j.name, value |-> ResolveName(held, j.name),
                         scope |-> "project", storage |-> "file"]
  ELSE [j EXCEPT !.scope = ScopeForName(held, j.scope)]

Nothing(j) ==
  j.op = "save" /\ (~held.project \/ ResolveName(held, j.name) \in {NotSet, LookupFile("project", j.name)})

BeginJob(w) ==
  /\ wpc[w] = "idle"
  /\ \E j \in Jobs :
       /\ ~(j.storage = "keychain" /\ ~held.keyring)
       /\ job' = [job EXCEPT ![w] = IF Nothing(j) THEN @ ELSE Saved(j)]
       /\ wpc' = [wpc EXCEPT ![w] = IF Nothing(j) THEN "done" ELSE "open"]
  /\ clean' = (clean /\ ~Busy)
  /\ UNCHANGED <<held, file, chain, lines, run, latest>>

KeychainSet(w) ==
  /\ wpc[w] = "open" /\ ~InFile(w)
  /\ chain' = [chain EXCEPT ![job[w].scope][job[w].name] = IF job[w].op = "set" THEN job[w].value ELSE Blank]
  /\ wpc' = [wpc EXCEPT ![w] = "done"] /\ latest' = w
  /\ UNCHANGED <<held, file, job, lines, run, clean>>

ReadLines(w) ==
  /\ wpc[w] = "open" /\ InFile(w)
  /\ lines' = [lines EXCEPT ![w] = file[job[w].scope]]
  /\ IF job[w].op = "delete" /\ At(file[job[w].scope], job[w].name) = {}
     THEN wpc' = [wpc EXCEPT ![w] = "done"] /\ latest' = w
     ELSE wpc' = [wpc EXCEPT ![w] = "truncate"] /\ UNCHANGED latest
  /\ UNCHANGED <<held, file, chain, job, run, clean>>

\* os.WriteFile empties the file before it writes.
Truncate(w) ==
  /\ wpc[w] = "truncate"
  /\ file' = [file EXCEPT ![job[w].scope] = <<>>]
  /\ wpc' = [wpc EXCEPT ![w] = "write"]
  /\ UNCHANGED <<held, chain, job, lines, run, clean, latest>>

WriteLines(w) ==
  /\ wpc[w] = "write"
  /\ file' = [file EXCEPT ![job[w].scope] =
                IF job[w].op = "set" THEN WithSet(lines[w], job[w].name, job[w].value)
                ELSE WithDelete(lines[w], job[w].name)]
  /\ wpc' = [wpc EXCEPT ![w] = "done"] /\ latest' = w
  /\ UNCHANGED <<held, chain, job, lines, run, clean>>

Killed(w) ==
  /\ AtWork(w)
  /\ wpc' = [wpc EXCEPT ![w] = "done"] /\ clean' = FALSE
  /\ UNCHANGED <<held, file, chain, job, lines, run, latest>>

-----------------------------------------------------------------------------
(* A run: ValidateSecrets for a container, then IsolateCredentials; a name  *)
(* is looked for scope by scope.                                            *)

Unfound == [n \in Names |-> Missed]
Idle == [pc |-> "idle", alt |-> 1, scope |-> 1, found |-> Unfound, sees |-> [n \in Names |-> NotSet], best |-> 0]

\* The order ISOLATION.md gives: a store before the environment, the name declared
\* first before the others.
Best(q) ==
  LET stored == {i \in DOMAIN Alternatives : ScopesWith(q, Alternatives[i]) # {}}
      exported == {i \in DOMAIN Alternatives : FromEnv(q, Alternatives[i]) # NotSet}
      tier == IF stored # {} THEN stored ELSE exported
  IN IF tier = {} THEN 0 ELSE Least(tier)

\* Without a project neither is done.
Launch ==
  /\ run.pc = "idle"
  /\ run' = [run EXCEPT !.best = Best(held),
               !.pc = IF ~held.project THEN "running" ELSE IF held.container THEN "validate" ELSE "isolate",
               !.sees = IF held.project THEN @ ELSE ProcessEnv(held, held.agentEnv)]
  /\ clean' = (clean /\ ~Busy)
  /\ UNCHANGED <<held, file, chain, wpc, job, lines, latest>>

\* The name is found, or is nowhere: the next name, the next pass.
Known(hit) ==
  LET n == Alternatives[run.alt]
      found == [run.found EXCEPT ![n] = hit]
      last == run.alt = Len(Alternatives)
  IN IF run.pc = "validate" /\ hit # Missed
     THEN run' = [run EXCEPT !.pc = "isolate", !.alt = 1, !.scope = 1]
     ELSE IF run.pc = "validate" /\ last THEN run' = [run EXCEPT !.pc = "refused"]
     ELSE IF last THEN run' = [run EXCEPT !.pc = "running", !.found = found,
                                          !.sees = Sees(held, Isolate(held, found))]
     ELSE run' = [run EXCEPT !.alt = @ + 1, !.scope = 1,
                             !.found = IF run.pc = "validate" THEN @ ELSE found]

LookInScope ==
  /\ run.pc \in {"validate", "isolate"} /\ run.scope <= Len(Scopes(held))
  /\ LET value == ResolveScope(held, Scopes(held)[run.scope], Alternatives[run.alt])
     IN IF value # NotSet THEN Known([value |-> value, tier |-> "store"])
        ELSE run' = [run EXCEPT !.scope = @ + 1]
  /\ UNCHANGED <<held, file, chain, wpc, job, lines, clean, latest>>

LookInEnv ==
  /\ run.pc \in {"validate", "isolate"} /\ run.scope > Len(Scopes(held))
  /\ LET value == FromEnv(held, Alternatives[run.alt])
     IN Known(IF value = NotSet THEN Missed ELSE [value |-> value, tier |-> "env"])
  /\ UNCHANGED <<held, file, chain, wpc, job, lines, clean, latest>>

CredentialsInit ==
  /\ held \in Situations
  /\ file = held.file /\ chain = held.chain
  /\ wpc = [w \in Writers |-> "idle"] /\ job = [w \in Writers |-> CHOOSE j \in Jobs : TRUE]
  /\ lines = [w \in Writers |-> <<>>]
  /\ run = Idle /\ clean = TRUE /\ latest = "nobody"

CredentialsNext ==
  \/ \E w \in Writers : BeginJob(w) \/ KeychainSet(w) \/ ReadLines(w) \/ Truncate(w) \/ WriteLines(w) \/ Killed(w)
  \/ Launch \/ LookInScope \/ LookInEnv

CredentialsSpec == CredentialsInit /\ [][CredentialsNext]_secretVars
-----------------------------------------------------------------------------
(* Properties *)

Shown == {n \in Names : run.sees[n] # NotSet}
Started == run.pc = "running"

\* Nothing is configured by hand for a name of the requirement.
Unconfigured == DOMAIN held.agentEnv = {} /\ (held.container => DOMAIN held.extraEnv = {})

\* Whoever writes to the stores, empties them or is killed meanwhile: an agent of
\* a project is given one credential at most, and none of the environment it was
\* not given.
OneCredential ==
  Started /\ held.project /\ Unconfigured =>
    /\ Cardinality(Shown) <= 1
    /\ \A n \in Shown : run.found[n].value = run.sees[n]

\* With nobody else at work it is the one the order says, and a container is never
\* started when there is none.
BestCredential ==
  clean /\ run.pc \in {"running", "refused"} /\ held.project =>
    /\ run.best = 0 /\ held.container => run.pc = "refused"
    /\ run.best # 0 =>
         LET n == Alternatives[run.best]
         IN /\ Started
            /\ run.found[n] # Missed
            /\ run.sees[n] = IF run.found[n].value = Blank THEN NotSet ELSE run.found[n].value

\* No name is in a file twice.
Tidy(ls) == \A i, j \in DOMAIN ls : ls[i].key = ls[j].key => i = j
TidyFound == \A s \in ScopeNames : Tidy(held.file[s])

\* One after the other, what `ateam secret` wrote or deleted is what is read; of a
\* name that an edited file has twice, another line is set than is read.
WritesAreRead ==
  clean /\ ~Busy /\ latest # "nobody" /\ TidyFound =>
    LET j == job[latest]
        now == IF InFile(latest) THEN LookupFile(j.scope, j.name) ELSE LookupKeychain(held, j.scope, j.name)
    IN now = IF j.op = "set" THEN j.value ELSE NotSet

\* See the three: the credential of an agent is one, is the best, and is the stored one.
RightCredential == OneCredential /\ BestCredential /\ WritesAreRead
=============================================================================
