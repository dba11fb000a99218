--------------------------- MODULE PromptAssembly ---------------------------
(***************************************************************************)
(* How a prompt is put together from the files of the anchors, the most    *)
(* specific anchor first (internal/prompts/assembler), and the commands    *)
(* that do it: a run of a role, its preview by `ateam prompt`, the web     *)
(* page, `ateam exec @FILE` and its preview.                               *)
(*                                                                         *)
(* A file name is the sequence of its dot-separated parts without ".md",   *)
(* a role a sequence of such parts; a text is a sequence of atoms, empty   *)
(* when it is blank.  A body is a sequence of directives.  Nothing happens *)
(* while a prompt is assembled: a request is asked and answered.           *)
(***************************************************************************)
EXTENDS Naturals, Sequences, FiniteSets, SequencesExt

CONSTANTS
  Chain,      \* the standard anchors, the most specific first
  Pool,       \* every file an anchor may hold, in lexical order
  Typos,      \* pairs of roles whose names are within the edit distance
  MaxDepth,   \* DefaultMaxIncludeDepth
  Requests

VARIABLES asked, given

vars == <<asked, given>>

Places == <<"external">> \o Chain

Failed == [ok |-> FALSE, text |-> <<>>]
Done(t) == [ok |-> TRUE, text |-> t]
Refused == [ok |-> FALSE, sections |-> <<>>]
None == [op |-> "none"]

-----------------------------------------------------------------------------
(* File names *)

File(d, n) == [dir |-> d, name |-> n]

MainOf(d, r) == File(d, r \o <<"prompt">>)

IsFragment(f, d, base) == f.dir = d /\ IsPrefix(base, f.name)

\* The last part that is the marker parts the role from the fragment's name.
SplitMarker(f, marker) == SelectLastInSeq(f.name, LAMBDA w : w = marker)

DirKinds == {"_pre", "_post"}

Role(f) == IF Last(f.name) = "prompt" THEN Front(f.name)
           ELSE SubSeq(f.name, 1, (IF SplitMarker(f, "pre") > 1 THEN SplitMarker(f, "pre")
                                   ELSE SplitMarker(f, "post")) - 1)

\* <role>.prompt before <role>.pre, before <role>.post; any other name is none of them.
Kind(f) == CASE Head(f.name) \in DirKinds -> "dir"
             [] Head(f.name) \notin DirKinds /\ Last(f.name) = "prompt" /\ Len(f.name) > 1 -> "main"
             [] Head(f.name) \notin DirKinds /\ Last(f.name) # "prompt"
                  /\ (SplitMarker(f, "pre") > 1 \/ SplitMarker(f, "post") > 1) -> "fragment"
             [] OTHER -> "unknown"

-----------------------------------------------------------------------------
(* The anchors *)

\* A file outside every anchor brings its directory as the first one.
Anchors(q) == IF q.external THEN Places ELSE Chain

Holds(q, a, f) == f \in DOMAIN q.tree[a]

MostSpecific(q, f) == SelectInSeq(Anchors(q), LAMBDA a : Holds(q, a, f))

Exists(q, f) == MostSpecific(q, f) > 0

FirstMatch(q, f) == q.tree[Anchors(q)[MostSpecific(q, f)]][f]

\* Each file once, where the most general anchor that has it puts it.
AllMatches(q, d, base) ==
  FlattenSeq([k \in 1..Len(Anchors(q)) |->
    SelectSeq(Pool, LAMBDA f :
      /\ IsFragment(f, d, base)
      /\ SelectLastInSeq(Anchors(q), LAMBDA a : Holds(q, a, f)) = Len(Anchors(q)) + 1 - k)])

-----------------------------------------------------------------------------
(* The template engine.  An included file keeps its frontmatter, which is  *)
(* cut off only from the files of the framing.                             *)

\* Silent dynamics return "", others what they are named for; what is not
\* registered is an error, and stands as it is when there is no dispatcher.
Dispatch(q, n) ==
  IF ~q.wire.dispatcher THEN Done(<<"{{dynamic}}">>)
  ELSE IF n \notin q.wire.dynamics THEN Failed
  ELSE Done(IF n \in q.wire.silent THEN <<>> ELSE <<n, q.wire.as>>)

Joined(results) ==
  IF \A i \in DOMAIN results : results[i].ok
  THEN Done(FlattenSeq([i \in DOMAIN results |-> results[i].text])) ELSE Failed

WithFrontmatter(c, r) ==
  IF c.front = "none" \/ ~r.ok THEN r ELSE Done(<<"frontmatter">> \o r.text)

\* What an include puts in: below[f] is the text of file f one level further down.
Include(q, d, below) ==
  IF ~q.wire.anchors THEN Failed
  ELSE IF Exists(q, d.file) THEN below[d.file]
  ELSE IF d.do = "include" THEN Failed
  ELSE Done(IF d.do = "fallback" THEN <<d.arg>> ELSE <<>>)

IncludeGlob(q, d, below) ==
  IF ~q.wire.anchors THEN Failed
  ELSE LET fs == AllMatches(q, d.file.dir, d.file.name) IN Joined([i \in DOMAIN fs |-> below[fs[i]]])

\* {{ns.key}} and {{ns.key ? default}}, with the variables of whoever renders: an unknown
\* key of a known namespace is an error, an empty value gives way to the default.
Value(q, d) ==
  CASE d.do = "nokey" -> Failed
    [] d.do = "unset" -> Done(d.default)
    [] d.do = "text"  -> Done(<<d.arg>>)
    [] d.do = "var"   -> IF q.wire.vars[d.arg] = Done(<<>>) THEN Done(d.default)
                         ELSE q.wire.vars[d.arg]

Replacement(q, d, below) ==
  CASE d.do \in {"include", "optional", "fallback"} -> Include(q, d, below)
    [] d.do = "glob"    -> IncludeGlob(q, d, below)
    [] d.do = "dynamic" -> Dispatch(q, d.arg)
    [] OTHER            -> Value(q, d)

RenderBody(q, body, below) == Joined([i \in DOMAIN body |-> Replacement(q, body[i], below)])

\* The text of every file when it is included at a depth.
Rendered(q) ==
  LET At[d \in 1..(MaxDepth + 1)] ==
        IF d > MaxDepth THEN [f \in ToSet(Pool) |-> Failed]
        ELSE LET below == At[d + 1]
             IN [f \in ToSet(Pool) |->
                  IF Exists(q, f)
                  THEN LET c == FirstMatch(q, f) IN WithFrontmatter(c, RenderBody(q, c.body, below))
                  ELSE Failed]
  IN At[1]

\* A file of the framing, and the text of a caller.
RenderFile(q, f) ==
  LET c == FirstMatch(q, f) IN IF c.front = "bad" THEN Failed ELSE RenderBody(q, c.body, Rendered(q))

-----------------------------------------------------------------------------
(* Resolve: the files that frame a prompt, in order *)

\* The prompt file's own directory is the root of the external anchor.
Dirs(q) == IF q.external THEN <<>> ELSE q.dirs

Slot(kind, d, base) == [kind |-> kind, dir |-> d, base |-> base]

PreSlots(q) ==
  [i \in 1..(Len(Dirs(q)) + 1) |-> Slot("dir_pre", SubSeq(Dirs(q), 1, i - 1), <<"_pre">>)]
    \o <<Slot("role_pre", Dirs(q), q.role \o <<"pre">>)>>

\* Mutant: the outer directories close before the inner ones.
PostSlotsRootFirst(q) ==
  <<Slot("role_post", Dirs(q), q.role \o <<"post">>)>>
    \o [i \in 1..(Len(Dirs(q)) + 1) |-> Slot("dir_post", SubSeq(Dirs(q), 1, i - 1), <<"_post">>)]

PostSlots(q) ==
  <<Slot("role_post", Dirs(q), q.role \o <<"post">>)>>
    \o Reverse([i \in 1..(Len(Dirs(q)) + 1) |-> Slot("dir_post", SubSeq(Dirs(q), 1, i - 1), <<"_post">>)])

Stamped(kind, fs) == [i \in DOMAIN fs |-> [slot |-> kind, file |-> fs[i]]]

Framing(q, slots) ==
  FlattenSeq([i \in DOMAIN slots |->
    Stamped(slots[i].kind, AllMatches(q, slots[i].dir, slots[i].base))])

RoleMain(q) == MainOf(Dirs(q), q.role)

-----------------------------------------------------------------------------
(* PromptFile: the files rendered, blank ones left out, the caller's text  *)
(* around them or in the place of the main file                            *)

Section(slot, f, text) == [slot |-> slot, file |-> f, text |-> text]

CliFile == File(<<>>, <<"cli">>)

RenderFraming(q, fs) ==
  [i \in DOMAIN fs |-> [slot |-> fs[i].slot, file |-> fs[i].file, out |-> RenderFile(q, fs[i].file)]]

Sections(rs) == [i \in DOMAIN rs |-> Section(rs[i].slot, rs[i].file, rs[i].out.text)]

Kept(rs) == SelectSeq(Sections(rs), LAMBDA s : s.text # <<>>)

CustomMain(q) == [slot |-> "role_main", file |-> CliFile, out |-> RenderBody(q, q.custom, Rendered(q))]

FileMain(q) == [slot |-> "role_main", file |-> RoleMain(q), out |-> RenderFile(q, RoleMain(q))]

ComposeSections(q) ==
  LET custom == q.custom # <<>>
      main == IF custom THEN CustomMain(q) ELSE FileMain(q)
      all  == RenderFraming(q, Framing(q, PreSlots(q))) \o <<main>>
                \o RenderFraming(q, Framing(q, PostSlots(q)))
  IN IF \/ ~custom /\ ~Exists(q, RoleMain(q))
        \/ \E i \in DOMAIN all : ~all[i].out.ok
        \/ main.out.text = <<>>
     THEN Refused ELSE [ok |-> TRUE, sections |-> Kept(all)]

Wrapper(wanted, slot) == IF wanted THEN <<Section(slot, CliFile, <<slot>>)>> ELSE <<>>

Wrapped(q, r) ==
  IF ~r.ok THEN r
  ELSE [ok |-> TRUE,
        sections |-> Wrapper(q.pre, "cli_pre") \o r.sections \o Wrapper(q.post, "cli_post")]

AllSections(q) == Wrapped(q, ComposeSections(q))

-----------------------------------------------------------------------------
(* Assemble: the same walk a second time, for the web page *)

Prefix(q, n) == SubSeq(Dirs(q), 1, n)

\* Mutant: the posts of the directories from the root to the leaf, as the pres.
WalkStepDown(q, k) ==
  LET n == Len(Dirs(q))
  IN CASE k <= n + 1 -> Stamped("dir_pre", AllMatches(q, Prefix(q, k - 1), <<"_pre">>))
       [] k = n + 2  -> Stamped("role_pre", AllMatches(q, Dirs(q), q.role \o <<"pre">>))
       [] k = n + 3  -> Stamped("role_main", <<RoleMain(q)>>)
       [] k = n + 4  -> Stamped("role_post", AllMatches(q, Dirs(q), q.role \o <<"post">>))
       [] OTHER      -> Stamped("dir_post", AllMatches(q, Prefix(q, k - (n + 5)), <<"_post">>))

\* The k-th step of the walk: down the directories, through the role, up again.
WalkStep(q, k) ==
  LET n == Len(Dirs(q))
  IN CASE k <= n + 1 -> Stamped("dir_pre", AllMatches(q, Prefix(q, k - 1), <<"_pre">>))
       [] k = n + 2  -> Stamped("role_pre", AllMatches(q, Dirs(q), q.role \o <<"pre">>))
       [] k = n + 3  -> Stamped("role_main", <<RoleMain(q)>>)
       [] k = n + 4  -> Stamped("role_post", AllMatches(q, Dirs(q), q.role \o <<"post">>))
       [] OTHER      -> Stamped("dir_post", AllMatches(q, Prefix(q, 2 * n + 5 - k), <<"_post">>))

\* Each file as it comes; the first error ends it, and so does a blank main file.
AddRendered(q, r, f) ==
  LET out == RenderFile(q, f.file)
  IN IF ~r.ok \/ ~out.ok \/ (f.slot = "role_main" /\ out.text = <<>>) THEN Refused
     ELSE IF out.text = <<>> THEN r
     ELSE [ok |-> TRUE, sections |-> Append(r.sections, Section(f.slot, f.file, out.text))]

Assemble(q) ==
  IF ~Exists(q, RoleMain(q)) THEN Refused
  ELSE LET Add(r, f) == AddRendered(q, r, f)
       IN FoldLeft(Add, [ok |-> TRUE, sections |-> <<>>],
                   FlattenSeq([k \in 1..(2 * Len(Dirs(q)) + 5) |-> WalkStep(q, k)]))

-----------------------------------------------------------------------------
(* FindOrphans *)

KnownRoles(q, d) ==
  {Role(f) : f \in {g \in ToSet(Pool) : g.dir = d /\ Kind(g) = "main" /\ Exists(q, g)}}

IsOrphan(q, f) ==
  Exists(q, f) /\ Kind(f) = "fragment" /\ Role(f) \notin KnownRoles(q, f.dir)

\* "did you mean": a known role of the directory whose name is close.
IsHint(q, f, r) == r \in KnownRoles(q, f.dir) /\ <<Role(f), r>> \in Typos

\* Those of the previewed role, or of a name close to it, stop a preview by --paths.
Blocking(q) ==
  {f \in ToSet(Pool) : /\ IsOrphan(q, f) /\ f.dir = Dirs(q)
                       /\ \/ Role(f) = q.role
                          \/ IsHint(q, f, q.role)}

-----------------------------------------------------------------------------
(* The commands *)

\* What a command renders with: whom the prompt is for, whether includes and dynamics
\* are there, which dynamics and which of them are silent, and its variables.
Wire(as, anchors, dispatcher, dynamics, silent, values) ==
  [as |-> as, anchors |-> anchors, dispatcher |-> dispatcher, dynamics |-> dynamics,
   silent |-> silent, vars |-> values]

With(q, wire) == [q EXCEPT !.wire = wire]

\* A key that every run has, that may be absent, that may be empty, and one that no
\* command wires: exec.id, batch and output_file, subrun_args, profile.
ExecKeys == {"id", "batch", "output", "subrun", "profile"}

\* BuildAssemblerVars: no args.*; "config" is roles.enabled or git.repo, "git" another
\* git.*, which asks git in the work directory; exec.* stand as they are written.
AssemblerVars(as) ==
  [args |-> Failed, config |-> Done(<<"config">>), git |-> Done(<<"git">>), name |-> Done(<<as>>)]
    @@ [k \in ExecKeys |-> Done(<<"placeholder">>)]

\* resolveExec takes the place of those exec.*: a sentinel before the run, and
\* then what has to be there.
PreviewVars(as, batch) ==
  [k \in ExecKeys |-> IF k = "profile" THEN Failed
                     ELSE Done(IF k = "batch" /\ batch THEN <<"batch">> ELSE <<"at runtime">>)]
    @@ AssemblerVars(as)

RunVars(as, populated) ==
  [k \in ExecKeys |-> IF k = "subrun" THEN Done(<<>>) ELSE IF k \in populated THEN Done(<<k>>) ELSE Failed]
    @@ AssemblerVars(as)

\* NewReportBundle, which alone has args.*
ReportBundle(q, values) ==
  Wire("report", TRUE, TRUE, {"project_info", "previous_report"},
       IF q.ignore THEN {"previous_report"} ELSE {},
       [values EXCEPT !.args = Done(IF q.ignore THEN <<"true">> ELSE <<"false">>)])

ReportWire(q) == ReportBundle(q, RunVars("report", {"id", "batch", "output"}))

\* `ateam prompt --no-project-info` takes the dynamic away.
PreviewWire(q) ==
  LET w == ReportBundle(q, PreviewVars("report", q.batch))
  IN IF q.noinfo THEN [w EXCEPT !.dynamics = @ \ {"project_info"}] ELSE w

\* The page has no dispatcher and no runtime, and an environment without a config and
\* without a work directory: git is asked where the server runs.
WebWire(q) ==
  Wire("report", TRUE, FALSE, {}, {},
       [AssemblerVars("report") EXCEPT !.config = Done(<<>>),
                                       !.git = IF q.here THEN @ ELSE Done(<<"elsewhere">>)])

\* One dynamic only, which says nothing to a prompt without a label.
ArgWire(as, anchors, label, values) ==
  Wire(as, anchors, TRUE, {"project_info"}, IF label THEN {} ELSE {"project_info"}, values)

\* staticBundle of `ateam exec`, which writes no file; and its preview, for the file.
ExecWire(q, anchors) ==
  ArgWire("exec", anchors, q.label,
          RunVars("exec", IF q.batch THEN {"id", "batch"} ELSE {"id"}))

ShowWire(q, anchors, label) == ArgWire("file", anchors, label, PreviewVars("file", q.batch))

\* PromptText and RawTextPrompt: a text of its own, without anchors.
PlainText(q, out) ==
  IF out.ok THEN Wrapped(q, [ok |-> TRUE, sections |-> IF out.text = <<>> THEN <<>>
                                                         ELSE <<Section("text", CliFile, out.text)>>])
  ELSE Refused

Verbatim == Done(<<"verbatim">>)

\* An argument that is not "@FILE" is the prompt itself.
ArgText(q, wire) ==
  IF q.at THEN RenderBody(With(q, wire), q.custom, [f \in ToSet(Pool) |-> Failed])
  ELSE Done(<<"argument">>)

External(q, wire) == AllSections([With(q, wire) EXCEPT !.external = TRUE, !.custom = <<>>])

\* `ateam exec ARG`
BuildArgPrompt(q) ==
  IF q.raw THEN PlainText(q, IF q.at THEN Verbatim ELSE Done(<<"argument">>))
  ELSE IF q.at /\ q.path THEN External(q, ExecWire(q, TRUE))
  ELSE PlainText(q, ArgText(q, ExecWire(q, FALSE)))

\* `ateam prompt ARG`
PromptLiteralFile(q) ==
  IF q.raw THEN [ok |-> TRUE, sections |-> <<Section("text", CliFile, IF q.at THEN Verbatim.text ELSE <<"argument">>)>>]
  ELSE IF q.path THEN External(q, ShowWire(q, TRUE, TRUE))
  ELSE PlainText(q, ArgText(q, ShowWire(q, FALSE, FALSE)))

Answer(op, r) == asked.op = op /\ given = None /\ given' = r /\ UNCHANGED asked

Init == asked \in Requests /\ given = None

Report  == Answer("report", AllSections(With(asked, ReportWire(asked))))
Preview == Answer("prompt", AllSections(With(asked, PreviewWire(asked))))
Paths   == Answer("paths", IF Blocking(asked) # {} THEN Refused
                           ELSE AllSections(With(asked, PreviewWire(asked))))
WebPage == Answer("web", Assemble(With(asked, WebWire(asked))))
Exec    == Answer("exec", BuildArgPrompt(asked))
Show    == Answer("show", PromptLiteralFile(asked))

Next == Report \/ Preview \/ Paths \/ WebPage \/ Exec \/ Show

Spec == Init /\ [][Next]_vars

-----------------------------------------------------------------------------
(* Properties *)

Composed == /\ given # None /\ given.ok
            /\ asked.op \in {"report", "prompt", "paths", "web"} \/ (asked.op = "exec" /\ asked.at /\ asked.path /\ ~asked.raw)

\* The request as the assembler sees it.
Seen == IF asked.op = "exec" THEN [asked EXCEPT !.external = TRUE, !.custom = <<>>] ELSE asked

ReadBy(f, d, r) ==
  \/ Head(f.name) \in DirKinds /\ IsPrefix(f.dir, d)
  \/ \E w \in {"pre", "post"} : IsFragment(f, d, r \o <<w>>)

\* How far in a file stands: the posts mirror the pres around the main file.
Rank(q, f) ==
  LET n == Len(Dirs(q))
  IN CASE Head(f.name) = "_pre"  -> Len(f.dir)
       [] Head(f.name) = "_post" -> 2 * n + 4 - Len(f.dir)
       [] Head(f.name) \notin DirKinds ->
            IF f = RoleMain(q) THEN n + 2
            ELSE IF IsFragment(f, Dirs(q), q.role \o <<"pre">>) THEN n + 1 ELSE n + 3

MostGeneral(q, f) == SelectLastInSeq(Anchors(q), LAMBDA a : Holds(q, a, f))

Before(q, f, g) ==
  \/ Rank(q, f) < Rank(q, g)
  \/ /\ Rank(q, f) = Rank(q, g)
     /\ \/ MostGeneral(q, f) > MostGeneral(q, g)
        \/ /\ MostGeneral(q, f) = MostGeneral(q, g)
           /\ SelectInSeq(Pool, LAMBDA h : h = f) < SelectInSeq(Pool, LAMBDA h : h = g)

Speaks(q, f) ==
  Exists(q, f) /\ \E i \in DOMAIN FirstMatch(q, f).body : FirstMatch(q, f).body[i].do = "text"

OneMarker(f) == Cardinality({i \in DOMAIN f.name : f.name[i] \in {"pre", "post", "prompt"}}) = 1

\* A prompt has the files that frame it and no others, each once and with the
\* content of the most specific anchor, the inner ones within the outer ones,
\* the general before the specific; and a fragment that no prompt reads is
\* reported as an orphan, and no other (a name with one marker: `a.pre.b.prompt`
\* is a role and a fragment of role a).
EveryFileInItsPlace ==
  LET q == Seen
      fs == SelectSeq(given.sections, LAMBDA s : s.file # CliFile)
      framing == {f \in ToSet(Pool) : ReadBy(f, Dirs(q), q.role) \/ (q.custom = <<>> /\ f = RoleMain(q))}
  IN Composed =>
       /\ \A i, j \in DOMAIN fs : i < j => Before(q, fs[i].file, fs[j].file)
       /\ \A i \in DOMAIN fs : fs[i].file \in framing
       /\ \A f \in framing : Speaks(q, f) => \E i \in DOMAIN fs : fs[i].file = f
       /\ \A f \in ToSet(Pool) : Kind(f) = "fragment" /\ OneMarker(f) /\ Exists(asked, f) =>
            (IsOrphan(asked, f) <=> \A r \in KnownRoles(asked, f.dir) : ~ReadBy(f, f.dir, r))

\* Some file of the prompt's anchors, or the caller's text, has such a directive.
Uses(q, dos, args) ==
  LET Has(body) == \E i \in DOMAIN body : body[i].do \in dos /\ body[i].arg \in args
  IN \/ Has(q.custom)
     \/ \E a \in ToSet(Places) : \E f \in DOMAIN q.tree[a] : Has(q.tree[a][f].body)

Dynamic(q) == Uses(q, {"dynamic"}, {"project_info", "previous_report"})

Knows(q, keys) == Uses(q, {"var"}, keys)

\* The same files in the same slots, or neither is a prompt.
Outline(r) == [ok |-> r.ok, files |-> [i \in DOMAIN r.sections |-> <<r.sections[i].slot, r.sections[i].file>>]]

\* What `ateam prompt` prints, with or without --paths, is what the agent of the run
\* gets, but for exec.*, in whose place it shows a sentinel: then the files are the
\* same and it is refused when the run is, unless one of them may be empty in the run.
\* The web page shows it too, for a prompt without dynamics, args.*, exec.*, config and
\* git facts of another place; it shows nothing of a prompt that is run for args.* or an empty
\* config only, and a prompt that no run renders for what only a page knows or leaves alone.
\* `ateam prompt @FILE` prints what `ateam exec @FILE` gives its agent when the prompt has
\* no prompt.* and exec.* and its project info is silent.  Three walks of the same files.
SameOnEverySurface ==
  LET run == AllSections(With(asked, ReportWire(asked)))
  IN given # None =>
    /\ asked.op \in {"prompt", "paths"} /\ ~asked.noinfo /\ (asked.op = "paths" => given.ok) =>
         /\ ~Knows(asked, ExecKeys \ {"profile"}) => given = run
         /\ ~Knows(asked, {"subrun"}) => Outline(given) = Outline(run)
    /\ asked.op = "web" =>
         /\ ~Dynamic(asked) /\ ~Knows(asked, {"args", "config"} \cup ExecKeys)
              /\ (asked.here \/ ~Knows(asked, {"git"})) => given = run
         /\ given.ok # run.ok => Dynamic(asked) \/ Knows(asked, {"args", "config", "profile", "subrun"})
    /\ asked.op = "show" /\ asked.at /\ ~asked.raw /\ ~Knows(asked, {"name"} \cup ExecKeys)
         /\ (Dynamic(asked) => ~asked.label /\ ~asked.path) => given = BuildArgPrompt(asked)
=============================================================================
