------------------------------ MODULE Campaign ------------------------------
(***************************************************************************)
(* `ateam all` and `ateam report --review`: which phase starts after which *)
(* outcome (cmd/all.go, report.go, review.go, code.go, verify.go), and     *)
(* what each phase reads of what the ones before it left in the project's  *)
(* shared directory.                                                       *)
(*                                                                         *)
(* One bundle of a stage is one step here: BundleStage has its inside, and *)
(* that a stage with a failed or skipped bundle makes the command fail.    *)
(* A report or a review is old (from before this command) or new.  The     *)
(* coding sub-runs are `ateam exec` processes that the supervisor agent    *)
(* starts as it likes; they share only the database with the command.      *)
(***************************************************************************)
EXTENDS Naturals, FiniteSets

CONSTANTS
  Roles,      \* roles that have a prompt
  Subs,       \* coding sub-runs the supervisor may start
  Options     \* the ways the command may be called

ASSUME CampaignAssumption ==
  /\ "all" \notin Roles
  /\ IsFiniteSet(Roles) /\ IsFiniteSet(Subs)
  /\ Options \subseteq
       [cmd    : {"all", "report"},
        names  : SUBSET (Roles \cup {"all"}),   \* --roles
        auto   : BOOLEAN,                       \* --auto-roles
        plan   : BOOLEAN,                       \* --plan-only
        review : BOOLEAN,                       \* report --review
        every  : BOOLEAN,                       \* --all
        window : {"none", "set", "bad"},        \* --max-age
        cap    : Nat]                           \* --max-budget-usd-batch, in sub-runs

VARIABLES
  opt, status,     \* the call, and config.toml's word on each role
  phase, step,     \* where the command is
  exit,            \* how it ended
  named,           \* runAllRoles, or opts.Roles of the review
  ran,             \* ran[r]: what became of the role's bundle
  report, review,  \* the files in shared/
  read,            \* the reports in the review's prompt, with their age
  sub,             \* sub[i]: a coding sub-run and its row
  checked,         \* sub-runs that had a row when the batch was checked
  told             \* what the execution report's counters say

files == <<report, review>>
batch == <<sub, checked, told>>
vars == <<opt, status, phase, step, exit, named, ran, report, review, read,
          sub, checked, told>>

Plan == 1   Report == 2   Review == 3   Code == 4   Verify == 5
SubStates == {"unborn", "started", "refused", "open", "ok", "failed", "lost"}

Init ==
  /\ opt \in Options
  /\ status \in [Roles -> {"on", "off", "unlisted"}]
  /\ phase = Plan /\ step = "begin" /\ exit = "no"
  /\ named = opt.names
  /\ ran = [r \in Roles |-> "idle"]
  /\ report \in [Roles -> {"none", "old"}]
  /\ review \in {"none", "there"}
  /\ read = {}
  /\ sub = [i \in Subs |-> "unborn"]
  /\ checked = {}
  /\ told = "clean"

At(p, s) == phase = p /\ step = s
Goto(s) == step' = s /\ UNCHANGED phase
Pass(p) == phase' = p + 1 /\ step' = "begin"

-----------------------------------------------------------------------------
(* Plan: the flags, and the planner of --auto-roles. *)

FlagsAgree == /\ ~(opt.auto /\ opt.names # {})
              /\ opt.plan => opt.auto

Flags ==
  /\ At(Plan, "begin")
  /\ Goto(IF ~FlagsAgree THEN "bad" ELSE IF opt.auto THEN "planning" ELSE "planned")
  /\ UNCHANGED <<opt, status, exit, named, ran, files, read, batch>>

\* autoRolesRecommend: the agent fails, or its output has no marker or names
\* a role nobody knows; else it names some known roles, enabled or not.
Recommendations == {[error |-> TRUE, roles |-> {}]}
                     \cup [error : {FALSE}, roles : SUBSET Roles]

\* runAutoRoles: nothing recommended, or --plan-only, ends the command well.
PlannerEnds ==
  /\ At(Plan, "planning")
  /\ \E answer \in Recommendations :
       LET enough == answer.roles = {} \/ opt.plan
       IN /\ Goto(IF answer.error THEN "bad" ELSE IF enough THEN "enough" ELSE "planned")
          /\ named' = IF enough THEN named ELSE answer.roles
  /\ UNCHANGED <<opt, status, exit, ran, files, read, batch>>

\* parseMaxAge comes after the planner has run.
Planned ==
  /\ At(Plan, "planned")
  /\ IF opt.window = "bad" THEN Goto("bad") ELSE Pass(Plan)
  /\ UNCHANGED <<opt, status, exit, named, ran, files, read, batch>>

-----------------------------------------------------------------------------
(* Report. *)

\* enabledRoleIDs: a role has to be listed as on.
EnabledRoles == {r \in Roles : status[r] = "on"}

\* promptdata.ResolveRoleList
SelectedRoles == IF named = {} \/ "all" \in named THEN EnabledRoles ELSE named

\* The roles whose prompt does not preview are passed over with a warning;
\* without any left, and when the runner or the guard refuses, it is an error.
SelectRoles ==
  /\ At(Report, "begin")
  /\ \E good \in SUBSET SelectedRoles :
       /\ ran' = [r \in Roles |-> CASE r \in good -> "queued"
                                    [] r \in SelectedRoles \ good -> "unrendered"
                                    [] OTHER -> "idle"]
       /\ \/ Goto("bad")
          \/ good # {} /\ Goto("reporting")
  /\ UNCHANGED <<opt, status, exit, named, files, read, batch>>

\* One bundle of the stage: the run writes its report, or ends well without
\* a file and without a word, or fails; or its bundle is skipped.
ReportEnds(r) ==
  /\ At(Report, "reporting")
  /\ ran[r] = "queued"
  /\ \E o \in {"wrote", "silent", "failed", "skipped"} :
       /\ ran' = [ran EXCEPT ![r] = o]
       /\ report' = IF o = "wrote" THEN [report EXCEPT ![r] = "new"] ELSE report
  /\ UNCHANGED <<opt, status, phase, step, exit, named, review, read, batch>>

\* flow.Run returns at Verify: a prompt that previewed a moment ago no longer
\* does.  The table has counted nothing.
NothingStarted ==
  /\ At(Report, "reporting")
  /\ \A r \in Roles : ran[r] \in {"idle", "queued", "unrendered"}
  /\ ran' = [r \in Roles |-> IF ran[r] = "queued" THEN "unrendered" ELSE ran[r]]
  /\ Goto("reported")
  /\ UNCHANGED <<opt, status, exit, named, files, read, batch>>

Count(states) == Cardinality({r \in Roles : ran[r] \in states})

\* `ateam report` reviews only after a round without failures and skips.
AutoReview == /\ opt.review
              /\ Count({"failed", "skipped"}) = 0
              /\ Count({"wrote", "silent"}) > 0

\* The review of `ateam report` gets opts.Roles, not what the planner chose.
ReviewNames == IF opt.cmd = "report" THEN opt.names ELSE named

CloseReportAnyway ==
  /\ At(Report, "reporting") \/ At(Report, "reported")
  /\ Count({"queued"}) = 0
  /\ CASE opt.cmd = "all" -> Pass(Report)
       [] opt.cmd = "report" /\ AutoReview -> Pass(Report)
       [] OTHER -> Goto(IF Count({"failed", "skipped"}) > 0 THEN "bad" ELSE "enough")
  /\ named' = ReviewNames
  /\ UNCHANGED <<opt, status, exit, ran, files, read, batch>>

\* tr.Close and what follows: `all` stops at any failure or skip.
CloseReport ==
  /\ At(Report, "reporting") \/ At(Report, "reported")
  /\ Count({"queued"}) = 0
  /\ IF opt.cmd = "report" /\ AutoReview THEN Pass(Report)
     ELSE IF Count({"failed", "skipped"}) > 0 THEN Goto("bad")
     ELSE IF opt.cmd = "all" THEN Pass(Report) ELSE Goto("enough")
  /\ named' = ReviewNames
  /\ UNCHANGED <<opt, status, exit, ran, files, read, batch>>

-----------------------------------------------------------------------------
(* Review. *)

\* DiscoverReports
OnDisk == {r \in Roles : report[r] # "none"}

\* runsEnabledGate, and isRoleEnabled: here a role nobody listed is enabled.
PassesGate(r) == opt.every \/ named # {} \/ status[r] # "off"

\* ReviewSelector.Filter up to the age.  A name is literal: "all" is nobody.
Candidates == {r \in OnDisk : /\ PassesGate(r)
                              /\ named # {} => r \in named}

\* --max-age cuts at one point in time, which may also fall into this round.
Recent(kept) ==
  /\ opt.window = "none" => kept = Candidates
  /\ (\E r \in kept : report[r] = "old") =>
       {r \in Candidates : report[r] = "new"} \subseteq kept

\* The reports' texts, read before the run, are what the prompt will hold.
Manifest(kept) == {[role |-> r, age |-> report[r]] : r \in kept}

\* No reports, none left after the filters, or no runner is an error.
SelectReports ==
  /\ At(Review, "begin")
  /\ \/ Goto("bad") /\ UNCHANGED read
     \/ \E kept \in SUBSET Candidates \ {{}} :
          /\ Recent(kept)
          /\ read' = Manifest(kept)
          /\ Goto("reviewing")
  /\ UNCHANGED <<opt, status, exit, named, ran, files, batch>>

\* The supervisor writes its review, or ends well without one.
ReviewEnds ==
  /\ At(Review, "reviewing")
  /\ \/ Goto("bad") /\ UNCHANGED review
     \/ /\ review' \in {"there", review}
        /\ IF opt.cmd = "all" THEN Pass(Review) ELSE Goto("enough")
  /\ UNCHANGED <<opt, status, exit, named, ran, report, read, batch>>

-----------------------------------------------------------------------------
(* Code. *)

\* runCode: a dirty tree, two docker profiles, no runner, a live run; no review.
StartCode ==
  /\ At(Code, "begin")
  /\ \/ Goto("bad")
     \/ review # "none" /\ Goto("coding")
  /\ UNCHANGED <<opt, status, exit, named, ran, files, read, batch>>

SetSub(i, s) == sub' = [sub EXCEPT ![i] = s]

\* The supervisor runs `ateam exec --batch`, in front or in the background.
StartSub(i) ==
  /\ At(Code, "coding")
  /\ sub[i] = "unborn"
  /\ SetSub(i, "started")
  /\ UNCHANGED <<opt, status, phase, step, exit, named, ran, files, read,
                 checked, told>>

\* batchBudgetPrecheck: BatchCostUSD sums the rows that ended.
WithinBudget == Cardinality({i \in Subs : sub[i] \in {"ok", "failed"}}) < opt.cap

\* runExec up to the row: the batch budget, or any other refusal.
Precheck(i) ==
  /\ sub[i] = "started"
  /\ \E s \in {"open", "refused"} : (s = "open" => WithinBudget) /\ SetSub(i, s)
  /\ UNCHANGED <<opt, status, phase, step, exit, named, ran, files, read,
                 checked, told>>

\* The run closes its row; `ateam exec` returns with the agent's exit code.
SubEnds(i) ==
  /\ sub[i] = "open"
  /\ \E s \in {"ok", "failed"} : SetSub(i, s)
  /\ UNCHANGED <<opt, status, phase, step, exit, named, ran, files, read,
                 checked, told>>

\* The turn is over and the harness ends what it left in the background.
KillSub(i) ==
  /\ ~At(Code, "coding")
  /\ \/ sub[i] = "started" /\ SetSub(i, "lost")
     \/ sub[i] = "open" /\ SetSub(i, "failed")
  /\ UNCHANGED <<opt, status, phase, step, exit, named, ran, files, read,
                 checked, told>>

\* reportFailureCounts: an execution report that is missing, or has none of
\* the counters, admits no failure.
Admissions == {"clean", "failures"}

\* The supervisor's run ends, and has written what it likes.
TurnEnds ==
  /\ At(Code, "coding")
  /\ \/ Goto("bad") /\ UNCHANGED told
     \/ Goto("checking") /\ told' \in Admissions
  /\ UNCHANGED <<opt, status, exit, named, ran, files, read, sub, checked>>

\* CallsByBatch
HasRow == {i \in Subs : sub[i] \in {"open", "ok", "failed"}}

CheckWaitsForRows ==
  /\ At(Code, "checking")
  /\ \A i \in Subs : sub[i] # "open"
  /\ checked' = HasRow
  /\ \/ Goto("bad")
     \/ /\ told # "failures"
        /\ \A i \in Subs : sub[i] # "failed"
        /\ Pass(Code)
  /\ UNCHANGED <<opt, status, exit, named, ran, files, read, sub, told>>

CheckEndedOnly ==
  /\ At(Code, "checking")
  /\ checked' = HasRow
  /\ IF told = "failures" \/ \E i \in Subs : sub[i] = "failed"
     THEN Goto("bad") ELSE Pass(Code)
  /\ UNCHANGED <<opt, status, exit, named, ran, files, read, sub, told>>

\* checkBatchOutcomeAction: every other row of the batch has ended without an
\* error, and the counters of the report, if it has any, are zero.
CheckBatch ==
  /\ At(Code, "checking")
  /\ checked' = HasRow
  /\ \/ Goto("bad")
     \/ /\ told # "failures"
        /\ \A i \in Subs : sub[i] \notin {"open", "failed"}
        /\ Pass(Code)
  /\ UNCHANGED <<opt, status, exit, named, ran, files, read, sub, told>>

-----------------------------------------------------------------------------
(* Verify, and the end. *)

StartVerify ==
  /\ At(Verify, "begin")
  /\ Goto("verifying") \/ Goto("bad")
  /\ UNCHANGED <<opt, status, exit, named, ran, files, read, batch>>

\* RequireOutputFile: a run without a verification report is a failure.
VerifyEnds ==
  /\ At(Verify, "verifying")
  /\ Pass(Verify) \/ Goto("bad")
  /\ UNCHANGED <<opt, status, exit, named, ran, files, read, batch>>

ReturnForgetsCode ==
  /\ exit = "no"
  /\ exit' = IF step = "bad" /\ phase # Code THEN "failed" ELSE "ok"
  /\ step \in {"bad", "enough"} \/ phase > Verify
  /\ UNCHANGED <<opt, status, phase, step, named, ran, files, read, batch>>

\* The command returns: the error of the phase that failed, or nil.
Return ==
  /\ exit = "no"
  /\ step \in {"bad", "enough"} \/ phase > Verify
  /\ exit' = IF step = "bad" THEN "failed" ELSE "ok"
  /\ UNCHANGED <<opt, status, phase, step, named, ran, files, read, batch>>

\* Not code: the command is over; a sub-run it lost may still end.
Over == exit # "no" /\ UNCHANGED vars

Command == \/ Flags \/ PlannerEnds \/ Planned \/ SelectRoles \/ NothingStarted
           \/ CloseReport \/ SelectReports \/ ReviewEnds \/ StartCode \/ TurnEnds
           \/ CheckBatch \/ StartVerify \/ VerifyEnds \/ Return

Next == \/ Command \/ Over
        \/ \E r \in Roles : ReportEnds(r)
        \/ \E i \in Subs : StartSub(i) \/ Precheck(i) \/ SubEnds(i) \/ KillSub(i)

\* Agents end because their runs have deadlines (AgentExec).
Fairness == WF_vars(Command) /\ \A r \in Roles : WF_vars(ReportEnds(r))

Spec == Init /\ [][Next]_vars /\ Fairness

-----------------------------------------------------------------------------
TypeOK ==
  /\ opt \in Options
  /\ status \in [Roles -> {"on", "off", "unlisted"}]
  /\ phase \in 1..6
  /\ step \in {"begin", "planning", "planned", "reporting", "reported",
               "reviewing", "coding", "checking", "verifying", "bad", "enough"}
  /\ exit \in {"no", "ok", "failed"}
  /\ named \subseteq Roles \cup {"all"}
  /\ ran \in [Roles -> {"idle", "queued", "unrendered", "wrote", "silent", "failed", "skipped"}]
  /\ report \in [Roles -> {"none", "old", "new"}]
  /\ review \in {"none", "there"}
  /\ read \subseteq [role : Roles, age : {"old", "new"}]
  /\ sub \in [Subs -> SubStates]
  /\ checked \subseteq Subs
  /\ told \in Admissions

\* Roles whose reports are read although the round had no reason to renew
\* them.  Of the roles the user left to config.toml: the two functions that
\* say what is enabled differ on unlisted roles (config.go:143,
\* prompts.go:301), --all asks for it, and `report --auto-roles --review`
\* reviews more than it ran.  Of the ones named next to "all": the round runs
\* the enabled roles only (embed.go:177).
LeftAlone(r) ==
  /\ ran[r] = "idle"
  /\ \/ /\ opt.names = {}
        /\ status[r] = "unlisted" \/ opt.every \/ (opt.cmd = "report" /\ opt.auto)
     \/ "all" \in opt.names

\* Reports of this round that the review passes by: of a disabled role that a
\* planner picked for `report --review`, and, after `--roles all,x`, of every
\* role but x, since review takes the names as they are (prompts.go:268).
PassedBy(r) ==
  \/ opt.cmd = "report" /\ opt.auto /\ status[r] = "off"
  \/ "all" \in opt.names /\ r \notin opt.names

\* The review is of this round: it reads an old report only of a role left
\* alone, one whose prompt did not render, or whose agent ended well without a
\* word; and it reads every report the round wrote but the ones passed by and
\* those --max-age drops (report.go:346-379, prompts.go:250-293).
InputsOfThisRound ==
  /\ \A e \in read : e.age = "old" =>
       ran[e.role] \in {"unrendered", "silent"} \/ LeftAlone(e.role)
  /\ read # {} /\ opt.window = "none" =>
       \A r \in Roles : ran[r] = "wrote" =>
         [role |-> r, age |-> "new"] \in read \/ PassedBy(r)

\* Verify, and an exit code of 0, come after a batch that was clean: whatever
\* sub-runs the supervisor left behind, the ones with a row when it was
\* checked have ended well, and the report admits no failure (code.go:304).
\* Sub-runs without a row then are nobody's business: killed before it,
\* refused by the budget, or late.
VerifyAfterCleanBatch ==
  phase > Code => /\ told # "failures"
                  /\ \A i \in checked : sub[i] = "ok"

\* By default review reads the reports of enabled roles only (COMMANDS.md:153).
OnlyEnabledAreRead ==
  \A e \in read : (named = {} /\ ~opt.every) => e.role \in EnabledRoles

\* The phases of a campaign are a chain: in order, each only after the ones
\* before it succeeded, and the exit code says whether all did (all.go:98).
Standing(s) == CASE s \in {"bad", "enough"} -> s
                 [] s = "begin" -> "pending"
                 [] OTHER -> "running"
PhaseOutcome(i) == IF i < phase THEN "good" ELSE IF i > phase THEN "pending"
                   ELSE Standing(step)
Phases == INSTANCE Chain WITH K <- 5, outcome <- [i \in 1..5 |-> PhaseOutcome(i)],
                              over <- exit
ImplementsChain == Phases!Spec

\* Every command returns, whatever the supervisor left running (code.go:304).
CampaignEnds == <>(exit # "no")
=============================================================================
