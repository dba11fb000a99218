--------------------------- MODULE Campaign_proofs ---------------------------
(***************************************************************************)
(* Proofs about Campaign, for any roles, sub-runs and calls: the types, a  *)
(* clean batch before verify, what the review reads, and that the phases   *)
(* are a chain.                                                            *)
(***************************************************************************)
EXTENDS Campaign, FiniteSetTheorems, TLAPS

-----------------------------------------------------------------------------
(* The inductive invariant. *)

\* Where the command can be, and when it is over.
Steps(p) == CASE p = Plan   -> {"begin", "planning", "planned", "bad", "enough"}
              [] p = Report -> {"begin", "reporting", "reported", "bad", "enough"}
              [] p = Review -> {"begin", "reviewing", "bad", "enough"}
              [] p = Code   -> {"begin", "coding", "checking", "bad"}
              [] p = Verify -> {"begin", "verifying", "bad"}
              [] OTHER      -> {"begin"}

Stopped == step \in {"bad", "enough"} \/ phase > Verify

Chart ==
  /\ phase \in 1..6
  /\ step \in Steps(phase)
  /\ exit # "no" => Stopped
  /\ exit = "failed" => step = "bad"
  /\ exit = "ok" => step # "bad"

\* Whose choice the named roles are.
Chosen ==
  /\ ~opt.auto => named = opt.names
  /\ phase > Plan \/ step \in {"planning", "planned"} => FlagsAgree
  /\ step = "planning" => opt.auto
  /\ \/ step = "planned"
     \/ phase = Report /\ step \in {"begin", "reporting", "reported"}
     \/ phase > Report /\ opt.cmd = "all"
     => (opt.auto => named \subseteq Roles /\ named # {})
  /\ phase > Report /\ opt.cmd = "report" => named = opt.names

\* The round is the selected roles': one that is idle was not selected, and the
\* other way round, as long as the selection is still the round's.
Rounded ==
  phase > Report \/ step \in {"reporting", "reported"} =>
    \/ phase > Report /\ opt.cmd = "report" /\ opt.auto
    \/ \A r \in Roles : ran[r] = "idle" <=> r \notin SelectedRoles

\* No role has run before the round selects.
Unrun == phase < Report \/ At(Report, "begin") => \A r \in Roles : ran[r] = "idle"

\* A new report is that of a role whose run wrote it, and of nobody else.
Renewed == \A r \in Roles : report[r] = "new" <=> ran[r] = "wrote"

\* Past the round, every role of it has ended, and well.
Settled ==
  phase > Report => \A r \in Roles : ran[r] \notin {"queued", "failed", "skipped"}

\* Nothing is read before the review selects.
Unread == phase < Review \/ At(Review, "begin") => read = {}

IInv == TypeOK /\ Chart /\ Chosen /\ Unrun /\ Rounded /\ Renewed /\ Settled /\ Unread
        /\ InputsOfThisRound /\ VerifyAfterCleanBatch

-----------------------------------------------------------------------------
(* Which action moves what. *)

\* The steps of the command itself, but its return.
Walk == \/ Flags \/ PlannerEnds \/ Planned \/ SelectRoles \/ NothingStarted
        \/ CloseReport \/ SelectReports \/ ReviewEnds \/ StartCode \/ TurnEnds
        \/ CheckBatch \/ StartVerify \/ VerifyEnds

SubStep(i) == StartSub(i) \/ Precheck(i) \/ SubEnds(i) \/ KillSub(i)

LEMMA Moves ==
  ASSUME [Next]_vars
  PROVE  /\ UNCHANGED <<opt, status>>
         /\ UNCHANGED <<phase, step>> \/ Walk
         /\ UNCHANGED exit \/ Return
         /\ UNCHANGED named \/ PlannerEnds \/ CloseReport
         /\ UNCHANGED ran \/ SelectRoles \/ NothingStarted \/ \E r \in Roles : ReportEnds(r)
         /\ UNCHANGED report \/ \E r \in Roles : ReportEnds(r)
         /\ UNCHANGED review \/ ReviewEnds
         /\ UNCHANGED read \/ SelectReports
         /\ UNCHANGED sub \/ \E i \in Subs : SubStep(i)
         /\ UNCHANGED checked \/ CheckBatch
         /\ UNCHANGED told \/ TurnEnds
<1> USE DEF files, batch
<1>1. CASE Flags \/ Planned \/ StartCode \/ StartVerify \/ VerifyEnds
  BY <1>1 DEF Flags, Planned, StartCode, StartVerify, VerifyEnds, Walk
<1>2. CASE PlannerEnds \/ CloseReport
  BY <1>2 DEF PlannerEnds, CloseReport, Walk
<1>3. CASE SelectRoles \/ NothingStarted
  BY <1>3 DEF SelectRoles, NothingStarted, Walk
<1>4. CASE \E r \in Roles : ReportEnds(r)
  BY <1>4 DEF ReportEnds
<1>5. CASE SelectReports
  BY <1>5 DEF SelectReports, Walk
<1>6. CASE ReviewEnds
  BY <1>6 DEF ReviewEnds, Walk
<1>7. CASE TurnEnds
  BY <1>7 DEF TurnEnds, Walk
<1>8. CASE CheckBatch
  BY <1>8 DEF CheckBatch, Walk
<1>9. CASE Return
  BY <1>9 DEF Return
<1>10. CASE \E i \in Subs : SubStep(i)
  BY <1>10 DEF SubStep, StartSub, Precheck, SubEnds, KillSub
<1>11. CASE Over \/ UNCHANGED vars
  BY <1>11 DEF Over, vars
<1> QED
  BY <1>1, <1>2, <1>3, <1>4, <1>5, <1>6, <1>7, <1>8, <1>9, <1>10, <1>11
  DEF Next, Command, SubStep

\* Every step of the command is taken at one place, and where it may lead.
LEMMA Walks ==
  ASSUME Chart, Walk
  PROVE  /\ exit = "no" /\ phase \in 1..5 /\ step \notin {"bad", "enough"}
         /\ \/ Pass(phase) /\ step \notin {"begin", "planning", "coding"} 
            \/ UNCHANGED phase /\ step' \in Steps(phase) /\ step' # "begin"
<1> USE DEF Plan, Report, Review, Code, Verify, At, Goto, Steps, Chart, Stopped
<1>1. CASE Flags \/ PlannerEnds \/ Planned
  BY <1>1 DEF Flags, PlannerEnds, Planned, Pass
<1>2. CASE SelectRoles \/ NothingStarted
  BY <1>2 DEF SelectRoles, NothingStarted
<1>3. CASE CloseReport
  BY <1>3 DEF CloseReport, Pass
<1>4. CASE SelectReports \/ ReviewEnds
  BY <1>4 DEF SelectReports, ReviewEnds, Pass
<1>5. CASE StartCode \/ TurnEnds \/ CheckBatch
  BY <1>5 DEF StartCode, TurnEnds, CheckBatch, Pass
<1>6. CASE StartVerify \/ VerifyEnds
  BY <1>6 DEF StartVerify, VerifyEnds, Pass
<1> QED
  BY <1>1, <1>2, <1>3, <1>4, <1>5, <1>6 DEF Walk

-----------------------------------------------------------------------------
(* What the calls and the counts say. *)

LEMMA OptionsTyped ==
  ASSUME TypeOK
  PROVE  /\ opt.cmd \in {"all", "report"} /\ opt.names \subseteq Roles \cup {"all"}
         /\ opt.auto \in BOOLEAN /\ opt.every \in BOOLEAN
         /\ opt.window \in {"none", "set", "bad"} /\ opt.cap \in Nat
  BY CampaignAssumption DEF TypeOK

\* A count of none is the absence of any.
LEMMA CountNone ==
  ASSUME NEW states, Count(states) = 0
  PROVE  \A r \in Roles : ran[r] \notin states
<1> DEFINE S == {r \in Roles : ran[r] \in states}
<1>1. IsFiniteSet(S)
  BY CampaignAssumption, FS_Subset
<1>2. S = {}
  BY <1>1, FS_EmptySet DEF Count
<1> QED
  BY <1>2

-----------------------------------------------------------------------------
(* Every part holds at the start, and after every step. *)

LEMMA Starts == Init => IInv
<1> SUFFICES ASSUME Init PROVE IInv
  OBVIOUS
<1>a. phase = 1 /\ step = "begin" /\ exit = "no" /\ told = "clean"
  BY DEF Init, Plan
<1>b. named = opt.names
  BY DEF Init
<1>c. read = {}
  BY DEF Init
<1>1. TypeOK
  <2>1. opt \in Options /\ status \in [Roles -> {"on", "off", "unlisted"}]
    BY DEF Init
  <2>2. phase \in 1..6 /\ step = "begin" /\ exit = "no" /\ told \in Admissions
    BY <1>a DEF Admissions
  <2>3. named \subseteq Roles \cup {"all"}
    BY <2>1, CampaignAssumption DEF Init
  <2>4. /\ ran \in [Roles -> {"idle", "queued", "unrendered", "wrote", "silent", "failed", "skipped"}]
        /\ report \in [Roles -> {"none", "old", "new"}]
        /\ review \in {"none", "there"}
    BY DEF Init
  <2>5. /\ read \subseteq [role : Roles, age : {"old", "new"}]
        /\ sub \in [Subs -> SubStates] /\ checked \subseteq Subs
    BY DEF Init, SubStates
  <2> QED
    BY <2>1, <2>2, <2>3, <2>4, <2>5 DEF TypeOK
<1>2. Chart
  BY <1>a DEF Chart, Steps, Plan, Stopped
<1>3. Chosen
  BY <1>a, <1>b DEF Chosen, Plan, Report
<1>d. Unrun
  BY DEF Init, Unrun
<1>4. Rounded /\ Settled /\ Unread
  BY <1>a, <1>c DEF Rounded, Settled, Unread, Plan, Report, Review, At
<1>5. Renewed
  BY DEF Init, Renewed
<1>6. InputsOfThisRound /\ VerifyAfterCleanBatch
  BY <1>a, <1>c DEF InputsOfThisRound, VerifyAfterCleanBatch, Plan, Code
<1> QED
  BY <1>1, <1>2, <1>3, <1>d, <1>4, <1>5, <1>6 DEF IInv

LEMMA ChartStep ==
  ASSUME Chart, [Next]_vars
  PROVE  Chart'
<1>1. CASE Walk
  <2>1. UNCHANGED exit
    BY <1>1, Moves DEF Walk, Return, Flags, PlannerEnds, Planned, SelectRoles, NothingStarted,
          CloseReport, SelectReports, ReviewEnds, StartCode, TurnEnds, CheckBatch,
          StartVerify, VerifyEnds
  <2>2. exit = "no" /\ phase \in 1..5
    BY <1>1, Walks
  <2>3. CASE Pass(phase)
    <3>1. phase' \in 2..6 /\ step' = "begin"
      BY <2>2, <2>3 DEF Pass
    <3>2. step' \in Steps(phase')
      BY <3>1 DEF Steps
    <3> QED
      BY <2>1, <2>2, <3>1, <3>2 DEF Chart
  <2>4. CASE UNCHANGED phase /\ step' \in Steps(phase)
    <3>1. step' \in Steps(phase')
      BY <2>4
    <3> QED
      BY <2>1, <2>2, <2>4, <3>1 DEF Chart
  <2> QED
    BY <1>1, <2>3, <2>4, Walks
<1>2. CASE Return
  BY <1>2 DEF Return, Chart, Stopped
<1>3. CASE UNCHANGED <<phase, step, exit>>
  BY <1>3 DEF Chart, Stopped
<1> QED
  BY <1>1, <1>2, <1>3, Moves

LEMMA TypeStep ==
  ASSUME TypeOK, Chart, [Next]_vars
  PROVE  TypeOK'
<1>1. (opt \in Options /\ status \in [Roles -> {"on", "off", "unlisted"}])'
  BY Moves DEF TypeOK
<1>2. (phase \in 1..6 /\ step \in {"begin", "planning", "planned", "reporting", "reported",
               "reviewing", "coding", "checking", "verifying", "bad", "enough"})'
  <2>1. Chart'
    BY ChartStep
  <2> QED
    BY <2>1 DEF Chart, Steps
<1>3. (exit \in {"no", "ok", "failed"})'
  BY Moves DEF TypeOK, Return
<1>4. (named \subseteq Roles \cup {"all"})'
  <2>1. CASE PlannerEnds
    <3>1. PICK answer \in Recommendations : named' = named \/ named' = answer.roles
      BY <2>1 DEF PlannerEnds
    <3>2. answer.roles \subseteq Roles
      <4>1. CASE answer = [error |-> TRUE, roles |-> {}]
        BY <4>1
      <4>2. CASE answer \in [error : {FALSE}, roles : SUBSET Roles]
        BY <4>2
      <4> QED
        BY <3>1, <4>1, <4>2 DEF Recommendations
    <3> QED
      BY <3>1, <3>2 DEF TypeOK
  <2>2. CASE CloseReport
    BY <2>2, OptionsTyped DEF CloseReport, ReviewNames, TypeOK
  <2> QED
    BY <2>1, <2>2, Moves DEF TypeOK
<1>5. (ran \in [Roles -> {"idle", "queued", "unrendered", "wrote", "silent", "failed", "skipped"}])'
  <2>1. CASE SelectRoles
    BY <2>1 DEF SelectRoles
  <2>2. CASE NothingStarted
    BY <2>2 DEF NothingStarted, TypeOK
  <2>3. CASE \E r \in Roles : ReportEnds(r)
    BY <2>3 DEF ReportEnds, TypeOK
  <2> QED
    BY <2>1, <2>2, <2>3, Moves DEF TypeOK
<1>6. (report \in [Roles -> {"none", "old", "new"}])'
  BY Moves DEF ReportEnds, TypeOK
<1>7. (review \in {"none", "there"})'
  BY Moves DEF ReviewEnds, TypeOK
<1>8. (read \subseteq [role : Roles, age : {"old", "new"}])'
  <2>1. CASE SelectReports
    <3>1. CASE UNCHANGED read
      BY <3>1 DEF TypeOK
    <3>2. ASSUME NEW kept \in SUBSET Candidates, read' = Manifest(kept)
          PROVE  read' \subseteq [role : Roles, age : {"old", "new"}]
      <4>1. \A r \in kept : r \in Roles /\ report[r] \in {"old", "new"}
        BY DEF Candidates, OnDisk, TypeOK
      <4> QED
        BY <3>2, <4>1 DEF Manifest
    <3> QED
      BY <2>1, <3>1, <3>2 DEF SelectReports
  <2> QED
    BY <2>1, Moves DEF TypeOK
<1>9. (sub \in [Subs -> SubStates])'
  BY Moves DEF SubStep, StartSub, Precheck, SubEnds, KillSub, SetSub, SubStates, TypeOK
<1>10. (checked \subseteq Subs /\ told \in Admissions)'
  BY Moves DEF CheckBatch, TurnEnds, HasRow, TypeOK
<1> QED
  BY <1>1, <1>2, <1>3, <1>4, <1>5, <1>6, <1>7, <1>8, <1>9, <1>10 DEF TypeOK

LEMMA CleanStep ==
  ASSUME TypeOK, Chart, VerifyAfterCleanBatch, [Next]_vars
  PROVE  VerifyAfterCleanBatch'
<1> SUFFICES ASSUME phase' > Code
             PROVE  told' # "failures" /\ \A i \in checked' : sub'[i] = "ok"
  BY DEF VerifyAfterCleanBatch
<1>1. CASE phase > Code
  <2>1. ~CheckBatch /\ ~TurnEnds
    BY <1>1 DEF CheckBatch, TurnEnds, At, Code
  <2>2. UNCHANGED <<checked, told>>
    BY <2>1, Moves
  <2>3. told # "failures" /\ checked \subseteq Subs /\ \A i \in checked : sub[i] = "ok"
    BY <1>1 DEF VerifyAfterCleanBatch, TypeOK
  <2>4. \A i \in Subs : sub[i] = "ok" => sub'[i] = "ok"
    BY Moves DEF SubStep, StartSub, Precheck, SubEnds, KillSub, SetSub, TypeOK
  <2> QED
    BY <2>2, <2>3, <2>4
<1>2. CASE ~(phase > Code)
  <2>1. Walk /\ phase \in 1..5 /\ phase' = phase + 1
    BY <1>2, Moves, Walks DEF Chart, Pass, Code
  <2>2. phase = Code /\ step = "checking"
    BY <1>2, <2>1, Walks DEF Chart, Steps, Pass, Plan, Report, Review, Code, Verify
  <2>3. CheckBatch
    BY <2>1, <2>2 DEF Walk, Flags, PlannerEnds, Planned, SelectRoles, NothingStarted,
          CloseReport, SelectReports, ReviewEnds, StartCode, TurnEnds, StartVerify,
          VerifyEnds, At
  <2>4. told # "failures" /\ \A i \in Subs : sub[i] \notin {"open", "failed"}
    BY <2>1, <2>3 DEF CheckBatch, Goto
  <2> QED
    BY <2>3, <2>4 DEF CheckBatch, HasRow
<1> QED
  BY <1>1, <1>2

LEMMA ChosenStep ==
  ASSUME TypeOK, Chart, Chosen, [Next]_vars
  PROVE  Chosen'
<1> USE DEF Plan, Report, At, Goto, Pass
<1>a. UNCHANGED opt /\ (FlagsAgree => FlagsAgree')
  BY Moves DEF FlagsAgree
<1>b. opt.auto \in BOOLEAN /\ opt.cmd \in {"all", "report"}
  BY OptionsTyped
<1>1. CASE Flags
  BY <1>a, <1>b, <1>1 DEF Flags, Chosen, FlagsAgree
<1>2. CASE PlannerEnds
  <2>1. PICK answer \in Recommendations :
          LET enough == answer.roles = {} \/ opt.plan
          IN /\ Goto(IF answer.error THEN "bad" ELSE IF enough THEN "enough" ELSE "planned")
             /\ named' = IF enough THEN named ELSE answer.roles
    BY <1>2 DEF PlannerEnds
  <2>2. answer.error \in BOOLEAN /\ answer.roles \subseteq Roles
    <3>1. CASE answer = [error |-> TRUE, roles |-> {}]
      BY <3>1
    <3>2. CASE answer \in [error : {FALSE}, roles : SUBSET Roles]
      BY <3>2
    <3> QED
      BY <2>1, <3>1, <3>2 DEF Recommendations
  <2>3. phase = 1 /\ phase' = 1 /\ step = "planning" /\ opt.auto /\ FlagsAgree
    BY <1>2, <2>1 DEF PlannerEnds, Chosen
  <2>4. step' \in {"bad", "enough", "planned"}
    BY <2>1
  <2>5. step' = "planned" => named' = answer.roles /\ answer.roles # {}
    BY <2>1, <2>2
  <2> QED
    BY <1>a, <2>2, <2>3, <2>4, <2>5 DEF Chosen
<1>3. CASE CloseReport
  <2>1. /\ phase = 2 /\ step \in {"reporting", "reported"}
        /\ named' = IF opt.cmd = "report" THEN opt.names ELSE named
    BY <1>3 DEF CloseReport, ReviewNames
  <2>2. \/ phase' = 3 /\ step' = "begin"
        \/ phase' = 2 /\ step' \in {"bad", "enough"}
    BY <1>3, <2>1 DEF CloseReport
  <2> QED
    BY <1>a, <1>b, <2>1, <2>2 DEF Chosen
<1>4. CASE Walk /\ ~Flags /\ ~PlannerEnds /\ ~CloseReport
  <2>1. UNCHANGED named
    BY <1>4, Moves
  <2>3. CASE Planned
    BY <1>a, <2>1, <2>3 DEF Planned, Chosen
  <2>4. CASE SelectRoles \/ NothingStarted
    BY <1>a, <2>1, <2>4 DEF SelectRoles, NothingStarted, Chosen
  <2>5. CASE ~Planned /\ ~SelectRoles /\ ~NothingStarted
    <3>1. phase \in 3..6
      BY <1>4, <2>5 DEF Walk, SelectReports, ReviewEnds, StartCode, TurnEnds, CheckBatch,
            StartVerify, VerifyEnds, Review, Code, Verify
    <3>2. phase' \in 3..6 /\ step' \notin {"planning", "planned"}
      <4>1. \/ phase \in 1..5 /\ phase' = phase + 1 /\ step' = "begin"
            \/ phase' = phase /\ step' \in Steps(phase)
        BY <1>4, Walks
      <4> QED
        BY <3>1, <4>1 DEF Steps, Review, Code, Verify
    <3> QED
      BY <1>a, <1>b, <2>1, <3>1, <3>2 DEF Chosen
  <2> QED
    BY <2>3, <2>4, <2>5
<1>5. CASE UNCHANGED <<phase, step, named>>
  BY <1>a, <1>5 DEF Chosen
<1> QED
  BY <1>1, <1>2, <1>3, <1>4, <1>5, Moves DEF Walk, PlannerEnds, CloseReport

LEMMA UnrunStep ==
  ASSUME TypeOK, Chart, Unrun, [Next]_vars
  PROVE  Unrun'
<1> SUFFICES ASSUME phase' < Report \/ At(Report, "begin")'
             PROVE  \A r \in Roles : ran'[r] = "idle"
  BY DEF Unrun
<1>1. phase < Report \/ At(Report, "begin")
  BY Moves, Walks DEF Chart, At, Pass, Report
<1>2. ~SelectRoles
  BY DEF SelectRoles, At, Goto, Report
<1>3. UNCHANGED ran
  BY <1>1, <1>2, Moves DEF NothingStarted, ReportEnds, At, Report
<1> QED
  BY <1>1, <1>3 DEF Unrun

LEMMA RenewedStep ==
  ASSUME TypeOK, Unrun, Renewed, [Next]_vars
  PROVE  Renewed'
<1>1. CASE SelectRoles
  <2>1. At(Report, "begin") /\ ~NothingStarted /\ UNCHANGED report
    BY <1>1, Moves DEF SelectRoles, NothingStarted, ReportEnds, At, files
  <2>2. \A r \in Roles : report[r] # "new"
    BY <2>1 DEF Unrun, Renewed
  <2>3. \A r \in Roles : ran'[r] # "wrote"
    BY <1>1 DEF SelectRoles
  <2> QED
    BY <2>1, <2>2, <2>3 DEF Renewed
<1>2. CASE NothingStarted
  BY <1>2, Moves DEF NothingStarted, Renewed, TypeOK, files
<1>3. ASSUME NEW r \in Roles, ReportEnds(r)
      PROVE  Renewed'
  BY <1>3 DEF ReportEnds, Renewed, TypeOK
<1>4. CASE UNCHANGED <<ran, report>>
  BY <1>4 DEF Renewed
<1> QED
  BY <1>1, <1>2, <1>3, <1>4, Moves DEF ReportEnds

LEMMA UnreadStep ==
  ASSUME TypeOK, Chart, Unread, [Next]_vars
  PROVE  Unread'
<1> SUFFICES ASSUME phase' < Review \/ At(Review, "begin")'
             PROVE  read' = {}
  BY DEF Unread
<1>1. phase < Review \/ At(Review, "begin")
  BY Moves, Walks DEF Chart, At, Pass, Review
<1>2. ~SelectReports
  BY DEF SelectReports, At, Goto, Review
<1> QED
  BY <1>1, <1>2, Moves DEF Unread

LEMMA SettledStep ==
  ASSUME TypeOK, Chart, Settled, [Next]_vars
  PROVE  Settled'
<1> SUFFICES ASSUME phase' > Report
             PROVE  \A r \in Roles : ran'[r] \notin {"queued", "failed", "skipped"}
  BY DEF Settled
<1>1. CASE phase > Report
  <2>1. UNCHANGED ran
    BY <1>1, Moves DEF SelectRoles, NothingStarted, ReportEnds, At, Report
  <2> QED
    BY <1>1, <2>1 DEF Settled
<1>2. CASE ~(phase > Report)
  <2>1. Walk /\ Pass(phase) /\ phase = Report
    BY <1>2, Moves, Walks DEF Chart, Pass, Report
  <2>2. CloseReport
    BY <2>1 DEF Walk, Flags, PlannerEnds, Planned, SelectRoles, NothingStarted, SelectReports,
          ReviewEnds, StartCode, TurnEnds, CheckBatch, StartVerify, VerifyEnds, At, Goto, Pass,
          Chart, Plan, Report, Review, Code, Verify
  <2>3. Count({"queued"}) = 0 /\ Count({"failed", "skipped"}) = 0
    <3>1. Count({"failed", "skipped"}) \in Nat
      BY CampaignAssumption, FS_Subset, FS_CardinalityType DEF Count
    <3> QED
      BY <2>1, <2>2, <3>1 DEF CloseReport, AutoReview, Goto, Pass, Report
  <2>4. \A r \in Roles : ran[r] \notin {"queued"} /\ ran[r] \notin {"failed", "skipped"}
    BY <2>3, CountNone
  <2>5. UNCHANGED ran
    BY <2>2 DEF CloseReport
  <2> QED
    BY <2>4, <2>5
<1> QED
  BY <1>1, <1>2

LEMMA RoundedStep ==
  ASSUME TypeOK, Chart, Chosen, Rounded, [Next]_vars
  PROVE  Rounded'
<1> SUFFICES ASSUME (phase > Report \/ step \in {"reporting", "reported"})',
                    ~(phase > Report /\ opt.cmd = "report" /\ opt.auto)'
             PROVE  (\A r \in Roles : ran[r] = "idle" <=> r \notin SelectedRoles)'
  BY DEF Rounded
<1>a. UNCHANGED <<opt, status>> /\ EnabledRoles' = EnabledRoles
  BY Moves DEF EnabledRoles
<1>b. opt.auto \in BOOLEAN /\ opt.cmd \in {"all", "report"}
  BY OptionsTyped
<1>1. CASE SelectRoles
  <2>1. UNCHANGED named
    BY <1>1 DEF SelectRoles
  <2>2. SelectedRoles' = SelectedRoles
    BY <1>a, <2>1 DEF SelectedRoles
  <2>3. PICK good \in SUBSET SelectedRoles :
          ran' = [r \in Roles |-> CASE r \in good -> "queued"
                                    [] r \in SelectedRoles \ good -> "unrendered"
                                    [] OTHER -> "idle"]
    BY <1>1 DEF SelectRoles
  <2>4. ASSUME NEW r \in Roles
        PROVE  ran'[r] = "idle" <=> r \notin SelectedRoles
    BY <2>3
  <2> QED
    BY <2>2, <2>4
<1>2. CASE ~SelectRoles
  <2>1. CASE NothingStarted \/ \E r \in Roles : ReportEnds(r)
    <3>1. UNCHANGED <<named, phase>> /\ phase = 2 /\ step = "reporting"
      BY <2>1 DEF NothingStarted, ReportEnds, At, Goto, Report
    <3>2. SelectedRoles' = SelectedRoles
      BY <1>a, <3>1 DEF SelectedRoles
    <3>3. \A r \in Roles : ran'[r] = "idle" <=> ran[r] = "idle"
      BY <2>1 DEF NothingStarted, ReportEnds, TypeOK
    <3> QED
      BY <3>1, <3>2, <3>3 DEF Rounded, Report
  <2>2. CASE CloseReport
    <3>1. /\ phase = 2 /\ step \in {"reporting", "reported"} /\ UNCHANGED ran
          /\ named' = IF opt.cmd = "report" THEN opt.names ELSE named
      BY <2>2 DEF CloseReport, At, Report, ReviewNames
    <3>2. phase' = 3
      BY <2>2, <3>1 DEF CloseReport, Goto, Pass, Report
    <3>3. ~(opt.cmd = "report" /\ opt.auto)
      BY <1>a, <3>2 DEF Report
    <3>4. named' = named
      BY <1>b, <3>1, <3>3 DEF Chosen
    <3>5. SelectedRoles' = SelectedRoles
      BY <1>a, <3>4 DEF SelectedRoles
    <3> QED
      BY <3>1, <3>5 DEF Rounded, Report
  <2>3. CASE ~NothingStarted /\ ~CloseReport /\ ~\E r \in Roles : ReportEnds(r)
    <3>1. phase > Report \/ step \in {"reporting", "reported"}
      <4>1. ASSUME Walk
            PROVE  phase # 2
        BY <1>2, <2>3, <4>1 DEF Walk, Flags, PlannerEnds, Planned, SelectReports, ReviewEnds,
              StartCode, TurnEnds, CheckBatch, StartVerify, VerifyEnds, At, Plan, Report,
              Review, Code, Verify
      <4>2. ASSUME Walk
            PROVE  phase > Report
        BY <4>1, <4>2, Walks DEF Chart, Steps, Pass, Plan, Report, Review, Code, Verify
      <4> QED
        BY <4>2, Moves
    <3>2. ~PlannerEnds
      BY DEF PlannerEnds, At, Goto, Plan, Report
    <3>3. UNCHANGED <<named, ran>>
      BY <1>2, <2>3, <3>2, Moves
    <3>4. SelectedRoles' = SelectedRoles
      BY <1>a, <3>3 DEF SelectedRoles
    <3>5. ~(phase > Report /\ opt.cmd = "report" /\ opt.auto)
      <4>1. phase > Report => phase' > Report
        BY Moves, Walks DEF Chart, Pass, Report
      <4> QED
        BY <1>a, <4>1
    <3> QED
      BY <3>1, <3>3, <3>4, <3>5 DEF Rounded
  <2> QED
    BY <2>1, <2>2, <2>3
<1> QED
  BY <1>1, <1>2

\* What the review reads, the step in which it reads it.
LEMMA InputsSelected ==
  ASSUME IInv, SelectReports, UNCHANGED <<opt, status, ran, report>>
  PROVE  InputsOfThisRound'
<1> USE DEF IInv
<1>a. At(Review, "begin") /\ phase > Report
  BY DEF SelectReports, At, Review, Report
<1>b. read = {}
  BY <1>a DEF Unread
<1>c. opt.auto \in BOOLEAN /\ opt.cmd \in {"all", "report"} /\ opt.names \subseteq Roles \cup {"all"}
  BY OptionsTyped
<1>1. CASE UNCHANGED read
  BY <1>b, <1>1 DEF InputsOfThisRound
<1>2. ASSUME NEW kept \in SUBSET Candidates \ {{}}, Recent(kept), read' = Manifest(kept)
      PROVE  InputsOfThisRound'
  \* Who is passed by the round but may be read: see Chosen and Rounded.
  <2>1. \/ opt.cmd = "report" /\ opt.auto /\ opt.names = {} /\ named = {}
        \/ \A r \in Roles : ran[r] = "idle" <=> r \notin SelectedRoles
    BY <1>a, <1>c DEF Rounded, Chosen, FlagsAgree, At, Plan, Report, Review
  <2>2. \/ named = opt.names
        \/ opt.auto /\ opt.names = {} /\ named \subseteq Roles /\ named # {}
    BY <1>a, <1>c DEF Chosen, FlagsAgree, At, Plan, Report, Review
  <2>3. ASSUME NEW r \in kept, report[r] = "old"
        PROVE  ran[r] \in {"unrendered", "silent"} \/ LeftAlone(r)
    <3>1. r \in Roles /\ PassesGate(r) /\ (named # {} => r \in named)
      BY DEF Candidates, OnDisk
    <3>2. ran[r] \in {"idle", "unrendered", "silent"}
      BY <1>a, <2>3, <3>1 DEF Settled, Renewed, TypeOK
    <3>3. status[r] \in {"on", "off", "unlisted"}
      BY <3>1 DEF TypeOK
    <3>4. CASE ran[r] = "idle"
      <4>1. CASE opt.cmd = "report" /\ opt.auto /\ opt.names = {} /\ named = {}
        BY <3>4, <4>1 DEF LeftAlone
      <4>2. CASE r \notin SelectedRoles
        <5>1. CASE named = {}
          <6>1. opt.names = {} /\ status[r] # "on"
            BY <2>2, <3>1, <4>2, <5>1 DEF SelectedRoles, EnabledRoles
          <6>2. opt.every \/ status[r] # "off"
            BY <3>1, <5>1 DEF PassesGate
          <6> QED
            BY <3>3, <3>4, <6>1, <6>2 DEF LeftAlone
        <5>2. CASE named # {}
          <6>1. "all" \in named
            BY <3>1, <4>2, <5>2 DEF SelectedRoles
          <6>2. named = opt.names
            BY <2>2, <6>1, CampaignAssumption
          <6> QED
            BY <3>4, <6>1, <6>2 DEF LeftAlone
        <5> QED
          BY <5>1, <5>2
      <4> QED
        BY <2>1, <3>1, <3>4, <4>1, <4>2
    <3> QED
      BY <3>2, <3>4
  <2>4. ASSUME opt.window = "none", NEW r \in Roles, ran[r] = "wrote"
        PROVE  [role |-> r, age |-> "new"] \in read' \/ PassedBy(r)
    <3>1. report[r] = "new" /\ kept = Candidates
      BY <1>2, <2>4 DEF Renewed, Recent
    <3>2. status[r] \in {"on", "off", "unlisted"}
      BY <2>4 DEF TypeOK
    <3>3. r \in Candidates \/ PassedBy(r)
      <4>1. r \in OnDisk
        BY <3>1 DEF OnDisk
      <4>2. CASE opt.cmd = "report" /\ opt.auto /\ opt.names = {} /\ named = {}
        BY <3>2, <4>1, <4>2 DEF Candidates, PassesGate, PassedBy
      <4>3. CASE r \in SelectedRoles
        <5>1. CASE named = {}
          BY <4>1, <4>3, <5>1 DEF SelectedRoles, EnabledRoles, Candidates, PassesGate
        <5>2. CASE r \in named
          BY <4>1, <5>2 DEF Candidates, PassesGate
        <5>3. CASE named # {} /\ r \notin named
          <6>1. "all" \in named
            BY <4>3, <5>3 DEF SelectedRoles
          <6>2. named = opt.names
            BY <2>2, <6>1, CampaignAssumption
          <6> QED
            BY <5>3, <6>1, <6>2 DEF PassedBy
        <5> QED
          BY <5>1, <5>2, <5>3
      <4> QED
        BY <2>1, <2>4, <4>2, <4>3
    <3> QED
      BY <1>2, <3>1, <3>3 DEF Manifest
  <2>5. \A r \in Roles : /\ LeftAlone(r)' <=> LeftAlone(r)
                         /\ PassedBy(r)' <=> PassedBy(r)
    BY DEF LeftAlone, PassedBy
  <2>6. \A e \in read' : e.role \in kept /\ e.age = report[e.role] /\ e.role \in Roles
    BY <1>2 DEF Manifest, Candidates, OnDisk
  <2>7. \A e \in read' : e.age = "old" =>
          ran'[e.role] \in {"unrendered", "silent"} \/ LeftAlone(e.role)'
    BY <2>3, <2>5, <2>6
  <2>8. read' # {} /\ opt'.window = "none" =>
          \A r \in Roles : ran'[r] = "wrote" =>
            [role |-> r, age |-> "new"] \in read' \/ PassedBy(r)'
    BY <2>4, <2>5
  <2> QED
    BY <2>7, <2>8 DEF InputsOfThisRound
<1> QED
  BY <1>1, <1>2 DEF SelectReports

LEMMA InputsStep ==
  ASSUME IInv, [Next]_vars
  PROVE  InputsOfThisRound'
<1>1. CASE SelectReports
  <2>1. UNCHANGED <<opt, status, ran, report>>
    BY <1>1, Moves DEF SelectReports, files
  <2> QED
    BY <1>1, <2>1, InputsSelected
<1>2. CASE read = {} /\ ~SelectReports
  BY <1>2, Moves DEF InputsOfThisRound
<1>3. CASE read # {} /\ ~SelectReports
  <2>1. phase > Report
    BY <1>3 DEF IInv, Unread, Chart, Report, Review
  <2>2. UNCHANGED <<opt, status, ran, report, read>>
    BY <1>3, <2>1, Moves DEF SelectRoles, NothingStarted, ReportEnds, At, Report
  <2>3. \A r \in Roles : /\ LeftAlone(r)' <=> LeftAlone(r)
                         /\ PassedBy(r)' <=> PassedBy(r)
    BY <2>2 DEF LeftAlone, PassedBy
  <2>4. \A e \in read : e.role \in Roles
    BY DEF IInv, TypeOK
  <2> QED
    BY <2>2, <2>3, <2>4 DEF IInv, InputsOfThisRound
<1> QED
  BY <1>1, <1>2, <1>3

-----------------------------------------------------------------------------
(* The theorems. *)

\* Everything the other theorems rest on: what the phase the command is in says of
\* the options, of the roles and their files, and of what each phase has read.
THEOREM Invariant == Spec => []IInv
<1>1. Init => IInv
  BY Starts
<1>2. IInv /\ [Next]_vars => IInv'
  <2> SUFFICES ASSUME IInv, [Next]_vars PROVE IInv'
    OBVIOUS
  <2>1. /\ TypeOK /\ Chart /\ Chosen /\ Unrun /\ Rounded /\ Renewed /\ Settled /\ Unread
        /\ VerifyAfterCleanBatch
    BY DEF IInv
  <2>2. TypeOK' /\ Chart' /\ Chosen' /\ Unrun' /\ Rounded'
    BY <2>1, TypeStep, ChartStep, ChosenStep, UnrunStep, RoundedStep
  <2>3. Renewed' /\ Settled' /\ Unread' /\ InputsOfThisRound' /\ VerifyAfterCleanBatch'
    BY <2>1, RenewedStep, SettledStep, UnreadStep, InputsStep, CleanStep
  <2> QED
    BY <2>2, <2>3 DEF IInv
<1> QED
  BY <1>1, <1>2, PTL DEF Spec

\* The variables of a campaign keep their types.
THEOREM Typed == Spec => []TypeOK
<1>1. IInv => TypeOK
  BY DEF IInv
<1> QED
  BY <1>1, Invariant, PTL

\* The review reads the reports of this round, and old ones only of roles left
\* alone, without a prompt, or silent.
THEOREM InputsOfThisRoundHolds == Spec => []InputsOfThisRound
<1>1. IInv => InputsOfThisRound
  BY DEF IInv
<1> QED
  BY <1>1, Invariant, PTL

\* Verify, and an exit code of 0, come after a clean batch.
THEOREM VerifyAfterCleanBatchHolds == Spec => []VerifyAfterCleanBatch
<1>1. IInv => VerifyAfterCleanBatch
  BY DEF IInv
<1> QED
  BY <1>1, Invariant, PTL

-----------------------------------------------------------------------------
(* The phases are a chain. *)

\* Where the command may stand in a phase, seen as the phase's outcome.
LEMMA Standings ==
  ASSUME NEW s
  PROVE  /\ s = "begin" => Standing(s) = "pending"
         /\ s \in {"bad", "enough"} => Standing(s) = s
         /\ s \notin {"begin", "bad", "enough"} => Standing(s) = "running"
  BY DEF Standing

\* A step of the command inside its phase, or out of it, moves that phase only.
LEMMA OnePhaseMoves ==
  ASSUME Chart, Walk
  PROVE  LET O == [i \in 1..5 |-> PhaseOutcome(i)]
             o == IF phase' = phase THEN Standing(step') ELSE "good"
         IN  /\ O' = [O EXCEPT ![phase] = o]
             /\ O[phase] = Standing(step)
             /\ \A j \in 1..5 : j < phase => O[j] = "good"
<1>1. phase \in 1..5
  BY Walks
<1>2. \/ phase' = phase
      \/ phase' = phase + 1 /\ step' = "begin"
  BY Walks DEF Pass
<1>3. Standing("begin") = "pending"
  BY Standings
<1> DEFINE o == IF phase' = phase THEN Standing(step') ELSE "good"
<1>4. ASSUME NEW i \in 1..5
      PROVE  PhaseOutcome(i)' = IF i = phase THEN o ELSE PhaseOutcome(i)
  <2>1. CASE phase' = phase
    BY <1>1, <2>1 DEF PhaseOutcome
  <2>2. CASE phase' = phase + 1 /\ step' = "begin"
    BY <1>1, <1>3, <2>2 DEF PhaseOutcome
  <2> QED
    BY <1>2, <2>1, <2>2
<1>5. PhaseOutcome(phase) = Standing(step) /\ \A j \in 1..5 : j < phase => PhaseOutcome(j) = "good"
  BY <1>1 DEF PhaseOutcome
<1> QED
  BY <1>1, <1>4, <1>5

\* No phase finds on its first step that there is nothing left to do.
LEMMA OnlyRefused ==
  ASSUME Walk, step = "begin"
  PROVE  step' # "enough"
  BY DEF Walk, Flags, PlannerEnds, Planned, SelectRoles, NothingStarted, CloseReport,
     SelectReports, ReviewEnds, StartCode, TurnEnds, CheckBatch, StartVerify, VerifyEnds,
     At, Goto

\* Every step of a campaign is a step of its chain of phases, or none.
THEOREM ImplementsChainHolds == Spec => ImplementsChain
<1> DEFINE O == [i \in 1..5 |-> PhaseOutcome(i)]
<1>1. Init => Phases!Init
  <2> SUFFICES ASSUME Init PROVE Phases!Init
    OBVIOUS
  <2>1. phase = 1 /\ step = "begin" /\ exit = "no"
    BY DEF Init, Plan
  <2>2. \A i \in 1..5 : PhaseOutcome(i) = "pending"
    BY <2>1, Standings DEF PhaseOutcome
  <2> QED
    BY <2>1, <2>2 DEF Phases!Init, Phases!Phases
<1>2. IInv /\ [Next]_vars => [Phases!Next]_<<O, exit>>
  <2> SUFFICES ASSUME IInv, [Next]_vars
               PROVE  Phases!Next \/ UNCHANGED <<O, exit>>
    OBVIOUS
  <2>1. CASE Return
    <3>1. exit = "no" /\ Stopped /\ exit' = (IF step = "bad" THEN "failed" ELSE "ok")
      BY <2>1 DEF Return, Stopped
    <3>2. UNCHANGED O
      BY <2>1 DEF Return, PhaseOutcome
    <3>3. phase \in 1..6
      BY DEF IInv, Chart
    <3>4. CASE phase = 6
      <4>1. step = "begin" /\ \A i \in 1..5 : O[i] = "good"
        BY <3>4 DEF PhaseOutcome, IInv, Chart, Steps, Plan, Report, Review, Code, Verify
      <4>2. Phases!Succeed
        BY <3>1, <3>2, <4>1 DEF Phases!Succeed, Phases!Phases
      <4> QED
        BY <4>2 DEF Phases!Next
    <3>5. CASE phase \in 1..5 /\ step = "bad"
      <4>1. O[phase] = "bad"
        BY <3>5, Standings DEF PhaseOutcome
      <4>2. Phases!Fail
        BY <3>1, <3>2, <3>5, <4>1 DEF Phases!Fail, Phases!Phases
      <4> QED
        BY <4>2 DEF Phases!Next
    <3>6. CASE phase \in 1..5 /\ step = "enough"
      <4>1. O[phase] = "enough"
        BY <3>6, Standings DEF PhaseOutcome
      <4>2. Phases!Succeed
        BY <3>1, <3>2, <3>6, <4>1 DEF Phases!Succeed, Phases!Phases
      <4> QED
        BY <4>2 DEF Phases!Next
    <3> QED
      BY <3>1, <3>3, <3>4, <3>5, <3>6 DEF Stopped, Verify
  <2>2. CASE Walk
    <3>1. UNCHANGED exit /\ exit = "no" /\ phase \in 1..5 /\ step \notin {"bad", "enough"}
      <4>1. exit = "no" /\ phase \in 1..5 /\ step \notin {"bad", "enough"}
        BY <2>2, Walks DEF IInv
      <4>2. ~Return
        BY <4>1 DEF Return, Verify
      <4> QED
        BY <4>1, <4>2, Moves
    <3>2. /\ O' = [O EXCEPT ![phase] = IF phase' = phase THEN Standing(step') ELSE "good"]
          /\ O[phase] = Standing(step)
          /\ \A j \in 1..5 : j < phase => O[j] = "good"
      BY <2>2, OnePhaseMoves DEF IInv
    <3>3. CASE step = "begin"
      <4>1. phase' = phase /\ step' # "begin" /\ step' # "enough"
        BY <2>2, <3>1, <3>3, Walks, OnlyRefused DEF IInv, Pass
      <4>2. Standing(step') \in {"running", "bad"}
        BY <4>1, Standings
      <4>3. O[phase] = "pending"
        BY <3>2, <3>3, Standings
      <4>4. Phases!Begin(phase)
        BY <3>1, <3>2, <4>1, <4>2, <4>3 DEF Phases!Begin, Phases!Phases
      <4> QED
        BY <3>1, <4>4 DEF Phases!Next, Phases!Phases
    <3>4. CASE step # "begin"
      <4>1. O[phase] = "running"
        BY <3>1, <3>2, <3>4, Standings
      <4>2. phase' = phase => step' # "begin"
        BY <2>2, <3>1, Walks DEF IInv, Pass
      <4>3. (IF phase' = phase THEN Standing(step') ELSE "good") \in {"running", "good", "bad", "enough"}
        BY <4>2, Standings
      <4>4. CASE (IF phase' = phase THEN Standing(step') ELSE "good") = "running"
        <5>1. O \in [1..5 -> {"good", "pending", "running", "bad", "enough"}]
          BY Standings DEF PhaseOutcome
        <5>2. O' = O
          BY <3>1, <3>2, <4>1, <4>4, <5>1
        <5> QED
          BY <3>1, <5>2
      <4>5. CASE (IF phase' = phase THEN Standing(step') ELSE "good") # "running"
        <5>1. Phases!End(phase)
          BY <3>1, <3>2, <4>1, <4>3, <4>5 DEF Phases!End
        <5> QED
          BY <3>1, <5>1 DEF Phases!Next, Phases!Phases
      <4> QED
        BY <4>4, <4>5
    <3> QED
      BY <3>3, <3>4
  <2>3. CASE UNCHANGED <<phase, step, exit>>
    BY <2>3 DEF PhaseOutcome
  <2> QED
    BY <2>1, <2>2, <2>3, Moves
<1>3. Spec => []IInv
  BY Invariant
<1> QED
  BY <1>1, <1>2, <1>3, PTL DEF Spec, ImplementsChain, Phases!Spec, Phases!chainVars
=============================================================================
