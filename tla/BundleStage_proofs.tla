------------------------- MODULE BundleStage_proofs -------------------------
(***************************************************************************)
(* Proofs about BundleStage, for every number of bundles, every labelling  *)
(* and every mode: the reporter hears one end per start, a result called   *)
(* good is a row recorded as a success, and rows live as ExecRow says.     *)
(***************************************************************************)
EXTENDS BundleStage, FiniteSetTheorems, TLAPS

FlowType == [state : Flows, reason : Reasons]
ShownType == {"queued", "running", "done", "error", "skipped"}

LEMMA FlowTyped ==
  ASSUME NEW s \in Flows, NEW r \in Reasons
  PROVE  /\ Flow(s, r) \in FlowType
         /\ Flow(s, r).state = s /\ Flow(s, r).reason = r
BY DEF Flow, FlowType

LEMMA UndecidedTyped ==
  Undecided \in FlowType /\ Undecided.state = "continue"
BY DEF Undecided, Flow, FlowType, Flows, Reasons

LEMMA FinalShown ==
  ASSUME NEW s \in Flows
  PROVE  Final(s) \in ShownType
BY DEF Final, Flows, ShownType

\* The four rows of the table that StageEnd moves are finitely many.
LEMMA CountableRows ==
  ASSUME NEW S \in SUBSET Bundles
  PROVE  Cardinality(S) \in Nat
<1>1. IsFiniteSet(Bundles)
  BY BundleStageAssumption, FS_Interval DEF Bundles
<1>2. IsFiniteSet(S)
  BY <1>1, FS_Subset
<1> QED
  BY <1>2, FS_CardinalityType

\* Typing, one step per action that moves a variable TypeOK constrains.
LEMMA InitTyped == Init => TypeOK
<1> SUFFICES ASSUME Init PROVE TypeOK
  OBVIOUS
<1>1. fate \in [Bundles -> {"pending", "started", "refused", "settled"}] /\ returned \in BOOLEAN
  BY DEF Init, Pool!Init, Pool!Steps, Bundles
<1>2. verdict \in [Bundles -> FlowType]
  BY UndecidedTyped DEF Init
<1> QED
  BY <1>1, <1>2 DEF Init, TypeOK, Phases, FlowType, ShownType

LEMMA ExecuteTyped ==
  ASSUME TypeOK, NEW b \in Bundles, Execute(b)
  PROVE  TypeOK'
<1> USE DEF TypeOK, Phases, FlowType, ShownType, pool, calls, table, exec
<1>f. \A s \in Flows, r \in Reasons : Flow(s, r) \in FlowType
  BY FlowTyped
<1>v. verdict[b] \in FlowType /\ verdict[b].state \in Flows
  OBVIOUS
<1>1. CASE RunPreExec(b)
  <2>1. PICK f \in PreFlows \cup {"continue"} :
          IF f = "continue"
          THEN Goto(b, "opts") /\ UNCHANGED verdict
          ELSE Decide(b, Flow(f, "action"))
    BY <1>1 DEF RunPreExec
  <2>a. PreFlows \subseteq Flows /\ "continue" \in Flows /\ "action" \in Reasons
    BY BundleStageAssumption DEF Flows, Reasons
  <2>2. Flow(f, "action") \in FlowType
    BY <2>a, FlowTyped
  <2> QED
    BY <1>1, <2>1, <2>2 DEF RunPreExec, Goto, Decide
<1>2. CASE Preview(b)
  <2>1. PICK f \in {Flow("continue", "dry-run"), Flow("error", "render failed")} : Decide(b, f)
    BY <1>2 DEF Preview
  <2>2. f \in FlowType
    <3>1. "dry-run" \in Reasons /\ "render failed" \in Reasons
      BY DEF Reasons
    <3>2. "continue" \in Flows /\ "error" \in Flows
      BY DEF Flows
    <3>3. Flow("continue", "dry-run") \in FlowType /\ Flow("error", "render failed") \in FlowType
      BY <1>f, <3>1, <3>2
    <3> QED
      BY <2>1, <3>3
  <2> QED
    BY <1>2, <2>1, <2>2 DEF Preview, Goto, Decide
<1>3. CASE Prepare(b)
  <2>1. Flow("error", "prepare failed") \in FlowType
    BY <1>f DEF Flows, Reasons
  <2>2. CASE SetRow(b, "open") /\ Goto(b, "resolve") /\ UNCHANGED verdict
    BY <1>3, <2>2 DEF Prepare, Goto, SetRow
  <2>3. CASE Decide(b, Flow("error", "prepare failed")) /\ UNCHANGED row
    BY <1>3, <2>1, <2>3 DEF Prepare, Goto, Decide
  <2> QED
    BY <1>3, <2>2, <2>3 DEF Prepare
<1>4. CASE ResolveFails(b)
  <2>1. Flow("error", "render failed") \in FlowType
    BY <1>f DEF Flows, Reasons
  <2> QED
    BY <1>4, <2>1 DEF ResolveFails, Goto, Decide, CloseRow, SetRow
<1>5. CASE Resolve(b)
  BY <1>5 DEF Resolve, Goto, Show
<1>6. CASE FailEarly(b)
  <2>1. Flow("error", "failed early") \in FlowType
    BY <1>f DEF Flows, Reasons
  <2> QED
    BY <1>6, <2>1 DEF FailEarly, Goto, Decide
<1>7. CASE Launch(b)
  BY <1>7 DEF Launch, Goto
<1>8. CASE RecordPid(b)
  BY <1>8 DEF RecordPid, SetRow
<1>9. CASE AgentEvent(b)
  <2>1. PICK s \in {"running", "done", "error"} :
          Show(b, IF shown[RowOf(Label[b])] \in {"done", "error"}
                  THEN shown[RowOf(Label[b])] ELSE s)
    BY <1>9 DEF AgentEvent
  <2>2. shown' \in [Bundles -> ShownType]
    BY <2>1 DEF Show
  <2> QED
    BY <1>9, <2>2 DEF AgentEvent
<1>10. CASE ExecEnds(b)
  <2>1. Flow("error", "agent") \in FlowType
    BY <1>f DEF Flows, Reasons
  <2>2. CASE CloseRow(b, "ok") /\ Goto(b, "post") /\ UNCHANGED verdict
    BY <1>10, <2>2 DEF ExecEnds, Goto, CloseRow, SetRow
  <2>3. CASE CloseRow(b, "failed") /\ Decide(b, Flow("error", "agent"))
    BY <1>10, <2>1, <2>3 DEF ExecEnds, Goto, Decide, CloseRow, SetRow
  <2> QED
    BY <1>10, <2>2, <2>3 DEF ExecEnds
<1>11. CASE RunPostExec(b)
  <2>1. Flow("error", "action") \in FlowType
    BY <1>f DEF Flows, Reasons
  <2>2. PICK f \in PostFlows \cup {"continue"} :
          Decide(b, IF f = "error" THEN Flow("error", "action") ELSE verdict[b])
    BY <1>11 DEF RunPostExec
  <2>3. verdict' \in [Bundles -> FlowType] /\ phase' \in [Bundles -> Phases]
    BY <1>v, <2>1, <2>2 DEF Decide, Goto
  <2> QED
    BY <1>11, <2>3 DEF RunPostExec
<1>12. CASE Panic(b)
  <2>1. Flow("error", "panic") \in FlowType
    BY <1>f DEF Flows, Reasons
  <2> QED
    BY <1>12, <2>1 DEF Panic, Goto, Decide
<1>13. CASE Emit(b)
  <2>1. Final(verdict[b].state) \in ShownType
    BY <1>v, FinalShown
  <2>2. shown' \in [Bundles -> ShownType]
    BY <1>13, <2>1 DEF Emit, Show
  <2>3. count' \in [Flows -> Nat] /\ ended' \in [Bundles -> Nat]
    BY <1>13, <1>v DEF Emit
  <2> QED
    BY <1>13, <2>2, <2>3 DEF Emit, Goto
<1>14. CASE Return(b)
  BY <1>14 DEF Return, Pool!Settle
<1> QED
  BY <1>1, <1>2, <1>3, <1>4, <1>5, <1>6, <1>7, <1>8, <1>9, <1>10, <1>11, <1>12, <1>13, <1>14
     DEF Execute

LEMMA NextTyped == TypeOK /\ [Next]_vars => TypeOK'
<1> SUFFICES ASSUME TypeOK, [Next]_vars PROVE TypeOK'
  OBVIOUS
<1> USE DEF TypeOK, pool, calls, table, exec
<1>1. CASE Verify
  BY <1>1 DEF Verify
<1>2. CASE StageEnd
  <2> DEFINE late == {i \in Bundles : shown[i] = "queued"}
  <2>1. Cardinality(late) \in Nat
    BY CountableRows
  <2>2. shown' = [i \in Bundles |-> IF i \in late THEN "skipped" ELSE shown[i]]
        /\ count' = [count EXCEPT !["skip"] = @ + Cardinality(late)]
    BY <1>2 DEF StageEnd
  <2>3. shown' \in [Bundles -> {"queued", "running", "done", "error", "skipped"}]
    BY <2>2
  <2>4. count' \in [Flows -> Nat]
    BY <2>1, <2>2 DEF Flows
  <2> QED
    BY <1>2, <2>3, <2>4 DEF StageEnd, Pool!Return
<1>3. CASE Close
  BY <1>3 DEF Close
<1>4. ASSUME NEW b \in Bundles, BundleStart(b) PROVE TypeOK'
  BY <1>4 DEF BundleStart, Goto, Pool!Start, Phases
<1>5. ASSUME NEW b \in Bundles, Refuse(b) PROVE TypeOK'
  <2>1. Flow("skip", "none") \in [state : Flows, reason : Reasons]
    BY FlowTyped DEF FlowType, Flows, Reasons
  <2> QED
    BY <1>5, <2>1 DEF Refuse, Pool!Refuse
<1>6. ASSUME NEW b \in Bundles, Execute(b) PROVE TypeOK'
  BY <1>6, ExecuteTyped
<1>7. CASE UNCHANGED vars
  BY <1>7 DEF vars
<1> QED
  BY <1>1, <1>2, <1>3, <1>4, <1>5, <1>6, <1>7 DEF Next, Command, Finished

\* The typing invariant of every behaviour (table_reporter.go:29-52).
THEOREM TypeCorrect == Spec => []TypeOK
<1> QED
  BY InitTyped, NextTyped, PTL DEF Spec

-----------------------------------------------------------------------------
(* The inductive invariant. *)

Same(c) == /\ fate'[c] = fate[c] /\ phase'[c] = phase[c] /\ verdict'[c] = verdict[c]
           /\ row'[c] = row[c] /\ started'[c] = started[c] /\ ended'[c] = ended[c]
           /\ c \in lost' <=> c \in lost

\* A step writes lost for the bundle it works on only.
LostOnly(b) == \A c \in Bundles \ {b} : c \in lost' <=> c \in lost

\* A step that leaves a bundle alone keeps its invariant.
LEMMA Undisturbed ==
  ASSUME NEW c \in Bundles, PoolInv(c), PhaseInv(c), mode' = mode, Same(c)
  PROVE  PoolInv(c)' /\ PhaseInv(c)'
BY DEF PoolInv, PhaseInv, Same

\* Where execute is decides what the pool knows of the bundle.
LEMMA Executing ==
  ASSUME IInv, NEW b \in Bundles,
         phase[b] \in {"pre", "opts", "resolve", "start", "loop", "post", "emit"}
  PROVE  fate[b] = "started" /\ started[b] = 1 /\ ended[b] = 0
BY DEF IInv, TypeOK, PoolInv

\* A step inside execute that neither ends the bundle nor touches the calls.
LEMMA InsideStep ==
  ASSUME IInv, NEW b \in Bundles,
         phase[b] \in {"pre", "opts", "resolve", "start", "loop", "post"},
         UNCHANGED <<fate, started, ended, mode>>,
         NEW p \in {"opts", "resolve", "start", "loop", "post", "emit"},
         phase' = [phase EXCEPT ![b] = p],
         PhaseInv(b)', LostOnly(b),
         \A c \in Bundles \ {b} : verdict'[c] = verdict[c] /\ row'[c] = row[c]
  PROVE  \A c \in Bundles : PoolInv(c)' /\ PhaseInv(c)'
<1>1. phase'[b] = p /\ fate'[b] = "started" /\ started'[b] = 1 /\ ended'[b] = 0
  BY Executing DEF IInv, TypeOK
<1>2. PoolInv(b)'
  BY <1>1 DEF PoolInv
<1>3. ASSUME NEW c \in Bundles, c # b PROVE PoolInv(c)' /\ PhaseInv(c)'
  <2>1. Same(c)
    BY <1>3 DEF Same, IInv, TypeOK, LostOnly
  <2> QED
    BY <2>1, Undisturbed DEF IInv
<1> QED
  BY <1>2, <1>3

\* Deciding on anything but continue, with a row that is not open unless the
\* reason says so.
LEMMA DecideStep ==
  ASSUME IInv, NEW b \in Bundles, NEW f \in FlowType,
         phase[b] \in {"pre", "opts", "resolve", "start", "loop", "post"},
         Decide(b, f), row'[b] \in {"none", "open", "live", "ok", "failed"},
         UNCHANGED <<fate, started, ended, mode>>, LostOnly(b),
         \A c \in Bundles \ {b} : row'[c] = row[c],
         f.state = "continue" => row'[b] = (IF mode.dry THEN "none" ELSE "ok") \/ b \in lost',
         row'[b] \in {"open", "live"} =>
           f.reason \in {"panic", "failed early"} \/ b \in lost'
  PROVE  \A c \in Bundles : PoolInv(c)' /\ PhaseInv(c)'
<1>1. /\ phase' = [phase EXCEPT ![b] = "emit"] /\ phase'[b] = "emit"
      /\ verdict'[b] = f
      /\ \A c \in Bundles \ {b} : verdict'[c] = verdict[c]
  BY DEF Decide, Goto, IInv, TypeOK
<1>2. PhaseInv(b)'
  BY <1>1 DEF PhaseInv
<1> QED
  BY <1>1, <1>2, InsideStep

LEMMA LostKept ==
  ASSUME NEW b \in Bundles, UNCHANGED lost
  PROVE  LostOnly(b)
BY DEF LostOnly

\* The last write of a row leaves it as it should be, or as it was.
LEMMA Closes ==
  ASSUME NEW b \in Bundles, NEW r, CloseRow(b, r),
         row \in [Bundles -> {"none", "open", "live", "ok", "failed"}]
  PROVE  /\ LostOnly(b) /\ \A c \in Bundles \ {b} : row'[c] = row[c]
         /\ row'[b] = r \/ (row'[b] = row[b] /\ b \in lost')
BY DEF CloseRow, SetRow, LostOnly

LEMMA ExecuteInv ==
  ASSUME IInv, NEW b \in Bundles, Execute(b)
  PROVE  \A c \in Bundles : PoolInv(c)' /\ PhaseInv(c)'
<1>t. /\ phase \in [Bundles -> Phases] /\ verdict \in [Bundles -> FlowType]
      /\ row \in [Bundles -> {"none", "open", "live", "ok", "failed"}]
      /\ started \in [Bundles -> Nat] /\ ended \in [Bundles -> Nat]
      /\ fate \in [Bundles -> {"pending", "started", "refused", "settled"}]
      /\ PhaseInv(b)
  BY DEF IInv, TypeOK, FlowType
<1>u. Undecided.state = "continue"
  BY UndecidedTyped
<1>1. CASE RunPreExec(b)
  <2>0. phase[b] = "pre" /\ UNCHANGED <<fate, started, ended, mode, row, lost>>
    BY <1>1 DEF RunPreExec, pool, calls
  <2>1. PICK f \in PreFlows \cup {"continue"} :
          IF f = "continue"
          THEN Goto(b, "opts") /\ UNCHANGED verdict
          ELSE Decide(b, Flow(f, "action"))
    BY <1>1 DEF RunPreExec
  <2>2. CASE f = "continue"
    <3>1. phase' = [phase EXCEPT ![b] = "opts"] /\ phase'[b] = "opts" /\ verdict' = verdict
      BY <2>1, <2>2, <1>t DEF Goto
    <3>2. PhaseInv(b)'
      BY <1>t, <2>0, <3>1 DEF PhaseInv
    <3> QED
      BY <2>0, <3>1, <3>2, LostKept, InsideStep
  <2>3. CASE f # "continue"
    <3>1. PreFlows \subseteq Flows
      BY BundleStageAssumption DEF Flows
    <3>2. /\ Flow(f, "action") \in FlowType
          /\ Flow(f, "action").state = f
      BY <3>1, <2>3, FlowTyped DEF Reasons
    <3>3. row'[b] = "none"
      BY <1>t, <2>0 DEF PhaseInv
    <3> QED
      BY <2>0, <2>1, <2>3, <3>2, <3>3, LostKept, DecideStep
  <2> QED
    BY <2>2, <2>3
<1>2. CASE Preview(b)
  <2>0. phase[b] = "opts" /\ mode.dry /\ UNCHANGED <<fate, started, ended, mode, row, lost>>
    BY <1>2 DEF Preview, pool, calls
  <2>1. PICK f \in {Flow("continue", "dry-run"), Flow("error", "render failed")} : Decide(b, f)
    BY <1>2 DEF Preview
  <2>2. Flow("continue", "dry-run") \in FlowType /\ Flow("error", "render failed") \in FlowType
    BY FlowTyped DEF Flows, Reasons
  <2>3. row'[b] = "none"
    BY <1>t, <2>0 DEF PhaseInv
  <2> QED
    BY <2>0, <2>1, <2>2, <2>3, LostKept, DecideStep
<1>3. CASE Prepare(b)
  <2>0. phase[b] = "opts" /\ ~mode.dry /\ UNCHANGED <<fate, started, ended, mode, lost>>
    BY <1>3 DEF Prepare, pool, calls
  <2>1. CASE SetRow(b, "open") /\ Goto(b, "resolve") /\ UNCHANGED verdict
    <3>1. /\ phase' = [phase EXCEPT ![b] = "resolve"] /\ phase'[b] = "resolve"
          /\ verdict' = verdict /\ row'[b] = "open"
          /\ \A c \in Bundles \ {b} : row'[c] = row[c]
      BY <2>1, <1>t DEF Goto, SetRow
    <3>2. PhaseInv(b)'
      BY <1>t, <2>0, <3>1 DEF PhaseInv
    <3> QED
      BY <2>0, <3>1, <3>2, LostKept, InsideStep
  <2>2. CASE Decide(b, Flow("error", "prepare failed")) /\ UNCHANGED row
    <3>1. /\ Flow("error", "prepare failed") \in FlowType
          /\ Flow("error", "prepare failed").state = "error"
      BY FlowTyped DEF Flows, Reasons
    <3>2. row'[b] = "none"
      BY <1>t, <2>0, <2>2 DEF PhaseInv
    <3> QED
      BY <2>0, <2>2, <3>1, <3>2, LostKept, DecideStep
  <2> QED
    BY <1>3, <2>1, <2>2 DEF Prepare
<1>4. CASE ResolveFails(b)
  <2>0. phase[b] = "resolve" /\ UNCHANGED <<fate, started, ended, mode>>
        /\ Decide(b, Flow("error", "render failed"))
    BY <1>4 DEF ResolveFails, pool, calls
  <2>1. /\ Flow("error", "render failed") \in FlowType
        /\ Flow("error", "render failed").state = "error"
    BY FlowTyped DEF Flows, Reasons
  <2>2. CloseRow(b, "failed")
    BY <1>4 DEF ResolveFails
  <2>3. /\ LostOnly(b) /\ \A c \in Bundles \ {b} : row'[c] = row[c]
        /\ row'[b] = "failed" \/ (row'[b] = row[b] /\ b \in lost')
    BY <2>2, <1>t, Closes
  <2>4. row[b] \in {"none", "open", "live", "ok", "failed"}
    BY <1>t
  <2> QED
    BY <2>0, <2>1, <2>3, <2>4, DecideStep
<1>5. CASE Resolve(b)
  <2>0. phase[b] = "resolve" /\ UNCHANGED <<fate, started, ended, mode, verdict, row, lost>>
        /\ phase' = [phase EXCEPT ![b] = "start"] /\ phase'[b] = "start"
    BY <1>5, <1>t DEF Resolve, Goto, pool, calls
  <2>1. PhaseInv(b)'
    BY <1>t, <2>0 DEF PhaseInv
  <2> QED
    BY <2>0, <2>1, LostKept, InsideStep
<1>6. CASE FailEarly(b)
  <2>0. phase[b] = "start" /\ UNCHANGED <<fate, started, ended, mode, row, lost>>
        /\ Decide(b, Flow("error", "failed early"))
    BY <1>6 DEF FailEarly, pool, calls
  <2>1. /\ Flow("error", "failed early") \in FlowType
        /\ Flow("error", "failed early").state = "error"
        /\ Flow("error", "failed early").reason = "failed early"
    BY FlowTyped DEF Flows, Reasons
  <2>2. row'[b] = "open"
    BY <1>t, <2>0 DEF PhaseInv
  <2> QED
    BY <2>0, <2>1, <2>2, LostKept, DecideStep
<1>7. CASE Launch(b)
  <2>0. phase[b] = "start" /\ UNCHANGED <<fate, started, ended, mode, verdict, row, lost>>
        /\ phase' = [phase EXCEPT ![b] = "loop"] /\ phase'[b] = "loop"
    BY <1>7, <1>t DEF Launch, Goto, pool, calls
  <2>1. PhaseInv(b)'
    BY <1>t, <2>0 DEF PhaseInv
  <2> QED
    BY <2>0, <2>1, LostKept, InsideStep
<1>8. CASE RecordPid(b)
  <2>0. phase[b] = "loop" /\ UNCHANGED <<fate, started, ended, mode, verdict, phase, lost>>
        /\ row'[b] = "live" /\ \A c \in Bundles \ {b} : row'[c] = row[c]
    BY <1>8, <1>t DEF RecordPid, SetRow, pool, calls
  <2>1. PhaseInv(b)'
    BY <1>t, <2>0 DEF PhaseInv
  <2>2. phase' = [phase EXCEPT ![b] = "loop"]
    BY <2>0, <1>t
  <2> QED
    BY <2>0, <2>1, <2>2, LostKept, InsideStep
<1>9. CASE AgentEvent(b)
  <2>1. UNCHANGED <<fate, started, ended, mode, verdict, phase, row, lost>>
    BY <1>9 DEF AgentEvent, pool, calls, exec
  <2>2. ASSUME NEW c \in Bundles PROVE PoolInv(c)' /\ PhaseInv(c)'
    BY <2>1, Undisturbed DEF IInv, Same
  <2> QED
    BY <2>2
<1>10. CASE ExecEnds(b)
  <2>0. phase[b] = "loop" /\ UNCHANGED <<fate, started, ended, mode>>
    BY <1>10 DEF ExecEnds, pool, calls
  <2>t. row[b] \in {"none", "open", "live", "ok", "failed"}
    BY <1>t
  <2>1. CASE CloseRow(b, "ok") /\ Goto(b, "post") /\ UNCHANGED verdict
    <3>1. /\ phase' = [phase EXCEPT ![b] = "post"] /\ phase'[b] = "post"
          /\ verdict' = verdict
      BY <2>1, <1>t DEF Goto
    <3>2. /\ LostOnly(b) /\ \A c \in Bundles \ {b} : row'[c] = row[c]
          /\ row'[b] = "ok" \/ (row'[b] = row[b] /\ b \in lost')
      BY <2>1, <1>t, Closes
    <3>3. PhaseInv(b)'
      BY <1>t, <2>0, <3>1, <3>2 DEF PhaseInv
    <3> QED
      BY <2>0, <3>1, <3>2, <3>3, InsideStep
  <2>2. CASE CloseRow(b, "failed") /\ Decide(b, Flow("error", "agent"))
    <3>1. /\ Flow("error", "agent") \in FlowType
          /\ Flow("error", "agent").state = "error"
      BY FlowTyped DEF Flows, Reasons
    <3>2. /\ LostOnly(b) /\ \A c \in Bundles \ {b} : row'[c] = row[c]
          /\ row'[b] = "failed" \/ (row'[b] = row[b] /\ b \in lost')
      BY <2>2, <1>t, Closes
    <3> QED
      BY <2>0, <2>2, <2>t, <3>1, <3>2, DecideStep
  <2> QED
    BY <1>10, <2>1, <2>2 DEF ExecEnds
<1>11. CASE RunPostExec(b)
  <2>0. phase[b] = "post" /\ UNCHANGED <<fate, started, ended, mode, row, lost>>
    BY <1>11 DEF RunPostExec, pool, calls
  <2>1. PICK f \in PostFlows \cup {"continue"} :
          Decide(b, IF f = "error" THEN Flow("error", "action") ELSE verdict[b])
    BY <1>11 DEF RunPostExec
  <2>2. /\ Flow("error", "action") \in FlowType
        /\ Flow("error", "action").state = "error"
    BY FlowTyped DEF Flows, Reasons
  <2>3. /\ row'[b] = "ok" \/ b \in lost'
        /\ ~mode.dry /\ verdict[b] \in FlowType
        /\ row'[b] \in {"none", "open", "live", "ok", "failed"}
    BY <1>t, <2>0 DEF PhaseInv
  <2> DEFINE g == IF f = "error" THEN Flow("error", "action") ELSE verdict[b]
  <2>4. g \in FlowType
    BY <2>2, <2>3
  <2> HIDE DEF g
  <2> QED
    BY <2>0, <2>1, <2>3, <2>4, LostKept, DecideStep DEF g
<1>12. CASE Panic(b)
  <2>0. /\ phase[b] \in {"pre", "opts", "resolve", "start", "loop", "post"}
        /\ UNCHANGED <<fate, started, ended, mode, row, lost>>
        /\ Decide(b, Flow("error", "panic"))
    BY <1>12 DEF Panic, pool, calls
  <2>1. /\ Flow("error", "panic") \in FlowType
        /\ Flow("error", "panic").state = "error"
        /\ Flow("error", "panic").reason = "panic"
    BY FlowTyped DEF Flows, Reasons
  <2>2. row'[b] \in {"none", "open", "live", "ok", "failed"}
    BY <1>t, <2>0
  <2> QED
    BY <2>0, <2>1, <2>2, LostKept, DecideStep
<1>13. CASE Emit(b)
  <2>0. /\ phase[b] = "emit" /\ UNCHANGED <<fate, started, mode, row, verdict, lost>>
        /\ phase'[b] = "over" /\ ended'[b] = ended[b] + 1
        /\ \A c \in Bundles \ {b} : phase'[c] = phase[c] /\ ended'[c] = ended[c]
    BY <1>13, <1>t DEF Emit, Goto, pool
  <2>1. fate[b] = "started" /\ started[b] = 1 /\ ended[b] = 0
    BY <2>0, Executing
  <2>2. PoolInv(b)'
    BY <2>0, <2>1 DEF PoolInv
  <2>3. PhaseInv(b)'
    BY <2>0, <1>t DEF PhaseInv
  <2>4. ASSUME NEW c \in Bundles, c # b PROVE PoolInv(c)' /\ PhaseInv(c)'
    BY <2>0, <2>4, Undisturbed DEF IInv, Same
  <2> QED
    BY <2>2, <2>3, <2>4
<1>14. CASE Return(b)
  <2>0. /\ phase[b] = "over" /\ UNCHANGED <<phase, verdict, row, started, ended, mode, lost>>
        /\ fate[b] = "started" /\ fate'[b] = "settled"
        /\ \A c \in Bundles \ {b} : fate'[c] = fate[c]
    BY <1>14, <1>t DEF Return, Pool!Settle, exec, calls
  <2>1. PoolInv(b)'
    BY <2>0 DEF PoolInv, IInv
  <2>2. PhaseInv(b)'
    BY <2>0, <1>t DEF PhaseInv
  <2>3. ASSUME NEW c \in Bundles, c # b PROVE PoolInv(c)' /\ PhaseInv(c)'
    BY <2>0, <2>3, Undisturbed DEF IInv, Same
  <2> QED
    BY <2>1, <2>2, <2>3
<1> QED
  BY <1>1, <1>2, <1>3, <1>4, <1>5, <1>6, <1>7, <1>8, <1>9, <1>10, <1>11, <1>12, <1>13, <1>14
     DEF Execute

LEMMA NextInv == IInv /\ [Next]_vars => IInv'
<1> SUFFICES ASSUME IInv, [Next]_vars PROVE IInv'
  OBVIOUS
<1>t. /\ phase \in [Bundles -> Phases] /\ verdict \in [Bundles -> FlowType]
      /\ row \in [Bundles -> {"none", "open", "live", "ok", "failed"}]
      /\ started \in [Bundles -> Nat] /\ ended \in [Bundles -> Nat]
      /\ fate \in [Bundles -> {"pending", "started", "refused", "settled"}]
  BY DEF IInv, TypeOK, FlowType
<1>0. TypeOK'
  BY NextTyped DEF IInv
<1>1. CASE Verify \/ StageEnd \/ Close \/ UNCHANGED vars
  <2>1. UNCHANGED <<fate, started, ended, mode, verdict, phase, row, lost>>
    BY <1>1 DEF Verify, StageEnd, Close, Pool!Return, vars, pool, calls, exec
  <2>2. ASSUME NEW c \in Bundles PROVE PoolInv(c)' /\ PhaseInv(c)'
    BY <2>1, Undisturbed DEF IInv, Same
  <2> QED
    BY <1>0, <2>2 DEF IInv
<1>2. ASSUME NEW b \in Bundles, BundleStart(b) PROVE IInv'
  <2>1. /\ fate[b] = "pending" /\ fate'[b] = "started" /\ phase'[b] = "pre"
        /\ started'[b] = started[b] + 1 /\ UNCHANGED <<verdict, row, ended, mode, lost>>
        /\ \A c \in Bundles \ {b} : /\ fate'[c] = fate[c] /\ phase'[c] = phase[c]
                                     /\ started'[c] = started[c]
    BY <1>2, <1>t DEF BundleStart, Pool!Start, Pool!InOrder, Goto
  <2>2. PoolInv(b)'
    BY <2>1 DEF PoolInv, IInv
  <2>3. verdict[b] = Undecided /\ row[b] = "none"
    BY <2>1 DEF PoolInv, IInv
  <2>4. PhaseInv(b)'
    BY <2>1, <2>3 DEF PhaseInv
  <2>5. ASSUME NEW c \in Bundles, c # b PROVE PoolInv(c)' /\ PhaseInv(c)'
    BY <2>1, <2>5, Undisturbed DEF IInv, Same
  <2> QED
    BY <1>0, <2>2, <2>4, <2>5 DEF IInv
<1>3. ASSUME NEW b \in Bundles, Refuse(b) PROVE IInv'
  <2>1. /\ fate[b] = "pending" /\ fate'[b] = "refused"
        /\ UNCHANGED <<phase, row, started, ended, mode, lost>>
        /\ \A c \in Bundles \ {b} : fate'[c] = fate[c] /\ verdict'[c] = verdict[c]
    BY <1>3, <1>t DEF Refuse, Pool!Refuse, Pool!InOrder, calls
  <2>2. PoolInv(b)' /\ phase[b] = "idle"
    BY <2>1 DEF PoolInv, IInv
  <2>3. PhaseInv(b)'
    BY <2>1, <2>2 DEF PhaseInv
  <2>4. ASSUME NEW c \in Bundles, c # b PROVE PoolInv(c)' /\ PhaseInv(c)'
    BY <2>1, <2>4, Undisturbed DEF IInv, Same
  <2> QED
    BY <1>0, <2>2, <2>3, <2>4 DEF IInv
<1>4. ASSUME NEW b \in Bundles, Execute(b) PROVE IInv'
  BY <1>0, <1>4, ExecuteInv DEF IInv
<1> QED
  BY <1>1, <1>2, <1>3, <1>4 DEF Next, Command, Finished

LEMMA InitInv == Init => IInv
<1> SUFFICES ASSUME Init PROVE IInv
  OBVIOUS
<1>1. TypeOK
  BY InitTyped
<1>2. ASSUME NEW b \in Bundles PROVE PoolInv(b) /\ PhaseInv(b)
  <2>1. /\ fate[b] = "pending" /\ phase[b] = "idle" /\ row[b] = "none"
        /\ started[b] = 0 /\ ended[b] = 0 /\ verdict[b] = Undecided
    BY DEF Init, Pool!Init, Pool!Steps, Bundles
  <2> QED
    BY <2>1 DEF PoolInv, PhaseInv
<1> QED
  BY <1>1, <1>2 DEF IInv

\* The inductive invariant: at every place of execute (flow.go:629-728), what
\* the pool, the reporter and the database know of the bundle.
THEOREM Invariant == Spec => []IInv
<1> QED
  BY InitInv, NextInv, PTL DEF Spec

\* The reporter hears one BundleEnd for every BundleStart (flow.go:625).
THEOREM AlwaysPairedHolds == Spec => []AlwaysPaired
<1>1. ASSUME IInv, NEW b \in Bundles
      PROVE  /\ ended[b] <= started[b] /\ started[b] <= 1
             /\ fate[b] = "settled" => ended[b] = 1
             /\ fate[b] \in {"pending", "refused"} => started[b] = 0
  <2>1. PoolInv(b) /\ fate[b] \in {"pending", "started", "refused", "settled"}
    BY <1>1 DEF IInv, TypeOK
  <2>2. CASE fate[b] = "started"
    BY <2>1, <2>2 DEF PoolInv
  <2>3. CASE fate[b] # "started"
    BY <2>1, <2>3 DEF PoolInv
  <2> QED
    BY <2>2, <2>3
<1>2. IInv => AlwaysPaired
  BY <1>1 DEF AlwaysPaired
<1> QED
  BY <1>2, Invariant, PTL

\* What the flow calls good the database calls a success (flow.go:715-719),
\* unless the row could not be written.
THEOREM GoodIsRecordedHolds == Spec => []GoodIsRecorded
<1>1. ASSUME IInv, NEW b \in Bundles, fate[b] = "settled", verdict[b].state = "continue"
      PROVE  row[b] = (IF mode.dry THEN "none" ELSE "ok") \/ b \in lost
  <2>1. phase[b] = "over"
    BY <1>1 DEF IInv, PoolInv
  <2> QED
    BY <1>1, <2>1 DEF IInv, PhaseInv
<1>2. IInv => GoodIsRecorded
  BY <1>1 DEF GoodIsRecorded
<1> QED
  BY <1>2, Invariant, PTL

\* Only a panic, a failure before the launch or a failed write leaves a row
\* open (flow.go:699-707, runner.go:1043-1066).
THEOREM NoOrphanRowHolds == Spec => []NoOrphanRow
<1>1. ASSUME IInv, NEW b \in Bundles, fate[b] = "settled", row[b] \in {"open", "live"}
      PROVE  verdict[b].reason \in {"panic", "failed early"} \/ b \in lost
  <2>1. phase[b] = "over"
    BY <1>1 DEF IInv, PoolInv
  <2> QED
    BY <1>1, <2>1 DEF IInv, PhaseInv
<1>2. IInv => NoOrphanRow
  BY <1>1 DEF NoOrphanRow
<1> QED
  BY <1>2, Invariant, PTL

\* One row's step, with the instance unfolded.
LEMMA RowStep ==
  ASSUME NEW b \in Bundles,
         \/ row[b] = "none" /\ row'[b] = "open"
         \/ row[b] = "open" /\ row'[b] = "live"
         \/ row[b] \in {"open", "live"} /\ row'[b] = "ok"
         \/ row[b] \in {"open", "live"} /\ row'[b] = "failed"
  PROVE  Row(b)!Next
BY DEF Row!Next, Row!Insert, Row!RecordPid, Row!CloseOk, Row!CloseFailed

\* A step that moves only b's row, and moves it as ExecRow does.
LEMMA OneRowMoves ==
  ASSUME NEW b \in Bundles, row \in [Bundles -> {"none", "open", "live", "ok", "failed"}],
         NEW r, SetRow(b, r),
         \/ row[b] = "none" /\ r = "open"
         \/ row[b] = "open" /\ r = "live"
         \/ row[b] \in {"open", "live"} /\ r = "ok"
         \/ row[b] \in {"open", "live"} /\ r = "failed"
  PROVE  \A c \in Bundles : Row(c)!Next \/ row'[c] = row[c]
<1>1. row'[b] = r /\ \A c \in Bundles \ {b} : row'[c] = row[c]
  BY DEF SetRow
<1>2. Row(b)!Next
  BY <1>1, RowStep
<1> QED
  BY <1>1, <1>2

LEMMA ExecuteRows ==
  ASSUME IInv, NEW b \in Bundles, Execute(b)
  PROVE  \A c \in Bundles : Row(c)!Next \/ row'[c] = row[c]
<1>t. row \in [Bundles -> {"none", "open", "live", "ok", "failed"}] /\ PhaseInv(b)
  BY DEF IInv, TypeOK
<1>1. CASE Prepare(b)
  <2>1. row[b] = "none"
    BY <1>t, <1>1 DEF Prepare, PhaseInv
  <2>2. SetRow(b, "open") \/ UNCHANGED row
    BY <1>1 DEF Prepare
  <2>3. CASE SetRow(b, "open")
    BY <1>t, <2>1, <2>3, OneRowMoves
  <2> QED
    BY <2>2, <2>3
<1>2. CASE ResolveFails(b)
  <2>1. row[b] = "open" /\ (SetRow(b, "failed") \/ UNCHANGED row)
    BY <1>t, <1>2 DEF ResolveFails, PhaseInv, CloseRow
  <2>2. CASE SetRow(b, "failed")
    BY <1>t, <2>1, <2>2, OneRowMoves
  <2> QED
    BY <2>1, <2>2
<1>3. CASE RecordPid(b)
  <2>1. row[b] = "open" /\ SetRow(b, "live")
    BY <1>3 DEF RecordPid
  <2> QED
    BY <1>t, <2>1, OneRowMoves
<1>4. CASE ExecEnds(b)
  <2>1. row[b] \in {"open", "live"}
    BY <1>t, <1>4 DEF ExecEnds, PhaseInv
  <2>2. SetRow(b, "ok") \/ SetRow(b, "failed") \/ UNCHANGED row
    BY <1>4 DEF ExecEnds, CloseRow
  <2>3. CASE SetRow(b, "ok")
    BY <1>t, <2>1, <2>3, OneRowMoves
  <2>4. CASE SetRow(b, "failed")
    BY <1>t, <2>1, <2>4, OneRowMoves
  <2> QED
    BY <2>2, <2>3, <2>4
<1>5. CASE UNCHANGED row
  BY <1>5
<1>6. \/ Prepare(b) \/ ResolveFails(b) \/ RecordPid(b) \/ ExecEnds(b)
      \/ UNCHANGED row
  BY DEF Execute, RunPreExec, Preview, Resolve, FailEarly, Launch, AgentEvent,
         RunPostExec, Panic, Emit, Return, exec
<1> QED
  BY <1>1, <1>2, <1>3, <1>4, <1>5, <1>6

\* Every bundle's row lives as ExecRow says, MarkExecFailed included
\* (calldb.go:577-595, flow.go:696-707).
THEOREM RowsLiveRightHolds == Spec => RowsLiveRight
<1>1. IInv /\ [Next]_vars => [\A b \in Bundles : Row(b)!Next \/ row'[b] = row[b]]_row
  <2> SUFFICES ASSUME IInv, [Next]_vars
      PROVE  (\A b \in Bundles : Row(b)!Next \/ row'[b] = row[b]) \/ UNCHANGED row
    OBVIOUS
  <2>1. ASSUME NEW b \in Bundles, Execute(b)
        PROVE  \A c \in Bundles : Row(c)!Next \/ row'[c] = row[c]
    BY <2>1, ExecuteRows
  <2>2. (\E b \in Bundles : Execute(b)) \/ UNCHANGED row
    BY DEF Next, Command, Finished, Verify, StageEnd, Close, BundleStart, Refuse, exec, vars
  <2> QED
    BY <2>1, <2>2
<1> QED
  BY <1>1, Invariant, PTL DEF Spec, RowsLiveRight
-----------------------------------------------------------------------------
(* The tallies.  A label names one row of the table when no other bundle   *)
(* has it: pool_status.go:42 indexes the rows by label.                    *)

OneRowEach == \A a, b \in Bundles : Label[a] = Label[b] => a = b

CountedAs(f) == {b \in Bundles : phase[b] = "over" /\ verdict[b].state = f}

\* Until StageEnd the counts are those of the bundles that have reported.
CountsInv == ~returned => \A f \in Flows : count[f] = Cardinality(CountedAs(f))

\* What a row of the table shows of its bundle; StageEnd finds just the
\* refused ones in the queue.
RowInv(b) ==
  /\ phase[b] = "over" => shown[b] = Final(verdict[b].state)
  /\ ~returned /\ fate[b] \in {"pending", "refused"} => shown[b] = "queued"
  /\ fate[b] = "refused" => verdict[b].state = "skip"

\* Where the command is says what the pool has done.
CommandInv ==
  /\ cmd \in {"verify", "stage"} => ~returned
  /\ returned => \A b \in Bundles : fate[b] \in {"settled", "refused"}
  /\ ~returned /\ cmd # "stage" => \A b \in Bundles : fate[b] = "pending"

TallyInv == /\ IInv /\ CountsInv /\ CommandInv
            /\ \A b \in Bundles : RowInv(b)
            /\ TalliesAgree /\ ExitTellsAll

LEMMA OwnRow ==
  ASSUME OneRowEach, NEW b \in Bundles
  PROVE  RowOf(Label[b]) = b
<1> DEFINE P(i) == Label[i] = Label[b] /\ \A j \in Bundles : Label[j] = Label[b] => j <= i
<1>1. P(b)
  BY DEF OneRowEach, Bundles
<1>2. \A i \in Bundles : P(i) => i = b
  BY DEF OneRowEach
<1>3. RowOf(Label[b]) = CHOOSE i \in Bundles : P(i)
  BY DEF RowOf
<1> HIDE DEF P
<1> QED
  BY <1>1, <1>2, <1>3

LEMMA FiniteBundles ==
  ASSUME NEW S \in SUBSET Bundles
  PROVE  IsFiniteSet(S)
<1>1. IsFiniteSet(Bundles)
  BY BundleStageAssumption, FS_Interval DEF Bundles
<1> QED
  BY <1>1, FS_Subset

\* What a step of execute does to tally, row and place of its bundle; the
\* other bundles keep theirs.
Elsewhere(b) == \A c \in Bundles \ {b} :
  fate'[c] = fate[c] /\ phase'[c] = phase[c] /\ verdict'[c] = verdict[c] /\ shown'[c] = shown[c]

Inside(b) ==
  /\ phase[b] \in {"pre", "opts", "resolve", "start", "loop", "post"}
  /\ phase'[b] # "over" /\ fate' = fate /\ count' = count

Reports(b) ==
  /\ phase[b] = "emit" /\ phase'[b] = "over" /\ fate' = fate /\ verdict' = verdict
  /\ shown'[b] = Final(verdict[b].state)
  /\ count' = [count EXCEPT ![verdict[b].state] = @ + 1]

Leaves(b) ==
  /\ phase[b] = "over" /\ fate[b] = "started" /\ fate'[b] = "settled"
  /\ UNCHANGED <<phase, verdict, shown, count>>

LEMMA ExecuteKinds ==
  ASSUME IInv, OneRowEach, NEW b \in Bundles, Execute(b)
  PROVE  /\ UNCHANGED <<returned, cmd>> /\ Elsewhere(b)
         /\ Inside(b) \/ Reports(b) \/ Leaves(b)
<1>t. /\ phase \in [Bundles -> Phases] /\ verdict \in [Bundles -> FlowType]
      /\ fate \in [Bundles -> {"pending", "started", "refused", "settled"}]
      /\ shown \in [Bundles -> ShownType]
  BY DEF IInv, TypeOK, FlowType, ShownType
<1>r. RowOf(Label[b]) = b
  BY OwnRow
<1>d. ASSUME NEW f, Decide(b, f), UNCHANGED <<fate, shown>>
      PROVE  phase'[b] # "over" /\ Elsewhere(b)
  BY <1>d, <1>t DEF Decide, Goto, Elsewhere
<1>g. ASSUME NEW p, Goto(b, p), p # "over", UNCHANGED <<fate, shown, verdict>>
      PROVE  phase'[b] # "over" /\ Elsewhere(b)
  BY <1>g, <1>t DEF Goto, Elsewhere
<1>1. CASE RunPreExec(b)
  <2>1. PICK f \in PreFlows \cup {"continue"} :
          IF f = "continue"
          THEN Goto(b, "opts") /\ UNCHANGED verdict
          ELSE Decide(b, Flow(f, "action"))
    BY <1>1 DEF RunPreExec
  <2>2. phase[b] = "pre" /\ UNCHANGED <<fate, returned, shown, count, cmd>>
    BY <1>1 DEF RunPreExec, pool, table
  <2>3. phase'[b] # "over" /\ Elsewhere(b)
    BY <2>1, <2>2, <1>d, <1>g
  <2> QED
    BY <2>2, <2>3 DEF Inside
<1>2. CASE Preview(b)
  <2>1. PICK f \in {Flow("continue", "dry-run"), Flow("error", "render failed")} : Decide(b, f)
    BY <1>2 DEF Preview
  <2>2. phase[b] = "opts" /\ UNCHANGED <<fate, returned, shown, count, cmd>>
    BY <1>2 DEF Preview, pool, table
  <2> QED
    BY <2>1, <2>2, <1>d DEF Inside
<1>3. CASE Prepare(b)
  <2>1. (Goto(b, "resolve") /\ UNCHANGED verdict) \/ Decide(b, Flow("error", "prepare failed"))
    BY <1>3 DEF Prepare
  <2>2. phase[b] = "opts" /\ UNCHANGED <<fate, returned, shown, count, cmd>>
    BY <1>3 DEF Prepare, pool, table
  <2>3. phase'[b] # "over" /\ Elsewhere(b)
    BY <2>1, <2>2, <1>d, <1>g
  <2> QED
    BY <2>2, <2>3 DEF Inside
<1>4. CASE ResolveFails(b)
  <2>2. /\ phase[b] = "resolve" /\ UNCHANGED <<fate, returned, shown, count, cmd>>
        /\ Decide(b, Flow("error", "render failed"))
    BY <1>4 DEF ResolveFails, pool, table
  <2> QED
    BY <2>2, <1>d DEF Inside
<1>5. CASE Resolve(b)
  <2>1. /\ phase[b] = "resolve" /\ UNCHANGED <<fate, returned, count, cmd, verdict>>
        /\ Goto(b, "start") /\ (UNCHANGED shown \/ Show(b, "running"))
    BY <1>5 DEF Resolve, pool
  <2>2. \A c \in Bundles \ {b} : shown'[c] = shown[c]
    BY <2>1, <1>r, <1>t DEF Show
  <2> QED
    BY <2>1, <2>2, <1>t DEF Inside, Elsewhere, Goto
<1>6. CASE FailEarly(b)
  <2>2. /\ phase[b] = "start" /\ UNCHANGED <<fate, returned, shown, count, cmd>>
        /\ Decide(b, Flow("error", "failed early"))
    BY <1>6 DEF FailEarly, pool, table
  <2> QED
    BY <2>2, <1>d DEF Inside
<1>7. CASE Launch(b)
  <2>2. /\ phase[b] = "start" /\ UNCHANGED <<fate, returned, shown, count, cmd, verdict>>
        /\ Goto(b, "loop")
    BY <1>7 DEF Launch, pool, table
  <2> QED
    BY <2>2, <1>g DEF Inside
<1>8. CASE RecordPid(b)
  <2>2. phase[b] = "loop" /\ UNCHANGED <<fate, returned, shown, count, cmd, verdict, phase>>
    BY <1>8 DEF RecordPid, pool, table
  <2> QED
    BY <2>2 DEF Inside, Elsewhere
<1>9. CASE AgentEvent(b)
  <2>1. \E s : Show(b, s)
    BY <1>9 DEF AgentEvent
  <2>2. phase[b] = "loop" /\ UNCHANGED <<fate, returned, count, cmd, verdict, phase>>
    BY <1>9 DEF AgentEvent, pool, exec
  <2>3. \A c \in Bundles \ {b} : shown'[c] = shown[c]
    BY <2>1, <1>r, <1>t DEF Show
  <2> QED
    BY <2>2, <2>3 DEF Inside, Elsewhere
<1>10. CASE ExecEnds(b)
  <2>1. (Goto(b, "post") /\ UNCHANGED verdict) \/ Decide(b, Flow("error", "agent"))
    BY <1>10 DEF ExecEnds
  <2>2. phase[b] = "loop" /\ UNCHANGED <<fate, returned, shown, count, cmd>>
    BY <1>10 DEF ExecEnds, pool, table
  <2>3. phase'[b] # "over" /\ Elsewhere(b)
    BY <2>1, <2>2, <1>d, <1>g
  <2> QED
    BY <2>2, <2>3 DEF Inside
<1>11. CASE RunPostExec(b)
  <2>1. \E f : Decide(b, f)
    BY <1>11 DEF RunPostExec
  <2>2. phase[b] = "post" /\ UNCHANGED <<fate, returned, shown, count, cmd>>
    BY <1>11 DEF RunPostExec, pool, table
  <2> QED
    BY <2>1, <2>2, <1>d DEF Inside
<1>12. CASE Panic(b)
  <2>2. /\ phase[b] \in {"pre", "opts", "resolve", "start", "loop", "post"}
        /\ UNCHANGED <<fate, returned, shown, count, cmd>>
        /\ Decide(b, Flow("error", "panic"))
    BY <1>12 DEF Panic, pool, table
  <2> QED
    BY <2>2, <1>d DEF Inside
<1>13. CASE Emit(b)
  <2>1. /\ phase[b] = "emit" /\ UNCHANGED <<fate, returned, cmd, verdict>>
        /\ Show(b, Final(verdict[b].state)) /\ Goto(b, "over")
        /\ count' = [count EXCEPT ![verdict[b].state] = @ + 1]
    BY <1>13 DEF Emit, pool
  <2>2. shown'[b] = Final(verdict[b].state) /\ \A c \in Bundles \ {b} : shown'[c] = shown[c]
    BY <2>1, <1>r, <1>t DEF Show
  <2>3. phase'[b] = "over" /\ \A c \in Bundles \ {b} : phase'[c] = phase[c]
    BY <2>1, <1>t DEF Goto
  <2> QED
    BY <2>1, <2>2, <2>3 DEF Reports, Elsewhere
<1>14. CASE Return(b)
  <2>1. /\ phase[b] = "over" /\ UNCHANGED <<returned, cmd, verdict, phase, shown, count>>
        /\ fate[b] = "started" /\ fate' = [fate EXCEPT ![b] = "settled"]
    BY <1>14 DEF Return, Pool!Settle, exec, table
  <2> QED
    BY <2>1, <1>t DEF Leaves, Elsewhere
<1> QED
  BY <1>1, <1>2, <1>3, <1>4, <1>5, <1>6, <1>7, <1>8, <1>9, <1>10, <1>11, <1>12, <1>13, <1>14
     DEF Execute
LEMMA TallyTyped ==
  ASSUME IInv
  PROVE  /\ phase \in [Bundles -> Phases] /\ verdict \in [Bundles -> FlowType]
         /\ fate \in [Bundles -> {"pending", "started", "refused", "settled"}]
         /\ shown \in [Bundles -> ShownType]
         /\ count \in [Flows -> Nat] /\ returned \in BOOLEAN
         /\ \A b \in Bundles : verdict[b].state \in Flows
BY DEF IInv, TypeOK, FlowType, ShownType

LEMMA InitTally == Init => TallyInv
<1> SUFFICES ASSUME Init PROVE TallyInv
  OBVIOUS
<1>1. IInv
  BY InitInv
<1>2. /\ ~returned /\ cmd = "verify" /\ ~Over
      /\ \A b \in Bundles : fate[b] = "pending" /\ phase[b] = "idle" /\ shown[b] = "queued"
  BY DEF Init, Pool!Init, Pool!Steps, Bundles, Over
<1>3. CountsInv
  <2>1. ASSUME NEW f \in Flows PROVE count[f] = Cardinality(CountedAs(f))
    <3>1. CountedAs(f) = {}
      BY <1>2 DEF CountedAs
    <3>2. count[f] = 0
      BY DEF Init
    <3> QED
      BY <3>1, <3>2, FS_EmptySet
  <2> QED
    BY <2>1 DEF CountsInv
<1>4. \A b \in Bundles : RowInv(b)
  BY <1>2 DEF RowInv
<1>5. CommandInv /\ TalliesAgree /\ ExitTellsAll
  BY <1>2 DEF CommandInv, TalliesAgree, ExitTellsAll
<1> QED
  BY <1>1, <1>3, <1>4, <1>5 DEF TallyInv

\* A bundle that execute works on is one of a stage that goes on.
LEMMA WhileStaged ==
  ASSUME TallyInv, NEW b \in Bundles, fate[b] = "started"
  PROVE  ~returned /\ cmd = "stage"
BY DEF TallyInv, CommandInv

\* The counts move with the bundle that reports.
LEMMA ExecuteCounts ==
  ASSUME TallyInv, NEW b \in Bundles, ~returned, Elsewhere(b),
         Inside(b) \/ Reports(b) \/ Leaves(b)
  PROVE  CountsInv'
<1>i. IInv /\ CountsInv
  BY DEF TallyInv
<1>t. verdict[b].state \in Flows /\ count \in [Flows -> Nat]
  BY <1>i, TallyTyped
<1>1. CASE Inside(b) \/ Leaves(b)
  <2>1. \A f \in Flows : CountedAs(f)' = CountedAs(f)
    BY <1>1 DEF CountedAs, Inside, Leaves, Elsewhere
  <2>2. count' = count
    BY <1>1 DEF Inside, Leaves
  <2> QED
    BY <1>i, <2>1, <2>2 DEF CountsInv
<1>2. CASE Reports(b)
  <2>0. phase[b] # "over" /\ phase'[b] = "over" /\ verdict' = verdict
    BY <1>2 DEF Reports
  <2>1. ASSUME NEW f \in Flows PROVE count'[f] = Cardinality(CountedAs(f)')
    <3>0. CountedAs(f) \in SUBSET Bundles /\ b \notin CountedAs(f)
      BY <2>0 DEF CountedAs
    <3>1. IsFiniteSet(CountedAs(f))
      BY <3>0, FiniteBundles
    <3>2. count[f] = Cardinality(CountedAs(f))
      BY <1>i DEF CountsInv
    <3>3. CASE f = verdict[b].state
      <4>1. CountedAs(f)' = CountedAs(f) \cup {b}
        BY <2>0, <3>3 DEF CountedAs, Elsewhere
      <4>2. Cardinality(CountedAs(f) \cup {b}) = Cardinality(CountedAs(f)) + 1
        BY <3>0, <3>1, FS_AddElement
      <4>3. count'[f] = count[f] + 1
        BY <1>2, <1>t, <3>3 DEF Reports
      <4> QED
        BY <3>2, <4>1, <4>2, <4>3
    <3>4. CASE f # verdict[b].state
      <4>1. CountedAs(f)' = CountedAs(f)
        BY <2>0, <3>4 DEF CountedAs, Elsewhere
      <4>2. count'[f] = count[f]
        BY <1>2, <1>t, <3>4 DEF Reports
      <4> QED
        BY <3>2, <4>1, <4>2
    <3> QED
      BY <3>3, <3>4
  <2> QED
    BY <2>1 DEF CountsInv
<1> QED
  BY <1>1, <1>2

LEMMA ExecuteTally ==
  ASSUME TallyInv, OneRowEach, NEW b \in Bundles, Execute(b)
  PROVE  /\ CountsInv' /\ CommandInv' /\ TalliesAgree' /\ ExitTellsAll'
         /\ \A c \in Bundles : RowInv(c)'
<1>i. IInv /\ CommandInv /\ \A c \in Bundles : RowInv(c)
  BY DEF TallyInv
<1>k. /\ UNCHANGED <<returned, cmd>> /\ Elsewhere(b)
      /\ Inside(b) \/ Reports(b) \/ Leaves(b)
  BY <1>i, ExecuteKinds
<1>f. fate[b] = "started" /\ fate'[b] \in {"started", "settled"}
  BY <1>i, <1>k, Executing DEF Inside, Reports, Leaves
<1>0. ~returned /\ cmd = "stage"
  BY <1>f, WhileStaged
<1>1. CountsInv'
  BY <1>0, <1>k, ExecuteCounts
<1>2. ASSUME NEW c \in Bundles, c # b PROVE RowInv(c)'
  BY <1>2, <1>i, <1>k DEF RowInv, Elsewhere
<1>3. RowInv(b)'
  BY <1>f, <1>i, <1>k DEF RowInv, Inside, Reports, Leaves
<1>4. CommandInv' /\ TalliesAgree' /\ ExitTellsAll'
  BY <1>0, <1>k DEF CommandInv, TalliesAgree, ExitTellsAll, Over
<1> QED
  BY <1>1, <1>2, <1>3, <1>4

\* StageEnd counts as skipped what it finds in the queue: the refused bundles.
LEMMA StageEndTally ==
  ASSUME TallyInv, StageEnd
  PROVE  /\ CountsInv' /\ CommandInv' /\ TalliesAgree' /\ ExitTellsAll'
         /\ \A c \in Bundles : RowInv(c)'
<1> DEFINE late == {i \in Bundles : shown[i] = "queued"}
<1>i. IInv /\ CountsInv /\ CommandInv /\ \A c \in Bundles : RowInv(c)
  BY DEF TallyInv
<1>t. /\ count \in [Flows -> Nat] /\ \A c \in Bundles : verdict[c].state \in Flows
  BY <1>i, TallyTyped
<1>1. /\ ~returned /\ returned' /\ cmd' = "close"
      /\ UNCHANGED <<fate, phase, verdict>>
      /\ \A b \in Bundles : fate[b] \in {"settled", "refused"}
      /\ shown' = [i \in Bundles |-> IF i \in late THEN "skipped" ELSE shown[i]]
      /\ count' = [count EXCEPT !["skip"] = @ + Cardinality(late)]
  BY DEF StageEnd, Pool!Return, Pool!Steps, Bundles, exec
<1>2. ASSUME NEW b \in Bundles
      PROVE  /\ fate[b] = "settled" => b \notin late /\ phase[b] = "over"
             /\ fate[b] = "refused" => b \in late /\ phase[b] # "over" /\ verdict[b].state = "skip"
  <2>1. RowInv(b) /\ PoolInv(b)
    BY <1>i DEF IInv
  <2>2. Final(verdict[b].state) # "queued"
    BY <1>t DEF Final, Flows
  <2> QED
    BY <1>1, <2>1, <2>2 DEF RowInv, PoolInv
<1>3. \A b \in Bundles : shown'[b] = Final(verdict'[b].state)
  <2>1. ASSUME NEW b \in Bundles PROVE shown'[b] = Final(verdict'[b].state)
    <3>1. CASE fate[b] = "settled"
      BY <1>1, <1>2, <1>i, <3>1 DEF RowInv
    <3>2. CASE fate[b] = "refused"
      <4>1. shown'[b] = "skipped" /\ verdict'[b].state = "skip"
        BY <1>1, <1>2, <3>2
      <4> QED
        BY <4>1 DEF Final
    <3> QED
      BY <1>1, <3>1, <3>2
  <2> QED
    BY <2>1
<1>4. ASSUME NEW f \in Flows PROVE count'[f] = WithVerdict(f)'
  <2> DEFINE V == {b \in Bundles : verdict[b].state = f}
  <2>0. WithVerdict(f)' = Cardinality(V)
    BY <1>1 DEF WithVerdict
  <2>1. count[f] = Cardinality(CountedAs(f))
    BY <1>1, <1>i DEF CountsInv
  <2>2. CASE f # "skip"
    <3>1. V = CountedAs(f)
      BY <1>1, <1>2, <2>2 DEF CountedAs
    <3>2. count'[f] = count[f]
      BY <1>1, <1>t, <2>2
    <3> QED
      BY <2>0, <2>1, <3>1, <3>2
  <2>3. CASE f = "skip"
    <3>1. V = CountedAs(f) \cup late /\ CountedAs(f) \cap late = {}
      BY <1>1, <1>2, <2>3 DEF CountedAs
    <3>2. IsFiniteSet(CountedAs(f)) /\ IsFiniteSet(late)
      BY FiniteBundles DEF CountedAs
    <3>3. /\ Cardinality(CountedAs(f)) \in Nat /\ Cardinality(late) \in Nat
          /\ Cardinality({}) = 0
      BY <3>2, FS_CardinalityType, FS_EmptySet
    <3>4. Cardinality(CountedAs(f) \cup late) =
            Cardinality(CountedAs(f)) + Cardinality(late) - Cardinality(CountedAs(f) \cap late)
      BY <3>2, FS_Union
    <3>5. count'[f] = count[f] + Cardinality(late)
      BY <1>1, <1>t, <2>3
    <3>6. Cardinality(CountedAs(f) \cap late) = 0
      BY <3>1, <3>3
    <3>7. WithVerdict(f)' = Cardinality(CountedAs(f) \cup late)
      BY <2>0, <3>1
    <3> HIDE DEF late, V
    <3>8. Cardinality(CountedAs(f) \cup late) = Cardinality(CountedAs(f)) + Cardinality(late)
      BY <3>3, <3>4, <3>6
    <3> QED
      BY <2>1, <3>5, <3>7, <3>8
  <2> QED
    BY <2>2, <2>3
<1>5. TalliesAgree'
  BY <1>3, <1>4 DEF TalliesAgree
<1>6. CountsInv' /\ CommandInv' /\ ExitTellsAll'
  BY <1>1 DEF CountsInv, CommandInv, ExitTellsAll, Over
<1>7. \A c \in Bundles : RowInv(c)'
  BY <1>1, <1>2, <1>3 DEF RowInv
<1> QED
  BY <1>5, <1>6, <1>7

\* Close looks at two counts for what all the results say.
LEMMA CloseTally ==
  ASSUME TallyInv, Close
  PROVE  /\ CountsInv' /\ CommandInv' /\ TalliesAgree' /\ ExitTellsAll'
         /\ \A c \in Bundles : RowInv(c)'
<1>i. IInv /\ CountsInv /\ CommandInv /\ TalliesAgree /\ \A c \in Bundles : RowInv(c)
  BY DEF TallyInv
<1>t. /\ count \in [Flows -> Nat] /\ \A b \in Bundles : verdict[b].state \in Flows
  BY <1>i, TallyTyped
<1>1. /\ cmd = "close" /\ UNCHANGED <<fate, returned, phase, verdict, shown, count>>
      /\ cmd' \in {"review", "ok", "failed"}
      /\ cmd' = "failed" <=> ~(count["error"] = 0 /\ count["skip"] = 0)
  BY DEF Close, pool, exec, table
<1>2. /\ count["error"] = WithVerdict("error") /\ count["skip"] = WithVerdict("skip")
  <2>1. CASE returned
    BY <1>i, <2>1 DEF TalliesAgree, Flows
  <2>2. CASE ~returned
    <3>1. \A b \in Bundles : phase[b] # "over" /\ verdict[b].state = "continue"
      <4>1. \A b \in Bundles : fate[b] = "pending" /\ PoolInv(b)
        BY <1>1, <1>i, <2>2 DEF CommandInv, IInv
      <4> QED
        BY <4>1, UndecidedTyped DEF PoolInv
    <3>2. ASSUME NEW f \in {"error", "skip"} PROVE count[f] = WithVerdict(f)
      <4>1. CountedAs(f) = {b \in Bundles : verdict[b].state = f}
        BY <3>1 DEF CountedAs
      <4> QED
        BY <4>1, <2>2, <1>i DEF CountsInv, WithVerdict, Flows
    <3> QED
      BY <3>2
  <2> QED
    BY <2>1, <2>2
<1>3. ASSUME NEW f \in Flows
      PROVE  WithVerdict(f) = 0 <=> \A b \in Bundles : verdict[b].state # f
  <2>1. IsFiniteSet({b \in Bundles : verdict[b].state = f})
    BY FiniteBundles
  <2> QED
    BY <2>1, FS_EmptySet DEF WithVerdict
<1>4. cmd' = "failed" <=> \E b \in Bundles : verdict'[b].state # "continue"
  <2>1. "error" \in Flows /\ "skip" \in Flows
    BY DEF Flows
  <2>2. cmd' = "failed" <=> \E b \in Bundles : verdict[b].state \in {"error", "skip"}
    BY <1>1, <1>2, <1>3, <2>1
  <2>3. \A b \in Bundles : verdict[b].state # "continue" <=> verdict[b].state \in {"error", "skip"}
    BY <1>t DEF Flows
  <2> QED
    BY <1>1, <2>2, <2>3
<1>8. ~returned => cmd' = "ok" /\ \A b \in Bundles : started'[b] = 0
  <2> SUFFICES ASSUME ~returned PROVE cmd' = "ok" /\ \A b \in Bundles : started'[b] = 0
    OBVIOUS
  <2>1. \A b \in Bundles : fate[b] = "pending" /\ PoolInv(b)
    BY <1>1, <1>i DEF CommandInv, IInv
  <2>2. \A b \in Bundles : phase[b] = "idle" /\ started[b] = 0 /\ verdict[b] = Undecided
    BY <2>1 DEF PoolInv
  <2>3. started' = started
    BY DEF Close, calls
  <2>4. count["continue"] = 0
    <3>1. "continue" \in Flows
      BY DEF Flows
    <3>2. CountedAs("continue") = {}
      BY <2>2 DEF CountedAs
    <3>3. count["continue"] = Cardinality(CountedAs("continue"))
      BY <1>i, <3>1 DEF CountsInv
    <3> QED
      BY <3>2, <3>3, FS_EmptySet
  <2>5. cmd' # "failed"
    BY <1>1, <1>4, <2>2, UndecidedTyped
  <2> QED
    BY <2>2, <2>3, <2>4, <2>5 DEF Close
<1>5. ExitTellsAll'
  <2>1. returned' = returned
    BY <1>1
  <2> QED
    BY <1>4, <1>8, <2>1 DEF ExitTellsAll
<1>6. CommandInv'
  BY <1>1, <1>i DEF CommandInv
<1>7. CountsInv' /\ TalliesAgree' /\ \A c \in Bundles : RowInv(c)'
  BY <1>1, <1>i DEF CountsInv, TalliesAgree, RowInv, CountedAs, WithVerdict
<1> QED
  BY <1>5, <1>6, <1>7

LEMMA VerifyTally ==
  ASSUME TallyInv, Verify
  PROVE  /\ CountsInv' /\ CommandInv' /\ TalliesAgree' /\ ExitTellsAll'
         /\ \A c \in Bundles : RowInv(c)'
<1>1. /\ cmd = "verify" /\ UNCHANGED <<fate, returned, phase, verdict, shown, count>>
      /\ cmd' \in {"close", "stage"}
  BY DEF Verify, pool, exec, table
<1> QED
  BY <1>1 DEF TallyInv, CountsInv, CommandInv, TalliesAgree, ExitTellsAll, Over, RowInv,
              CountedAs, WithVerdict

\* The pool decides on the next bundle: it starts it or skips it.
LEMMA DispatchTally ==
  ASSUME TallyInv, NEW b \in Bundles, BundleStart(b) \/ Refuse(b)
  PROVE  /\ CountsInv' /\ CommandInv' /\ TalliesAgree' /\ ExitTellsAll'
         /\ \A c \in Bundles : RowInv(c)'
<1>i. IInv /\ CountsInv /\ CommandInv /\ \A c \in Bundles : RowInv(c)
  BY DEF TallyInv
<1>t. /\ phase \in [Bundles -> Phases] /\ verdict \in [Bundles -> FlowType]
      /\ fate \in [Bundles -> {"pending", "started", "refused", "settled"}]
  BY <1>i, TallyTyped
<1>1. /\ cmd = "stage" /\ fate[b] = "pending"
      /\ UNCHANGED <<returned, cmd, shown, count>>
      /\ Elsewhere(b)
      /\ \/ fate'[b] = "started" /\ phase'[b] = "pre" /\ verdict' = verdict
         \/ fate'[b] = "refused" /\ phase' = phase /\ verdict'[b].state = "skip"
  <2>1. CASE BundleStart(b)
    BY <2>1, <1>t DEF BundleStart, Goto, Pool!Start, Pool!InOrder, table, Elsewhere
  <2>2. CASE Refuse(b)
    <3>1. Flow("skip", "none").state = "skip"
      BY DEF Flow
    <3> QED
      BY <2>2, <3>1, <1>t DEF Refuse, Pool!Refuse, Pool!InOrder, table, Elsewhere
  <2> QED
    BY <2>1, <2>2
<1>2. ~returned /\ phase[b] = "idle"
  BY <1>1, <1>i DEF CommandInv, IInv, PoolInv
<1>3. \A f \in Flows : CountedAs(f)' = CountedAs(f)
  BY <1>1, <1>2 DEF CountedAs, Elsewhere
<1>4. CountsInv'
  BY <1>1, <1>3, <1>i DEF CountsInv
<1>5. CommandInv' /\ TalliesAgree' /\ ExitTellsAll'
  BY <1>1, <1>2 DEF CommandInv, TalliesAgree, ExitTellsAll, Over
<1>6. ASSUME NEW c \in Bundles PROVE RowInv(c)'
  BY <1>1, <1>2, <1>i DEF RowInv, Elsewhere
<1> QED
  BY <1>4, <1>5, <1>6

LEMMA NextTally ==
  ASSUME OneRowEach, TallyInv, [Next]_vars
  PROVE  TallyInv'
<1>0. IInv'
  BY NextInv DEF TallyInv
<1>1. CASE Verify
  BY <1>0, <1>1, VerifyTally DEF TallyInv
<1>2. CASE StageEnd
  BY <1>0, <1>2, StageEndTally DEF TallyInv
<1>3. CASE Close
  BY <1>0, <1>3, CloseTally DEF TallyInv
<1>4. ASSUME NEW b \in Bundles, BundleStart(b) \/ Refuse(b) PROVE TallyInv'
  BY <1>0, <1>4, DispatchTally DEF TallyInv
<1>5. ASSUME NEW b \in Bundles, Execute(b) PROVE TallyInv'
  BY <1>0, <1>5, ExecuteTally DEF TallyInv
<1>6. CASE UNCHANGED vars
  <2>1. UNCHANGED <<fate, returned, phase, verdict, started, shown, count, cmd>>
    BY <1>6 DEF vars
  <2> QED
    BY <1>0, <2>1 DEF TallyInv, CountsInv, CommandInv, TalliesAgree, ExitTellsAll, Over,
                      RowInv, CountedAs, WithVerdict
<1> QED
  BY <1>1, <1>2, <1>3, <1>4, <1>5, <1>6 DEF Next, Command, Finished

\* The reporter's counts, the rows of the table and the results say the same
\* once the stage is over (table_reporter.go:143-201, flow.go:979-1008), for
\* bundles with labels of their own.
THEOREM TalliesAgreeHolds ==
  ASSUME OneRowEach
  PROVE  Spec => []TalliesAgree
<1>1. TallyInv /\ [Next]_vars => TallyInv'
  BY NextTally
<1>2. TallyInv => TalliesAgree
  BY DEF TallyInv
<1> QED
  BY <1>1, <1>2, InitTally, PTL DEF Spec

\* The exit code of a command whose stage ran tells whether every bundle
\* succeeded (table_reporter.go:278-288, report.go:418-420); one whose stage
\* Verify refused exits with 0 and has started none (flow.go:314-319).
THEOREM ExitTellsAllHolds ==
  ASSUME OneRowEach
  PROVE  Spec => []ExitTellsAll
<1>1. TallyInv /\ [Next]_vars => TallyInv'
  BY NextTally
<1>2. TallyInv => ExitTellsAll
  BY DEF TallyInv
<1> QED
  BY <1>1, <1>2, InitTally, PTL DEF Spec
=============================================================================
