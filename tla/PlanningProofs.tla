--------------------------- MODULE PlanningProofs ---------------------------
(***************************************************************************)
(* What is proved about the planning commands of the agent tooling, for    *)
(* every value of the constants: the order of a phase's plans, the gates   *)
(* of a phase, the configuration, the numbers of the phases, STATE.md, the *)
(* manager of a milestone, the repairs of the planning directory, and the  *)
(* models and the effort of agents.                                        *)
(***************************************************************************)
EXTENDS MCPlanning, FiniteSetTheorems, SequenceTheorems, WellFoundedInduction, TLAPS

----------------------------------------------------------------------------
(* PlanWaves.  Plans are executed after what they depend on, for every set *)
(* of plans and every dependency between them.                             *)

\* Where the indexing is: the plans visited and queued are those that wait for nothing, a
\* plan waits for what it needs and was not visited, and its level is above the level of
\* what it needs and was visited.
Levels ==
  /\ \A p \in Plans : waiting[p] = {q \in Plans : <<p, q>> \in needs /\ q \notin visited}
  /\ \A p \in queued \cup visited : waiting[p] = {}
  /\ \A p, q \in Plans : <<p, q>> \in needs /\ q \in visited => level[q] < level[p]

\* Runs come after the indexing.  What a plan of the waves needs has a summary, is in this
\* run as well, or was left to the user's word; so has what was begun, but that it cannot
\* be in this run any more.
RunsInOrder ==
  /\ stage = "ready" => visited = Plans
  /\ stage # "ready" => mode = "idle" /\ dispatched = {}
  /\ mode = "idle" => todo = {} /\ atWork = {} /\ failed = {}
  /\ mode \in {"delegating", "waves"} =>
       \A p \in todo \cup atWork \cup failed, q \in Plans : <<p, q>> \in needs =>
         q \in summaries \cup todo \cup atWork \cup failed \cup leftOut \cup passedOver
  /\ mode = "interactive" => atWork = {} /\ failed = {}
  /\ DependenciesFirst

WaveInv == WaveTypeOK /\ Levels /\ RunsInOrder

\* The first state has no plan visited and none executed.
LEMMA WaveInitInv == WaveInit => WaveInv
<1> SUFFICES ASSUME WaveInit PROVE WaveInv
  OBVIOUS
<1>1. WaveTypeOK
  BY DEF WaveInit, WaveTypeOK
<1>2. Levels
  BY DEF WaveInit, Levels
<1>3. RunsInOrder
  BY DEF WaveInit, RunsInOrder, DependenciesFirst
<1> QED BY <1>1, <1>2, <1>3 DEF WaveInv

\* A visited plan waits for nothing, so that a visit leaves its level alone.
LEMMA VisitInv == ASSUME WaveInv, NEW cur \in Plans, Visit(cur) PROVE WaveInv'
<1>1. WaveTypeOK'
  <2>1. level' \in [Plans -> Nat]
    BY DEF WaveInv, WaveTypeOK, Visit, Raised
  <2>2. waiting' \in [Plans -> SUBSET Plans] /\ queued' \subseteq Plans /\ visited' \subseteq Plans
    BY DEF WaveInv, WaveTypeOK, Visit, Dependents
  <2> QED BY <2>1, <2>2 DEF WaveInv, WaveTypeOK, Visit, runVars
<1>2. \A p \in Plans : waiting'[p] = {q \in Plans : <<p, q>> \in needs' /\ q \notin visited'}
  BY DEF WaveInv, WaveTypeOK, Levels, Visit
<1>3. \A p \in queued' \cup visited' : waiting'[p] = {}
  BY DEF WaveInv, WaveTypeOK, Levels, Visit, Dependents
<1>4. ASSUME NEW p \in Plans, NEW q \in Plans, <<p, q>> \in needs', q \in visited'
      PROVE  level'[q] < level'[p]
  <2>1. level'[q] = level[q]
    <3>1. waiting[q] = {}
      BY <1>4 DEF WaveInv, WaveTypeOK, Levels, Visit
    <3> QED BY <3>1 DEF WaveInv, WaveTypeOK, Visit, Dependents
  <2>2. CASE q = cur
    <3>1. p \in Dependents(cur) \/ cur \in visited
      BY <1>4, <2>2 DEF WaveInv, WaveTypeOK, Levels, Visit, Dependents
    <3>2. CASE p \in Dependents(cur)
      <4>1. level'[p] = Raised(p, cur)
        BY <3>2 DEF WaveInv, WaveTypeOK, Visit
      <4> QED BY <2>1, <2>2, <4>1 DEF WaveInv, WaveTypeOK, Raised
    <3>3. CASE cur \in visited
      <4>1. level[q] < level[p]
        BY <1>4, <2>2, <3>3 DEF WaveInv, Levels, Visit
      <4>2. level'[p] \in {level[p], Raised(p, cur)}
        BY DEF WaveInv, WaveTypeOK, Visit
      <4> QED BY <2>1, <4>1, <4>2 DEF WaveInv, WaveTypeOK, Raised
    <3> QED BY <3>1, <3>2, <3>3
  <2>3. CASE q # cur
    <3>1. level[q] < level[p]
      BY <1>4, <2>3 DEF WaveInv, Levels, Visit
    <3>2. level'[p] \in {level[p], Raised(p, cur)}
      BY DEF WaveInv, WaveTypeOK, Visit
    <3> QED BY <2>1, <3>1, <3>2 DEF WaveInv, WaveTypeOK, Raised
  <2> QED BY <2>2, <2>3
<1>5. RunsInOrder'
  BY DEF WaveInv, RunsInOrder, DependenciesFirst, Visit, runVars
<1> QED BY <1>1, <1>2, <1>3, <1>4, <1>5 DEF WaveInv, Levels

\* The end of the indexing changes only the stage.
LEMMA IndexedInv == ASSUME WaveInv, Indexed PROVE WaveInv'
  BY DEF WaveInv, WaveTypeOK, Levels, RunsInOrder, DependenciesFirst, Indexed, runVars

\* A run selects every plan it needs to select, or an earlier wave is done, or
\* --gaps-only has left it out.
LEMMA StartRunInv == ASSUME WaveInv, StartRun PROVE WaveInv'
<1> USE DEF WaveInv, indexVars
<1>1. PICK gapsOnly \in BOOLEAN, wave \in {AllWaves} \cup {Wave(p) : p \in Plans} :
        LET matching == Incomplete \cap (IF gapsOnly THEN GapPlans ELSE Plans)
        IN /\ wave # AllWaves => \A p \in matching : Wave(p) >= wave
           /\ todo' = {p \in matching : wave \in {AllWaves, Wave(p)}}
           /\ leftOut' = leftOut \cup (IF gapsOnly THEN Incomplete \ GapPlans ELSE {})
  BY DEF StartRun
<1> DEFINE matching == Incomplete \cap (IF gapsOnly THEN GapPlans ELSE Plans)
<1>2. matching \subseteq Plans \ summaries /\ leftOut \subseteq leftOut' /\ leftOut' \subseteq Plans
  BY <1>1, WavesAssumption DEF Incomplete, WaveTypeOK
<1>3. todo' \subseteq matching
  BY <1>1
<1>4. WaveTypeOK' /\ Levels'
  BY <1>2, <1>3 DEF WaveTypeOK, Levels, StartRun
<1>5. ASSUME NEW p \in todo', NEW q \in Plans, <<p, q>> \in needs, q \notin summaries, q \notin leftOut'
      PROVE  q \in todo'
  <2>1. q \in matching
    BY <1>1, <1>5 DEF Incomplete
  <2>2. p \in Plans /\ level[q] < level[p] /\ level[p] \in Nat /\ level[q] \in Nat
    BY <1>2, <1>3, <1>5 DEF WaveTypeOK, Levels, RunsInOrder, StartRun
  <2>3. Wave(q) < Wave(p) /\ Wave(p) \in Int /\ Wave(q) \in Int
    BY <2>2 DEF Wave
  <2>4. wave = AllWaves
    <3>1. wave # AllWaves => Wave(q) >= wave
      BY <1>1, <2>1
    <3>2. wave \in {AllWaves, Wave(p)}
      BY <1>1, <1>5
    <3> QED BY <2>3, <3>1, <3>2
  <2> QED BY <1>1, <2>1, <2>4
<1>6. atWork' = {} /\ failed' = {}
  BY DEF RunsInOrder, StartRun
<1>7. DependenciesFirst'
  BY <1>2 DEF RunsInOrder, DependenciesFirst, StartRun
<1>8. RunsInOrder'
  BY <1>5, <1>6, <1>7 DEF RunsInOrder, StartRun
<1> QED BY <1>4, <1>8

\* A plan is begun when everything it needs is over.
LEMMA DispatchInv == ASSUME WaveInv, NEW cur \in Plans, Dispatch(cur) PROVE WaveInv'
<1> USE DEF WaveInv, indexVars
<1>1. WaveTypeOK' /\ Levels'
  BY DEF WaveTypeOK, Levels, Dispatch
<1>2. ASSUME NEW q \in Plans, <<cur, q>> \in needs
      PROVE  cur # q /\ q \in summaries \cup leftOut \cup passedOver
  <2>1. level[q] < level[cur] /\ level[cur] \in Nat /\ level[q] \in Nat
    BY <1>2 DEF WaveTypeOK, Levels, RunsInOrder, Dispatch
  <2>2. Wave(q) < Wave(cur) /\ Wave(cur) \in Int /\ Wave(q) \in Int
    BY <2>1 DEF Wave
  <2>3. q \notin todo \cup atWork \cup failed
    BY <2>2 DEF Dispatch
  <2>4. q \in summaries \cup todo \cup atWork \cup failed \cup leftOut \cup passedOver
    BY <1>2 DEF RunsInOrder, Dispatch
  <2> QED BY <2>1, <2>3, <2>4
<1>3. DependenciesFirst'
  BY <1>2 DEF RunsInOrder, DependenciesFirst, Dispatch
<1>4. RunsInOrder'
  BY <1>3 DEF RunsInOrder, Dispatch
<1> QED BY <1>1, <1>4

\* The other steps of a run keep every plan in it, or end it.
LEMMA RunStepInv ==
  ASSUME WaveInv,
         \/ DelegationOver \/ GoOn \/ EndRun
         \/ \E p \in Plans : Delegate(p) \/ Offer(p) \/ Finish(p) \/ Fail(p) \/ RetryFailed(p)
  PROVE  WaveInv'
<1> USE DEF WaveInv, indexVars
<1>1. CASE DelegationOver \/ EndRun
  BY <1>1 DEF WaveTypeOK, Levels, RunsInOrder, DependenciesFirst, DelegationOver, EndRun
<1>2. CASE GoOn
  BY <1>2 DEF WaveTypeOK, Levels, RunsInOrder, DependenciesFirst, GoOn
<1>3. ASSUME NEW p \in Plans, Delegate(p) \/ Offer(p) PROVE WaveInv'
  BY <1>3 DEF WaveTypeOK, Levels, RunsInOrder, DependenciesFirst, Delegate, Offer
<1>4. ASSUME NEW p \in Plans, Finish(p) PROVE WaveInv'
  BY <1>4 DEF WaveTypeOK, Levels, RunsInOrder, DependenciesFirst, Finish
<1>5. ASSUME NEW p \in Plans, Fail(p) PROVE WaveInv'
  BY <1>5 DEF WaveTypeOK, Levels, RunsInOrder, DependenciesFirst, Fail
<1>6. ASSUME NEW p \in Plans, RetryFailed(p) PROVE WaveInv'
  BY <1>6 DEF WaveTypeOK, Levels, RunsInOrder, DependenciesFirst, RetryFailed
<1> QED BY <1>1, <1>2, <1>3, <1>4, <1>5, <1>6

LEMMA WaveStep == WaveInv /\ [WaveNext]_waveVars => WaveInv'
<1> SUFFICES ASSUME WaveInv, [WaveNext]_waveVars PROVE WaveInv'
  OBVIOUS
<1>1. CASE Indexed BY <1>1, IndexedInv
<1>2. CASE \E p \in Plans : Visit(p) BY <1>2, VisitInv
<1>3. CASE StartRun BY <1>3, StartRunInv
<1>4. CASE \E p \in Plans : Dispatch(p) BY <1>4, DispatchInv
<1>5. CASE UNCHANGED waveVars
  BY <1>5 DEF WaveInv, WaveTypeOK, Levels, RunsInOrder, DependenciesFirst, waveVars
<1>6. CASE \/ DelegationOver \/ GoOn \/ EndRun
           \/ \E p \in Plans : Delegate(p) \/ Offer(p) \/ Finish(p) \/ Fail(p) \/ RetryFailed(p)
  BY <1>6, RunStepInv
<1> QED BY <1>1, <1>2, <1>3, <1>4, <1>5, <1>6 DEF WaveNext

\* No executor gets a plan before what it depends on has a summary, unless --gaps-only
\* skipped that or the user went on after it failed (phase-plan-index, execute-phase).
THEOREM WavesInOrder == WaveSpec => []DependenciesFirst
<1>1. WaveInv => DependenciesFirst
  BY DEF WaveInv, RunsInOrder
<1> QED BY <1>1, WaveInitInv, WaveStep, PTL DEF WaveSpec

\* The index and the runs are well-typed throughout.
THEOREM WavesTyped == WaveSpec => []WaveTypeOK
<1>1. WaveInv => WaveTypeOK
  BY DEF WaveInv
<1> QED BY <1>1, WaveInitInv, WaveStep, PTL DEF WaveSpec

----------------
(* PhaseGates.                                                             *)

\* A plan mentions a decision in one way or not at all.
OneWay == \A p \in Written, d \in Decisions :
  planDoc[p].mentions[d] = {} \/ \E way \in Ways : planDoc[p].mentions[d] = {way}

\* A section that counts cites the decision, by its ID or by a phrase it had.
Cited(p, d) ==
  \/ planDoc[p].mentions[d] \cap {"id", "phrase around a comment"} # {}
  \/ "phrase" \in planDoc[p].mentions[d] /\ planDoc[p].quoted[d] # Brief

\* What the gate has accepted is still cited.
StillPlanned == \A d \in accepted : d \in Decisions /\ \E p \in Written : Cited(p, d)

GateInv ==
  /\ DOMAIN planDoc = GatePlans /\ (context = Nothing \/ DOMAIN context \subseteq Decisions)
  /\ OneWay /\ StillPlanned

LEMMA GateStarts == GateInit => GateInv
<1> SUFFICES ASSUME GateInit PROVE GateInv
  OBVIOUS
<1>1. Written = {} /\ accepted = {} /\ DOMAIN planDoc = GatePlans
  BY DEF GateInit, Written
<1>2. context = Nothing \/ DOMAIN context \subseteq Decisions
  BY DEF GateInit
<1>3. QED
  BY <1>1, <1>2 DEF GateInv, OneWay, StillPlanned

\* What is accepted stays planned while no plan is written.
LEMMA PlansStay == ASSUME GateInv, UNCHANGED <<planDoc, accepted>>,
                          context' = Nothing \/ DOMAIN context' \subseteq Decisions
                   PROVE  GateInv'
<1>1. Written' = Written
  BY DEF Written
<1>2. OneWay'
  BY <1>1 DEF GateInv, OneWay
<1>3. \A p, d : Cited(p, d)' <=> Cited(p, d)
  BY DEF Cited
<1>4. StillPlanned'
  BY <1>1, <1>3 DEF GateInv, StillPlanned
<1>5. QED
  BY <1>2, <1>4 DEF GateInv

LEMMA DiscussStep == ASSUME GateInv, Discuss PROVE GateInv'
<1> DEFINE now == IF context = Nothing THEN {} ELSE DOMAIN context
<1>1. now \subseteq Decisions
  BY DEF GateInv
<1>2. CASE \E d \in Decisions, tag \in Tags \cup {"gone"} :
             context' = IF tag = "gone" THEN [e \in now \ {d} |-> context[e]]
                        ELSE [e \in now \cup {d} |-> IF e = d THEN tag ELSE context[e]]
  <2>1. PICK d \in Decisions, tag \in Tags \cup {"gone"} :
          context' = IF tag = "gone" THEN [e \in now \ {d} |-> context[e]]
                     ELSE [e \in now \cup {d} |-> IF e = d THEN tag ELSE context[e]]
    BY <1>2
  <2> HIDE DEF now
  <2>2. DOMAIN context' \in {now \ {d}, now \cup {d}}
    BY <2>1
  <2>3. DOMAIN context' \subseteq Decisions
    BY <1>1, <2>2
  <2>4. QED
    BY <2>3, PlansStay DEF Discuss
<1>3. CASE UNCHANGED context
  BY <1>3, PlansStay DEF Discuss, GateInv
<1>4. QED
  BY <1>2, <1>3 DEF Discuss

\* Whatever was accepted of the plans as they were is void.
LEMMA PlanWrittenStep == ASSUME GateInv, NEW p \in GatePlans, PlanWritten(p) PROVE GateInv'
<1>1. PICK d \in Decisions \cup Requirements, way \in Ways, listing \in {"inline", "block", "invalid"} :
        planDoc' = [planDoc EXCEPT ![p] =
         [mentions |-> [e \in Decisions \cup Requirements |-> IF e = d THEN {way} ELSE {}],
          quoted |-> wording,
          structure |-> IF listing = "invalid" THEN "invalid" ELSE "valid",
          inline |-> listing = "inline", modifies |-> ModifiedBy[p], artifact |-> CHOOSE f \in ModifiedBy[p] : TRUE]]
  BY DEF PlanWritten
<1>2. DOMAIN planDoc' = GatePlans /\ (\A q \in GatePlans \ {p} : planDoc'[q] = planDoc[q])
      /\ planDoc'[p].mentions = [e \in Decisions \cup Requirements |-> IF e = d THEN {way} ELSE {}]
  BY <1>1 DEF GateInv
<1>3. ASSUME NEW q \in Written', NEW c \in Decisions
      PROVE  planDoc'[q].mentions[c] = {} \/ \E v \in Ways : planDoc'[q].mentions[c] = {v}
  <2>1. CASE q = p
    <3>1. planDoc'[q].mentions[c] = IF c = d THEN {way} ELSE {}
      BY <1>2, <2>1
    <3>2. QED
      BY <3>1
  <2>2. CASE q # p
    BY <1>2, <1>3, <2>2 DEF GateInv, OneWay, Written
  <2>3. QED
    BY <2>1, <2>2
<1>4. OneWay'
  BY <1>3 DEF OneWay, Ways
<1>5. StillPlanned'
  BY DEF PlanWritten, StillPlanned
<1>6. QED
  BY <1>2, <1>4, <1>5 DEF PlanWritten, GateInv

LEMMA MarkPlannedStep == ASSUME GateInv, MarkPlanned PROVE GateInv'
<1>1. accepted' = DecisionCoveragePlan.covered /\ DecisionCoveragePlan.covered # {}
      /\ UNCHANGED <<context, planDoc>>
  BY DEF MarkPlanned
<1>2. ASSUME NEW d \in DecisionCoveragePlan.covered
      PROVE  d \in Decisions /\ \E p \in Written : Cited(p, d)
  <2> DEFINE uncovered == {e \in LoadTrackableDecisions : \A p \in Written : ~MentionedInSections(p, e)}
  <2>1. DecisionCoveragePlan.covered \in {{}, LoadTrackableDecisions \ uncovered}
    BY DEF DecisionCoveragePlan
  <2>2. d \in LoadTrackableDecisions /\ d \notin uncovered
    BY <2>1
  <2>3. d \in Decisions
    BY <2>2 DEF LoadTrackableDecisions, ParseDecisions, GateInv
  <2>4. PICK p \in Written : MentionedInSections(p, d)
    BY <2>2
  <2>5. Cited(p, d)
    BY <2>4 DEF MentionedInSections, ByPhrase, Cited
  <2>6. QED
    BY <2>3, <2>5
<1>3. StillPlanned'
  BY <1>1, <1>2 DEF StillPlanned, Written, Cited
<1>4. OneWay'
  BY <1>1 DEF GateInv, OneWay, Written
<1>5. QED
  BY <1>1, <1>3, <1>4 DEF GateInv

LEMMA GateInductive == GateInv /\ [GateNext]_gateVars => GateInv'
<1> SUFFICES ASSUME GateInv, [GateNext]_gateVars PROVE GateInv'
  OBVIOUS
<1>1. CASE Discuss
  BY <1>1, DiscussStep
<1>2. CASE MarkPlanned
  BY <1>2, MarkPlannedStep
<1>3. CASE SetGate \/ OtherCommits \/ VerifyPhase \/ UNCHANGED gateVars
  <2>1. UNCHANGED <<context, planDoc, accepted>>
    BY <1>3 DEF SetGate, OtherCommits, VerifyPhase, gateVars
  <2>2. QED
    BY <2>1, PlansStay DEF GateInv
<1>4. ASSUME NEW p \in GatePlans, PlanWritten(p) \/ ExecutePlan(p) \/ RetryPlan(p) PROVE GateInv'
  <2>1. CASE PlanWritten(p)
    BY <2>1, PlanWrittenStep
  <2>2. CASE ExecutePlan(p) \/ RetryPlan(p)
    <3>1. UNCHANGED <<context, planDoc, accepted>>
      BY <2>2 DEF ExecutePlan, RetryPlan
    <3>2. QED
      BY <3>1, PlansStay DEF GateInv
  <2>3. QED
    BY <1>4, <2>1, <2>2
<1>5. QED
  BY <1>1, <1>2, <1>3, <1>4 DEF GateNext

\* For every set of decisions, plans and files, and whatever is discussed, reworded,
\* executed, committed or configured meanwhile: a decision the blocking gate has accepted
\* is not reported as lost, unless it is cited by a phrase only that a comment interrupts
\* or that it does not have any more (check-command-router.cjs).
THEOREM AcceptedIsHonored == GateSpec => []PlannedIsHonored
<1>1. GateSpec => []GateInv
  BY GateStarts, GateInductive, PTL DEF GateSpec
<1>2. GateInv => PlannedIsHonored
  <2> SUFFICES ASSUME GateInv, NEW d \in accepted
               PROVE  /\ \/ d \notin DecisionCoverageVerify.notHonored
                         \/ /\ \A p \in Written : "id" \notin planDoc[p].mentions[d]
                            /\ \E p \in Written :
                                 \/ "phrase around a comment" \in planDoc[p].mentions[d]
                                 \/ "phrase" \in planDoc[p].mentions[d] /\ planDoc[p].quoted[d] # wording[d]
                      /\ (\E p \in Written : "id" \in planDoc[p].mentions[d]) /\ d \in ParseDecisions =>
                           [item |-> d, status |-> "covered"] \in RunGapAnalysis({Unlisted})
    BY DEF PlannedIsHonored
  <2>1. \A q \in Written : MentionedInPlan(q, d) => d \notin DecisionCoverageVerify.notHonored
    BY DEF DecisionCoverageVerify, Shipped
  <2>2. \A q \in Written : "id" \in planDoc[q].mentions[d] => MentionedInPlan(q, d)
    BY DEF MentionedInPlan
  <2>3. PICK p \in Written : Cited(p, d)
    BY DEF GateInv, StillPlanned
  <2>4. \/ MentionedInPlan(p, d) \/ "phrase around a comment" \in planDoc[p].mentions[d]
        \/ "phrase" \in planDoc[p].mentions[d] /\ planDoc[p].quoted[d] # wording[d]
    BY <2>3 DEF Cited, MentionedInPlan, ByPhrase
  <2>5. \/ d \notin DecisionCoverageVerify.notHonored
        \/ /\ \A q \in Written : "id" \notin planDoc[q].mentions[d]
           /\ \E q \in Written :
                \/ "phrase around a comment" \in planDoc[q].mentions[d]
                \/ "phrase" \in planDoc[q].mentions[d] /\ planDoc[q].quoted[d] # wording[d]
    BY <2>1, <2>2, <2>4
  <2>6. ASSUME NEW q \in Written, "id" \in planDoc[q].mentions[d], d \in ParseDecisions
        PROVE  [item |-> d, status |-> "covered"] \in RunGapAnalysis({Unlisted})
    <3>1. DetectCoverage(d) = "covered"
      BY <2>6 DEF DetectCoverage
    <3>2. QED
      BY <2>6, <3>1 DEF RunGapAnalysis
  <2>7. QED
    BY <2>5, <2>6
<1>3. QED
  BY <1>1, <1>2, PTL

\* What the gates keep besides what is accepted, and how far the agents have come.
GateShape ==
  /\ context = Nothing \/ (DOMAIN context \subseteq Decisions /\ \A d \in DOMAIN context : context[d] \in Tags)
  /\ wording \in [Decisions -> Wordings]
  /\ setting \in GateSettings /\ disk \subseteq GateFiles /\ objects \subseteq 1 .. MaxGateSteps
  /\ DOMAIN planDoc = GatePlans /\ DOMAIN summary = GatePlans
  /\ \A p \in GatePlans : summary[p] # Nothing => planDoc[p] # Nothing
  /\ \A p \in GatePlans : planDoc[p] # Nothing => planDoc[p].modifies \subseteq GateFiles
  /\ gitLog.decisions \subseteq Decisions
  /\ verdict \in {"none", "gaps", "passed", "passed unpushed"} /\ gateSteps \in 0 .. MaxGateSteps

\* A step of an agent is counted up to the bound.
LEMMA GateCounts == ASSUME GateShape, GateStep PROVE gateSteps' \in 1 .. MaxGateSteps /\ gateSteps' = gateSteps + 1
<1>1. gateSteps \in 0 .. MaxGateSteps
  BY DEF GateShape
<1>2. MaxGateSteps \in Nat
  BY GateAssumption
<1> QED
  BY <1>1, <1>2 DEF GateStep

LEMMA GateShapeStarts == GateInit => GateShape
  BY GateAssumption DEF GateInit, GateShape, Tags, GateSettings, Nothing

LEMMA DiscussShape == ASSUME GateShape, Discuss PROVE GateShape'
<1>1. gateSteps' \in 0 .. MaxGateSteps
  BY GateCounts DEF Discuss
<1>2. CASE \E d \in Decisions, text \in Wordings : wording' = [wording EXCEPT ![d] = text] /\ UNCHANGED context
  BY <1>1, <1>2 DEF Discuss, GateShape
<1> DEFINE now == IF context = Nothing THEN {} ELSE DOMAIN context
<1>3. CASE /\ \E d \in Decisions, tag \in Tags \cup {"gone"} :
                context' = IF tag = "gone" THEN [e \in now \ {d} |-> context[e]]
                           ELSE [e \in now \cup {d} |-> IF e = d THEN tag ELSE context[e]]
           /\ UNCHANGED wording
  <2>1. PICK d \in Decisions, tag \in Tags \cup {"gone"} :
          context' = IF tag = "gone" THEN [e \in now \ {d} |-> context[e]]
                     ELSE [e \in now \cup {d} |-> IF e = d THEN tag ELSE context[e]]
    BY <1>3
  <2>2. now \subseteq Decisions /\ \A e \in now : context[e] \in Tags
    BY DEF GateShape
  <2> HIDE DEF now
  <2>3. DOMAIN context' \subseteq Decisions /\ \A e \in DOMAIN context' : context'[e] \in Tags
    <3>1. CASE tag = "gone"
      BY <2>1, <2>2, <3>1
    <3>2. CASE tag # "gone"
      BY <2>1, <2>2, <3>2
    <3> QED BY <3>1, <3>2
  <2> QED
    BY <1>1, <1>3, <2>3 DEF Discuss, GateShape
<1> QED
  BY <1>2, <1>3 DEF Discuss

LEMMA PlanWrittenShape == ASSUME GateShape, NEW p \in GatePlans, PlanWritten(p) PROVE GateShape'
<1>1. PICK doc : doc # Nothing /\ doc.modifies = ModifiedBy[p] /\ planDoc' = [planDoc EXCEPT ![p] = doc]
  <2>1. PICK d \in Decisions \cup Requirements, way \in Ways, listing \in {"inline", "block", "invalid"} :
          planDoc' = [planDoc EXCEPT ![p] =
           [mentions |-> [e \in Decisions \cup Requirements |-> IF e = d THEN {way} ELSE {}],
            quoted |-> wording,
            structure |-> IF listing = "invalid" THEN "invalid" ELSE "valid",
            inline |-> listing = "inline", modifies |-> ModifiedBy[p], artifact |-> CHOOSE f \in ModifiedBy[p] : TRUE]]
    BY DEF PlanWritten
  <2> DEFINE doc ==
        [mentions |-> [e \in Decisions \cup Requirements |-> IF e = d THEN {way} ELSE {}],
         quoted |-> wording,
         structure |-> IF listing = "invalid" THEN "invalid" ELSE "valid",
         inline |-> listing = "inline", modifies |-> ModifiedBy[p], artifact |-> CHOOSE f \in ModifiedBy[p] : TRUE]
  <2>2. "modifies" \in DOMAIN doc /\ "modifies" \notin DOMAIN Nothing
    BY DEF Nothing
  <2>3. doc # Nothing /\ doc.modifies = ModifiedBy[p]
    BY <2>2
  <2> QED BY <2>1, <2>3
<1>2. ModifiedBy[p] \subseteq GateFiles
  BY GateAssumption
<1>3. gateSteps' \in 0 .. MaxGateSteps
  BY GateCounts DEF PlanWritten
<1> QED
  BY <1>1, <1>2, <1>3 DEF PlanWritten, GateShape

LEMMA ExecutePlanShape == ASSUME GateShape, NEW p \in GatePlans, ExecutePlan(p) PROVE GateShape'
<1>1. gateSteps' \in 1 .. MaxGateSteps /\ gateSteps' = gateSteps + 1
  BY GateCounts DEF ExecutePlan
<1>2. objects' \subseteq 1 .. MaxGateSteps
  BY <1>1 DEF ExecutePlan, GateShape
<1>3. disk' \subseteq GateFiles
  BY DEF ExecutePlan, GateShape
<1>4. DOMAIN summary' = GatePlans /\ \A q \in GatePlans : summary'[q] # Nothing => planDoc[q] # Nothing
  BY DEF ExecutePlan, GateShape
<1>5. gateSteps' \in 0 .. MaxGateSteps
  BY <1>1
<1> QED
  BY <1>2, <1>3, <1>4, <1>5 DEF ExecutePlan, GateShape

\* The rest reads the plans and writes no plan.
LEMMA OtherShapes == ASSUME GateShape, SetGate \/ MarkPlanned \/ OtherCommits \/ VerifyPhase
                                         \/ (\E p \in GatePlans : RetryPlan(p)) \/ UNCHANGED gateVars
                     PROVE  GateShape'
<1>0. GateStep => gateSteps' \in 0 .. MaxGateSteps
  BY GateCounts
<1>1. CASE SetGate
  BY <1>0, <1>1 DEF SetGate, GateShape
<1>2. CASE MarkPlanned
  BY <1>2 DEF MarkPlanned, GateShape
<1>3. CASE OtherCommits
  <2>1. (\E d \in Decisions : gitLog'.decisions = gitLog.decisions \cup {d}) \/ gitLog'.decisions = {}
    BY <1>3 DEF OtherCommits
  <2>3. gitLog'.decisions \subseteq Decisions
    BY <2>1 DEF GateShape
  <2>4. objects' = objects \/ objects' = {}
    BY <1>3 DEF OtherCommits
  <2>5. objects' \subseteq 1 .. MaxGateSteps
    BY <2>4 DEF GateShape
  <2> QED BY <1>0, <1>3, <2>3, <2>5 DEF OtherCommits, GateShape
<1>4. CASE VerifyPhase
  <2>1. verdict' \in {"none", "gaps", "passed", "passed unpushed"}
    BY <1>4 DEF VerifyPhase
  <2> QED BY <1>4, <2>1 DEF VerifyPhase, GateShape
<1>5. ASSUME NEW p \in GatePlans, RetryPlan(p) PROVE GateShape'
  <2>1. DOMAIN summary' = GatePlans /\ \A q \in GatePlans : summary'[q] # Nothing => planDoc[q] # Nothing
    BY <1>5 DEF RetryPlan, GateShape
  <2> QED BY <1>0, <1>5, <2>1 DEF RetryPlan, GateShape
<1>6. CASE UNCHANGED gateVars
  BY <1>6 DEF gateVars, GateShape
<1> QED
  BY <1>1, <1>2, <1>3, <1>4, <1>5, <1>6

LEMMA GateShapeStep == GateShape /\ [GateNext]_gateVars => GateShape'
<1> SUFFICES ASSUME GateShape, [GateNext]_gateVars PROVE GateShape'
  OBVIOUS
<1>1. CASE Discuss
  BY <1>1, DiscussShape
<1>2. ASSUME NEW p \in GatePlans, PlanWritten(p) PROVE GateShape'
  BY <1>2, PlanWrittenShape
<1>3. ASSUME NEW p \in GatePlans, ExecutePlan(p) PROVE GateShape'
  BY <1>3, ExecutePlanShape
<1> QED
  BY <1>1, <1>2, <1>3, OtherShapes DEF GateNext

\* The gates of a phase keep their types: no summary is left without its plan, and git
\* knows no commit nobody made.
THEOREM GateTyped == GateSpec => []GateTypeOK
<1>1. GateSpec => []GateInv
  BY GateStarts, GateInductive, PTL DEF GateSpec
<1>2. GateSpec => []GateShape
  BY GateShapeStarts, GateShapeStep, PTL DEF GateSpec
<1>3. GateInv /\ GateShape => GateTypeOK
  BY DEF GateInv, StillPlanned, GateShape, GateTypeOK
<1> QED
  BY <1>1, <1>2, <1>3, PTL

----------------------------------------------------------------------------
(* Configuration.                                                          *)

\* A text has what was reported as set, and no repositories decide about commit_docs then.
HasPromises(w, f) == \A k \in Settable :
  promised[w][k] # Unset =>
    f[k] = promised[w][k] /\ (k = "planning.commit_docs" => f["multiRepo"] # "yes")

ConfigTyped ==
  /\ onDisk \in [Where -> Texts] /\ readable \in [Where -> ReadableAs]
  /\ rewriting \in [Where -> [by : {"nobody", "load", "migrate", "create"}, text : Texts]]
  /\ editing \in [Where -> [key : Settable \cup {Unset}, value : Values, copy : Texts]]
  /\ promised \in [Where -> Texts] /\ userFile \in Texts

\* What is promised is in the file and in every text about to be written over it.
PromisesHeld == \A w \in Where :
  /\ readable[w] \in {"nodir", "missing"} => \A k \in Settable : promised[w][k] = Unset
  /\ HasPromises(w, onDisk[w])
  /\ rewriting[w] # NoRewrite => HasPromises(w, rewriting[w].text)
  /\ editing[w] # NoEdit => editing[w].key \in Settable /\ HasPromises(w, editing[w].copy)

ConfInv == ConfigTyped /\ PromisesHeld

\* What a migration of legacy keys leaves alone.
Keeps(f, g) ==
  /\ g \in Texts
  /\ \A k \in Settable :
       f[k] # Unset /\ (k = "planning.commit_docs" => f["multiRepo"] # "yes") => g[k] = f[k]
  /\ f["multiRepo"] # "yes" => g["multiRepo"] # "yes"

LEMMA ValuesTyped ==
  /\ {Unset, "none", "phase", "empty", "old", "found", "quick", "standard", "coarse", "yes", "no"}
       \subseteq Values
  /\ \A k \in ConfKeys : ValuesOf(k) \subseteq Values
<1>1. \A k \in ConfKeys : ValuesOf(k) \subseteq Values
  BY DEF Values
<1>2. /\ ValuesOf("branching_strategy") = {"none", "phase"}
      /\ ValuesOf("sub_repos") = {"empty", "old", "found"}
      /\ ValuesOf("depth") = {"quick", "standard"}
      /\ ValuesOf("granularity") = {"coarse", "standard"}
      /\ ValuesOf("commit_docs") = {"yes", "no"}
  BY DEF ValuesOf, YesNo
<1>3. {"branching_strategy", "sub_repos", "depth", "granularity", "commit_docs"} \subseteq ConfKeys
  BY DEF ConfKeys
<1>4. Unset \in Values
  BY DEF Values
<1> QED
  BY <1>1, <1>2, <1>3, <1>4

LEMMA TextsTyped ==
  /\ NoKeys \in Texts /\ Settable \subseteq ConfKeys /\ NestedKeys \subseteq ConfKeys
  /\ {"branching_strategy", "sub_repos", "multiRepo", "depth", "granularity", "commit_docs",
      "research"} \subseteq ConfKeys
  /\ Unset # "yes"
<1>1. NoKeys \in Texts
  BY ValuesTyped DEF NoKeys, Texts
<1> QED
  BY <1>1 DEF Settable, ConfKeys, NestedKeys, Unset

\* An update of a text is a text that differs where it was updated.
LEMMA Updated ==
  ASSUME NEW f \in Texts, NEW k, NEW v \in Values
  PROVE  /\ [f EXCEPT ![k] = v] \in Texts
         /\ k \in ConfKeys => [f EXCEPT ![k] = v][k] = v
         /\ \A j \in ConfKeys : j # k => [f EXCEPT ![k] = v][j] = f[j]
  BY DEF Texts

LEMMA MovedIntoKeeps ==
  ASSUME NEW f \in Texts, NEW flat \in ConfKeys, NEW nested \in ConfKeys,
         flat \notin Settable \cup {"multiRepo"}, nested # "multiRepo"
  PROVE  /\ Keeps(f, MovedInto(f, flat, nested))
         /\ MovedInto(f, flat, nested)["multiRepo"] = f["multiRepo"]
<1>1. CASE f[flat] = Unset
  BY <1>1 DEF MovedInto, Keeps
<1>2. CASE f[flat] # Unset
  <2> DEFINE v == IF f[nested] = Unset THEN f[flat] ELSE f[nested]
             g == [f EXCEPT ![flat] = Unset]
  <2>1. v \in Values /\ Unset \in Values
    BY ValuesTyped DEF Texts
  <2>2. g \in Texts /\ \A j \in ConfKeys : j # flat => g[j] = f[j]
    BY <2>1, Updated
  <2>3. g[nested] = Unset \/ g[nested] = f[nested]
    BY <2>1, <2>2, Updated
  <2> DEFINE u == IF g[nested] = Unset THEN f[flat] ELSE g[nested]
             h == [g EXCEPT ![nested] = u]
  <2>4. MovedInto(f, flat, nested) = h
    BY <1>2, <2>2 DEF MovedInto, Texts
  <2> HIDE DEF g
  <2>5. u \in Values
    BY <2>2 DEF Texts
  <2>6. h \in Texts /\ h[nested] = u /\ \A j \in ConfKeys : j # nested => h[j] = g[j]
    BY <2>2, <2>5, Updated
  <2>7. \A k \in Settable : f[k] # Unset => h[k] = f[k]
    BY <2>2, <2>6, TextsTyped
  <2>8. h["multiRepo"] = f["multiRepo"]
    BY <2>2, <2>6, TextsTyped
  <2> HIDE DEF h
  <2> QED BY <2>4, <2>6, <2>7, <2>8 DEF Keeps
<1> QED
  BY <1>1, <1>2

LEMMA KeepsTwice ==
  ASSUME NEW f, NEW g, NEW h, Keeps(f, g), Keeps(g, h)
  PROVE  Keeps(f, h)
  BY DEF Keeps

LEMMA NormalizeKeeps ==
  ASSUME NEW f \in Texts
  PROVE  Keeps(f, NormalizeLegacyKeys(f))
<1> DEFINE a == MovedInto(f, "branching_strategy", "git.branching_strategy")
           g == MovedInto(a, "sub_repos", "planning.sub_repos")
           h == [g EXCEPT !["multiRepo"] = IF g["multiRepo"] = "yes" THEN Unset ELSE g["multiRepo"]]
           i == [h EXCEPT !["depth"] = Unset]
           j == [i EXCEPT !["granularity"] = Granularity(h["depth"])]
<1>1. Keeps(f, a)
  BY TextsTyped, MovedIntoKeeps DEF Settable, ConfKeys, NestedKeys
<1>2. Keeps(a, g)
  BY <1>1, TextsTyped, MovedIntoKeeps DEF Keeps, Settable, ConfKeys, NestedKeys
<1>3. g \in Texts
  BY <1>2 DEF Keeps
<1> HIDE DEF a, g
<1>4. Keeps(g, h)
  <2>1. (IF g["multiRepo"] = "yes" THEN Unset ELSE g["multiRepo"]) \in Values
    BY <1>3, ValuesTyped, TextsTyped DEF Texts
  <2>2. /\ h \in Texts /\ \A k \in ConfKeys : k # "multiRepo" => h[k] = g[k]
        /\ h["multiRepo"] # "yes"
    BY <1>3, <2>1, TextsTyped, Updated
  <2> HIDE DEF h
  <2> QED BY <2>2, TextsTyped DEF Keeps, Settable
<1>5. h \in Texts
  BY <1>4 DEF Keeps
<1> HIDE DEF h
<1>6. ASSUME h["granularity"] = Unset
      PROVE  Keeps(h, j)
  <2>1. Granularity(h["depth"]) \in Values /\ Unset \in Values
    BY <1>5, ValuesTyped, TextsTyped DEF Granularity, Texts
  <2>2. i \in Texts /\ \A k \in ConfKeys : k # "depth" => i[k] = h[k]
    BY <1>5, <2>1 DEF Texts
  <2> HIDE DEF i
  <2>3. j \in Texts /\ \A k \in ConfKeys : k # "granularity" => j[k] = i[k]
    BY <2>1, <2>2 DEF Texts
  <2> HIDE DEF j
  <2> QED BY <1>6, <2>2, <2>3, TextsTyped DEF Keeps, Settable
<1>7. NormalizeLegacyKeys(f) = IF h["depth"] # Unset /\ h["granularity"] = Unset THEN j ELSE h
  BY DEF NormalizeLegacyKeys, a, g, h
<1>8. Keeps(f, h)
  BY <1>1, <1>2, <1>4, KeepsTwice
<1> HIDE DEF j
<1>9. CASE h["granularity"] = Unset
  <2>1. Keeps(f, j)
    BY <1>6, <1>8, <1>9, KeepsTwice
  <2> QED BY <1>7, <1>8, <2>1
<1> QED
  BY <1>7, <1>8, <1>9

\* Repositories found on disk decide about commit_docs, when multiRepo said so.
LEMMA FoundReposKeeps ==
  ASSUME NEW f \in Texts, NEW g \in Texts, Keeps(f, g), f["multiRepo"] = "yes"
  PROVE  Keeps(f, WithFoundRepos(g))
<1> DEFINE a == [g EXCEPT !["planning.sub_repos"] = "found"]
           b == [a EXCEPT !["planning.commit_docs"] = "no"]
<1>1. a \in Texts /\ \A k \in ConfKeys : k # "planning.sub_repos" => a[k] = g[k]
  BY ValuesTyped DEF Texts
<1>2. WithFoundRepos(g) = b
  BY DEF WithFoundRepos
<1> HIDE DEF a
<1>3. b \in Texts /\ \A k \in ConfKeys : k # "planning.commit_docs" => b[k] = a[k]
  BY <1>1, ValuesTyped DEF Texts
<1> HIDE DEF b
<1> QED
  BY <1>1, <1>2, <1>3, TextsTyped DEF Keeps, Settable

LEMMA LoadKeeps ==
  ASSUME NEW f \in Texts
  PROVE  Keeps(f, NormalizedOnLoad(f)) /\ Keeps(f, LoadedFile(f)) /\ Keeps(f, MigrateOnDisk(f))
<1>1. Keeps(f, NormalizeLegacyKeys(f)) /\ NormalizeLegacyKeys(f) \in Texts
  BY NormalizeKeeps DEF Keeps
<1>2. Keeps(f, NormalizedOnLoad(f))
  BY <1>1, FoundReposKeeps DEF NormalizedOnLoad
<1>3. Keeps(f, MigrateOnDisk(f))
  BY <1>1, FoundReposKeeps DEF MigrateOnDisk
<1>4. ASSUME NEW g \in Texts PROVE Keeps(g, Resynced(g))
  <2> DEFINE h == [g EXCEPT !["planning.sub_repos"] = "found"]
  <2>1. h \in Texts /\ \A k \in ConfKeys : k # "planning.sub_repos" => h[k] = g[k]
    BY Updated, ValuesTyped
  <2>2. Resynced(g) = h \/ Resynced(g) = g
    BY DEF Resynced
  <2> HIDE DEF h
  <2> QED BY <2>1, <2>2, TextsTyped DEF Keeps, Settable
<1>5. NormalizedOnLoad(f) \in Texts
  BY <1>2 DEF Keeps
<1>6. Keeps(f, LoadedFile(f))
  BY <1>2, <1>4, <1>5, KeepsTwice DEF LoadedFile
<1> QED
  BY <1>2, <1>3, <1>6

LEMMA ConfigStarts == ConfigInit => ConfInv
<1> SUFFICES ASSUME ConfigInit PROVE ConfInv
  OBVIOUS
<1>1. PICK f \in InitialFiles : onDisk = [w \in Where |-> f[w].text] /\ readable = [w \in Where |-> f[w].is]
  BY DEF ConfigInit
<1>2. \A w \in Where : f[w].text \in Texts /\ f[w].is \in ReadableAs
  <2>1. f \in [Where -> [text : KeyedTexts, is : ReadableAs]]
    BY <1>1, ConfigAssumption
  <2> QED BY <2>1 DEF KeyedTexts
<1>3. onDisk \in [Where -> Texts] /\ readable \in [Where -> ReadableAs]
  BY <1>1, <1>2
<1>4. NoRewrite \in [by : {"nobody", "load", "migrate", "create"}, text : Texts]
      /\ NoEdit \in [key : Settable \cup {Unset}, value : Values, copy : Texts]
  BY TextsTyped, ValuesTyped DEF NoRewrite, NoEdit
<1>5. ConfigTyped
  <2>1. userFile \in Texts
    BY ConfigAssumption DEF ConfigInit, KeyedTexts
  <2> QED BY <1>3, <1>4, <2>1, TextsTyped DEF ConfigInit, ConfigTyped
<1>6. \A w \in Where : /\ \A k \in Settable : promised[w][k] = Unset
                       /\ rewriting[w] = NoRewrite /\ editing[w] = NoEdit
  BY TextsTyped DEF ConfigInit, NoKeys
<1>7. PromisesHeld
  BY <1>6 DEF PromisesHeld, HasPromises
<1> QED
  BY <1>5, <1>7 DEF ConfInv

\* What has the promises still has them after a migration.
LEMMA KeptPromises ==
  ASSUME NEW w \in Where, NEW f, NEW g, HasPromises(w, f), Keeps(f, g)
  PROVE  HasPromises(w, g)
  BY DEF HasPromises, Keeps

LEMMA SamePromises ==
  ASSUME UNCHANGED promised, NEW w \in Where, NEW f, HasPromises(w, f)
  PROVE  HasPromises(w, f)'
  BY DEF HasPromises

\* A command takes down the text it is about to write.
LEMMA RewriteStarts ==
  ASSUME ConfInv, NEW w \in Where, NEW by \in {"load", "migrate", "create"}, NEW text \in Texts,
         StartRewrite(w, by, text), HasPromises(w, text),
         UNCHANGED <<onDisk, editing, promised, subRepos>>, userFile' \in Texts,
         \/ UNCHANGED readable
         \/ readable' = [readable EXCEPT ![w] = "missing"] /\ readable[w] \in {"nodir", "missing"}
  PROVE  ConfInv'
<1>1. rewriting' = [rewriting EXCEPT ![w] = [by |-> by, text |-> text]]
  BY DEF StartRewrite
<1>2. readable' \in [Where -> ReadableAs]
      /\ \A v \in Where : readable'[v] \in {"nodir", "missing"} => readable[v] \in {"nodir", "missing"}
  BY DEF ConfInv, ConfigTyped, ReadableAs
<1>3. ConfigTyped'
  <2>1. [by |-> by, text |-> text] \in [by : {"nobody", "load", "migrate", "create"}, text : Texts]
    OBVIOUS
  <2> QED BY <1>1, <1>2, <2>1 DEF ConfInv, ConfigTyped
<1>4. ASSUME NEW v \in Where
      PROVE  /\ readable'[v] \in {"nodir", "missing"} => \A k \in Settable : promised'[v][k] = Unset
             /\ HasPromises(v, onDisk[v])'
             /\ rewriting'[v] # NoRewrite => HasPromises(v, rewriting[v].text)'
             /\ editing'[v] # NoEdit => editing'[v].key \in Settable /\ HasPromises(v, editing[v].copy)'
  <2>1. CASE v = w
    <3>1. rewriting'[w].text = text
      BY <1>1 DEF ConfInv, ConfigTyped
    <3> QED BY <1>2, <2>1, <3>1 DEF ConfInv, PromisesHeld, HasPromises
  <2>2. CASE v # w
    <3>1. rewriting'[v] = rewriting[v]
      BY <1>1, <2>2 DEF ConfInv, ConfigTyped
    <3> QED BY <1>2, <3>1 DEF ConfInv, PromisesHeld, HasPromises
  <2> QED BY <2>1, <2>2
<1> QED
  BY <1>3, <1>4 DEF ConfInv, PromisesHeld

LEMMA LoadStep ==
  ASSUME ConfInv, NEW w \in Where, LoadOwn(w) \/ MigrateConfig(w) \/ (w = "root" /\ LoadRoot)
  PROVE  ConfInv'
<1>1. PICK by \in {"load", "migrate"} : \E text \in {LoadedFile(onDisk[w]), MigrateOnDisk(onDisk[w]),
                                                     NormalizedOnLoad(onDisk[w])} :
        /\ StartRewrite(w, by, text)
        /\ UNCHANGED <<onDisk, readable, editing, promised, subRepos, userFile>>
  BY DEF LoadOwn, MigrateConfig, LoadRoot
<1>2. PICK text \in {LoadedFile(onDisk[w]), MigrateOnDisk(onDisk[w]), NormalizedOnLoad(onDisk[w])} :
        /\ StartRewrite(w, by, text)
        /\ UNCHANGED <<onDisk, readable, editing, promised, subRepos, userFile>>
  BY <1>1
<1>3. onDisk[w] \in Texts /\ HasPromises(w, onDisk[w]) /\ userFile' \in Texts
  BY <1>2 DEF ConfInv, ConfigTyped, PromisesHeld
<1>4. Keeps(onDisk[w], text)
  BY <1>3, LoadKeeps
<1>5. text \in Texts /\ HasPromises(w, text)
  BY <1>3, <1>4, KeptPromises DEF Keeps
<1> QED
  BY <1>2, <1>3, <1>5, RewriteStarts

LEMMA NewProjectStep ==
  ASSUME ConfInv, NEW w \in Where, NEW choices \in Texts, NewProject(w, choices)
  PROVE  ConfInv'
<1> DEFINE text == BuildNewProjectConfig(choices)
<1>1. /\ readable[w] \in {"nodir", "missing"} /\ StartRewrite(w, "create", text)
      /\ readable' = [readable EXCEPT ![w] = "missing"] /\ userFile' = MigratedDefaults
      /\ UNCHANGED <<onDisk, editing, promised, subRepos>>
  BY DEF NewProject
<1>2. MigratedDefaults \in Texts
  <2>1. userFile \in Texts /\ Granularity(userFile["depth"]) \in Values /\ Unset \in Values
    BY ValuesTyped, TextsTyped DEF ConfInv, ConfigTyped, Granularity, Texts
  <2> QED BY <2>1 DEF MigratedDefaults, Texts
<1>3. \A f, g \in Texts : DeepMergeConfig(f, g) \in Texts
  BY DEF DeepMergeConfig, Texts
<1>4. [ConfigDefault EXCEPT !["planning.sub_repos"] = Unset] \in Texts
  <2>1. ConfigDefault \in Texts
    BY TextsTyped, ValuesTyped DEF ConfigDefault, Texts
  <2> QED BY <2>1, ValuesTyped DEF Texts
<1>5. text \in Texts
  BY <1>2, <1>3, <1>4 DEF BuildNewProjectConfig
<1>6. HasPromises(w, text)
  BY <1>1 DEF HasPromises, ConfInv, PromisesHeld
<1> HIDE DEF text
<1> QED
  BY <1>1, <1>2, <1>5, <1>6, RewriteStarts

LEMMA RewriteStep ==
  ASSUME ConfInv, NEW w \in Where, Rewrite(w) \/ RewriteFails(w)
  PROVE  ConfInv'
<1>1. rewriting[w] # NoRewrite /\ rewriting' = [rewriting EXCEPT ![w] = NoRewrite]
      /\ UNCHANGED <<editing, promised, subRepos, userFile, confSteps>>
  BY DEF Rewrite, RewriteFails
<1>2. \/ onDisk' = [onDisk EXCEPT ![w] = rewriting[w].text] /\ readable' = [readable EXCEPT ![w] = "ok"]
      \/ onDisk' = onDisk /\ readable' = [readable EXCEPT ![w] = "broken"]
      \/ onDisk' = onDisk /\ readable' = readable
  BY DEF Rewrite, RewriteFails
<1>3. NoRewrite \in [by : {"nobody", "load", "migrate", "create"}, text : Texts]
  BY TextsTyped DEF NoRewrite
<1>4. /\ onDisk' \in [Where -> Texts] /\ readable' \in [Where -> ReadableAs]
      /\ rewriting' \in [Where -> [by : {"nobody", "load", "migrate", "create"}, text : Texts]]
      /\ rewriting'[w] = NoRewrite
      /\ \A v \in Where : rewriting'[v] = NoRewrite \/ rewriting'[v] = rewriting[v]
      /\ \A v \in Where : readable'[v] \in {"nodir", "missing"} => readable[v] \in {"nodir", "missing"}
      /\ \A v \in Where : onDisk'[v] = onDisk[v] \/ (v = w /\ onDisk'[v] = rewriting[v].text)
  <2>1. rewriting[w].text \in Texts
    BY DEF ConfInv, ConfigTyped
  <2>2. /\ onDisk' \in [Where -> Texts]
        /\ \A v \in Where : onDisk'[v] = onDisk[v] \/ (v = w /\ onDisk'[v] = rewriting[v].text)
    BY <1>2, <2>1 DEF ConfInv, ConfigTyped
  <2>3. /\ readable' \in [Where -> ReadableAs]
        /\ \A v \in Where : readable'[v] \in {"nodir", "missing"} => readable[v] \in {"nodir", "missing"}
    BY <1>2 DEF ConfInv, ConfigTyped, ReadableAs
  <2>4. /\ rewriting' \in [Where -> [by : {"nobody", "load", "migrate", "create"}, text : Texts]]
        /\ rewriting'[w] = NoRewrite
        /\ \A v \in Where : rewriting'[v] = NoRewrite \/ rewriting'[v] = rewriting[v]
    BY <1>1, <1>3 DEF ConfInv, ConfigTyped
  <2> QED BY <2>2, <2>3, <2>4
<1>5. ConfigTyped'
  BY <1>1, <1>4 DEF ConfInv, ConfigTyped
<1>6. ASSUME NEW v \in Where
      PROVE  /\ readable'[v] \in {"nodir", "missing"} => \A k \in Settable : promised'[v][k] = Unset
             /\ HasPromises(v, onDisk[v])'
             /\ rewriting'[v] # NoRewrite => HasPromises(v, rewriting[v].text)'
             /\ editing'[v] # NoEdit => editing'[v].key \in Settable /\ HasPromises(v, editing[v].copy)'
  BY <1>1, <1>4 DEF ConfInv, PromisesHeld, HasPromises
<1> QED
  BY <1>5, <1>6 DEF ConfInv, PromisesHeld

LEMMA SetConfigValueStep ==
  ASSUME ConfInv, NEW w \in Where, NEW k \in Settable, NEW v \in Accepted(k), SetConfigValue(w, k, v)
  PROVE  ConfInv'
<1> DEFINE copy == IF readable[w] = "ok" THEN onDisk[w] ELSE NoKeys
<1>1. /\ readable[w] # "broken"
      /\ readable' = [readable EXCEPT ![w] = IF @ = "nodir" THEN "missing" ELSE @]
      /\ editing' = [editing EXCEPT ![w] = [key |-> k, value |-> v, copy |-> copy]]
      /\ UNCHANGED <<onDisk, rewriting, promised, subRepos, userFile>>
  BY DEF SetConfigValue
<1>2. v \in Values /\ copy \in Texts
  BY ValuesTyped, TextsTyped DEF Accepted, ConfInv, ConfigTyped
<1>3. HasPromises(w, copy)
  BY <1>1 DEF ConfInv, ConfigTyped, ReadableAs, PromisesHeld, HasPromises
<1> HIDE DEF copy
<1>4. [key |-> k, value |-> v, copy |-> copy] \in [key : Settable \cup {Unset}, value : Values, copy : Texts]
  BY <1>2
<1>5. /\ readable' \in [Where -> ReadableAs]
      /\ editing' \in [Where -> [key : Settable \cup {Unset}, value : Values, copy : Texts]]
      /\ editing'[w].key = k /\ editing'[w].copy = copy
      /\ \A u \in Where : u # w => editing'[u] = editing[u]
      /\ \A u \in Where : readable'[u] \in {"nodir", "missing"} => readable[u] \in {"nodir", "missing"}
  BY <1>1, <1>4 DEF ConfInv, ConfigTyped, ReadableAs
<1>6. ConfigTyped'
  BY <1>1, <1>5 DEF ConfInv, ConfigTyped
<1>7. ASSUME NEW u \in Where
      PROVE  /\ readable'[u] \in {"nodir", "missing"} => \A j \in Settable : promised'[u][j] = Unset
             /\ HasPromises(u, onDisk[u])'
             /\ rewriting'[u] # NoRewrite => HasPromises(u, rewriting[u].text)'
             /\ editing'[u] # NoEdit => editing'[u].key \in Settable /\ HasPromises(u, editing[u].copy)'
  BY <1>1, <1>3, <1>5 DEF ConfInv, PromisesHeld, HasPromises
<1> QED
  BY <1>6, <1>7 DEF ConfInv, PromisesHeld

LEMMA SetConfigDoneStep ==
  ASSUME ConfInv, NEW w \in Where, SetConfigDone(w)
  PROVE  ConfInv'
<1> DEFINE e == editing[w]
           kept == rewriting[w] = NoRewrite /\ ~(e.key = "planning.commit_docs" /\ e.copy["multiRepo"] = "yes")
           text == [e.copy EXCEPT ![e.key] = e.value]
           promise == IF kept THEN e.value ELSE Unset
<1>1. /\ e # NoEdit
      /\ onDisk' = [onDisk EXCEPT ![w] = text]
      /\ readable' = [readable EXCEPT ![w] = "ok"]
      /\ editing' = [editing EXCEPT ![w] = NoEdit]
      /\ promised' = [promised EXCEPT ![w][e.key] = promise]
      /\ UNCHANGED <<rewriting, subRepos, userFile, confSteps>>
  BY DEF SetConfigDone
<1>2. e.key \in Settable /\ e.key \in ConfKeys /\ e.value \in Values /\ e.copy \in Texts /\ HasPromises(w, e.copy)
  BY <1>1, TextsTyped DEF ConfInv, ConfigTyped, PromisesHeld
<1> HIDE DEF e
<1>3. /\ text \in Texts /\ text[e.key] = e.value
      /\ \A j \in ConfKeys : j # e.key => text[j] = e.copy[j]
  BY <1>2 DEF Texts
<1>4. promise \in Values
  BY <1>2, ValuesTyped
<1>5. promise # Unset => promise = e.value /\ rewriting[w] = NoRewrite
                         /\ (e.key = "planning.commit_docs" => e.copy["multiRepo"] # "yes")
  OBVIOUS
<1> HIDE DEF text, promise
<1>6. /\ promised' \in [Where -> Texts] /\ promised'[w][e.key] = promise
      /\ \A j \in ConfKeys : j # e.key => promised'[w][j] = promised[w][j]
      /\ \A u \in Where : u # w => promised'[u] = promised[u]
  BY <1>1, <1>2, <1>4 DEF ConfInv, ConfigTyped, Texts
<1>7. NoEdit \in [key : Settable \cup {Unset}, value : Values, copy : Texts]
  BY TextsTyped, ValuesTyped DEF NoEdit
<1>8. /\ onDisk' \in [Where -> Texts] /\ onDisk'[w] = text /\ readable' \in [Where -> ReadableAs]
      /\ editing' \in [Where -> [key : Settable \cup {Unset}, value : Values, copy : Texts]]
      /\ readable'[w] = "ok" /\ editing'[w] = NoEdit
      /\ \A u \in Where : u # w => /\ onDisk'[u] = onDisk[u] /\ readable'[u] = readable[u]
                                   /\ editing'[u] = editing[u]
  BY <1>1, <1>3, <1>7 DEF ConfInv, ConfigTyped, ReadableAs
<1>9. ConfigTyped'
  BY <1>1, <1>6, <1>8 DEF ConfInv, ConfigTyped
<1>10. HasPromises(w, onDisk[w])'
  <2> SUFFICES ASSUME NEW j \in Settable, promised'[w][j] # Unset
               PROVE  text[j] = promised'[w][j] /\ (j = "planning.commit_docs" => text["multiRepo"] # "yes")
    BY <1>8 DEF HasPromises
  <2>1. text["multiRepo"] = e.copy["multiRepo"] /\ j \in ConfKeys
    BY <1>2, <1>3, TextsTyped DEF Settable
  <2>2. CASE j = e.key
    BY <1>3, <1>5, <1>6, <2>1, <2>2
  <2>3. CASE j # e.key
    BY <1>2, <1>3, <1>6, <2>1, <2>3 DEF HasPromises
  <2> QED BY <2>2, <2>3
<1>11. rewriting'[w] # NoRewrite => HasPromises(w, rewriting[w].text)'
  <2> SUFFICES ASSUME rewriting[w] # NoRewrite, NEW j \in Settable, promised'[w][j] # Unset
               PROVE  /\ rewriting[w].text[j] = promised'[w][j]
                      /\ j = "planning.commit_docs" => rewriting[w].text["multiRepo"] # "yes"
    BY <1>1 DEF HasPromises
  <2>1. j # e.key /\ promised'[w][j] = promised[w][j]
    BY <1>5, <1>6, TextsTyped
  <2> QED BY <2>1 DEF ConfInv, PromisesHeld, HasPromises
<1>12. ASSUME NEW u \in Where
      PROVE  /\ readable'[u] \in {"nodir", "missing"} => \A j \in Settable : promised'[u][j] = Unset
             /\ HasPromises(u, onDisk[u])'
             /\ rewriting'[u] # NoRewrite => HasPromises(u, rewriting[u].text)'
             /\ editing'[u] # NoEdit => editing'[u].key \in Settable /\ HasPromises(u, editing[u].copy)'
  <2>1. CASE u = w
    BY <1>8, <1>10, <1>11, <2>1
  <2>2. CASE u # w
    BY <1>1, <1>6, <1>8, <2>2 DEF ConfInv, PromisesHeld, HasPromises
  <2> QED BY <2>1, <2>2
<1> QED
  BY <1>9, <1>12 DEF ConfInv, PromisesHeld

LEMMA SetConfigFailsStep ==
  ASSUME ConfInv, NEW w \in Where, SetConfigFails(w)
  PROVE  ConfInv'
<1>1. NoEdit \in [key : Settable \cup {Unset}, value : Values, copy : Texts]
  BY TextsTyped, ValuesTyped DEF NoEdit
<1>2. /\ editing' \in [Where -> [key : Settable \cup {Unset}, value : Values, copy : Texts]]
      /\ \A u \in Where : editing'[u] = NoEdit \/ editing'[u] = editing[u]
      /\ UNCHANGED <<onDisk, readable, rewriting, promised, subRepos, userFile, confSteps>>
  BY <1>1 DEF SetConfigFails, ConfInv, ConfigTyped
<1>3. ConfigTyped'
  BY <1>2 DEF ConfInv, ConfigTyped
<1>4. PromisesHeld'
  BY <1>2 DEF ConfInv, PromisesHeld, HasPromises
<1> QED
  BY <1>3, <1>4 DEF ConfInv

LEMMA ConfigStep == ConfInv /\ [ConfigNext]_confVars => ConfInv'
<1> SUFFICES ASSUME ConfInv, [ConfigNext]_confVars PROVE ConfInv'
  OBVIOUS
<1>1. CASE ReposChange \/ UNCHANGED confVars
  <2>1. UNCHANGED <<onDisk, readable, rewriting, editing, promised, userFile>>
    BY <1>1 DEF ReposChange, confVars
  <2> QED BY <2>1 DEF ConfInv, ConfigTyped, PromisesHeld, HasPromises
<1>2. CASE LoadRoot
  BY <1>2, LoadStep DEF Where
<1>3. ASSUME NEW w \in Where, NewProject(w, [NoKeys EXCEPT !["granularity"] = "standard"]) \/ EnsureConfigFile(w)
      PROVE  ConfInv'
  <2>1. [NoKeys EXCEPT !["granularity"] = "standard"] \in Texts
    BY TextsTyped, ValuesTyped DEF Texts
  <2> QED BY <1>3, <2>1, NewProjectStep, TextsTyped DEF EnsureConfigFile
<1>4. ASSUME NEW w \in Where,
             \/ LoadOwn(w) \/ MigrateConfig(w) \/ Rewrite(w) \/ RewriteFails(w)
             \/ SetConfigDone(w) \/ SetConfigFails(w)
             \/ \E k \in Settable : \E v \in Accepted(k) : SetConfigValue(w, k, v)
      PROVE  ConfInv'
  BY <1>4, LoadStep, RewriteStep, SetConfigDoneStep, SetConfigFailsStep, SetConfigValueStep
<1> QED
  BY <1>1, <1>2, <1>3, <1>4 DEF ConfigNext

\* The promises are what a load goes by.
LEMMA PromisesAreRead ==
  ASSUME ConfInv, NEW w \in Where, NEW k \in Settable, promised[w][k] # Unset, readable[w] = "ok"
  PROVE  /\ ConfigGet(w, k) = promised[w][k]
         /\ LoadConfig(w)[SettingOf(k)] = promised[w][k] \/ Shadowed(w, k)
<1>1. onDisk[w] \in Texts /\ HasPromises(w, onDisk[w]) /\ k \in ConfKeys
  BY TextsTyped DEF ConfInv, ConfigTyped, PromisesHeld
<1>2. Keeps(onDisk[w], LoadedFile(onDisk[w]))
  BY <1>1, LoadKeeps
<1>3. LoadedFile(onDisk[w])[k] = promised[w][k]
  BY <1>1, <1>2 DEF Keeps, HasPromises
<1>4. Parsed(w)[k] = promised[w][k]
  BY <1>1, <1>3 DEF Parsed, DeepMergeConfig
<1>5. LoadConfig(w) = Settings(Parsed(w))
  BY DEF LoadConfig
<1> DEFINE f == Parsed(w)
<1>6. \A flat, nested : f[flat] = Unset /\ f[nested] # Unset => ValueIn(f, flat, nested) = f[nested]
  BY DEF ValueIn
<1>7. CASE k = "git.branching_strategy"
  <2>1. SettingOf(k) = "branching_strategy" /\ k \in NestedKeys
    BY <1>7 DEF SettingOf, NestedKeys
  <2>2. Settings(f)["branching_strategy"] = ValueIn(f, "branching_strategy", "git.branching_strategy")
    BY DEF Settings
  <2> QED BY <1>1, <1>4, <1>5, <1>6, <1>7, <2>1, <2>2 DEF Shadowed, ConfigGet, HasPromises
<1>8. CASE k = "planning.commit_docs"
  <2>1. SettingOf(k) = "commit_docs" /\ k \in NestedKeys
    BY <1>8 DEF SettingOf, NestedKeys
  <2>2. Settings(f)["commit_docs"] = ValueIn(f, "commit_docs", "planning.commit_docs")
    BY DEF Settings
  <2> QED BY <1>1, <1>4, <1>5, <1>6, <1>8, <2>1, <2>2 DEF Shadowed, ConfigGet, HasPromises
<1>9. CASE k = "workflow.research"
  <2>1. SettingOf(k) = "research" /\ k \in NestedKeys
    BY <1>9 DEF SettingOf, NestedKeys
  <2>2. Settings(f)["research"] = ValueIn(f, "research", "workflow.research")
    BY DEF Settings
  <2> QED BY <1>1, <1>4, <1>5, <1>6, <1>9, <2>1, <2>2 DEF Shadowed, ConfigGet, HasPromises
<1>10. CASE k = "granularity"
  <2>1. SettingOf(k) = "granularity"
    BY <1>10 DEF SettingOf
  <2>2. Settings(f)["granularity"] = f["granularity"]
    BY DEF Settings
  <2> QED BY <1>1, <1>4, <1>5, <1>10, <2>1, <2>2 DEF ConfigGet, HasPromises
<1> QED
  BY <1>7, <1>8, <1>9, <1>10 DEF Settable

\* Whatever the files held at first and in whatever order they are loaded, migrated, created
\* and set: what config-set reported without a writer beside it is what config-get and the
\* next load answer, but for a flat key above a nested one.
THEOREM ConfigIsKept == ConfigSpec => []ConfigReadsBack
<1>1. ConfInv => ConfigReadsBack
  BY PromisesAreRead DEF ConfigReadsBack
<1> QED
  BY <1>1, ConfigStarts, ConfigStep, PTL DEF ConfigSpec

\* The values of the keys that are told apart, and how a key moves to another one's.
LEMMA KeyValues ==
  /\ ValuesOf("branching_strategy") = ValuesOf("git.branching_strategy")
  /\ ValuesOf("sub_repos") = ValuesOf("planning.sub_repos")
  /\ ValuesOf("git.branching_strategy") = {"none", "phase"}
  /\ ValuesOf("planning.sub_repos") = {"empty", "old", "found"}
  /\ ValuesOf("depth") = {"quick", "standard"} /\ ValuesOf("granularity") = {"coarse", "standard"}
  /\ ValuesOf("planning.commit_docs") = {"yes", "no"} /\ ValuesOf("commit_docs") = {"yes", "no"}
  /\ ValuesOf("workflow.research") = {"yes", "no"}
  /\ \A k \in ConfKeys : ValuesOf(k) \subseteq Values
  BY ValuesTyped DEF ValuesOf, YesNo

LEMMA KeyedUpdated ==
  ASSUME NEW f \in KeyedTexts, NEW k \in ConfKeys, NEW v \in ValuesOf(k) \cup {Unset}
  PROVE  [f EXCEPT ![k] = v] \in KeyedTexts
<1> DEFINE g == [f EXCEPT ![k] = v]
<1>1. v \in Values /\ f \in Texts
  BY ValuesTyped DEF KeyedTexts
<1>2. g \in Texts /\ g[k] = v /\ \A j \in ConfKeys : j # k => g[j] = f[j]
  BY <1>1, Updated
<1> HIDE DEF g
<1>3. \A j \in ConfKeys : g[j] \in ValuesOf(j) \cup {Unset}
  BY <1>2 DEF KeyedTexts
<1> QED
  BY <1>2, <1>3 DEF KeyedTexts, g

LEMMA MovedIntoKeyed ==
  ASSUME NEW f \in KeyedTexts, NEW flat \in ConfKeys, NEW nested \in ConfKeys, ValuesOf(flat) = ValuesOf(nested)
  PROVE  MovedInto(f, flat, nested) \in KeyedTexts
<1>1. CASE f[flat] = Unset
  BY <1>1 DEF MovedInto
<1>2. CASE f[flat] # Unset
  <2> DEFINE g == [f EXCEPT ![flat] = Unset]
             u == IF g[nested] = Unset THEN f[flat] ELSE g[nested]
  <2>1. g \in KeyedTexts
    BY KeyedUpdated
  <2>2. MovedInto(f, flat, nested) = [g EXCEPT ![nested] = u]
    BY <1>2 DEF MovedInto, KeyedTexts, Texts
  <2> HIDE DEF g
  <2>3. u \in ValuesOf(nested) \cup {Unset}
    BY <2>1 DEF KeyedTexts
  <2> HIDE DEF u
  <2> QED BY <2>1, <2>2, <2>3, KeyedUpdated
<1> QED
  BY <1>1, <1>2

LEMMA NormalizeKeyed == ASSUME NEW f \in KeyedTexts PROVE NormalizeLegacyKeys(f) \in KeyedTexts
<1> DEFINE a == MovedInto(f, "branching_strategy", "git.branching_strategy")
           g == MovedInto(a, "sub_repos", "planning.sub_repos")
           h == [g EXCEPT !["multiRepo"] = IF g["multiRepo"] = "yes" THEN Unset ELSE g["multiRepo"]]
           i == [h EXCEPT !["depth"] = Unset]
           j == [i EXCEPT !["granularity"] = Granularity(h["depth"])]
<1>0. {"branching_strategy", "git.branching_strategy", "sub_repos", "planning.sub_repos", "multiRepo",
       "depth", "granularity"} \subseteq ConfKeys
  BY DEF ConfKeys, NestedKeys
<1>1. a \in KeyedTexts
  BY <1>0, KeyValues, MovedIntoKeyed
<1> HIDE DEF a
<1>2. g \in KeyedTexts
  BY <1>0, <1>1, KeyValues, MovedIntoKeyed
<1>3. NormalizeLegacyKeys(f) = IF h["depth"] # Unset /\ h["granularity"] = Unset THEN j ELSE h
  BY DEF NormalizeLegacyKeys, a
<1> HIDE DEF g
<1>4. h \in KeyedTexts
  <2>1. (IF g["multiRepo"] = "yes" THEN Unset ELSE g["multiRepo"]) \in ValuesOf("multiRepo") \cup {Unset}
    BY <1>0, <1>2 DEF KeyedTexts
  <2> QED BY <1>0, <1>2, <2>1, KeyedUpdated
<1> HIDE DEF h
<1>5. i \in KeyedTexts
  BY <1>0, <1>4, KeyedUpdated
<1> HIDE DEF i
<1>6. h["depth"] # Unset => j \in KeyedTexts
  <2> SUFFICES ASSUME h["depth"] # Unset PROVE j \in KeyedTexts
    OBVIOUS
  <2>1. h["depth"] \in {"quick", "standard"}
    BY <1>0, <1>4, KeyValues DEF KeyedTexts
  <2>2. Granularity(h["depth"]) \in ValuesOf("granularity")
    BY <2>1, KeyValues DEF Granularity
  <2> QED BY <1>0, <1>5, <2>2, KeyedUpdated
<1> HIDE DEF j
<1> QED
  BY <1>3, <1>4, <1>6

\* A load and a migration leave every key a value of its own.
LEMMA LoadKeyed ==
  ASSUME NEW f \in KeyedTexts
  PROVE  /\ NormalizedOnLoad(f) \in KeyedTexts /\ LoadedFile(f) \in KeyedTexts
         /\ MigrateOnDisk(f) \in KeyedTexts
<1>0. {"planning.sub_repos", "planning.commit_docs"} \subseteq ConfKeys
      /\ "found" \in ValuesOf("planning.sub_repos") /\ "no" \in ValuesOf("planning.commit_docs")
  BY KeyValues DEF ConfKeys, NestedKeys
<1>1. ASSUME NEW g \in KeyedTexts PROVE WithFoundRepos(g) \in KeyedTexts
  <2> DEFINE h == [g EXCEPT !["planning.sub_repos"] = "found"]
  <2>1. h \in KeyedTexts
    BY <1>0, KeyedUpdated
  <2>2. WithFoundRepos(g) = [h EXCEPT !["planning.commit_docs"] = "no"]
    BY DEF WithFoundRepos
  <2> HIDE DEF h
  <2>3. "planning.commit_docs" \in ConfKeys /\ "no" \in ValuesOf("planning.commit_docs") \cup {Unset}
    BY <1>0
  <2>4. [h EXCEPT !["planning.commit_docs"] = "no"] \in KeyedTexts
    BY <2>1, <2>3, KeyedUpdated
  <2> QED BY <2>2, <2>4
<1>2. ASSUME NEW g \in KeyedTexts PROVE Resynced(g) \in KeyedTexts
  BY <1>0, KeyedUpdated DEF Resynced
<1>3. NormalizedOnLoad(f) \in KeyedTexts /\ MigrateOnDisk(f) \in KeyedTexts
  BY <1>1, NormalizeKeyed DEF NormalizedOnLoad, MigrateOnDisk
<1> QED
  BY <1>2, <1>3 DEF LoadedFile

\* So do the defaults of the user and of the program, one text laid over another.
LEMMA DefaultsKeyed ==
  ASSUME userFile \in KeyedTexts
  PROVE  /\ MigratedDefaults \in KeyedTexts /\ NoKeys \in KeyedTexts
         /\ \A choices \in KeyedTexts : BuildNewProjectConfig(choices) \in KeyedTexts
<1>0. {"depth", "granularity", "git.branching_strategy", "commit_docs", "workflow.research",
       "planning.sub_repos"} \subseteq ConfKeys
  BY DEF ConfKeys, NestedKeys
<1>1. NoKeys \in KeyedTexts
  BY TextsTyped DEF NoKeys, KeyedTexts
<1>2. MigratedDefaults \in KeyedTexts
  <2>1. CASE userFile["depth"] # Unset /\ userFile["granularity"] = Unset
    <3> DEFINE i == [userFile EXCEPT !["depth"] = Unset]
    <3>1. userFile["depth"] \in {"quick", "standard"}
      BY <1>0, <2>1, KeyValues DEF KeyedTexts
    <3>2. Granularity(userFile["depth"]) \in ValuesOf("granularity")
      BY <3>1, KeyValues DEF Granularity
    <3>3. i \in KeyedTexts
      BY <1>0, KeyedUpdated
    <3>4. MigratedDefaults = [i EXCEPT !["granularity"] = Granularity(userFile["depth"])]
      BY <2>1 DEF MigratedDefaults
    <3> HIDE DEF i
    <3> QED BY <1>0, <3>2, <3>3, <3>4, KeyedUpdated
  <2>2. CASE ~(userFile["depth"] # Unset /\ userFile["granularity"] = Unset)
    BY <2>2 DEF MigratedDefaults
  <2> QED BY <2>1, <2>2
<1>3. ASSUME NEW f \in KeyedTexts, NEW g \in KeyedTexts PROVE DeepMergeConfig(f, g) \in KeyedTexts
  BY DEF DeepMergeConfig, KeyedTexts, Texts
<1>4. [ConfigDefault EXCEPT !["planning.sub_repos"] = Unset] \in KeyedTexts
  <2> DEFINE a == [NoKeys EXCEPT !["git.branching_strategy"] = "none"]
             b == [a EXCEPT !["commit_docs"] = "yes"]
             c == [b EXCEPT !["workflow.research"] = "yes"]
             d == [c EXCEPT !["planning.sub_repos"] = "empty"]
  <2>1. a \in KeyedTexts
    BY <1>0, <1>1, KeyValues, KeyedUpdated
  <2> HIDE DEF a
  <2>2. b \in KeyedTexts
    BY <1>0, <2>1, KeyValues, KeyedUpdated
  <2> HIDE DEF b
  <2>3. c \in KeyedTexts
    BY <1>0, <2>2, KeyValues, KeyedUpdated
  <2> HIDE DEF c
  <2>4. d \in KeyedTexts
    BY <1>0, <2>3, KeyValues, KeyedUpdated
  <2>5. ConfigDefault = d
    BY DEF ConfigDefault, a, b, c
  <2> HIDE DEF d
  <2> QED BY <1>0, <2>4, <2>5, KeyedUpdated
<1> QED
  BY <1>1, <1>2, <1>3, <1>4 DEF BuildNewProjectConfig

\* Every text there is, on disk or about to be, is keyed.
ConfigKeyed ==
  /\ \A w \in Where : /\ onDisk[w] \in KeyedTexts /\ rewriting[w].text \in KeyedTexts
                      /\ editing[w].copy \in KeyedTexts
                      /\ editing[w] # NoEdit => editing[w].value \in ValuesOf(editing[w].key)
  /\ userFile \in KeyedTexts /\ subRepos \in {"found", "empty"} /\ confSteps \in 0 .. MaxConfigSteps

LEMMA ConfigKeyedStarts == ConfigInit => ConfigKeyed
<1> SUFFICES ASSUME ConfigInit PROVE ConfigKeyed
  OBVIOUS
<1>1. PICK f \in InitialFiles : onDisk = [w \in Where |-> f[w].text] /\ readable = [w \in Where |-> f[w].is]
  BY DEF ConfigInit
<1>2. f \in [Where -> [text : KeyedTexts, is : ReadableAs]] /\ userFile \in KeyedTexts /\ MaxConfigSteps \in Nat
  BY <1>1, ConfigAssumption DEF ConfigInit
<1>3. \A w \in Where : onDisk[w] \in KeyedTexts
  BY <1>1, <1>2
<1>4. \A w \in Where : rewriting[w] = NoRewrite /\ editing[w] = NoEdit
  BY DEF ConfigInit
<1>5. NoRewrite.text \in KeyedTexts /\ NoEdit.copy \in KeyedTexts
  BY <1>2, DefaultsKeyed DEF NoRewrite, NoEdit
<1>6. confSteps \in 0 .. MaxConfigSteps
  BY <1>2 DEF ConfigInit
<1> QED
  BY <1>2, <1>3, <1>4, <1>5, <1>6 DEF ConfigInit, ConfigKeyed

\* A rewrite is started with a keyed text.
LEMMA RewriteKeyed ==
  ASSUME ConfInv, ConfigKeyed, NEW w \in Where, NEW by, NEW text \in KeyedTexts, StartRewrite(w, by, text),
         UNCHANGED <<onDisk, editing, subRepos>>, userFile' \in KeyedTexts
  PROVE  ConfigKeyed'
<1>1. confSteps \in 0 .. MaxConfigSteps /\ MaxConfigSteps \in Nat
  BY ConfigAssumption DEF ConfigKeyed
<1>2. confSteps' \in 0 .. MaxConfigSteps
  BY <1>1 DEF StartRewrite, NewCommand
<1>3. \A v \in Where : rewriting'[v].text \in KeyedTexts
  BY DEF StartRewrite, ConfInv, ConfigTyped, ConfigKeyed
<1> QED
  BY <1>2, <1>3 DEF ConfigKeyed

LEMMA ConfigKeyedStep == ConfInv /\ ConfigKeyed /\ [ConfigNext]_confVars => ConfigKeyed'
<1> SUFFICES ASSUME ConfInv, ConfigKeyed, [ConfigNext]_confVars PROVE ConfigKeyed'
  OBVIOUS
<1>0. /\ DOMAIN onDisk = Where /\ DOMAIN rewriting = Where /\ DOMAIN editing = Where
      /\ userFile \in KeyedTexts /\ \A w \in Where : onDisk[w] \in KeyedTexts
  BY DEF ConfInv, ConfigTyped, ConfigKeyed
<1>1. NoRewrite.text \in KeyedTexts /\ NoEdit.copy \in KeyedTexts
  BY <1>0, DefaultsKeyed DEF NoRewrite, NoEdit
<1>2. NewCommand => confSteps' \in 0 .. MaxConfigSteps
  <2>1. confSteps \in 0 .. MaxConfigSteps /\ MaxConfigSteps \in Nat
    BY ConfigAssumption DEF ConfigKeyed
  <2> QED BY <2>1 DEF NewCommand
<1>3. ASSUME NEW w \in Where, LoadOwn(w) \/ MigrateConfig(w) \/ (w = "root" /\ LoadRoot) PROVE ConfigKeyed'
  <2>1. \E by \in {"load", "migrate"}, text \in KeyedTexts : StartRewrite(w, by, text)
    BY <1>0, <1>3, LoadKeyed DEF LoadOwn, MigrateConfig, LoadRoot
  <2>2. UNCHANGED <<onDisk, editing, subRepos, userFile>>
    BY <1>3 DEF LoadOwn, MigrateConfig, LoadRoot
  <2> QED BY <1>0, <2>1, <2>2, RewriteKeyed
<1>4. ASSUME NEW w \in Where, NEW choices \in KeyedTexts, NewProject(w, choices) PROVE ConfigKeyed'
  <2>1. BuildNewProjectConfig(choices) \in KeyedTexts /\ MigratedDefaults \in KeyedTexts
    BY <1>0, DefaultsKeyed
  <2> QED BY <1>4, <2>1, RewriteKeyed DEF NewProject
<1>5. NoKeys \in KeyedTexts /\ [NoKeys EXCEPT !["granularity"] = "standard"] \in KeyedTexts
  <2>1. NoKeys \in KeyedTexts /\ "granularity" \in ConfKeys
    BY <1>0, DefaultsKeyed DEF ConfKeys
  <2> QED BY <2>1, KeyValues, KeyedUpdated
<1>6. ASSUME NEW w \in Where, Rewrite(w) PROVE ConfigKeyed'
  <2>1. \A v \in Where : onDisk'[v] \in KeyedTexts /\ rewriting'[v].text \in KeyedTexts
    BY <1>0, <1>1, <1>6 DEF Rewrite, ConfigKeyed
  <2> QED BY <1>6, <2>1 DEF Rewrite, ConfigKeyed
<1>7. ASSUME NEW w \in Where, RewriteFails(w) PROVE ConfigKeyed'
  <2>1. \A v \in Where : rewriting'[v].text \in KeyedTexts
    BY <1>0, <1>1, <1>7 DEF RewriteFails, ConfigKeyed
  <2> QED BY <1>7, <2>1 DEF RewriteFails, ConfigKeyed
<1>8. ASSUME NEW w \in Where, NEW k \in Settable, NEW v \in Accepted(k), SetConfigValue(w, k, v) PROVE ConfigKeyed'
  <2> DEFINE copy == IF readable[w] = "ok" THEN onDisk[w] ELSE NoKeys
             e == [key |-> k, value |-> v, copy |-> copy]
  <2>1. copy \in KeyedTexts
    BY <1>0, <1>5
  <2>2. editing' = [editing EXCEPT ![w] = e] /\ UNCHANGED <<onDisk, rewriting, subRepos, userFile>> /\ NewCommand
    BY <1>8 DEF SetConfigValue
  <2> HIDE DEF copy
  <2>3. e.copy \in KeyedTexts /\ e.value \in ValuesOf(e.key)
    BY <2>1 DEF Accepted
  <2> HIDE DEF e
  <2>4. \A u \in Where : /\ editing'[u].copy \in KeyedTexts
                         /\ editing'[u] # NoEdit => editing'[u].value \in ValuesOf(editing'[u].key)
    BY <1>0, <2>2, <2>3 DEF ConfigKeyed
  <2> QED BY <1>2, <2>2, <2>4 DEF ConfigKeyed
<1>9. ASSUME NEW w \in Where, SetConfigDone(w) \/ SetConfigFails(w) PROVE ConfigKeyed'
  <2> DEFINE e == editing[w]
  <2>1. /\ e # NoEdit /\ editing' = [editing EXCEPT ![w] = NoEdit]
        /\ UNCHANGED <<rewriting, subRepos, userFile, confSteps>>
        /\ onDisk' = onDisk \/ onDisk' = [onDisk EXCEPT ![w] = [e.copy EXCEPT ![e.key] = e.value]]
    BY <1>9 DEF SetConfigDone, SetConfigFails
  <2>2. e.key \in ConfKeys /\ e.copy \in KeyedTexts /\ e.value \in ValuesOf(e.key)
    BY <2>1, TextsTyped DEF ConfInv, PromisesHeld, ConfigKeyed
  <2>3. [e.copy EXCEPT ![e.key] = e.value] \in KeyedTexts
    BY <2>2, KeyedUpdated
  <2>4. \A v \in Where : onDisk'[v] \in KeyedTexts
    BY <1>0, <2>1, <2>3
  <2>5. \A v \in Where : /\ editing'[v].copy \in KeyedTexts
                         /\ editing'[v] # NoEdit => editing'[v].value \in ValuesOf(editing'[v].key)
    BY <1>0, <1>1, <2>1 DEF ConfigKeyed
  <2> QED BY <2>1, <2>4, <2>5 DEF ConfigKeyed
<1>10. CASE ReposChange
  BY <1>2, <1>10 DEF ReposChange, ConfigKeyed
<1>11. CASE UNCHANGED confVars
  BY <1>11 DEF confVars, ConfigKeyed
<1> QED
  BY <1>3, <1>4, <1>5, <1>6, <1>7, <1>8, <1>9, <1>10, <1>11 DEF ConfigNext, EnsureConfigFile, Where

\* A load always finds a value for what has a default.
LEMMA SettingsThere ==
  \A f : \A s \in {"branching_strategy", "commit_docs", "research", "sub_repos"} : Settings(f)[s] # Unset
<1>1. /\ ConfigDefault["git.branching_strategy"] = "none" /\ ConfigDefault["commit_docs"] = "yes"
      /\ ConfigDefault["workflow.research"] = "yes" /\ ConfigDefault["planning.sub_repos"] = "empty"
  BY DEF ConfigDefault, NoKeys, ConfKeys, NestedKeys
<1>2. Unset \notin {"none", "yes", "empty"}
  BY DEF Unset
<1>3. \A f : /\ ValueIn(f, "branching_strategy", "git.branching_strategy") # Unset
             /\ ValueIn(f, "commit_docs", "planning.commit_docs") # Unset
             /\ ValueIn(f, "research", "workflow.research") # Unset
             /\ ValueIn(f, "sub_repos", "planning.sub_repos") # Unset
  BY <1>1, <1>2 DEF ValueIn
<1> QED
  BY <1>3 DEF Settings

\* Every key of the configuration has a value of its own, however often its files are
\* migrated, set and created, and a load finds a value wherever there is a default.
THEOREM ConfigurationTyped == ConfigSpec => []ConfigTypeOK
<1>1. ConfigSpec => []ConfInv
  BY ConfigStarts, ConfigStep, PTL DEF ConfigSpec
<1>2. ConfigSpec => []ConfigKeyed
  BY <1>1, ConfigKeyedStarts, ConfigKeyedStep, PTL DEF ConfigSpec
<1>3. ConfInv /\ ConfigKeyed => ConfigTypeOK
  <2> SUFFICES ASSUME ConfInv, ConfigKeyed PROVE ConfigTypeOK
    OBVIOUS
  <2>1. \A w \in Where : readable[w] \in ReadableAs
    BY DEF ConfInv, ConfigTyped
  <2>2. ASSUME NEW w \in Where, NEW s \in {"branching_strategy", "commit_docs", "research", "sub_repos"}
        PROVE  LoadConfig(w)[s] # Unset
    <3>1. \E f : LoadConfig(w) = Settings(f)
      BY <2>1 DEF LoadConfig, ReadableAs
    <3> QED BY <3>1, SettingsThere
  <2>3. \A w \in Where, k \in ConfKeys : /\ onDisk[w][k] \in ValuesOf(k) \cup {Unset}
                                         /\ rewriting[w].text[k] \in ValuesOf(k) \cup {Unset}
    BY DEF ConfigKeyed, KeyedTexts
  <2> QED BY <2>1, <2>2, <2>3 DEF ConfigTypeOK, ConfigKeyed
<1> QED
  BY <1>1, <1>2, <1>3, PTL

----------------------------------------------------------------------------
(* PlanningPhases.  A new phase gets a fresh number and the directories    *)
(* keep the numbers of their headings, for every roadmap, every number of  *)
(* phases and every order of commands and crashes.                         *)

\* What ROADMAP.md and the phases directory hold, and what a list holds.
Item == [id : Ids, key : Keys \cup {-1, BacklogKey}]
Dir == [id : Ids, key : Keys \cup {BacklogKey}, stage : Stages]
Entries(s) == {s[i] : i \in DOMAIN s}

\* The headings bear the keys given so far, and key 0 is the backlog's.
Listed ==
  /\ items \in Seq(Item) /\ keys \in 0 .. MaxKeys
  /\ \A h \in Headings : h.key \in 0 .. keys /\ (h.key = BacklogKey => h.id = Backlog)

\* The directories, and the phase being removed, have numbers the roadmap could list.
Numbered ==
  /\ phaseDirs \subseteq Dir /\ IsFiniteSet(phaseDirs)
  /\ removing \in [id : Ids, key : Keys \cup {BacklogKey}]
  /\ removing # NoRemoval => removing.id[1] # 999

\* Between the halves of a removal the directories bear the numbers their headings will
\* have, unless something left its trace in `skew`.
HalfRenumbered ==
  removing # NoRemoval /\ skew = {} =>
    /\ removing.id[2] = 0
    /\ \A d \in phaseDirs : \E h \in Headings :
          h.id # removing.id /\ h.key = d.key /\ Decrement(h.id, removing.id) = d.id

PhaseInv == Listed /\ Numbered /\ HalfRenumbered /\ DirsFollowHeadings

\* A set of natural numbers has a least element, and a bounded one a greatest.
LEMMA SmallestExists == ASSUME NEW S, S \subseteq Nat, S # {} PROVE \E m \in S : \A q \in S : m <= q
<1>1. PICK m \in S : \A q \in S : ~ (<<q, m>> \in OpToRel(<, Nat))
  BY NatLessThanWellFounded, WFMin
<1>2. ASSUME NEW q \in S PROVE m <= q
  <2>1. m \in Nat /\ q \in Nat /\ ~ (q < m)
    BY <1>1 DEF OpToRel
  <2>2. QED
    BY <2>1
<1>3. QED
  BY <1>2

\* The two choices of the model are what their names say.
LEMMA FirstIndexIn == ASSUME NEW S, S \subseteq Nat, S # {} PROVE FirstIndex(S) \in S
  BY SmallestExists DEF FirstIndex

LEMMA GreatestBounds ==
  ASSUME NEW S, S \subseteq Nat, S # {}, \E b \in Nat : \A m \in S : m <= b
  PROVE  Greatest(S) \in S /\ \A m \in S : m <= Greatest(S)
<1> DEFINE U == {u \in Nat : \A m \in S : m <= u}
<1>1. PICK u \in U : \A v \in U : u <= v
  <2>1. U \subseteq Nat /\ U # {}
    OBVIOUS
  <2> HIDE DEF U
  <2> QED BY <2>1, SmallestExists
<1>2. u \in S
  <2> SUFFICES ASSUME u \notin S PROVE FALSE
    OBVIOUS
  <2>1. PICK m \in S : TRUE
    OBVIOUS
  <2>2. u - 1 \in Nat
    <3>1. m \in Nat /\ m <= u /\ m # u /\ u \in Nat
      BY <2>1
    <3> QED BY <3>1
  <2>3. ASSUME NEW q \in S PROVE q <= u - 1
    <3>1. q \in Nat /\ q <= u /\ q # u /\ u \in Nat
      OBVIOUS
    <3> QED BY <3>1
  <2>4. u - 1 \in U
    BY <2>2, <2>3
  <2>5. u <= u - 1
    BY <1>1, <2>4
  <2> QED BY <2>2, <2>5
<1>3. u \in S /\ \A m \in S : m <= u
  BY <1>2
<1> QED BY <1>3 DEF Greatest

\* What a concatenation and a part of a sequence hold.
LEMMA Joined ==
  ASSUME NEW T, NEW s \in Seq(T), NEW t \in Seq(T)
  PROVE  s \o t \in Seq(T) /\ Entries(s \o t) = Entries(s) \cup Entries(t)
<1>1. /\ s \o t \in Seq(T) /\ Len(s) \in Nat /\ Len(t) \in Nat
      /\ DOMAIN (s \o t) = 1 .. Len(s) + Len(t) /\ DOMAIN s = 1 .. Len(s) /\ DOMAIN t = 1 .. Len(t)
      /\ \A i \in 1 .. Len(s) + Len(t) : (s \o t)[i] = IF i <= Len(s) THEN s[i] ELSE t[i - Len(s)]
  BY ConcatProperties, LenProperties
<1> DEFINE r == s \o t
<1> HIDE DEF r
<1>2. /\ DOMAIN r = 1 .. Len(s) + Len(t)
      /\ \A i \in 1 .. Len(s) + Len(t) : r[i] = IF i <= Len(s) THEN s[i] ELSE t[i - Len(s)]
  BY <1>1 DEF r
<1>3. ASSUME NEW i \in DOMAIN r PROVE r[i] \in Entries(s) \cup Entries(t)
  <2>1. CASE i <= Len(s)
    BY <1>1, <1>2, <2>1 DEF Entries
  <2>2. CASE ~ (i <= Len(s))
    <3>1. i - Len(s) \in DOMAIN t /\ r[i] = t[i - Len(s)]
      BY <1>1, <1>2, <2>2
    <3> QED BY <3>1 DEF Entries
  <2> QED BY <2>1, <2>2
<1>4. ASSUME NEW i \in DOMAIN s PROVE s[i] \in Entries(r)
  <2>1. i \in DOMAIN r /\ r[i] = s[i]
    BY <1>1, <1>2
  <2> QED BY <2>1 DEF Entries
<1>5. ASSUME NEW i \in DOMAIN t PROVE t[i] \in Entries(r)
  <2>1. i + Len(s) \in DOMAIN r /\ r[i + Len(s)] = t[i]
    BY <1>1, <1>2
  <2> QED BY <2>1 DEF Entries
<1>6. Entries(r) = Entries(s) \cup Entries(t)
  BY <1>3, <1>4, <1>5 DEF Entries
<1> QED BY <1>1, <1>6 DEF r

LEMMA Sliced ==
  ASSUME NEW T, NEW s \in Seq(T), NEW m \in Nat \ {0}, NEW n \in Nat, n <= Len(s)
  PROVE  SubSeq(s, m, n) \in Seq(T) /\ Entries(SubSeq(s, m, n)) = {s[i] : i \in m .. n}
<1>1. Len(s) \in Nat /\ DOMAIN s = 1 .. Len(s) /\ s \in [1 .. Len(s) -> T]
  BY LenProperties
<1>2. \A i \in m .. n : s[i] \in T
  BY <1>1
<1> DEFINE r == SubSeq(s, m, n)
<1>3. /\ r \in Seq(T) /\ Len(r) = (IF m <= n THEN n - m + 1 ELSE 0)
      /\ \A i \in 1 .. n - m + 1 : r[i] = s[m + i - 1]
  BY <1>2, SubSeqProperties
<1> HIDE DEF r
<1>4. DOMAIN r = 1 .. n - m + 1
  <2>1. DOMAIN r = 1 .. Len(r)
    BY <1>3, LenProperties
  <2> QED BY <2>1, <1>3
<1>5. ASSUME NEW i \in DOMAIN r PROVE \E j \in m .. n : r[i] = s[j]
  <2>1. m + i - 1 \in m .. n /\ r[i] = s[m + i - 1]
    BY <1>3, <1>4
  <2> QED BY <2>1
<1>6. ASSUME NEW j \in m .. n PROVE s[j] \in Entries(r)
  <2>1. j - m + 1 \in DOMAIN r /\ r[j - m + 1] = s[j]
    <3>1. j - m + 1 \in 1 .. n - m + 1 /\ m + (j - m + 1) - 1 = j
      OBVIOUS
    <3> QED BY <3>1, <1>3, <1>4
  <2> QED BY <2>1 DEF Entries
<1>7. Entries(r) = {s[i] : i \in m .. n}
  BY <1>5, <1>6 DEF Entries
<1> QED BY <1>3, <1>7 DEF r

\* A list of one.
LEMMA SingleEntry == ASSUME NEW T, NEW e \in T PROVE <<e>> \in Seq(T) /\ Entries(<<e>>) = {e}
  BY DEF Entries

\* The image of a finite set is finite.
LEMMA ImageFinite ==
  ASSUME NEW S, NEW T, IsFiniteSet(S), NEW f \in [S -> T], \A t \in T : \E x \in S : f[x] = t
  PROVE  IsFiniteSet(T)
<1>1. f \in Surjection(S, T)
  BY DEF Surjection
<1> QED BY <1>1, FS_Surjection

\* A finite set with two elements has a cardinality above 1.
LEMMA TwoAreMore ==
  ASSUME NEW S, IsFiniteSet(S), NEW a \in S, NEW b \in S, a # b
  PROVE  Cardinality(S) > 1
<1>1. Cardinality(S) \in Nat /\ Cardinality(S) # 0
  BY FS_CardinalityType, FS_EmptySet
<1>2. Cardinality(S) # 1
  BY FS_Singleton
<1> DEFINE c == Cardinality(S)
<1>3. c \in Nat /\ c # 0 /\ c # 1
  BY <1>1, <1>2
<1> HIDE DEF c
<1>4. c > 1
  BY <1>3
<1> QED BY <1>4 DEF c

\* A first number is at most that of the backlog.
LEMMA FirstNumber == ASSUME NEW a \in {0, 999} \cup Keys PROVE a \in 0 .. 999
<1>1. CASE a \in 1 .. MaxKeys
  <2>1. MaxKeys \in Nat /\ MaxKeys < 999
    BY PhaseAssumption DEF PhaseAssumption
  <2> QED BY <1>1, <2>1
<1>2. CASE a \in {0, 999}
  BY <1>2
<1> QED BY <1>1, <1>2 DEF Keys

\* The two parts of a number.
LEMMA NumberParts == ASSUME NEW id \in Ids PROVE id[1] \in 0 .. 999 /\ id[2] \in Nat /\ id[2] <= MaxKeys
<1>1. id[1] \in {0, 999} \cup Keys /\ id[2] \in 0 .. MaxKeys
  BY DEF Ids
<1>2. id[2] \in Nat /\ id[2] <= MaxKeys
  BY <1>1
<1>3. id[1] \in 0 .. 999
  <2> DEFINE a == id[1]
  <2>1. a \in {0, 999} \cup Keys
    BY <1>1
  <2> HIDE DEF a
  <2>2. a \in 0 .. 999
    BY <2>1, FirstNumber
  <2> QED BY <2>2 DEF a
<1> QED BY <1>2, <1>3

\* What the invariant says of one heading, one entry and one directory.
LEMMA HeadingFacts ==
  ASSUME PhaseInv
  PROVE  /\ Len(items) \in Nat /\ DOMAIN items = 1 .. Len(items)
         /\ Entries(items) \subseteq Item /\ Headings = Entries(items) \ {ProgressTable}
         /\ \A h \in Headings : /\ h \in Item /\ h.id[1] \in 0 .. 999 /\ h.id[2] \in Nat
                                /\ h.key \in 0 .. keys /\ (h.key = BacklogKey => h.id = Backlog)
<1>1. items \in Seq(Item)
  BY DEF PhaseInv, Listed
<1>2. Len(items) \in Nat /\ DOMAIN items = 1 .. Len(items) /\ items \in [1 .. Len(items) -> Item]
  BY <1>1, LenProperties
<1>3. Entries(items) \subseteq Item /\ Headings = Entries(items) \ {ProgressTable}
  BY <1>2 DEF Entries, Headings
<1>4. ASSUME NEW h \in Item PROVE h.id[1] \in 0 .. 999 /\ h.id[2] \in Nat
  BY NumberParts DEF Item
<1> QED BY <1>2, <1>3, <1>4 DEF PhaseInv, Listed

\* The same of a directory.
LEMMA DirFacts ==
  ASSUME PhaseInv, NEW d \in phaseDirs
  PROVE  d \in Dir /\ d.id[1] \in 0 .. 999 /\ d.id[2] \in Nat
<1>1. d \in Dir /\ d.id \in Ids
  BY DEF PhaseInv, Numbered, Dir
<1> QED BY <1>1, NumberParts

\* The numbers that are given: above those of all headings and of all directories that count.
LEMMA NextIntegerAbove ==
  ASSUME PhaseInv
  PROVE  /\ NextInteger \in Nat \ {0}
         /\ \A h \in Headings : h.id[1] # 999 => h.id[1] < NextInteger
         /\ \A d \in phaseDirs : d.id[1] # 999 /\ d.id[2] = 0 => d.id[1] < NextInteger
<1> DEFINE S == ({0} \cup {h.id[1] : h \in {x \in Headings : x.id[1] # 999}})
                   \cup {d.id[1] : d \in {x \in phaseDirs : x.id[1] # 999 /\ x.id[2] = 0}}
<1>1. \A m \in S : m \in 0 .. 999
  <2>1. ASSUME NEW h \in Headings PROVE h.id[1] \in 0 .. 999
    BY HeadingFacts
  <2>3. ASSUME NEW d \in phaseDirs PROVE d.id[1] \in 0 .. 999
    BY DirFacts
  <2>2. 0 \in 0 .. 999
    OBVIOUS
  <2> SUFFICES ASSUME NEW m \in S PROVE m \in 0 .. 999
    OBVIOUS
  <2>4. m = 0 \/ (\E h \in Headings : m = h.id[1]) \/ (\E d \in phaseDirs : m = d.id[1])
    OBVIOUS
  <2> HIDE DEF S
  <2> QED BY <2>1, <2>2, <2>3, <2>4
<1>2. S # {}
  OBVIOUS
<1>3. /\ \A h \in Headings : h.id[1] # 999 => h.id[1] \in S
      /\ \A d \in phaseDirs : d.id[1] # 999 /\ d.id[2] = 0 => d.id[1] \in S
  OBVIOUS
<1>4. NextInteger = 1 + Greatest(S)
  BY DEF NextInteger
<1> HIDE DEF S
<1>5. Greatest(S) \in S /\ \A m \in S : m <= Greatest(S)
  <2>1. \E b \in Nat : \A m \in S : m <= b
    <3>1. 999 \in Nat /\ \A m \in S : m <= 999
      BY <1>1
    <3> QED BY <3>1
  <2>2. \A m \in S : m \in Nat
    BY <1>1
  <2> QED BY <2>1, <2>2, <1>2, GreatestBounds
<1>6. Greatest(S) \in Nat
  BY <1>1, <1>5
<1>7. \A m \in S : m < 1 + Greatest(S)
  BY <1>1, <1>5, <1>6
<1> QED BY <1>3, <1>4, <1>6, <1>7

\* The same for the decimals of one phase.
LEMMA NextDecimalAbove ==
  ASSUME PhaseInv, NEW base \in Keys
  PROVE  /\ NextDecimal(base) \in Nat \ {0}
         /\ \A h \in Headings : h.id[1] = base => h.id[2] < NextDecimal(base)
         /\ \A d \in phaseDirs : d.id[1] = base => d.id[2] < NextDecimal(base)
<1> DEFINE S == ({0} \cup {h.id[2] : h \in {x \in Headings : x.id[1] = base}})
                   \cup {d.id[2] : d \in {x \in phaseDirs : x.id[1] = base}}
<1>1. \A m \in S : m \in 0 .. MaxKeys
  <2>1. ASSUME NEW h \in Headings PROVE h.id[2] \in 0 .. MaxKeys
    <3>1. h.id \in Ids
      BY HeadingFacts DEF Item
    <3> QED BY <3>1 DEF Ids
  <2>2. ASSUME NEW d \in phaseDirs PROVE d.id[2] \in 0 .. MaxKeys
    <3>1. d.id \in Ids
      BY DirFacts DEF Dir
    <3> QED BY <3>1 DEF Ids
  <2>3. 0 \in 0 .. MaxKeys
    BY PhaseAssumption DEF PhaseAssumption
  <2> SUFFICES ASSUME NEW m \in S PROVE m \in 0 .. MaxKeys
    OBVIOUS
  <2>4. m = 0 \/ (\E h \in Headings : m = h.id[2]) \/ (\E d \in phaseDirs : m = d.id[2])
    OBVIOUS
  <2> HIDE DEF S
  <2> QED BY <2>1, <2>2, <2>3, <2>4
<1>2. S # {}
  OBVIOUS
<1>3. /\ \A h \in Headings : h.id[1] = base => h.id[2] \in S
      /\ \A d \in phaseDirs : d.id[1] = base => d.id[2] \in S
  OBVIOUS
<1>4. NextDecimal(base) = 1 + Greatest(S)
  BY DEF NextDecimal
<1> HIDE DEF S
<1>5. Greatest(S) \in S /\ \A m \in S : m <= Greatest(S)
  <2>1. MaxKeys \in Nat /\ \A m \in S : m \in Nat /\ m <= MaxKeys
    BY <1>1, PhaseAssumption DEF PhaseAssumption
  <2>2. S \subseteq Nat
    BY <2>1
  <2> QED BY <2>1, <2>2, <1>2, GreatestBounds
<1>6. Greatest(S) \in Nat
  BY <1>1, <1>5
<1>7. \A m \in S : m < 1 + Greatest(S)
  BY <1>1, <1>5, <1>6
<1> QED BY <1>3, <1>4, <1>6, <1>7

\* Commands that can come between the two halves of a removal leave a trace.
LEMMA OverlapTraced == ASSUME Overlapped, skew' = {} PROVE removing = NoRemoval /\ skew = {}
  BY DEF Overlapped

\* What an added entry and its directory are.
LEMMA NewPhase ==
  ASSUME NEW n, n.id \in Ids, n.key \in Keys, n = [id |-> n.id, key |-> n.key]
  PROVE  n \in Item /\ n # ProgressTable /\ [id |-> n.id, key |-> n.key, stage |-> "empty"] \in Dir
<1>1. n.key \in Keys \cup {-1, BacklogKey} /\ n.key \in Keys \cup {BacklogKey}
  OBVIOUS
<1>2. n.key # -1
  BY PhaseAssumption DEF Keys, PhaseAssumption
<1>3. "empty" \in Stages
  BY DEF Stages
<1> QED BY <1>1, <1>2, <1>3 DEF Item, Dir, ProgressTable

\* New phases in the roadmap and in the directories, as phase add and phase insert make them.
LEMMA CreatedInv ==
  ASSUME PhaseInv, NEW news, NEW n \in Nat \ {0}, IsFiniteSet(news), Cardinality(news) = n, keys + n <= MaxKeys,
         \A e \in news : e.id \in Ids /\ e.key \in keys + 1 .. keys + n /\ e = [id |-> e.id, key |-> e.key],
         Created(news), items' \in Seq(Item), Entries(items') = Entries(items) \cup news,
         Overlapped, UNCHANGED removing
  PROVE  PhaseInv'
<1>1. keys \in Nat /\ keys' = keys + n /\ keys' \in 0 .. MaxKeys
  BY PhaseAssumption DEF PhaseInv, Listed, Created, PhaseAssumption
<1>2. ASSUME NEW e \in news
      PROVE  /\ e \in Item /\ e # ProgressTable
             /\ [id |-> e.id, key |-> e.key, stage |-> "empty"] \in Dir
             /\ e.key \in 0 .. keys' /\ e.key # BacklogKey
  <2>1. e.key \in 1 .. MaxKeys /\ e.key \in 0 .. keys' /\ e.key # 0
    BY <1>1, PhaseAssumption DEF PhaseAssumption
  <2>2. e.id \in Ids /\ e.key \in Keys /\ e = [id |-> e.id, key |-> e.key]
    BY <2>1 DEF Keys
  <2> QED BY <2>1, <2>2, NewPhase DEF BacklogKey
<1>3. Headings' = Headings \cup news
  <2>1. Headings' = Entries(items') \ {ProgressTable} /\ Headings = Entries(items) \ {ProgressTable}
    BY DEF Headings, Entries
  <2>2. \A e \in news : e # ProgressTable
    BY <1>2
  <2> QED BY <2>1, <2>2
<1>4. Listed'
  <2>1. ASSUME NEW h \in Headings' PROVE h.key \in 0 .. keys' /\ (h.key = BacklogKey => h.id = Backlog)
    <3>1. CASE h \in news
      BY <3>1, <1>2
    <3>2. CASE h \in Headings
      <4>1. h.key \in 0 .. keys /\ (h.key = BacklogKey => h.id = Backlog)
        BY <3>2 DEF PhaseInv, Listed
      <4> QED BY <4>1, <1>1
    <3> QED BY <1>3, <3>1, <3>2
  <2> QED BY <1>1, <2>1 DEF Listed
<1>5. phaseDirs' = phaseDirs \cup {[id |-> e.id, key |-> e.key, stage |-> "empty"] : e \in news}
  BY DEF Created
<1>6. Numbered'
  <2>1. phaseDirs' \subseteq Dir
    BY <1>2, <1>5 DEF PhaseInv, Numbered
  <2>2. IsFiniteSet(phaseDirs')
    <3> DEFINE dir == [e \in news |-> [id |-> e.id, key |-> e.key, stage |-> "empty"]]
               T == {dir[e] : e \in news}
    <3>1. dir \in [news -> T] /\ \A t \in T : \E e \in news : dir[e] = t
      OBVIOUS
    <3>2. T = {[id |-> e.id, key |-> e.key, stage |-> "empty"] : e \in news}
      OBVIOUS
    <3> HIDE DEF dir, T
    <3>3. IsFiniteSet(T)
      BY <3>1, ImageFinite
    <3>4. IsFiniteSet(phaseDirs)
      BY DEF PhaseInv, Numbered
    <3>5. IsFiniteSet(phaseDirs \cup T)
      BY <3>3, <3>4, FS_Union
    <3> QED BY <3>2, <3>5, <1>5
  <2> QED BY <2>1, <2>2 DEF PhaseInv, Numbered
<1>7. HalfRenumbered' /\ DirsFollowHeadings'
  <2> SUFFICES ASSUME skew' = {} PROVE HalfRenumbered' /\ DirsFollowHeadings'
    BY DEF HalfRenumbered, DirsFollowHeadings
  <2>1. removing = NoRemoval /\ skew = {}
    BY OverlapTraced
  <2>2. ASSUME NEW d \in phaseDirs' PROVE \E h \in Headings' : h.key = d.key /\ h.id = d.id
    <3>1. CASE d \in phaseDirs
      BY <2>1, <3>1, <1>3 DEF PhaseInv, DirsFollowHeadings
    <3>2. CASE \E e \in news : d = [id |-> e.id, key |-> e.key, stage |-> "empty"]
      BY <3>2, <1>3
    <3> QED BY <3>1, <3>2, <1>5
  <2> QED BY <2>1, <2>2 DEF HalfRenumbered, DirsFollowHeadings
<1> QED BY <1>4, <1>6, <1>7 DEF PhaseInv

\* No heading and no directory bears the number of one of `news`.
Fresh(news) == \A e \in news : ~ HasHeading(e.id) /\ DirsOf(e.id) = {}

\* The new phases have numbers of their own, and so are none of the backlog's.
Given(news) == Created(news) /\ \A e \in news : e.id \in Ids /\ e.id[1] \in Keys /\ e.key \in Keys

\* phase add and phase add-batch: the numbers lie above all others and below the backlog's.
LEMMA AddFacts ==
  ASSUME PhaseInv, NEW count \in 1 .. 2, PhaseAdd(count)
  PROVE  /\ PhaseInv'
         /\ \E news : Fresh(news) /\ Given(news) /\ Headings' \subseteq Headings \cup news
<1> DEFINE s == [i \in 1 .. count |-> [id |-> <<NextInteger + i - 1, 0>>, key |-> keys + i]]
           news == {s[i] : i \in 1 .. count}
<1>1. /\ s[count].id[1] \in Keys /\ Created(news) /\ items' = items \o s
      /\ keys + count <= MaxKeys /\ Overlapped /\ UNCHANGED removing
  BY DEF PhaseAdd
<1>2. NextInteger \in Nat \ {0} /\ keys \in Nat /\ MaxKeys \in Nat /\ MaxKeys < 999
  BY NextIntegerAbove, PhaseAssumption DEF PhaseInv, Listed, PhaseAssumption
<1>3. \A i \in 1 .. count : s[i] = [id |-> <<NextInteger + i - 1, 0>>, key |-> keys + i]
  OBVIOUS
<1>4. NextInteger + count - 1 <= MaxKeys
  <2>1. s[count].id[1] = NextInteger + count - 1
    BY <1>3
  <2> QED BY <1>1, <2>1, <1>2 DEF Keys
<1>5. \A i \in 1 .. count : /\ NextInteger + i - 1 \in 1 .. MaxKeys
                            /\ keys + i \in keys + 1 .. keys + count /\ keys + i \in 1 .. MaxKeys
  <2>1. ASSUME NEW i \in 1 .. count
        PROVE  NextInteger + i - 1 >= 1 /\ NextInteger + i - 1 <= MaxKeys /\ keys + i <= MaxKeys
    BY <1>1, <1>2, <1>4
  <2>2. ASSUME NEW i \in 1 .. count PROVE i \in Int /\ 1 <= i /\ i <= count
    OBVIOUS
  <2> HIDE DEF s, news
  <2> QED BY <1>2, <2>1, <2>2
<1>6. \A e \in news : /\ e.id \in Ids /\ e.key \in keys + 1 .. keys + count
                      /\ e = [id |-> e.id, key |-> e.key]
  <2> SUFFICES ASSUME NEW i \in 1 .. count
               PROVE  /\ s[i].id \in Ids /\ s[i].key \in keys + 1 .. keys + count
                      /\ s[i] = [id |-> s[i].id, key |-> s[i].key]
    OBVIOUS
  <2>1. <<NextInteger + i - 1, 0>> \in Ids
    <3>1. NextInteger + i - 1 \in Keys /\ 0 \in 0 .. MaxKeys
      BY <1>5, <1>2 DEF Keys
    <3> QED BY <3>1 DEF Ids
  <2> QED BY <2>1, <1>3, <1>5
<1>7. IsFiniteSet(news) /\ Cardinality(news) = count
  <2>1. CASE count = 1
    <3>1. news = {s[1]}
      BY <2>1
    <3> HIDE DEF s, news
    <3> QED BY <3>1, <2>1, FS_Singleton
  <2>2. CASE count = 2
    <3>1. news = {s[1]} \cup {s[2]} /\ s[2] \notin {s[1]}
      <4>1. s[1].key = keys + 1 /\ s[2].key = keys + 2
        BY <2>2, <1>3
      <4>2. s[1] # s[2]
        BY <4>1, <1>2
      <4> QED BY <4>2, <2>2
    <3>2. IsFiniteSet({s[1]}) /\ Cardinality({s[1]}) = 1
      BY FS_Singleton
    <3> HIDE DEF s
    <3>3. /\ IsFiniteSet({s[1]} \cup {s[2]})
          /\ Cardinality({s[1]} \cup {s[2]}) = Cardinality({s[1]}) + 1
      BY <3>1, <3>2, FS_AddElement
    <3> QED BY <3>1, <3>2, <3>3, <2>2
  <2> HIDE DEF s, news
  <2>3. count = 1 \/ count = 2
    OBVIOUS
  <2> QED BY <2>1, <2>2, <2>3
<1>8. s \in Seq(Item) /\ Entries(s) = news
  <2>1. \A i \in 1 .. count : s[i] \in Item
    <3> SUFFICES ASSUME NEW i \in 1 .. count PROVE s[i] \in Item
      OBVIOUS
    <3>1. s[i].key \in Keys
      BY <1>3, <1>5 DEF Keys
    <3>2. s[i] \in news
      OBVIOUS
    <3>3. s[i].id \in Ids /\ s[i] = [id |-> s[i].id, key |-> s[i].key]
      BY <3>2, <1>6
    <3> QED BY <3>1, <3>3, NewPhase
  <2>2. DOMAIN s = 1 .. count
    OBVIOUS
  <2>3. s \in [1 .. count -> Item] /\ count \in Nat
    BY <2>1
  <2>4. s \in Seq(Item)
    <3> HIDE DEF s
    <3> QED BY <2>3
  <2> QED BY <2>2, <2>4 DEF Entries
<1>9. items' \in Seq(Item) /\ Entries(items') = Entries(items) \cup news
  <2>1. items \in Seq(Item)
    BY DEF PhaseInv, Listed
  <2> HIDE DEF s, news
  <2> QED BY <2>1, <1>1, <1>8, Joined
<1>10. Fresh(news)
  <2> SUFFICES ASSUME NEW i \in 1 .. count PROVE ~ HasHeading(s[i].id) /\ DirsOf(s[i].id) = {}
    BY DEF Fresh
  <2> DEFINE a == NextInteger + i - 1
  <2>1. s[i].id = <<a, 0>> /\ a # 999 /\ a >= NextInteger /\ a \in Nat
    BY <1>2, <1>3, <1>5
  <2> HIDE DEF a
  <2>2. ASSUME NEW h \in Headings PROVE h.id # <<a, 0>>
    <3>1. h.id[1] \in 0 .. 999 /\ (h.id[1] # 999 => h.id[1] < NextInteger)
      BY HeadingFacts, NextIntegerAbove
    <3>2. h.id[1] # a
      BY <3>1, <2>1, <1>2
    <3> QED BY <3>2
  <2>3. ASSUME NEW d \in phaseDirs PROVE d.id # <<a, 0>>
    <3>1. d.id[1] \in 0 .. 999 /\ (d.id[1] # 999 /\ d.id[2] = 0 => d.id[1] < NextInteger)
      BY DirFacts, NextIntegerAbove
    <3>2. d.id[2] = 0 => d.id[1] # a
      BY <3>1, <2>1, <1>2
    <3> QED BY <3>2
  <2> QED BY <2>1, <2>2, <2>3 DEF HasHeading, DirsOf
<1>11. Headings' \subseteq Headings \cup news
  <2>1. Headings' = Entries(items') \ {ProgressTable} /\ Headings = Entries(items) \ {ProgressTable}
    BY DEF Headings, Entries
  <2> QED BY <2>1, <1>9
<1>12. PhaseInv'
  <2>1. count \in Nat \ {0}
    OBVIOUS
  <2> HIDE DEF s, news
  <2> QED BY <2>1, <1>1, <1>6, <1>7, <1>9, CreatedInv
<1>13. Given(news)
  <2> SUFFICES ASSUME NEW i \in 1 .. count
               PROVE  s[i].id \in Ids /\ s[i].id[1] \in Keys /\ s[i].key \in Keys
    BY <1>1 DEF Given
  <2> QED BY <1>3, <1>5, <1>6 DEF Keys
<1> QED BY <1>10, <1>11, <1>12, <1>13

\* phase insert: the decimal lies above those of the headings and of the directories.
LEMMA InsertFacts ==
  ASSUME PhaseInv, NEW base \in Keys, PhaseInsert(base)
  PROVE  /\ PhaseInv'
         /\ \E news : Fresh(news) /\ Given(news) /\ Headings' \subseteq Headings \cup news
<1> DEFINE new == [id |-> <<base, NextDecimal(base)>>, key |-> keys + 1]
           here == IndexOf(<<base, 0>>)
           at == IF here < Len(items) /\ items[here + 1] = ProgressTable THEN here + 2 ELSE here + 1
<1>1. /\ HasHeading(<<base, 0>>) /\ keys < MaxKeys /\ NextDecimal(base) <= MaxKeys /\ Created({new})
      /\ items' = SubSeq(items, 1, at - 1) \o <<new>> \o SubSeq(items, at, Len(items))
      /\ Overlapped /\ UNCHANGED removing
  BY DEF PhaseInsert
<1>2. items \in Seq(Item) /\ Len(items) \in Nat /\ DOMAIN items = 1 .. Len(items)
  BY HeadingFacts DEF PhaseInv, Listed
<1>3. here \in 1 .. Len(items)
  <2> DEFINE S == {i \in DOMAIN items : items[i].id = <<base, 0>>}
  <2>1. S # {}
    BY <1>1 DEF HasHeading, Headings
  <2>2. S \subseteq Nat
    BY <1>2
  <2>3. here = FirstIndex(S)
    BY DEF IndexOf
  <2> HIDE DEF S
  <2>4. here \in S
    BY <2>1, <2>2, <2>3, FirstIndexIn
  <2> QED BY <1>2, <2>4 DEF S
<1>4. at \in 2 .. Len(items) + 1
  BY <1>2, <1>3
<1>5. NextDecimal(base) \in Nat \ {0} /\ keys \in Nat /\ MaxKeys \in Nat /\ MaxKeys < 999
  BY NextDecimalAbove, PhaseAssumption DEF PhaseInv, Listed, PhaseAssumption
<1>6. new.id \in Ids /\ new.key \in keys + 1 .. keys + 1 /\ new = [id |-> new.id, key |-> new.key]
  <2>1. NextDecimal(base) \in 0 .. MaxKeys
    BY <1>1, <1>5
  <2>2. <<base, NextDecimal(base)>> \in Ids
    BY <2>1 DEF Ids
  <2> QED BY <2>2, <1>5
<1>7. new \in Item
  <2>1. new.key \in Keys
    BY <1>1, <1>5 DEF Keys
  <2>2. new.id \in Ids /\ new = [id |-> new.id, key |-> new.key]
    BY <1>6
  <2> HIDE DEF new
  <2> QED BY <2>1, <2>2, NewPhase
<1>8. IsFiniteSet({new}) /\ Cardinality({new}) = 1
  BY FS_Singleton
<1>9. items' \in Seq(Item) /\ Entries(items') = Entries(items) \cup {new}
  <2> DEFINE a == SubSeq(items, 1, at - 1)
             b == SubSeq(items, at, Len(items))
  <2> HIDE DEF new, at
  <2>1. at - 1 \in Nat /\ at - 1 <= Len(items) /\ at \in Nat \ {0} /\ 1 \in Nat \ {0}
    BY <1>2, <1>4
  <2>2. a \in Seq(Item) /\ Entries(a) = {items[i] : i \in 1 .. at - 1}
    BY <1>2, <2>1, Sliced
  <2>3. b \in Seq(Item) /\ Entries(b) = {items[i] : i \in at .. Len(items)}
    <3>1. Len(items) <= Len(items)
      BY <1>2
    <3> QED BY <1>2, <2>1, <3>1, Sliced
  <2> DEFINE c == <<new>>
  <2>4. c \in Seq(Item) /\ Entries(c) = {new}
    BY <1>7, SingleEntry
  <2>5. items' = (a \o c) \o b
    BY <1>1
  <2> HIDE DEF a, b, c
  <2> DEFINE ac == a \o c
  <2>6. ac \in Seq(Item) /\ Entries(ac) = Entries(a) \cup Entries(c)
    BY <2>2, <2>4, Joined
  <2>7. items' = ac \o b
    BY <2>5
  <2> HIDE DEF ac
  <2>8. items' \in Seq(Item) /\ Entries(items') = (Entries(a) \cup {new}) \cup Entries(b)
    <3>1. ac \o b \in Seq(Item) /\ Entries(ac \o b) = Entries(ac) \cup Entries(b)
      BY <2>3, <2>6, Joined
    <3> QED BY <2>7, <3>1, <2>4, <2>6
  <2>9. Entries(items) = {items[i] : i \in 1 .. at - 1} \cup {items[i] : i \in at .. Len(items)}
    <3>1. \A i : i \in DOMAIN items <=> i \in 1 .. at - 1 \/ i \in at .. Len(items)
      BY <1>2, <1>4
    <3> QED BY <3>1 DEF Entries
  <2> QED BY <2>2, <2>3, <2>8, <2>9
<1>10. Fresh({new})
  <2>1. ASSUME NEW h \in Headings PROVE h.id # new.id
    <3>1. h.id[2] \in Nat /\ (h.id[1] = base => h.id[2] < NextDecimal(base))
      BY HeadingFacts, NextDecimalAbove
    <3>2. h.id[1] = base => h.id[2] # NextDecimal(base)
      BY <3>1, <1>5
    <3> QED BY <3>2
  <2>2. ASSUME NEW d \in phaseDirs PROVE d.id # new.id
    <3>1. d.id[2] \in Nat /\ (d.id[1] = base => d.id[2] < NextDecimal(base))
      BY DirFacts, NextDecimalAbove
    <3>2. d.id[1] = base => d.id[2] # NextDecimal(base)
      BY <3>1, <1>5
    <3> QED BY <3>2
  <2> HIDE DEF new
  <2> QED BY <2>1, <2>2 DEF Fresh, HasHeading, DirsOf
<1>11. Headings' \subseteq Headings \cup {new}
  <2>1. Headings' = Entries(items') \ {ProgressTable} /\ Headings = Entries(items) \ {ProgressTable}
    BY DEF Headings, Entries
  <2> QED BY <2>1, <1>9
<1>12. PhaseInv'
  <2>1. 1 \in Nat \ {0} /\ keys + 1 <= MaxKeys
    BY <1>1, <1>5
  <2>2. \A e \in {new} : e.id \in Ids /\ e.key \in keys + 1 .. keys + 1 /\ e = [id |-> e.id, key |-> e.key]
    BY <1>6
  <2> HIDE DEF new, at
  <2> QED BY <2>1, <2>2, <1>1, <1>8, <1>9, CreatedInv
<1>13. Given({new})
  <2>1. new.id[1] \in Keys /\ new.key \in Keys
    BY <1>1, <1>5 DEF Keys
  <2> HIDE DEF new
  <2> QED BY <1>1, <1>6, <2>1 DEF Given
<1> QED BY <1>10, <1>11, <1>12, <1>13

\* A heading keeps its place among the numbers when it is renumbered.
LEMMA Decremented ==
  ASSUME NEW id \in Ids, NEW gone \in Ids
  PROVE  /\ Decrement(id, gone) \in Ids
         /\ id = Backlog => Decrement(id, gone) = Backlog
<1>1. /\ id[1] \in {0, 999} \cup Keys /\ id[2] \in 0 .. MaxKeys /\ id = <<id[1], id[2]>>
      /\ gone[1] \in 0 .. 999 /\ id[1] \in 0 .. 999
  BY NumberParts DEF Ids
<1>2. ASSUME ~ (id[1] <= gone[1]), id[1] # 999 PROVE id[1] - 1 \in {0, 999} \cup Keys
  <2> DEFINE a == id[1]
             g == gone[1]
  <2>1. a \in 0 .. 999 /\ g \in 0 .. 999 /\ ~ (a <= g) /\ a # 999 /\ (a = 0 \/ a \in Keys)
    BY <1>1, <1>2
  <2> HIDE DEF a, g
  <2>2. a \in 1 .. MaxKeys /\ MaxKeys \in Nat
    BY <2>1, PhaseAssumption DEF Keys, PhaseAssumption
  <2>3. a - 1 = 0 \/ a - 1 \in 1 .. MaxKeys
    BY <2>2
  <2> QED BY <2>3 DEF Keys, a
<1>3. ASSUME ~ (id[1] <= gone[1]), id[1] # 999 PROVE <<id[1] - 1, id[2]>> \in Ids
  BY <1>1, <1>2, <1>3 DEF Ids
<1>4. Decrement(id, gone) \in Ids
  BY <1>3 DEF Decrement
<1>5. id = Backlog => Decrement(id, gone) = Backlog
  BY DEF Decrement, Backlog
<1> QED BY <1>4, <1>5

\* Whether the removal of a phase takes one off the number of another.
Later(id, gone) == id[1] > gone[1] /\ id[1] # 999

\* A directory whose number goes down is one the roadmap could list.
LEMMA MovedDown ==
  ASSUME NEW id \in Ids, NEW gone \in Ids
  PROVE  /\ gone[2] > 0 /\ id[2] > gone[2] => <<id[1], id[2] - 1>> \in Ids
         /\ Later(id, gone) => <<id[1] - 1, id[2]>> \in Ids /\ Decrement(id, gone) = <<id[1] - 1, id[2]>>
         /\ ~ Later(id, gone) => Decrement(id, gone) = id
<1>1. /\ id[1] \in 0 .. 999 /\ gone[1] \in 0 .. 999 /\ id[2] \in 0 .. MaxKeys /\ gone[2] \in 0 .. MaxKeys
      /\ id[1] \in {0, 999} \cup Keys /\ id = <<id[1], id[2]>>
  BY NumberParts DEF Ids
<1>2. (id[1] <= gone[1]) <=> ~ (id[1] > gone[1])
  <2> DEFINE a == id[1]
             g == gone[1]
  <2>1. a \in 0 .. 999 /\ g \in 0 .. 999
    BY <1>1
  <2> HIDE DEF a, g
  <2>2. (a <= g) <=> ~ (a > g)
    BY <2>1
  <2> QED BY <2>2 DEF a, g
<1>3. ASSUME gone[2] > 0, id[2] > gone[2] PROVE <<id[1], id[2] - 1>> \in Ids
  <2>1. \A a, b \in 0 .. MaxKeys : b > 0 /\ a > b => a - 1 \in 0 .. MaxKeys
    BY PhaseAssumption DEF PhaseAssumption
  <2>2. id[2] - 1 \in 0 .. MaxKeys
    BY <1>1, <1>3, <2>1
  <2> QED BY <1>1, <2>2 DEF Ids
<1>4. Decrement(id, gone) \in Ids
  BY Decremented
<1> QED BY <1>2, <1>3, <1>4 DEF Decrement, Later

\* The loop that renames: unless it stops early, each directory gets the number that
\* Decrement gives its heading.
LEMMA RenamedFacts ==
  ASSUME PhaseInv, NEW gone \in Ids, NEW rest \in SUBSET phaseDirs
  PROVE  /\ Renamed(gone, rest).rest \subseteq Dir /\ IsFiniteSet(Renamed(gone, rest).rest)
         /\ ~ Renamed(gone, rest).stuck /\ ~ (gone[2] > 0) =>
              \A e \in Renamed(gone, rest).rest : \E d \in rest :
                 e.key = d.key /\ e.id = Decrement(d.id, gone)
<1>0. ASSUME NEW d \in phaseDirs
      PROVE  /\ Later(d.id, gone) => Decrement(d.id, gone) = <<d.id[1] - 1, d.id[2]>>
             /\ ~ Later(d.id, gone) => Decrement(d.id, gone) = d.id
  <2>1. d.id \in Ids
    BY DirFacts DEF Dir
  <2> QED BY <2>1, MovedDown
<1> DEFINE moves == {d \in rest : IF gone[2] > 0 THEN d.id[1] = gone[1] /\ d.id[2] > gone[2]
                                  ELSE d.id[1] > gone[1] /\ d.id[1] # 999}
           down(d) == IF gone[2] > 0 THEN <<d.id[1], d.id[2] - 1>> ELSE <<d.id[1] - 1, d.id[2]>>
           taken == {d \in moves : \E e \in rest : e.id = down(d) /\ nameOf[e.key] = nameOf[d.key]}
           ends(d) == \E t \in taken : t = d \/ Before(d.id, t.id)
           new(d) == IF d \in moves /\ ~ ends(d) THEN [d EXCEPT !.id = down(d)] ELSE d
<1>1. /\ Renamed(gone, rest).rest = {new(d) : d \in rest}
      /\ Renamed(gone, rest).stuck <=> taken # {}
  BY DEF Renamed
<1>2. ASSUME NEW d \in rest PROVE d \in Dir /\ d.id \in Ids
  BY DirFacts DEF Dir
<1>3. ASSUME NEW d \in rest, d \in moves PROVE down(d) \in Ids /\ [d EXCEPT !.id = down(d)] \in Dir
  <2>1. down(d) \in Ids
    <3>1. CASE gone[2] > 0
      BY <1>2, <1>3, <3>1, MovedDown
    <3>2. CASE ~ (gone[2] > 0)
      BY <1>2, <1>3, <3>2, MovedDown DEF Later
    <3> QED BY <3>1, <3>2
  <2> HIDE DEF moves, down
  <2> QED BY <1>2, <2>1 DEF Dir
<1>4. \A d \in rest : new(d) \in Dir
  <2> HIDE DEF moves, ends
  <2> QED BY <1>2, <1>3
<1>5. ASSUME taken = {}, ~ (gone[2] > 0), NEW d \in rest
      PROVE  new(d).key = d.key /\ new(d).id = Decrement(d.id, gone)
  <2>1. ~ ends(d)
    BY <1>5
  <2>2. d \in moves <=> Later(d.id, gone)
    BY <1>5 DEF Later
  <2>3. down(d) = <<d.id[1] - 1, d.id[2]>>
    BY <1>5
  <2> HIDE DEF moves, ends, taken, down
  <2>4. CASE d \in moves
    <3>1. new(d) = [d EXCEPT !.id = down(d)] /\ d \in Dir
      BY <1>2, <2>1, <2>4
    <3>2. new(d).key = d.key /\ new(d).id = down(d)
      BY <3>1 DEF Dir
    <3>3. down(d) = Decrement(d.id, gone)
      BY <1>0, <2>2, <2>3, <2>4
    <3> QED BY <3>2, <3>3
  <2>5. CASE d \notin moves
    <3>1. new(d) = d
      BY <2>5
    <3>2. Decrement(d.id, gone) = d.id
      BY <1>0, <2>2, <2>5
    <3> QED BY <3>1, <3>2
  <2> QED BY <2>4, <2>5
<1>6. IsFiniteSet({new(d) : d \in rest})
  <2> DEFINE f == [d \in rest |-> new(d)]
             T == {new(d) : d \in rest}
  <2> HIDE DEF new
  <2>1. f \in [rest -> T] /\ \A t \in T : \E d \in rest : f[d] = t
    OBVIOUS
  <2> HIDE DEF f, T
  <2>2. IsFiniteSet(rest)
    BY FS_Subset DEF PhaseInv, Numbered
  <2>3. IsFiniteSet(T)
    BY <2>1, <2>2, ImageFinite
  <2> QED BY <2>3 DEF T
<1> HIDE DEF new, taken
<1> QED BY <1>1, <1>4, <1>5, <1>6

\* The first half of a removal.
LEMMA RemoveDirsInv ==
  ASSUME PhaseInv, NEW h \in Headings, NEW force \in BOOLEAN, RemoveDirs(h, force)
  PROVE  PhaseInv'
<1>1. PICK target \in (IF DirsOf(h.id) = {} THEN {{}} ELSE {{d} : d \in DirsOf(h.id)}) :
        LET r == Renamed(h.id, phaseDirs \ target)
        IN  /\ phaseDirs' = r.rest
            /\ skew' = skew \cup (IF r.stuck THEN {"name"} ELSE {})
                  \cup (IF h.id[2] > 0 THEN {"decimal"} ELSE {})
                  \cup (IF Cardinality(DirsOf(h.id)) > 1
                           \/ Cardinality({x \in Headings : x.id = h.id}) > 1
                        THEN {"twice"} ELSE {})
  BY DEF RemoveDirs
<1>2. removing = NoRemoval /\ h.id[1] # 999 /\ removing' = h /\ UNCHANGED <<items, keys>>
  BY DEF RemoveDirs
<1> DEFINE rest == phaseDirs \ target
           r == Renamed(h.id, rest)
<1>3. phaseDirs' = r.rest
  BY <1>1
<1>4. skew' = {} => /\ skew = {} /\ ~ r.stuck /\ ~ (h.id[2] > 0) /\ ~ (Cardinality(DirsOf(h.id)) > 1)
  <2>1. skew' = ((skew \cup (IF r.stuck THEN {"name"} ELSE {}))
                  \cup (IF h.id[2] > 0 THEN {"decimal"} ELSE {}))
                  \cup (IF Cardinality(DirsOf(h.id)) > 1
                           \/ Cardinality({x \in Headings : x.id = h.id}) > 1
                        THEN {"twice"} ELSE {})
    BY <1>1
  <2> HIDE DEF r
  <2> QED BY <2>1
<1>5. h \in Item /\ h.id \in Ids /\ h.id[2] \in Nat /\ h.key \in 0 .. keys /\ (h.key = BacklogKey => h.id = Backlog)
  BY HeadingFacts DEF Item
<1>6. /\ r.rest \subseteq Dir /\ IsFiniteSet(r.rest)
      /\ ~ r.stuck /\ ~ (h.id[2] > 0) =>
           \A e \in r.rest : \E d \in rest : e.key = d.key /\ e.id = Decrement(d.id, h.id)
  <2>1. rest \in SUBSET phaseDirs
    OBVIOUS
  <2> HIDE DEF rest
  <2> QED BY <2>1, <1>5, RenamedFacts
<1>7. h # NoRemoval
  BY <1>2, <1>5 DEF NoRemoval, Backlog, BacklogKey
<1>8. Headings' = Headings
  BY <1>2 DEF Headings
<1>9. Listed'
  BY <1>2, <1>8 DEF PhaseInv, Listed
<1>10. Numbered'
  <2>1. h \in [id : Ids, key : Keys \cup {BacklogKey}]
    <3>1. keys \in 0 .. MaxKeys /\ MaxKeys \in Nat
      BY PhaseAssumption DEF PhaseInv, Listed, PhaseAssumption
    <3>2. h.key \in Keys \cup {BacklogKey}
      BY <1>5, <3>1 DEF Keys, BacklogKey
    <3> QED BY <1>5, <3>2 DEF Item
  <2> QED BY <1>2, <1>3, <1>6, <2>1 DEF Numbered
<1>11. HalfRenumbered'
  <2> SUFFICES ASSUME skew' = {}
               PROVE  /\ h.id[2] = 0
                      /\ \A e \in r.rest : \E x \in Headings :
                            x.id # h.id /\ x.key = e.key /\ Decrement(x.id, h.id) = e.id
    <3> HIDE DEF r
    <3> QED BY <1>2, <1>3, <1>8 DEF HalfRenumbered, Decrement
  <2>1. h.id[2] = 0
    BY <1>4, <1>5
  <2>2. DirsOf(h.id) \subseteq target
    <3> SUFFICES ASSUME NEW d \in DirsOf(h.id), d \notin target PROVE FALSE
      OBVIOUS
    <3>1. PICK t \in DirsOf(h.id) : target = {t}
      BY <1>1
    <3>2. t # d
      BY <3>1
    <3>3. Cardinality(DirsOf(h.id)) > 1
      <4>1. IsFiniteSet(DirsOf(h.id))
        BY FS_Subset DEF DirsOf, PhaseInv, Numbered
      <4> QED BY <3>2, <4>1, TwoAreMore
    <3> QED BY <3>3, <1>4
  <2>3. ASSUME NEW e \in r.rest
        PROVE  \E x \in Headings : x.id # h.id /\ x.key = e.key /\ Decrement(x.id, h.id) = e.id
    <3>1. PICK d \in rest : e.key = d.key /\ e.id = Decrement(d.id, h.id)
      BY <1>4, <1>6
    <3>2. d \in phaseDirs /\ d.id # h.id
      BY <2>2, <3>1 DEF DirsOf
    <3>3. PICK x \in Headings : x.key = d.key /\ x.id = d.id
      BY <1>2, <1>4, <3>2 DEF PhaseInv, DirsFollowHeadings
    <3> QED BY <3>1, <3>2, <3>3
  <2> QED BY <2>1, <2>3
<1>12. DirsFollowHeadings'
  BY <1>2, <1>7 DEF DirsFollowHeadings
<1> QED BY <1>9, <1>10, <1>11, <1>12 DEF PhaseInv

\* The second half of a removal: what stays of the roadmap, and its numbers.
Kept(gone) ==
  LET at == IndexOf(gone)
      last == IF at < Len(items) /\ items[at + 1] = ProgressTable THEN at + 1 ELSE at
  IN  IF at = 0 THEN items ELSE SubSeq(items, 1, at - 1) \o SubSeq(items, last + 1, Len(items))

LEMMA KeptFacts ==
  ASSUME PhaseInv, NEW gone \in Ids
  PROVE  /\ Kept(gone) \in Seq(Item)
         /\ \A e \in Entries(Kept(gone)) : e \in Entries(items)
         /\ \A h \in Headings : h.id # gone => h \in Entries(Kept(gone))
<1> DEFINE at == IndexOf(gone)
           last == IF at < Len(items) /\ items[at + 1] = ProgressTable THEN at + 1 ELSE at
           kept == Kept(gone)
<1>0. at = 0 => kept = items
  BY DEF Kept
<1>9. at # 0 => kept = SubSeq(items, 1, at - 1) \o SubSeq(items, last + 1, Len(items))
  BY DEF Kept
<1> HIDE DEF kept
<1>1. items \in Seq(Item) /\ Len(items) \in Nat /\ DOMAIN items = 1 .. Len(items)
  BY HeadingFacts DEF PhaseInv, Listed
<1>2. CASE at = 0
  BY <1>0, <1>1, <1>2 DEF Headings, Entries, kept
<1>3. CASE at # 0
  <2> DEFINE S == {i \in DOMAIN items : items[i].id = gone}
  <2>1. S \subseteq Nat
    BY <1>1
  <2>2. at = FirstIndex(S)
    BY DEF IndexOf
  <2>3. S # {}
    BY <2>2, <1>3 DEF FirstIndex
  <2> HIDE DEF S, at
  <2>4. at \in S
    BY <2>1, <2>2, <2>3, FirstIndexIn
  <2>5. at \in 1 .. Len(items) /\ items[at].id = gone
    BY <1>1, <2>4 DEF S
  <2>6. /\ last \in at .. Len(items) /\ last - at <= 1
        /\ last # at => last = at + 1 /\ items[last] = ProgressTable
    BY <1>1, <2>5
  <2> HIDE DEF last
  <2> DEFINE a == SubSeq(items, 1, at - 1)
             b == SubSeq(items, last + 1, Len(items))
  <2>7. kept = a \o b
    BY <1>3, <1>9
  <2>8. a \in Seq(Item) /\ Entries(a) = {items[i] : i \in 1 .. at - 1}
    <3>1. at - 1 \in Nat /\ at - 1 <= Len(items) /\ 1 \in Nat \ {0}
      BY <1>1, <2>5
    <3> QED BY <1>1, <3>1, Sliced
  <2>9. b \in Seq(Item) /\ Entries(b) = {items[i] : i \in last + 1 .. Len(items)}
    <3>1. last + 1 \in Nat \ {0} /\ Len(items) <= Len(items)
      BY <1>1, <2>5, <2>6
    <3> QED BY <1>1, <3>1, Sliced
  <2> HIDE DEF a, b
  <2>10. kept \in Seq(Item) /\ Entries(kept) = Entries(a) \cup Entries(b)
    BY <2>7, <2>8, <2>9, Joined
  <2>11. \A e \in Entries(kept) : e \in Entries(items)
    <3>1. \A i : i \in 1 .. at - 1 \/ i \in last + 1 .. Len(items) => i \in DOMAIN items
      BY <1>1, <2>5, <2>6
    <3> QED BY <3>1, <2>8, <2>9, <2>10 DEF Entries
  <2>12. ASSUME NEW h \in Headings, h.id # gone PROVE h \in Entries(kept)
    <3>1. PICK i \in DOMAIN items : h = items[i]
      BY DEF Headings
    <3>2. i # at /\ (last # at => i # last)
      BY <3>1, <2>5, <2>6, <2>12 DEF Headings
    <3>3. i \in 1 .. at - 1 \/ i \in last + 1 .. Len(items)
      BY <1>1, <2>5, <2>6, <3>2
    <3> QED BY <3>1, <3>3, <2>8, <2>9, <2>10
  <2> QED BY <2>10, <2>11, <2>12 DEF kept
<1> QED BY <1>2, <1>3

\* The headings get the numbers that the directories have already.
LEMMA RemoveRoadmapInv == ASSUME PhaseInv, RemoveRoadmap PROVE PhaseInv'
<1> DEFINE gone == removing.id
           kept == Kept(gone)
           moved(e) == IF gone[2] > 0 THEN e ELSE [e EXCEPT !.id = Decrement(e.id, gone)]
<1>1. /\ items' = RenumberedItems(gone, kept) /\ removing # NoRemoval /\ removing' = NoRemoval
      /\ UNCHANGED <<phaseDirs, skew, keys>>
  BY DEF RemoveRoadmap, Kept
<1>2. gone \in Ids /\ gone[1] \in 0 .. 999
  BY NumberParts DEF PhaseInv, Numbered
<1>3. /\ kept \in Seq(Item) /\ \A e \in Entries(kept) : e \in Entries(items)
      /\ \A h \in Headings : h.id # gone => h \in Entries(kept)
  BY <1>2, KeptFacts
<1> HIDE DEF kept, gone
<1>4. ASSUME NEW e \in Item
      PROVE  /\ moved(e) \in Item /\ moved(e).key = e.key
             /\ e.id = Backlog => moved(e).id = Backlog
             /\ e = ProgressTable => moved(e) = ProgressTable
             /\ ~ (gone[2] > 0) => moved(e).id = Decrement(e.id, gone)
  <2>1. Decrement(e.id, gone) \in Ids /\ (e.id = Backlog => Decrement(e.id, gone) = Backlog)
    BY <1>2, Decremented DEF Item
  <2>2. e = ProgressTable => Decrement(e.id, gone) = e.id
    <3>1. 0 <= gone[1]
      BY <1>2
    <3> QED BY <3>1 DEF Decrement, ProgressTable
  <2>3. [e EXCEPT !.id = e.id] = e
    BY DEF Item
  <2> QED BY <2>1, <2>2, <2>3 DEF Item
<1>5. items' \in Seq(Item) /\ Entries(items') = {moved(e) : e \in Entries(kept)}
  <2>1. Len(kept) \in Nat /\ DOMAIN kept = 1 .. Len(kept) /\ \A i \in DOMAIN kept : kept[i] \in Item
    BY <1>3, LenProperties
  <2> DEFINE s == [i \in DOMAIN kept |-> moved(kept[i])]
  <2> HIDE DEF moved
  <2>2. s \in [1 .. Len(kept) -> Item]
    BY <2>1, <1>4
  <2>3. DOMAIN s = DOMAIN kept /\ \A i \in DOMAIN kept : s[i] = moved(kept[i])
    OBVIOUS
  <2>4. items' = s
    <3>1. CASE gone[2] > 0
      <4>1. items' = kept
        BY <1>1, <3>1 DEF RenumberedItems
      <4>2. s = [i \in DOMAIN kept |-> kept[i]]
        BY <3>1 DEF moved
      <4>3. kept \in [1 .. Len(kept) -> Item]
        BY <1>3, LenProperties
      <4> QED BY <4>1, <4>2, <4>3, <2>1
    <3>2. CASE ~ (gone[2] > 0)
      BY <1>1, <3>2 DEF RenumberedItems, moved
    <3> QED BY <3>1, <3>2
  <2> HIDE DEF s
  <2>5. s \in Seq(Item)
    BY <2>1, <2>2
  <2> QED BY <2>3, <2>4, <2>5 DEF Entries
<1> HIDE DEF moved
<1>6. Headings' = Entries(items') \ {ProgressTable} /\ Headings = Entries(items) \ {ProgressTable}
  BY DEF Headings, Entries
<1>7. ASSUME NEW h \in Headings' PROVE h.key \in 0 .. keys /\ (h.key = BacklogKey => h.id = Backlog)
  <2>1. PICK e \in Entries(kept) : h = moved(e)
    BY <1>5, <1>6
  <2>2. e \in Item /\ e # ProgressTable /\ e \in Headings
    BY <1>3, <1>4, <1>6, <2>1, HeadingFacts
  <2>3. e.key \in 0 .. keys /\ (e.key = BacklogKey => e.id = Backlog)
    BY <2>2 DEF PhaseInv, Listed
  <2> QED BY <2>1, <2>2, <2>3, <1>4
<1>8. Listed'
  BY <1>1, <1>5, <1>7 DEF PhaseInv, Listed
<1>9. Numbered'
  <2>1. NoRemoval \in [id : Ids, key : Keys \cup {BacklogKey}]
    BY PhaseAssumption DEF NoRemoval, BacklogKey, Ids, PhaseAssumption
  <2> QED BY <1>1, <2>1 DEF PhaseInv, Numbered
<1>10. HalfRenumbered'
  BY <1>1 DEF HalfRenumbered
<1>11. DirsFollowHeadings'
  <2> SUFFICES ASSUME skew = {}, NEW d \in phaseDirs
               PROVE  \E x \in Headings' : x.key = d.key /\ x.id = d.id
    BY <1>1 DEF DirsFollowHeadings
  <2>1. PICK h \in Headings : h.id # gone /\ h.key = d.key /\ Decrement(h.id, gone) = d.id
    BY <1>1 DEF PhaseInv, HalfRenumbered, gone
  <2>2. ~ (gone[2] > 0)
    BY <1>1 DEF PhaseInv, HalfRenumbered, gone
  <2>3. h \in Item /\ h.key \in 0 .. keys /\ h \in Entries(kept)
    BY <1>3, <2>1, HeadingFacts
  <2>4. moved(h).key = d.key /\ moved(h).id = d.id /\ moved(h) \in Entries(items')
    BY <1>4, <1>5, <2>1, <2>2, <2>3
  <2>5. moved(h) # ProgressTable
    <3>1. h.key # -1
      BY <2>3 DEF PhaseInv, Listed
    <3> QED BY <3>1, <2>3, <1>4 DEF ProgressTable
  <2> QED BY <1>6, <2>4, <2>5
<1> QED BY <1>8, <1>9, <1>10, <1>11 DEF PhaseInv

\* A step that leaves the roadmap alone and gives no directory another number.
LEMMA DirsChanged ==
  ASSUME PhaseInv, UNCHANGED <<items, keys, removing>>, skew' = {} => skew = {},
         phaseDirs' \subseteq Dir, IsFiniteSet(phaseDirs'),
         \A d \in phaseDirs' :
            \/ \E e \in phaseDirs : e.key = d.key /\ e.id = d.id
            \/ Overlapped /\ \E h \in Headings : h.key = d.key /\ h.id = d.id
  PROVE  PhaseInv'
<1>1. Headings' = Headings
  BY DEF Headings
<1>2. Listed'
  BY <1>1 DEF PhaseInv, Listed
<1>3. Numbered'
  BY DEF PhaseInv, Numbered
<1>4. HalfRenumbered'
  <2> SUFFICES ASSUME removing' # NoRemoval, skew' = {}
               PROVE  /\ removing'.id[2] = 0
                      /\ \A d \in phaseDirs' : \E h \in Headings' :
                            h.id # removing'.id /\ h.key = d.key /\ Decrement(h.id, removing'.id) = d.id
    BY DEF HalfRenumbered, Decrement
  <2>0. removing' = removing
    OBVIOUS
  <2>1. ~ Overlapped
    BY <2>0, OverlapTraced
  <2>2. \A d \in phaseDirs' : \E e \in phaseDirs : e.key = d.key /\ e.id = d.id
    BY <2>1
  <2> QED BY <1>1, <2>0, <2>2 DEF PhaseInv, HalfRenumbered
<1>5. DirsFollowHeadings'
  <2> SUFFICES ASSUME removing = NoRemoval, skew' = {}, NEW d \in phaseDirs'
               PROVE  \E h \in Headings : h.key = d.key /\ h.id = d.id
    BY <1>1 DEF DirsFollowHeadings
  <2>1. CASE \E e \in phaseDirs : e.key = d.key /\ e.id = d.id
    BY <2>1 DEF PhaseInv, DirsFollowHeadings
  <2>2. CASE \E h \in Headings : h.key = d.key /\ h.id = d.id
    BY <2>2
  <2> QED BY <2>1, <2>2
<1> QED BY <1>2, <1>3, <1>4, <1>5 DEF PhaseInv

\* A stage changes and no number.
LEMMA Restaged ==
  ASSUME PhaseInv, NEW d \in phaseDirs, NEW s \in Stages,
         phaseDirs' = (phaseDirs \ {d}) \cup {[d EXCEPT !.stage = s]},
         UNCHANGED <<items, keys, removing>>, skew' = {} => skew = {}
  PROVE  PhaseInv'
<1> DEFINE c == [d EXCEPT !.stage = s]
<1>1. d \in Dir /\ c \in Dir /\ c.key = d.key /\ c.id = d.id
  BY DirFacts DEF Dir
<1> HIDE DEF c
<1>2. IsFiniteSet(phaseDirs')
  <2>1. IsFiniteSet(phaseDirs \ {d})
    BY FS_RemoveElement DEF PhaseInv, Numbered
  <2>2. phaseDirs' = (phaseDirs \ {d}) \cup {c}
    BY DEF c
  <2> QED BY <2>1, <2>2, FS_AddElement
<1>3. phaseDirs' \subseteq Dir
  BY <1>1 DEF PhaseInv, Numbered, c
<1>4. \A e \in phaseDirs' : \E x \in phaseDirs : x.key = e.key /\ x.id = e.id
  BY <1>1 DEF c
<1> QED BY <1>2, <1>3, <1>4, DirsChanged

\* Directories go.
LEMMA Fewer ==
  ASSUME PhaseInv, phaseDirs' \subseteq phaseDirs, UNCHANGED <<items, keys, removing>>, skew' = {} => skew = {}
  PROVE  PhaseInv'
<1>1. IsFiniteSet(phaseDirs') /\ phaseDirs' \subseteq Dir
  BY FS_Subset DEF PhaseInv, Numbered
<1> QED BY <1>1, DirsChanged

\* The planner makes the directory of a heading, with its number.
LEMMA PlanPhaseInv == ASSUME PhaseInv, PlanPhase PROVE PhaseInv'
<1> DEFINE S == {i \in DOMAIN items : items[i] # ProgressTable /\ DiskStatus(items[i].id) \in {"empty", "no directory"}}
           h == items[NextPhase]
<1>1. NextPhase = FirstIndex(S) /\ NextPhase # 0 /\ Overlapped /\ UNCHANGED <<items, keys, removing>>
  BY DEF PlanPhase, NextPhase, FirstWith
<1>2. h \in Headings
  <2>1. S \subseteq Nat
    <3>1. \A i \in DOMAIN items : i \in Nat
      BY HeadingFacts
    <3> QED BY <3>1
  <2>2. S # {}
    BY <1>1 DEF FirstIndex
  <2> HIDE DEF S
  <2>3. NextPhase \in S
    BY <1>1, <2>1, <2>2, FirstIndexIn
  <2> QED BY <2>3 DEF S, Headings
<1>3. skew' = {} => skew = {}
  BY <1>1, OverlapTraced
<1>4. "planned" \in Stages
  BY DEF Stages
<1>5. CASE phaseDirs' = phaseDirs \cup {[id |-> h.id, key |-> h.key, stage |-> "planned"]}
  <2> DEFINE c == [id |-> h.id, key |-> h.key, stage |-> "planned"]
  <2>1. c \in Dir /\ c.key = h.key /\ c.id = h.id
    <3>1. h \in Item /\ h.key \in 0 .. keys
      BY <1>2, HeadingFacts
    <3>2. keys \in 0 .. MaxKeys /\ MaxKeys \in Nat
      BY PhaseAssumption DEF PhaseInv, Listed, PhaseAssumption
    <3>3. h.key \in Keys \cup {BacklogKey}
      BY <3>1, <3>2 DEF Keys, BacklogKey
    <3> QED BY <3>1, <3>3, <1>4 DEF Item, Dir
  <2>2. phaseDirs' = phaseDirs \cup {c}
    BY <1>5
  <2> HIDE DEF c, h
  <2>3. phaseDirs' \subseteq Dir /\ IsFiniteSet(phaseDirs')
    BY <2>1, <2>2, FS_AddElement DEF PhaseInv, Numbered
  <2>4. \A d \in phaseDirs' :
            \/ \E e \in phaseDirs : e.key = d.key /\ e.id = d.id
            \/ Overlapped /\ \E x \in Headings : x.key = d.key /\ x.id = d.id
    BY <1>1, <1>2, <2>1, <2>2
  <2> QED BY <1>1, <1>3, <2>3, <2>4, DirsChanged
<1>6. CASE \E d \in DirsOf(h.id) : phaseDirs' = (phaseDirs \ {d}) \cup {[d EXCEPT !.stage = "planned"]}
  <2>1. PICK d \in DirsOf(h.id) : phaseDirs' = (phaseDirs \ {d}) \cup {[d EXCEPT !.stage = "planned"]}
    BY <1>6
  <2>2. d \in phaseDirs
    BY DEF DirsOf
  <2> QED BY <1>1, <1>3, <1>4, <2>1, <2>2, Restaged
<1> QED BY <1>5, <1>6 DEF PlanPhase

\* The executor changes stages only.
LEMMA ExecutePlansInv == ASSUME PhaseInv, ExecutePlans PROVE PhaseInv'
<1>1. PICK d \in DirsOf(items[CurrentPhase].id), s \in {"partial", "complete"} :
         phaseDirs' = (phaseDirs \ {d}) \cup {[d EXCEPT !.stage = s]}
  BY DEF ExecutePlans
<1>2. d \in phaseDirs /\ s \in Stages
  BY DEF DirsOf, Stages
<1>3. UNCHANGED <<items, keys, removing>> /\ skew' = skew
  BY DEF ExecutePlans
<1> QED BY <1>1, <1>2, <1>3, Restaged

\* The roadmap of the first state.
LEMMA PhaseInitInv == PhaseInit => PhaseInv
<1> SUFFICES ASSUME PhaseInit PROVE PhaseInv
  OBVIOUS
<1>0. FirstPhases \in Nat \ {0} /\ MaxKeys \in Nat /\ MaxKeys >= FirstPhases
  BY PhaseAssumption DEF PhaseAssumption
<1>1. PICK backlog \in BOOLEAN :
        /\ items = ([i \in 1 .. FirstPhases |-> [id |-> <<i, 0>>, key |-> i]] \o <<ProgressTable>>)
                   \o IF backlog THEN <<[id |-> Backlog, key |-> BacklogKey]>> ELSE <<>>
        /\ phaseDirs = IF backlog THEN {[id |-> Backlog, key |-> BacklogKey, stage |-> "empty"]} ELSE {}
  BY DEF PhaseInit
<1> DEFINE a == [i \in 1 .. FirstPhases |-> [id |-> <<i, 0>>, key |-> i]]
           b == <<ProgressTable>>
           x == [id |-> Backlog, key |-> BacklogKey]
           c == IF backlog THEN <<x>> ELSE <<>>
<1>2. x \in Item /\ ProgressTable \in Item
  <2>1. 0 \in 0 .. MaxKeys /\ (1 \in 0 .. MaxKeys)
    BY <1>0
  <2> QED BY <2>1 DEF Item, Backlog, ProgressTable, BacklogKey, Ids
<1>3. ASSUME NEW i \in 1 .. FirstPhases PROVE a[i] \in Item /\ i \in Keys
  <2>1. i \in Keys /\ 0 \in 0 .. MaxKeys
    BY <1>0 DEF Keys
  <2> QED BY <2>1 DEF Item, Ids
<1>4. a \in Seq(Item) /\ Entries(a) = {a[i] : i \in 1 .. FirstPhases}
  <2>1. a \in [1 .. FirstPhases -> Item]
    BY <1>3
  <2>2. DOMAIN a = 1 .. FirstPhases
    OBVIOUS
  <2> HIDE DEF a
  <2> QED BY <2>1, <2>2, <1>0 DEF Entries
<1>5. b \in Seq(Item) /\ Entries(b) = {ProgressTable}
  BY <1>2, SingleEntry
<1>6. c \in Seq(Item) /\ Entries(c) \subseteq {x} /\ (backlog => Entries(c) = {x})
  <2>1. CASE backlog
    <3>1. c = <<x>>
      BY <2>1
    <3> HIDE DEF x
    <3> QED BY <1>2, <3>1, SingleEntry
  <2>2. CASE ~ backlog
    <3>1. c = <<>>
      BY <2>2
    <3> HIDE DEF c
    <3> QED BY <3>1, <2>2 DEF Entries
  <2> QED BY <2>1, <2>2
<1>7. items = (a \o b) \o c
  BY <1>1
<1> HIDE DEF a, b, c
<1>8. items \in Seq(Item) /\ Entries(items) = (Entries(a) \cup Entries(b)) \cup Entries(c)
  <2> DEFINE ab == a \o b
  <2>1. ab \in Seq(Item) /\ Entries(ab) = Entries(a) \cup Entries(b)
    BY <1>4, <1>5, Joined
  <2>2. items = ab \o c
    BY <1>7
  <2> HIDE DEF ab
  <2> QED BY <2>1, <2>2, <1>6, Joined
<1>9. Headings = Entries(items) \ {ProgressTable} /\ keys = FirstPhases
  BY DEF Headings, Entries, PhaseInit
<1>10. ASSUME NEW h \in Headings PROVE h.key \in 0 .. keys /\ (h.key = BacklogKey => h.id = Backlog)
  <2>1. (\E i \in 1 .. FirstPhases : h = a[i]) \/ h = x
    BY <1>4, <1>5, <1>6, <1>8, <1>9
  <2>2. CASE h = x
    BY <2>2, <1>0, <1>9 DEF BacklogKey
  <2>3. CASE \E i \in 1 .. FirstPhases : h = a[i]
    <3>1. PICK i \in 1 .. FirstPhases : h = [id |-> <<i, 0>>, key |-> i]
      BY <2>3 DEF a
    <3>2. i \in 0 .. keys /\ i # BacklogKey
      BY <1>0, <1>9 DEF BacklogKey
    <3> QED BY <3>1, <3>2
  <2> QED BY <2>1, <2>2, <2>3
<1>11. Listed
  BY <1>0, <1>8, <1>9, <1>10 DEF Listed
<1>12. Numbered
  <2>1. removing = NoRemoval /\ NoRemoval \in [id : Ids, key : Keys \cup {BacklogKey}]
    BY <1>0 DEF PhaseInit, NoRemoval, BacklogKey, Ids
  <2>2. phaseDirs \subseteq Dir
    BY <1>1, <1>2 DEF Dir, Item, BacklogKey, Stages
  <2>3. IsFiniteSet(phaseDirs)
    BY <1>1, FS_EmptySet, FS_Singleton
  <2> QED BY <2>1, <2>2, <2>3 DEF Numbered
<1>13. HalfRenumbered
  BY DEF PhaseInit, HalfRenumbered
<1>14. DirsFollowHeadings
  <2> SUFFICES ASSUME NEW d \in phaseDirs PROVE \E h \in Headings : h.key = d.key /\ h.id = d.id
    BY DEF DirsFollowHeadings
  <2>1. backlog /\ d = [id |-> Backlog, key |-> BacklogKey, stage |-> "empty"]
    BY <1>1
  <2>2. x \in Headings
    BY <2>1, <1>6, <1>8, <1>9 DEF BacklogKey, ProgressTable
  <2> QED BY <2>1, <2>2
<1> QED BY <1>11, <1>12, <1>13, <1>14 DEF PhaseInv

\* Every command keeps the invariant, and what adds a phase gives it a fresh number.
LEMMA PhaseStep ==
  ASSUME PhaseInv, [PhaseNext]_phaseVars
  PROVE  /\ PhaseInv'
         /\ keys' > keys => \A n \in {h \in Headings' : h.key > keys} : ~ HasHeading(n.id) /\ DirsOf(n.id) = {}
<1>1. ASSUME PhaseInv', NEW news, Fresh(news), Headings' \subseteq Headings \cup news
      PROVE  \A n \in {h \in Headings' : h.key > keys} : ~ HasHeading(n.id) /\ DirsOf(n.id) = {}
  <2> SUFFICES ASSUME NEW n \in Headings', n.key > keys PROVE ~ HasHeading(n.id) /\ DirsOf(n.id) = {}
    OBVIOUS
  <2>1. n \notin Headings
    <3> SUFFICES ASSUME n \in Headings PROVE FALSE
      OBVIOUS
    <3> DEFINE k == n.key
    <3>1. k \in 0 .. keys /\ k > keys /\ keys \in Nat
      BY DEF PhaseInv, Listed
    <3> HIDE DEF k
    <3> QED BY <3>1
  <2> QED BY <2>1, <1>1 DEF Fresh
<1>2. ASSUME NEW count \in 1 .. 2, PhaseAdd(count)
      PROVE  /\ PhaseInv'
             /\ \A n \in {h \in Headings' : h.key > keys} : ~ HasHeading(n.id) /\ DirsOf(n.id) = {}
  BY <1>1, <1>2, AddFacts
<1>3. ASSUME NEW base \in Keys, PhaseInsert(base)
      PROVE  /\ PhaseInv'
             /\ \A n \in {h \in Headings' : h.key > keys} : ~ HasHeading(n.id) /\ DirsOf(n.id) = {}
  BY <1>1, <1>3, InsertFacts
<1>4. ASSUME keys' = keys PROVE ~ (keys' > keys)
  <2>1. keys \in 0 .. MaxKeys
    BY DEF PhaseInv, Listed
  <2>2. MaxKeys \in Nat
    BY PhaseAssumption DEF PhaseAssumption
  <2>3. keys \in Nat
    BY <2>1, <2>2
  <2> QED BY <1>4, <2>3
<1>5. ASSUME NEW h \in Headings, NEW force \in BOOLEAN, RemoveDirs(h, force) PROVE PhaseInv' /\ keys' = keys
  <2>1. PhaseInv'
    BY <1>5, RemoveDirsInv
  <2>2. keys' = keys
    BY <1>5 DEF RemoveDirs
  <2> QED BY <2>1, <2>2
<1>6. ASSUME RemoveRoadmap PROVE PhaseInv' /\ keys' = keys
  BY <1>6, RemoveRoadmapInv DEF RemoveRoadmap
<1>7. ASSUME RemoveDies PROVE PhaseInv' /\ keys' = keys
  <2>1. /\ UNCHANGED <<items, phaseDirs, keys>> /\ removing' = NoRemoval /\ skew' # {}
    BY <1>7 DEF RemoveDies
  <2>2. Headings' = Headings
    BY <2>1 DEF Headings
  <2>3. NoRemoval \in [id : Ids, key : Keys \cup {BacklogKey}]
    BY PhaseAssumption DEF NoRemoval, BacklogKey, Ids, PhaseAssumption
  <2>4. Listed' /\ Numbered'
    BY <2>1, <2>2, <2>3 DEF PhaseInv, Listed, Numbered
  <2>5. HalfRenumbered' /\ DirsFollowHeadings'
    BY <2>1 DEF HalfRenumbered, DirsFollowHeadings
  <2> QED BY <2>1, <2>4, <2>5 DEF PhaseInv
<1>8. ASSUME PlanPhase PROVE PhaseInv' /\ keys' = keys
  BY <1>8, PlanPhaseInv DEF PlanPhase
<1>9. ASSUME ExecutePlans PROVE PhaseInv' /\ keys' = keys
  BY <1>9, ExecutePlansInv DEF ExecutePlans
<1>10. ASSUME NEW h \in Headings, PhaseComplete(h.id) PROVE PhaseInv' /\ keys' = keys
  <2>1. UNCHANGED <<items, phaseDirs, removing, skew, keys>>
    BY <1>10 DEF PhaseComplete
  <2> QED BY <2>1, Fewer
<1>11. ASSUME NEW k \in Keys, MarkRequirements(k) PROVE PhaseInv' /\ keys' = keys
  <2>1. UNCHANGED <<items, phaseDirs, removing, skew, keys>>
    BY <1>11 DEF MarkRequirements
  <2> QED BY <2>1, Fewer
<1>12. ASSUME NEW force \in BOOLEAN, MilestoneComplete(force) PROVE PhaseInv' /\ keys' = keys
  <2>1. phaseDirs' \subseteq phaseDirs /\ Overlapped /\ UNCHANGED <<items, removing, keys>>
    BY <1>12 DEF MilestoneComplete
  <2> QED BY <2>1, Fewer, OverlapTraced
<1>13. ASSUME PhasesClear PROVE PhaseInv' /\ keys' = keys
  <2>1. phaseDirs' \subseteq phaseDirs /\ UNCHANGED <<items, removing, skew, keys>>
    BY <1>13 DEF PhasesClear
  <2> QED BY <2>1, Fewer
<1>14. ASSUME UNCHANGED phaseVars PROVE PhaseInv' /\ keys' = keys
  <2>1. UNCHANGED <<items, phaseDirs, removing, skew, keys>>
    BY <1>14 DEF phaseVars
  <2> QED BY <2>1, Fewer
<1>15. 1 \in 1 .. 2 /\ 2 \in 1 .. 2
  OBVIOUS
<1> QED BY <1>2, <1>3, <1>4, <1>5, <1>6, <1>7, <1>8, <1>9, <1>10, <1>11, <1>12, <1>13, <1>14, <1>15 DEF PhaseNext

\* A number is given once: phase add, phase add-batch and phase insert give a phase a number
\* that no heading and no directory bears, whatever was removed, cleared or half done before.
THEOREM NumbersAreFresh == PhaseSpec => NewPhaseIsFresh
<1>1. PhaseInv /\ [PhaseNext]_phaseVars => PhaseInv'
  BY PhaseStep
<1>2. PhaseInv /\ [PhaseNext]_phaseVars =>
        [keys' > keys => \A n \in {h \in Headings' : h.key > keys} :
                            ~ HasHeading(n.id) /\ DirsOf(n.id) = {}]_phaseVars
  BY PhaseStep
<1> QED BY <1>1, <1>2, PhaseInitInv, PTL DEF PhaseSpec, NewPhaseIsFresh

\* Renumbering keeps a phase together: between the commands a directory bears the number of
\* its own phase's heading, but for the five causes the property names.
THEOREM DirsAreFound == PhaseSpec => []DirsFollowHeadings
<1>1. PhaseInv /\ [PhaseNext]_phaseVars => PhaseInv'
  BY PhaseStep
<1>2. PhaseInv => DirsFollowHeadings
  BY DEF PhaseInv
<1> QED BY <1>1, <1>2, PhaseInitInv, PTL DEF PhaseSpec

\* The numbers of a set have a first one.
LEMMA FirstIn == ASSUME NEW S, S \subseteq Ids, S # {} PROVE First(S) \in S
<1> DEFINE A == {a[1] : a \in S}
<1>1. \A a \in S : a[1] \in Nat /\ a[2] \in Nat /\ a = <<a[1], a[2]>>
  BY NumberParts DEF Ids
<1>2. PICK m \in A : \A n \in A : m <= n
  <2>1. A \subseteq Nat /\ A # {}
    BY <1>1
  <2> HIDE DEF A
  <2> QED BY <2>1, SmallestExists
<1> DEFINE B == {a[2] : a \in {x \in S : x[1] = m}}
<1>3. PICK n \in B : \A o \in B : n <= o
  <2>1. B \subseteq Nat /\ B # {}
    BY <1>1, <1>2
  <2> HIDE DEF A, B
  <2> QED BY <2>1, SmallestExists
<1>4. PICK a \in S : a[1] = m /\ a[2] = n
  BY <1>3
<1>5. ASSUME NEW b \in S PROVE ~ Before(b, a)
  <2>1. m <= b[1] /\ (b[1] = m => n <= b[2])
    BY <1>2, <1>3
  <2>2. m \in Nat /\ n \in Nat /\ b[1] \in Nat /\ b[2] \in Nat
    BY <1>1, <1>4
  <2>3. ~ (b[1] < m) /\ ~ (b[1] = m /\ b[2] < n)
    <3> DEFINE b1 == b[1]
               b2 == b[2]
    <3>1. m \in Nat /\ n \in Nat /\ b1 \in Nat /\ b2 \in Nat /\ m <= b1 /\ (b1 = m => n <= b2)
      BY <2>1, <2>2
    <3> HIDE DEF b1, b2, A, B
    <3>2. ~ (b1 < m) /\ ~ (b1 = m /\ b2 < n)
      BY <3>1
    <3> QED BY <3>2 DEF b1, b2
  <2> QED BY <2>3, <1>4 DEF Before
<1> QED BY <1>4, <1>5 DEF First

\* The phase after another is a number the roadmap could list, <<0, 0>> when there is none.
LEMMA PhaseAfterIn == ASSUME PhaseInv, NEW id PROVE PhaseAfter(id) \in Ids
<1> DEFINE later == {d \in phaseDirs : InMilestone(d) /\ d.id[1] # 999 /\ Before(id, d.id)}
           T == {i \in DOMAIN items : Before(id, items[i].id)}
           listed == FirstIndex(T)
           numbers == {d.id : d \in later}
<1>1. PhaseAfter(id) = IF later # {} THEN First(numbers) ELSE IF listed # 0 THEN items[listed].id ELSE <<0, 0>>
  BY DEF PhaseAfter
<1>2. later # {} => First(numbers) \in Ids
  <2>1. numbers \subseteq Ids
    BY DirFacts DEF Dir
  <2>2. later # {} => numbers # {}
    OBVIOUS
  <2> HIDE DEF numbers, later
  <2> QED BY <2>1, <2>2, FirstIn
<1>3. listed # 0 => items[listed].id \in Ids
  <2>1. T \subseteq DOMAIN items /\ DOMAIN items \subseteq Nat
    BY HeadingFacts
  <2> HIDE DEF T
  <2>2. listed # 0 => listed \in DOMAIN items
    BY <2>1, FirstIndexIn DEF FirstIndex
  <2>3. \A i \in DOMAIN items : items[i] \in Item
    BY HeadingFacts DEF Entries
  <2> QED BY <2>2, <2>3 DEF Item
<1>4. <<0, 0>> \in Ids
  BY PhaseAssumption DEF Ids, PhaseAssumption
<1> HIDE DEF later, numbers, listed
<1> QED BY <1>1, <1>2, <1>3, <1>4

\* No heading has the number 0 before its point, and no removal makes one of that kind.
NumbersGiven ==
  /\ \A h \in Headings : h.id[1] # 0
  /\ removing # NoRemoval => removing.id[1] # 0

\* The rest of the type: what is not in the roadmap or in the phases directory.
Notes ==
  /\ nameOf \in Namings /\ archive \subseteq Dir
  /\ boxes \subseteq [id : Ids, key : Keys, done : BOOLEAN]
  /\ met \subseteq Keys /\ position \in Ids
  /\ skew \subseteq {"decimal", "name", "overlap", "twice", "crash"}
  /\ turns \in 0 .. MaxPhaseSteps

LEMMA NotesStart == PhaseInit => NumbersGiven /\ Notes
<1> SUFFICES ASSUME PhaseInit PROVE NumbersGiven /\ Notes
  OBVIOUS
<1>0. FirstPhases \in Nat \ {0} /\ MaxKeys \in Nat /\ MaxKeys >= FirstPhases /\ MaxPhaseSteps \in Nat
  BY PhaseAssumption DEF PhaseAssumption
<1>1. \A i \in 1 .. FirstPhases : i \in Keys /\ <<i, 0>> \in Ids
  <2>1. 1 .. FirstPhases \subseteq Keys /\ 0 \in 0 .. MaxKeys
    BY <1>0 DEF Keys
  <2> QED BY <2>1 DEF Ids
<1>2. boxes \subseteq [id : Ids, key : Keys, done : BOOLEAN]
  <2>1. FALSE \in BOOLEAN
    OBVIOUS
  <2>2. boxes = {[id |-> <<i, 0>>, key |-> i, done |-> FALSE] : i \in 1 .. FirstPhases}
    BY DEF PhaseInit
  <2>3. ASSUME NEW i \in 1 .. FirstPhases
        PROVE  [id |-> <<i, 0>>, key |-> i, done |-> FALSE] \in [id : Ids, key : Keys, done : BOOLEAN]
    BY <1>1, <2>1, Zenon
  <2> QED BY <2>2, <2>3, Zenon
<1>3. position \in Ids
  <2>1. 1 \in 1 .. FirstPhases
    BY <1>0
  <2> QED BY <1>1, <2>1 DEF PhaseInit
<1>4. turns \in 0 .. MaxPhaseSteps
  BY <1>0 DEF PhaseInit
<1>5. Notes
  BY <1>2, <1>3, <1>4 DEF PhaseInit, Notes
<1>6. ASSUME NEW h \in Headings PROVE h.id[1] # 0
  <2>0. PhaseInv
    BY PhaseInitInv
  <2>1. PICK j \in DOMAIN items : h = items[j] /\ h # ProgressTable
    BY DEF Headings
  <2> DEFINE a == [i \in 1 .. FirstPhases |-> [id |-> <<i, 0>>, key |-> i]]
             b == <<ProgressTable>>
             x == [id |-> Backlog, key |-> BacklogKey]
  <2>2. PICK backlog \in BOOLEAN : items = a \o b \o IF backlog THEN <<x>> ELSE <<>>
    BY DEF PhaseInit
  <2>3. (\E i \in 1 .. FirstPhases : h = [id |-> <<i, 0>>, key |-> i]) \/ h = x
    <3>1. Len(a) = FirstPhases /\ \A i \in 1 .. FirstPhases : a[i] = [id |-> <<i, 0>>, key |-> i]
      BY <1>0
    <3>2. Len(b) = 1 /\ b[1] = ProgressTable
      OBVIOUS
    <3> QED BY <1>0, <2>1, <2>2
  <2> QED BY <2>3 DEF Backlog
<1>7. NumbersGiven
  BY <1>6 DEF PhaseInit, NumbersGiven
<1> QED BY <1>5, <1>7

\* Renumbering takes one off a number that is not 0 only when it stays above another such one.
LEMMA StaysAbove == ASSUME NEW id \in Ids, NEW gone \in Ids, id[1] # 0, gone[1] # 0 PROVE Decrement(id, gone)[1] # 0
<1> DEFINE a == id[1]
           g == gone[1]
<1>1. a \in 0 .. 999 /\ g \in 0 .. 999 /\ a # 0 /\ g # 0
  BY NumberParts
<1> HIDE DEF a, g
<1>2. a <= g \/ a - 1 # 0
  BY <1>1
<1>3. Decrement(id, gone) = IF a <= g \/ a = 999 THEN id ELSE <<a - 1, id[2]>>
  BY DEF Decrement, a, g
<1>4. id[1] # 0
  OBVIOUS
<1> QED BY <1>2, <1>3, <1>4

\* A heading keeps its number, or gets the one before, when the roadmap is renumbered.
LEMMA HeadingsRenumbered ==
  ASSUME PhaseInv, RemoveRoadmap, NEW h \in Headings'
  PROVE  \E e \in Headings : h.id = e.id \/ h.id = Decrement(e.id, removing.id)
<1> DEFINE gone == removing.id
           kept == Kept(gone)
<1>1. items' = RenumberedItems(gone, kept)
  BY DEF RemoveRoadmap, Kept
<1>2. gone \in Ids /\ gone[1] \in 0 .. 999
  BY NumberParts DEF PhaseInv, Numbered
<1>3. kept \in Seq(Item) /\ \A e \in Entries(kept) : e \in Entries(items)
  BY <1>2, KeptFacts
<1>4. DOMAIN kept = 1 .. Len(kept) /\ \A i \in DOMAIN kept : kept[i] \in Item /\ kept[i] \in Entries(items)
  BY <1>3, LenProperties DEF Entries
<1> HIDE DEF kept, gone
<1>5. PICK i \in DOMAIN items' : h = items'[i] /\ h # ProgressTable
  BY DEF Headings
<1>6. i \in DOMAIN kept /\ (h = kept[i] \/ h = [kept[i] EXCEPT !.id = Decrement(kept[i].id, gone)])
  BY <1>1, <1>5 DEF RenumberedItems
<1>7. kept[i] # ProgressTable
  <2> SUFFICES ASSUME kept[i] = ProgressTable PROVE FALSE
    OBVIOUS
  <2>1. Decrement(<<0, 0>>, gone) = <<0, 0>>
    BY <1>2 DEF Decrement
  <2>2. [ProgressTable EXCEPT !.id = <<0, 0>>] = ProgressTable
    BY DEF ProgressTable
  <2> QED BY <1>5, <1>6, <2>1, <2>2 DEF ProgressTable
<1>8. kept[i] \in Headings /\ kept[i] \in Item
  BY <1>4, <1>6, <1>7, HeadingFacts
<1>9. h.id = kept[i].id \/ h.id = Decrement(kept[i].id, gone)
  BY <1>6, <1>8 DEF Item
<1> QED BY <1>8, <1>9 DEF gone

LEMMA NumbersGivenStep == ASSUME PhaseInv, NumbersGiven, [PhaseNext]_phaseVars PROVE NumbersGiven'
<1>0. ASSUME UNCHANGED items PROVE Headings' = Headings
  BY <1>0 DEF Headings
<1>1. ASSUME UNCHANGED <<items, removing>> PROVE NumbersGiven'
  BY <1>0, <1>1 DEF NumbersGiven
<1>2. ASSUME NEW news, Given(news), Headings' \subseteq Headings \cup news, UNCHANGED removing PROVE NumbersGiven'
  <2>1. \A e \in news : e.id[1] # 0
    BY <1>2, PhaseAssumption DEF Given, Keys, PhaseAssumption
  <2> QED BY <1>2, <2>1 DEF NumbersGiven
<1>3. ASSUME NEW count \in 1 .. 2, PhaseAdd(count) PROVE NumbersGiven'
  <2>1. UNCHANGED removing
    BY <1>3 DEF PhaseAdd
  <2> QED BY <1>2, <1>3, <2>1, AddFacts
<1>4. ASSUME NEW base \in Keys, PhaseInsert(base) PROVE NumbersGiven'
  <2>1. UNCHANGED removing
    BY <1>4 DEF PhaseInsert
  <2> QED BY <1>2, <1>4, <2>1, InsertFacts
<1>5. ASSUME NEW h \in Headings, NEW force \in BOOLEAN, RemoveDirs(h, force) PROVE NumbersGiven'
  <2>1. UNCHANGED items /\ removing' = h
    BY <1>5 DEF RemoveDirs
  <2> QED BY <1>0, <1>5, <2>1 DEF NumbersGiven
<1>6. ASSUME RemoveRoadmap PROVE NumbersGiven'
  <2>1. removing # NoRemoval /\ removing' = NoRemoval
    BY <1>6 DEF RemoveRoadmap
  <2>2. removing.id \in Ids /\ removing.id[1] # 0
    BY <2>1 DEF PhaseInv, Numbered, NumbersGiven
  <2>3. ASSUME NEW h \in Headings' PROVE h.id[1] # 0
    <3>1. PICK e \in Headings : h.id = e.id \/ h.id = Decrement(e.id, removing.id)
      BY <1>6, HeadingsRenumbered
    <3>2. e.id \in Ids /\ e.id[1] # 0
      BY HeadingFacts DEF NumbersGiven, Item
    <3> QED BY <2>2, <3>1, <3>2, StaysAbove
  <2> QED BY <2>1, <2>3 DEF NumbersGiven
<1>7. ASSUME RemoveDies PROVE NumbersGiven'
  BY <1>0, <1>7 DEF RemoveDies, NumbersGiven
<1>8. 1 \in 1 .. 2 /\ 2 \in 1 .. 2
  OBVIOUS
<1>9. ASSUME PlanPhase \/ ExecutePlans \/ PhasesClear PROVE NumbersGiven'
  BY <1>1, <1>9 DEF PlanPhase, ExecutePlans, PhasesClear
<1>10. ASSUME NEW h \in Headings, PhaseComplete(h.id) PROVE NumbersGiven'
  BY <1>1, <1>10 DEF PhaseComplete
<1>11. ASSUME NEW k \in Keys, MarkRequirements(k) PROVE NumbersGiven'
  BY <1>1, <1>11 DEF MarkRequirements
<1>12. ASSUME NEW force \in BOOLEAN, MilestoneComplete(force) PROVE NumbersGiven'
  BY <1>1, <1>12 DEF MilestoneComplete
<1>13. ASSUME UNCHANGED phaseVars PROVE NumbersGiven'
  BY <1>1, <1>13 DEF phaseVars
<1> QED BY <1>3, <1>4, <1>5, <1>6, <1>7, <1>8, <1>9, <1>10, <1>11, <1>12, <1>13 DEF PhaseNext

\* A command counts among the commands.
LEMMA Ordered == ASSUME turns \in 0 .. MaxPhaseSteps, Order PROVE turns' \in 0 .. MaxPhaseSteps
  BY PhaseAssumption DEF Order, PhaseAssumption

LEMMA NotesStep == ASSUME PhaseInv, NumbersGiven, Notes, [PhaseNext]_phaseVars PROVE Notes'
<1> DEFINE Box == [id : Ids, key : Keys, done : BOOLEAN]
           Traces == {"decimal", "name", "overlap", "twice", "crash"}
<1>0. Overlapped => skew' \subseteq Traces
  BY DEF Overlapped, Notes
<1>1. Order => turns' \in 0 .. MaxPhaseSteps
  BY Ordered DEF Notes
<1>2. ASSUME NEW news, Given(news) PROVE boxes' \subseteq Box
  <2>1. FALSE \in BOOLEAN
    OBVIOUS
  <2>2. ASSUME NEW n \in news PROVE [id |-> n.id, key |-> n.key, done |-> FALSE] \in Box
    BY <1>2, <2>1, Zenon DEF Given
  <2>3. boxes' = boxes \cup {[id |-> n.id, key |-> n.key, done |-> FALSE] : n \in news}
    BY <1>2 DEF Given, Created
  <2>4. boxes \subseteq Box
    BY DEF Notes
  <2> HIDE DEF Box
  <2> QED BY <2>2, <2>3, <2>4
<1>3. ASSUME NEW count \in 1 .. 2, PhaseAdd(count) PROVE Notes'
  <2>1. boxes' \subseteq Box
    BY <1>2, <1>3, AddFacts
  <2>2. Order /\ Overlapped /\ UNCHANGED <<nameOf, archive, met, position>>
    BY <1>3 DEF PhaseAdd
  <2> QED BY <1>0, <1>1, <2>1, <2>2 DEF Notes
<1>4. ASSUME NEW base \in Keys, PhaseInsert(base) PROVE Notes'
  <2>1. boxes' \subseteq Box
    BY <1>2, <1>4, InsertFacts
  <2>2. Order /\ Overlapped /\ UNCHANGED <<nameOf, archive, met, position>>
    BY <1>4 DEF PhaseInsert
  <2> QED BY <1>0, <1>1, <2>1, <2>2 DEF Notes
<1>5. ASSUME NEW h \in Headings, NEW force \in BOOLEAN, RemoveDirs(h, force) PROVE Notes'
  <2>1. Order /\ UNCHANGED <<nameOf, boxes, archive, met, position>>
    BY <1>5 DEF RemoveDirs
  <2>2. skew' \subseteq skew \cup {"name", "decimal", "twice"}
    BY <1>5 DEF RemoveDirs
  <2> QED BY <1>1, <2>1, <2>2 DEF Notes
<1>6. ASSUME RemoveRoadmap PROVE Notes'
  <2>1. UNCHANGED <<nameOf, archive, met, position, skew, turns>>
    BY <1>6 DEF RemoveRoadmap
  <2>2. boxes' = RenumberedBoxes(removing.id, {b \in boxes : b.id # removing.id})
    BY <1>6 DEF RemoveRoadmap
  <2>3. removing.id \in Ids
    BY DEF PhaseInv, Numbered
  <2>4. ASSUME NEW b \in Box PROVE [b EXCEPT !.id = Decrement(b.id, removing.id)] \in Box
    <3>1. Decrement(b.id, removing.id) \in Ids
      BY <2>3, Decremented
    <3> QED BY <3>1
  <2>5. boxes \subseteq Box
    BY DEF Notes
  <2> HIDE DEF Box
  <2>6. boxes' \subseteq Box
    BY <2>2, <2>4, <2>5 DEF RenumberedBoxes
  <2> QED BY <2>1, <2>6 DEF Notes, Box
<1>7. ASSUME RemoveDies PROVE Notes'
  BY <1>7 DEF RemoveDies, Notes
<1>8. 1 \in 1 .. 2 /\ 2 \in 1 .. 2
  OBVIOUS
<1>9. ASSUME PlanPhase \/ ExecutePlans \/ PhasesClear PROVE Notes'
  <2>1. Order /\ UNCHANGED <<nameOf, boxes, archive, met, position>> /\ (Overlapped \/ skew' = skew)
    BY <1>9 DEF PlanPhase, ExecutePlans, PhasesClear
  <2> QED BY <1>0, <1>1, <2>1 DEF Notes
<1>10. ASSUME NEW h \in Headings, PhaseComplete(h.id) PROVE Notes'
  <2>1. Order /\ UNCHANGED <<nameOf, archive, skew>> /\ position' = PhaseAfter(h.id)
    BY <1>10 DEF PhaseComplete
  <2>2. boxes' \subseteq Box
    <3>1. \/ UNCHANGED boxes
          \/ \E b \in boxes : boxes' = (boxes \ {b}) \cup {[b EXCEPT !.done = TRUE]}
      BY <1>10 DEF PhaseComplete
    <3>2. TRUE \in BOOLEAN
      OBVIOUS
    <3>3. \A b \in Box : [b EXCEPT !.done = TRUE] \in Box
      BY <3>2
    <3>4. boxes \subseteq Box
      BY DEF Notes
    <3> HIDE DEF Box
    <3> QED BY <3>1, <3>3, <3>4
  <2>3. met' \subseteq Keys
    <3> SUFFICES ASSUME HasHeading(h.id), h.id # Backlog PROVE items[IndexOf(h.id)].key \in Keys
      BY <1>10 DEF PhaseComplete, Notes
    <3> DEFINE T == {i \in DOMAIN items : items[i].id = h.id}
               at == FirstIndex(T)
    <3>1. h.id[1] # 0
      BY DEF NumbersGiven
    <3>2. T # {} /\ T \subseteq Nat
      BY HeadingFacts DEF Headings
    <3>3. IndexOf(h.id) = at
      BY DEF IndexOf
    <3>4. at \in T
      <4> HIDE DEF T
      <4> QED BY <3>2, FirstIndexIn
    <3>5. items[at] \in Headings /\ items[at].id = h.id
      <4>1. at \in DOMAIN items /\ items[at].id = h.id
        BY <3>4
      <4> HIDE DEF at, T
      <4>2. ProgressTable.id[1] = 0
        BY DEF ProgressTable
      <4>3. items[at] # ProgressTable
        BY <3>1, <4>1, <4>2
      <4> QED BY <4>1, <4>3 DEF Headings
    <3> HIDE DEF at
    <3>6. items[at].key \in 0 .. keys /\ items[at].key # 0
      BY <3>5, HeadingFacts DEF BacklogKey
    <3>7. keys \in 0 .. MaxKeys
      BY DEF PhaseInv, Listed
    <3> DEFINE k == items[at].key
    <3> HIDE DEF k
    <3>8. k \in 0 .. keys /\ k # 0 => k \in 1 .. MaxKeys
      BY <3>7, PhaseAssumption DEF PhaseAssumption
    <3> QED BY <3>3, <3>6, <3>8 DEF Keys, k
  <2> QED BY <1>1, <2>1, <2>2, <2>3, PhaseAfterIn DEF Notes
<1>11. ASSUME NEW k \in Keys, MarkRequirements(k) PROVE Notes'
  BY <1>1, <1>11 DEF MarkRequirements, Notes
<1>12. ASSUME NEW force \in BOOLEAN, MilestoneComplete(force) PROVE Notes'
  <2>1. /\ Order /\ Overlapped /\ UNCHANGED <<nameOf, boxes, met, position>>
        /\ archive' \subseteq archive \cup phaseDirs
    BY <1>12 DEF MilestoneComplete
  <2> QED BY <1>0, <1>1, <2>1 DEF Notes, PhaseInv, Numbered
<1>13. ASSUME UNCHANGED phaseVars PROVE Notes'
  BY <1>13 DEF phaseVars, Notes
<1> QED BY <1>3, <1>4, <1>5, <1>6, <1>7, <1>8, <1>9, <1>10, <1>11, <1>12, <1>13 DEF PhaseNext

\* What the phases hold is of its type: ROADMAP.md, its check boxes, the directories and the
\* archive list numbers and phases there are, and a phase whose requirements are marked as
\* met is one of the milestone, neither the backlog nor the progress table.
THEOREM PhaseTyped == PhaseSpec => []PhaseTypeOK
<1>1. PhaseInv /\ [PhaseNext]_phaseVars => PhaseInv'
  BY PhaseStep
<1>2. PhaseInv /\ NumbersGiven /\ [PhaseNext]_phaseVars => NumbersGiven'
  BY NumbersGivenStep
<1>3. PhaseInv /\ NumbersGiven /\ Notes /\ [PhaseNext]_phaseVars => Notes'
  BY NotesStep
<1>4. PhaseInv /\ Notes => PhaseTypeOK
  BY DEF PhaseInv, Listed, Numbered, Notes, Item, Dir, PhaseTypeOK
<1> QED BY <1>1, <1>2, <1>3, <1>4, PhaseInitInv, NotesStart, PTL DEF PhaseSpec

----------------------------------------------------------------------------
(* PlanningState.  `state sync` settles.                                   *)

\* The body has the lines that the sync writes, and after a sync it wants no other.
Lines == {"of", "percent"}
StateInv == style \in {"bold", "plain"} /\ Lines \subseteq DOMAIN body /\ SyncSettles

\* The first state has synced nothing yet.
LEMMA StateInitInv == StateInit => StateInv
  BY DEF StateInit, StateInv, Lines, SyncSettles

\* A sync that writes leaves the files alone, so that it wants of its own result what it wanted before:
\* the total is the one it wrote, and in the bold style the progress is too.
LEMMA SyncLeavesNothing == ASSUME StateInv, StateSync, Store(SyncTarget(body)) PROVE StateInv'
<1>1. UNCHANGED <<style, plans, sums>> /\ body' = SyncTarget(body)
  BY DEF StateSync, DiskStays, Store
<1>2. WithPlans' = WithPlans /\ HighestIncomplete' = HighestIncomplete
  BY <1>1 DEF WithPlans, HighestIncomplete
<1>3. DonePhases' = DonePhases
  BY <1>1 DEF DonePhases, Completed
<1>4. DiskPercent' = DiskPercent
  BY <1>1, <1>3 DEF DiskPercent, TotalPhases
<1>5. DOMAIN body' = DOMAIN body
  BY <1>1 DEF SyncTarget, Put
<1>6. body'.of = SyncOf(body)
  BY <1>1 DEF SyncTarget, Put, StateInv, Lines
<1>7. SyncOf(body)' = body'.of
  BY <1>1, <1>2, <1>6 DEF SyncOf
<1>8. style = "bold" => body'.percent = DiskPercent
  BY <1>1 DEF SyncTarget, Put, StateInv, Lines
<1>9. SyncSettles'
  BY <1>1, <1>4, <1>7, <1>8 DEF SyncSettles, SyncChanges, StateInv
<1> QED BY <1>1, <1>5, <1>9 DEF StateInv

\* One that finds nothing to change and does not write.
LEMMA SyncWithoutWrite ==
  ASSUME StateInv, StateSync, SyncChanges(body) = {}, UNCHANGED <<body, front>>
  PROVE  StateInv'
<1>1. UNCHANGED <<style, plans, sums, body>>
  BY DEF StateSync, DiskStays
<1>2. SyncChanges(body)' = SyncChanges(body)
  BY <1>1 DEF SyncChanges, SyncOf, WithPlans, HighestIncomplete, DiskPercent, DonePhases, Completed
<1>3. SyncSettles'
  BY <1>2 DEF SyncSettles
<1> QED BY <1>1, <1>3 DEF StateInv

\* Every other step forgets that a sync was the last, and keeps the lines of the body.
LEMMA StateStep == ASSUME StateInv, [StateNext]_stateVars PROVE StateInv'
<1>1. ASSUME style' = style, DOMAIN body' = DOMAIN body, synced' = FALSE PROVE StateInv'
  BY <1>1 DEF StateInv, SyncSettles
<1>2. ASSUME AdvancePlan PROVE StateInv'
  BY <1>1, <1>2 DEF AdvancePlan, DiskStays, Store, PutIfTemplate
<1>3. ASSUME UpdateProgress PROVE StateInv'
  BY <1>1, <1>3 DEF UpdateProgress, DiskStays, Store, Put
<1>4. ASSUME UpdateStatus PROVE StateInv'
  BY <1>1, <1>4 DEF UpdateStatus, DiskStays, StoreBody
<1>5. ASSUME PatchStatus PROVE StateInv'
  BY <1>1, <1>5 DEF PatchStatus, DiskStays, Store, Put
<1>6. ASSUME MilestoneSwitch PROVE StateInv'
  BY <1>1, <1>6 DEF MilestoneSwitch, DiskStays
<1>7. ASSUME StatePrune(1) PROVE StateInv'
  BY <1>1, <1>7 DEF StatePrune, DiskStays, Store
<1>8. ASSUME NEW p \in Phases, WritePlan(p) \/ WriteSummary(p) \/ UpdatePlanProgress(p)
      PROVE  StateInv'
  BY <1>1, <1>8 DEF WritePlan, WriteSummary, UpdatePlanProgress
<1>9. ASSUME NEW p \in Phases, PlannedPhase(p) PROVE StateInv'
  BY <1>1, <1>9 DEF PlannedPhase, DiskStays, StoreBody, PutBold, PutIfTemplate
<1>10. ASSUME NEW p \in Phases, BeginPhase(p) PROVE StateInv'
  BY <1>1, <1>10 DEF BeginPhase, DiskStays, Store
<1>11. ASSUME NEW p \in Phases, CompletePhase(p) PROVE StateInv'
  BY <1>1, <1>11 DEF CompletePhase, DiskStays, Store, PutPosition
<1>12. ASSUME NEW p \in Phases, AddDecision(p) PROVE StateInv'
  BY <1>1, <1>12 DEF AddDecision, DiskStays, Store
<1>13. ASSUME NEW p \in Phases, PhaseCompleted(p) PROVE StateInv'
  BY <1>1, <1>13 DEF PhaseCompleted, DiskStays, Store, Put, PutBold
<1>14. ASSUME StateSync PROVE StateInv'
  BY <1>14, SyncLeavesNothing, SyncWithoutWrite DEF StateSync, SyncWrites
<1>15. ASSUME UNCHANGED stateVars PROVE StateInv'
  <2>1. UNCHANGED <<style, plans, sums, body, synced>>
    BY <1>15 DEF stateVars
  <2>2. SyncChanges(body)' = SyncChanges(body)
    BY <2>1 DEF SyncChanges, SyncOf, WithPlans, HighestIncomplete, DiskPercent,
                DonePhases, Completed
  <2> QED BY <2>1, <2>2 DEF StateInv, SyncSettles
<1> QED BY <1>2, <1>3, <1>4, <1>5, <1>6, <1>7, <1>8, <1>9, <1>10, <1>11, <1>12, <1>13, <1>14,
           <1>15 DEF StateNext

\* A second `state sync` right after the first would change nothing, but for the progress
\* line of the plain style, which the command cannot reach.
THEOREM SyncIsIdempotent == StateSpec => []SyncSettles
<1>1. StateInv /\ [StateNext]_stateVars => StateInv'
  BY StateStep
<1>2. StateInv => SyncSettles
  BY DEF StateInv
<1> QED BY <1>1, <1>2, StateInitInv, PTL DEF StateSpec

\* What STATE.md can say: its body and its front matter.
Count == 0 .. MaxPlans
StateStatuses == [kind : StatusKinds, n : 0 .. LastPhase]
Bodies == [phase : 0 .. LastPhase, plan : Count, of : Count, status : StateStatuses, percent : 0 .. 100]
Fronts == [status : Norms, phases : 0 .. LastPhase, donePhases : 0 .. LastPhase,
           plans : 0 .. LastPhase * MaxPlans, donePlans : 0 .. LastPhase * MaxPlans, percent : 0 .. 100]

\* The files of all phases are no more than there can be.
LEMMA SumBounded == ASSUME NEW f \in [Phases -> Count] PROVE Sum(f) \in 0 .. LastPhase * MaxPlans
<1> DEFINE all == Phases \X (1 .. MaxPlans)
           some == {file \in all : file[2] <= f[file[1]]}
<1>1. LastPhase \in Nat \ {0} /\ MaxPlans \in Nat \ {0}
  BY StateAssumption
<1>2. IsFiniteSet(Phases) /\ Cardinality(Phases) = LastPhase
      /\ IsFiniteSet(1 .. MaxPlans) /\ Cardinality(1 .. MaxPlans) = MaxPlans
  BY <1>1, FS_Interval DEF Phases
<1>3. IsFiniteSet(all) /\ Cardinality(all) = LastPhase * MaxPlans
  BY <1>2, FS_Product
<1>4. some \subseteq all
  OBVIOUS
<1> HIDE DEF all, some
<1>5. IsFiniteSet(some) /\ Cardinality(some) <= LastPhase * MaxPlans
  BY <1>3, <1>4, FS_Subset
<1>6. Cardinality(some) \in Nat /\ LastPhase * MaxPlans \in Nat
  BY <1>1, <1>5, FS_CardinalityType
<1>7. Sum(f) = Cardinality(some)
  BY DEF Sum, some, all
<1> QED
  BY <1>5, <1>6, <1>7

\* A rounded fraction of a total that is not zero is a percentage.
LEMMA PercentBounded == ASSUME NEW a \in Nat, NEW b \in Nat \ {0} PROVE Percent(a, b) \in 0 .. 100
<1> DEFINE r == (200 * a + b) \div (2 * b)
<1>1. 200 * a + b \in Nat /\ 2 * b \in Nat /\ 2 * b > 0
  OBVIOUS
<1>2. \A n \in Nat, d \in Nat : d > 0 => n \div d \in Nat
  BY SMT
<1>3. r \in Nat
  BY <1>1, <1>2
<1> HIDE DEF r
<1>4. (IF r > 100 THEN 100 ELSE r) \in 0 .. 100
  BY <1>3
<1> QED
  BY <1>4 DEF Percent, r

LEMMA SomePhases == ASSUME NEW S, S \subseteq Phases PROVE Cardinality(S) \in 0 .. LastPhase
<1>1. LastPhase \in Nat
  BY StateAssumption
<1>2. IsFiniteSet(Phases) /\ Cardinality(Phases) = LastPhase
  BY <1>1, StateAssumption, FS_Interval DEF Phases
<1>3. IsFiniteSet(S) /\ Cardinality(S) <= LastPhase
  BY <1>2, FS_Subset
<1>4. Cardinality(S) \in Nat
  BY <1>3, FS_CardinalityType
<1> QED
  BY <1>1, <1>3, <1>4

\* The progress of the disk, and the frontmatter built from it.
LEMMA DerivedTyped ==
  ASSUME plans \in [Phases -> Count], sums \in [Phases -> Count]
  PROVE  DiskPercent \in 0 .. 100 /\ \A b \in Bodies : Derived(b) \in Fronts
<1>1. Sum(sums) \in 0 .. LastPhase * MaxPlans /\ Sum(plans) \in 0 .. LastPhase * MaxPlans
  BY SumBounded
<1>2. Cardinality(DonePhases) \in 0 .. LastPhase
  BY SomePhases DEF DonePhases
<1>3. LastPhase \in Nat \ {0} /\ LastPhase * MaxPlans \in Nat
  BY StateAssumption
<1>4. Sum(sums) \in Nat /\ Sum(plans) \in Nat /\ Cardinality(DonePhases) \in Nat
  BY <1>1, <1>2, <1>3
<1>5. Percent(Cardinality(DonePhases), LastPhase) \in 0 .. 100
  BY <1>3, <1>4, PercentBounded
<1>6. Sum(plans) # 0 => Percent(Sum(sums), Sum(plans)) \in 0 .. 100
  BY <1>4, PercentBounded
<1>7. DiskPercent \in 0 .. 100
  BY <1>5, <1>6 DEF DiskPercent, ComputedPercent, TotalPhases
<1>8. ASSUME NEW b \in Bodies PROVE Derived(b) \in Fronts
  <2>1. b.status.kind \in StatusKinds
    BY DEF Bodies, StateStatuses
  <2>2. Norm(b.status) \in Norms
    BY <2>1 DEF Norm, Norms, StatusKinds
  <2>3. LastPhase \in 0 .. LastPhase
    BY <1>3
  <2> QED
    BY <1>1, <1>2, <1>7, <2>2, <2>3 DEF Derived, Fronts, TotalPhases
<1> QED
  BY <1>7, <1>8

LEMMA CommandCounts == ASSUME StateTypeOK, Command PROVE steps' \in 0 .. MaxStateSteps
<1>1. steps \in 0 .. MaxStateSteps
  BY DEF StateTypeOK
<1>2. MaxStateSteps \in Nat
  BY StateAssumption
<1> QED
  BY <1>1, <1>2 DEF Command

\* A command that stores a body, with the counters built anew or left alone.
LEMMA StoredTyped ==
  ASSUME StateTypeOK, Command, DiskStays, synced' \in BOOLEAN, NEW b \in Bodies, Store(b) \/ StoreBody(b),
         table' \in [Phases -> {"Not started", "Planned", "In Progress", "Complete"}],
         notes' \subseteq Phases, pruned' \subseteq Phases, velocity' \in [Phases -> -1 .. MaxPlans]
  PROVE  StateTypeOK'
<1>1. body' \in Bodies
  BY DEF Store, StoreBody
<1>2. front' \in Fronts
  <2>1. CASE Store(b)
    BY <2>1, DerivedTyped DEF Store, StateTypeOK, Count
  <2>2. CASE StoreBody(b)
    <3>1. front \in Fronts /\ b.status.kind \in StatusKinds
      BY DEF StateTypeOK, Fronts, Bodies, StateStatuses
    <3>2. Norm(b.status) \in Norms
      BY <3>1 DEF Norm, Norms, StatusKinds
    <3> QED
      BY <2>2, <3>1, <3>2 DEF StoreBody, Fronts
  <2> QED BY <2>1, <2>2
<1>3. steps' \in 0 .. MaxStateSteps
  BY StateAssumption, CommandCounts
<1> QED
  BY <1>1, <1>2, <1>3 DEF StateTypeOK, DiskStays, Bodies, StateStatuses, Fronts, Count


\* A field that is replaced by one of its values.
LEMMA PutTyped ==
  ASSUME NEW b \in Bodies
  PROVE  /\ \A s \in StateStatuses : Put(b, "status", s) \in Bodies /\ PutIfTemplate(b, s) \in Bodies
         /\ \A v \in 0 .. 100 : Put(b, "percent", v) \in Bodies /\ PutBold(b, "percent", v) \in Bodies
         /\ \A n \in Count : PutBold(b, "of", n) \in Bodies
         /\ \A p \in 0 .. LastPhase : PutPosition(b, "phase", p) \in Bodies
<1>1. /\ \A s \in StateStatuses : [b EXCEPT !.status = s] \in Bodies
      /\ \A v \in 0 .. 100 : [b EXCEPT !.percent = v] \in Bodies
      /\ \A n \in Count : [b EXCEPT !.of = n] \in Bodies
      /\ \A p \in 0 .. LastPhase : [b EXCEPT !.phase = p] \in Bodies
  BY DEF Bodies
<1> QED
  BY <1>1 DEF Put, PutBold, PutIfTemplate, PutPosition

\* The statuses the commands write.
LEMMA StatusTyped ==
  \A k \in StatusKinds : Says(k) \in StateStatuses /\ \A p \in Phases : About(k, p) \in StateStatuses
  BY StateAssumption DEF Says, About, StateStatuses, Phases

LEMMA StateParts ==
  ASSUME StateTypeOK
  PROVE  body \in Bodies /\ plans \in [Phases -> Count] /\ sums \in [Phases -> Count]
  BY DEF StateTypeOK, Bodies, StateStatuses, Count

\* The progress the commands compute.
LEMMA PercentsTyped ==
  ASSUME StateTypeOK
  PROVE  /\ DiskPercent \in 0 .. 100
         /\ (IF Sum(plans) = 0 THEN 0 ELSE Percent(Sum(sums), Sum(plans))) \in 0 .. 100
         /\ \A S : S \subseteq Phases => Percent(Cardinality(S), LastPhase) \in 0 .. 100
<1>1. Sum(sums) \in 0 .. LastPhase * MaxPlans /\ Sum(plans) \in 0 .. LastPhase * MaxPlans
  BY StateParts, SumBounded
<1>2. LastPhase \in Nat \ {0} /\ LastPhase * MaxPlans \in Nat
  BY StateAssumption
<1>3. Sum(sums) \in Nat /\ Sum(plans) \in Nat
  BY <1>1, <1>2
<1>4. Sum(plans) # 0 => Percent(Sum(sums), Sum(plans)) \in 0 .. 100
  BY <1>3, PercentBounded
<1>5. ASSUME NEW S, S \subseteq Phases PROVE Percent(Cardinality(S), LastPhase) \in 0 .. 100
  <2>1. Cardinality(S) \in Nat
    BY <1>2, <1>5, SomePhases
  <2> QED BY <1>2, <2>1, PercentBounded
<1> QED
  BY <1>4, <1>5, StateParts, DerivedTyped

\* The phase whose plans the sync counts is one of the milestone.
LEMMA IncompleteIn == ASSUME WithPlans # {} PROVE HighestIncomplete \in Phases
<1>1. Phases \subseteq Nat /\ LastPhase \in Nat /\ \A p \in Phases : p <= LastPhase
  BY StateAssumption DEF Phases
<1>2. WithPlans \subseteq Phases
  BY DEF WithPlans
<1>3. \E p \in WithPlans : \A q \in WithPlans : p <= q
  BY <1>1, <1>2, SmallestExists
<1> DEFINE open == {p \in WithPlans : sums[p] < plans[p]}
<1>4. open \subseteq Phases
  BY <1>2
<1> HIDE DEF open
<1>5. open # {} => \E p \in open : \A q \in open : q <= p
  <2> SUFFICES ASSUME open # {} PROVE \E p \in open : \A q \in open : q <= p
    OBVIOUS
  <2>1. open \subseteq Nat /\ \A p \in open : p <= LastPhase
    BY <1>1, <1>4
  <2>2. Greatest(open) \in open /\ \A m \in open : m <= Greatest(open)
    BY <1>1, <2>1, GreatestBounds
  <2> QED BY <2>2
<1>6. HighestIncomplete \in open \/ HighestIncomplete \in WithPlans
  BY <1>3, <1>5 DEF HighestIncomplete, open
<1> QED
  BY <1>2, <1>4, <1>6

\* What the planner and the executor write, and the row of the roadmap.
LEMMA FilesTyped ==
  ASSUME StateTypeOK, NEW p \in Phases, WritePlan(p) \/ WriteSummary(p) \/ UpdatePlanProgress(p)
  PROVE  StateTypeOK'
<1>1. steps' \in 0 .. MaxStateSteps /\ MaxPlans \in Nat
  BY CommandCounts, StateAssumption DEF WritePlan, WriteSummary, UpdatePlanProgress
<1>2. CASE WritePlan(p)
  <2>1. plans[p] \in Count /\ plans[p] < MaxPlans /\ plans' = [plans EXCEPT ![p] = plans[p] + 1]
    BY <1>2, StateParts DEF WritePlan
  <2>2. plans[p] + 1 \in Count
    BY <1>1, <2>1 DEF Count
  <2>3. plans' \in [Phases -> Count]
    BY <2>1, <2>2, StateParts
  <2> QED BY <1>1, <1>2, <2>3 DEF WritePlan, StateTypeOK, Count
<1>3. CASE WriteSummary(p)
  <2>1. sums[p] \in Count /\ plans[p] \in Count /\ sums[p] < plans[p]
        /\ sums' = [sums EXCEPT ![p] = sums[p] + 1]
    BY <1>3, StateParts DEF WriteSummary
  <2>2. sums[p] + 1 \in Count
    BY <1>1, <2>1 DEF Count
  <2>3. sums' \in [Phases -> Count]
    BY <2>1, <2>2, StateParts
  <2> QED BY <1>1, <1>3, <2>3 DEF WriteSummary, StateTypeOK, Count
<1>4. CASE UpdatePlanProgress(p)
  <2>1. table' \in [Phases -> {"Not started", "Planned", "In Progress", "Complete"}]
    BY <1>4 DEF UpdatePlanProgress, StateTypeOK
  <2> QED BY <1>1, <1>4, <2>1 DEF UpdatePlanProgress, StateTypeOK
<1> QED
  BY <1>2, <1>3, <1>4

\* The status, the position and the progress that the commands store.
LEMMA PositionsTyped ==
  ASSUME StateTypeOK,
         AdvancePlan \/ UpdateProgress \/ UpdateStatus \/ PatchStatus \/ StateSync \/ StatePrune(1)
         \/ (\E p \in Phases : PlannedPhase(p) \/ BeginPhase(p) \/ CompletePhase(p) \/ AddDecision(p))
  PROVE  StateTypeOK'
<1> DEFINE Row == {"Not started", "Planned", "In Progress", "Complete"}
<1>0. /\ body \in Bodies /\ plans \in [Phases -> Count] /\ MaxPlans \in Nat \ {0}
      /\ table \in [Phases -> Row] /\ notes \subseteq Phases /\ pruned \subseteq Phases
      /\ velocity \in [Phases -> -1 .. MaxPlans] /\ Phases \subseteq 0 .. LastPhase
      /\ 0 \in Count /\ 1 \in Count /\ -1 \in -1 .. MaxPlans
  <2>1. table \in [Phases -> Row] /\ notes \subseteq Phases /\ pruned \subseteq Phases
        /\ velocity \in [Phases -> -1 .. MaxPlans]
    BY DEF StateTypeOK
  <2>2. MaxPlans \in Nat \ {0} /\ LastPhase \in Nat
    BY StateAssumption
  <2>3. Phases \subseteq 0 .. LastPhase /\ 0 \in Count /\ 1 \in Count /\ -1 \in -1 .. MaxPlans
    BY <2>2 DEF Phases, Count
  <2> QED BY <2>1, <2>2, <2>3, StateParts
<1>1. CASE AdvancePlan
  <2>1. body.plan \in Count /\ body.of \in Count
    BY <1>0 DEF Bodies
  <2>2. ASSUME body.plan < body.of PROVE [body EXCEPT !.plan = @ + 1] \in Bodies
    <3>0. MaxPlans \in Nat
      BY <1>0
    <3>1. \A m, n \in Count : m < n => m + 1 \in Count
      BY <3>0 DEF Count
    <3>2. body.plan + 1 \in Count
      BY <2>1, <2>2, <3>1
    <3> QED BY <1>0, <3>2 DEF Bodies
  <2>3. PICK b : Store(b) /\ b = IF body.plan >= body.of THEN PutIfTemplate(body, Says("phase complete"))
           ELSE PutIfTemplate([body EXCEPT !.plan = @ + 1], Says("ready to execute"))
    BY <1>1 DEF AdvancePlan
  <2>4. body.plan >= body.of \/ body.plan < body.of
    BY <2>1 DEF Count
  <2>5. b \in Bodies
    BY <1>0, <2>2, <2>3, <2>4, PutTyped, StatusTyped DEF StatusKinds
  <2> QED BY <1>0, <1>1, <2>3, <2>5, StoredTyped DEF AdvancePlan
<1>2. CASE UpdateProgress
  <2>1. Put(body, "percent", IF Sum(plans) = 0 THEN 0 ELSE Percent(Sum(sums), Sum(plans))) \in Bodies
    BY <1>0, PercentsTyped, PutTyped
  <2> QED BY <1>0, <1>2, <2>1, StoredTyped DEF UpdateProgress
<1>3. CASE UpdateStatus
  <2>1. [body EXCEPT !.status = Says("verified")] \in Bodies
    BY <1>0, StatusTyped DEF Bodies, StatusKinds
  <2> QED BY <1>0, <1>3, <2>1, StoredTyped DEF UpdateStatus
<1>4. CASE PatchStatus
  <2>1. Put(body, "status", Says("verified")) \in Bodies
    BY <1>0, StatusTyped, PutTyped DEF StatusKinds
  <2> QED BY <1>0, <1>4, <2>1, StoredTyped DEF PatchStatus
<1>5. CASE StateSync
  <2>1. body.of \in Count
    BY <1>0 DEF Bodies
  <2>2. SyncOf(body) \in Count
    BY <1>0, <2>1, IncompleteIn DEF SyncOf
  <2>3. [body EXCEPT !.of = SyncOf(body)] \in Bodies
    BY <1>0, <2>2 DEF Bodies
  <2>4. SyncTarget(body) \in Bodies
    BY <2>3, PercentsTyped, PutTyped DEF SyncTarget
  <2>5. CASE Store(SyncTarget(body))
    BY <1>0, <1>5, <2>4, <2>5, StoredTyped DEF StateSync
  <2>6. CASE SyncChanges(body) = {} /\ UNCHANGED <<body, front>>
    <3>1. steps' \in 0 .. MaxStateSteps
      BY <1>5, CommandCounts DEF StateSync
    <3> QED BY <1>5, <2>6, <3>1 DEF StateSync, DiskStays, StateTypeOK
  <2> QED BY <1>5, <2>5, <2>6 DEF StateSync, SyncWrites
<1>6. CASE StatePrune(1)
  <2>1. notes' \subseteq Phases /\ pruned' \subseteq Phases
    BY <1>0, <1>6 DEF StatePrune, StatePruned
  <2>2. velocity' \in [Phases -> -1 .. MaxPlans]
    <3>1. velocity' = [p \in Phases |-> IF p \in Old(1) THEN -1 ELSE velocity[p]]
      BY <1>6 DEF StatePrune
    <3> QED BY <1>0, <3>1
  <2> QED BY <1>0, <1>6, <2>1, <2>2, StoredTyped DEF StatePrune
<1>7. ASSUME NEW p \in Phases, PlannedPhase(p) PROVE StateTypeOK'
  <2>1. PutBold(PutIfTemplate(body, Says("ready to execute")), "of", plans[p]) \in Bodies
    BY <1>0, StatusTyped, PutTyped DEF StatusKinds
  <2> QED BY <1>0, <1>7, <2>1, StoredTyped DEF PlannedPhase
<1>8. ASSUME NEW p \in Phases, BeginPhase(p) PROVE StateTypeOK'
  <2>1. PICK of : /\ of = IF plans[p] > 0 \/ style = "plain" THEN plans[p] ELSE body.of
                  /\ Store(IF Executing(p) THEN body
                           ELSE [body EXCEPT !.phase = p, !.plan = 1, !.of = of,
                                             !.status = About("executing", p)])
    BY <1>8 DEF BeginPhase
  <2>2. of \in Count /\ p \in 0 .. LastPhase /\ About("executing", p) \in StateStatuses
    <3>1. body.of \in Count /\ plans[p] \in Count
      BY <1>0 DEF Bodies
    <3> QED BY <1>0, <2>1, <3>1, StatusTyped DEF StatusKinds
  <2>3. [body EXCEPT !.phase = p, !.plan = 1, !.of = of, !.status = About("executing", p)] \in Bodies
    BY <1>0, <2>2 DEF Bodies
  <2> QED BY <1>0, <1>8, <2>1, <2>3, StoredTyped DEF BeginPhase
<1>9. ASSUME NEW p \in Phases, CompletePhase(p) PROVE StateTypeOK'
  <2>1. [body EXCEPT !.status = About("complete", p)] \in Bodies
    BY <1>0, StatusTyped DEF Bodies, StatusKinds
  <2>2. PutPosition([body EXCEPT !.status = About("complete", p)], "phase", p) \in Bodies
    BY <1>0, <2>1, PutTyped
  <2> QED BY <1>0, <1>9, <2>2, StoredTyped DEF CompletePhase
<1>10. ASSUME NEW p \in Phases, AddDecision(p) PROVE StateTypeOK'
  BY <1>0, <1>10, StoredTyped DEF AddDecision
<1> QED
  BY <1>1, <1>2, <1>3, <1>4, <1>5, <1>6, <1>7, <1>8, <1>9, <1>10

\* A phase that is completed moves the position on, and a new milestone sets it to zero.
LEMMA PhasesTyped ==
  ASSUME StateTypeOK, MilestoneSwitch \/ \E p \in Phases : PhaseCompleted(p)
  PROVE  StateTypeOK'
<1>0. /\ body \in Bodies /\ plans \in [Phases -> Count] /\ sums \in [Phases -> Count]
      /\ MaxPlans \in Nat \ {0} /\ LastPhase \in Nat \ {0} /\ LastPhase * MaxPlans \in Nat
      /\ 0 \in Count /\ 0 \in 0 .. LastPhase /\ 0 \in 0 .. LastPhase * MaxPlans
      /\ Count \subseteq -1 .. MaxPlans
  <2>1. MaxPlans \in Nat \ {0} /\ LastPhase \in Nat \ {0} /\ LastPhase * MaxPlans \in Nat
    BY StateAssumption
  <2>2. 0 \in Count /\ 0 \in 0 .. LastPhase /\ 0 \in 0 .. LastPhase * MaxPlans /\ Count \subseteq -1 .. MaxPlans
    BY <2>1 DEF Count
  <2> QED BY <2>1, <2>2, StateParts
<1>1. CASE MilestoneSwitch
  <2>1. Says("defining") \in StateStatuses
    BY StatusTyped DEF StatusKinds
  <2>2. [body EXCEPT !.phase = 0, !.plan = 0, !.of = 0, !.status = Says("defining")] \in Bodies
    BY <1>0, <2>1 DEF Bodies
  <2>3. body' \in Bodies
    BY <1>0, <1>1, <2>2 DEF MilestoneSwitch
  <2>4. front' \in Fronts
    BY <1>0, <1>1 DEF MilestoneSwitch, Fronts, Norms
  <2> QED
    BY <1>1, <2>3, <2>4, CommandCounts
       DEF MilestoneSwitch, DiskStays, StateTypeOK, Bodies, StateStatuses, Fronts, Count
<1>2. ASSUME NEW p \in Phases, PhaseCompleted(p) PROVE StateTypeOK'
  <2> DEFINE last == p = LastPhase
             moved == [body EXCEPT !.phase = IF last THEN p ELSE p + 1, !.plan = 0,
                                   !.of = IF style = "plain" THEN 0 ELSE @]
             told == Put(moved, "status", Says(IF last THEN "milestone complete" ELSE "ready to plan"))
             final == PutBold(told, "percent", Percent(Cardinality(CompleteRows), LastPhase))
  <2>1. (IF last THEN p ELSE p + 1) \in 0 .. LastPhase
    BY <1>0 DEF Phases
  <2>2. moved \in Bodies
    BY <1>0, <2>1 DEF Bodies
  <2> HIDE DEF moved
  <2>3. told \in Bodies
    BY <2>2, PutTyped, StatusTyped DEF StatusKinds
  <2> HIDE DEF told
  <2>4. final \in Bodies
    BY <2>3, PutTyped, PercentsTyped DEF CompleteRows
  <2> HIDE DEF final
  <2>5. Store(final)
    BY <1>2 DEF PhaseCompleted, final, told, moved
  <2>6. table' \in [Phases -> {"Not started", "Planned", "In Progress", "Complete"}]
        /\ velocity' \in [Phases -> -1 .. MaxPlans]
    <3>1. table \in [Phases -> {"Not started", "Planned", "In Progress", "Complete"}]
          /\ velocity \in [Phases -> -1 .. MaxPlans]
      BY DEF StateTypeOK
    <3>2. table' = [table EXCEPT ![p] = "Complete"] /\ velocity' = [velocity EXCEPT ![p] = sums[p]]
      BY <1>2 DEF PhaseCompleted, Measured
    <3>3. sums[p] \in -1 .. MaxPlans
      BY <1>0
    <3> QED BY <3>1, <3>2, <3>3
  <2>7. notes' \subseteq Phases /\ pruned' \subseteq Phases /\ synced' \in BOOLEAN
    BY <1>2 DEF PhaseCompleted, StateTypeOK
  <2> QED BY <1>2, <2>4, <2>5, <2>6, <2>7, StoredTyped DEF PhaseCompleted
<1> QED
  BY <1>1, <1>2

\* STATE.md keeps its types: the position is of the milestone, the counters are within
\* its plans and the progress is a percentage, whatever was written before.
THEOREM StateTyped == StateSpec => []StateTypeOK
<1>1. StateInit => StateTypeOK
  <2> SUFFICES ASSUME StateInit PROVE StateTypeOK
    OBVIOUS
  <2>1. LastPhase \in Nat \ {0} /\ MaxPlans \in Nat \ {0} /\ MaxStateSteps \in Nat
        /\ LastPhase * MaxPlans \in Nat
    BY StateAssumption
  <2>2. 0 \in Count /\ 0 \in 0 .. LastPhase /\ 1 \in 0 .. LastPhase /\ -1 \in -1 .. MaxPlans
        /\ 0 \in 0 .. LastPhase * MaxPlans /\ 0 \in 0 .. MaxStateSteps /\ 0 \in 0 .. 100
    BY <2>1 DEF Count
  <2>3. Says("ready to plan") \in StateStatuses
    BY StatusTyped DEF StatusKinds
  <2>4. body \in Bodies
    BY <2>2, <2>3 DEF StateInit, Bodies
  <2>5. front \in Fronts
    BY <2>2 DEF StateInit, Fronts, Norms
  <2>6. plans \in [Phases -> Count] /\ sums \in [Phases -> Count] /\ velocity \in [Phases -> -1 .. MaxPlans]
        /\ table \in [Phases -> {"Not started", "Planned", "In Progress", "Complete"}]
    BY <2>2 DEF StateInit
  <2>7. style \in {"bold", "plain"} /\ notes \subseteq Phases /\ pruned \subseteq Phases
        /\ steps \in 0 .. MaxStateSteps
    BY <2>2 DEF StateInit
  <2>8. FALSE \in BOOLEAN
    OBVIOUS
  <2>9. synced \in BOOLEAN
    BY <2>8, Zenon DEF StateInit
  <2> QED
    BY <2>4, <2>5, <2>6, <2>7, <2>9, Zenon DEF StateTypeOK, Bodies, StateStatuses, Fronts, Count
<1>2. StateTypeOK /\ [StateNext]_stateVars => StateTypeOK'
  <2> SUFFICES ASSUME StateTypeOK, [StateNext]_stateVars PROVE StateTypeOK'
    OBVIOUS
  <2>1. CASE UNCHANGED stateVars
    BY <2>1 DEF stateVars, StateTypeOK
  <2> QED
    BY <2>1, FilesTyped, PositionsTyped, PhasesTyped DEF StateNext
<1> QED
  BY <1>1, <1>2, PTL DEF StateSpec

----------------------------------------------------------------------------
(* PhaseManager.  The manager leads a milestone to its end, and keeps      *)
(* apart what is related, for every set of phases and every dependency     *)
(* between them.                                                           *)

PlanNumbers == 1 .. MaxPhasePlans
Folders == [is : {"there"}, context : BOOLEAN, research : BOOLEAN, plans : SUBSET PlanNumbers,
            summaries : SUBSET PlanNumbers, verified : BOOLEAN]
Planners == [is : {"planner"}, phase : ManagedPhases]
Executors == [is : {"executor"}, phase : ManagedPhases, todo : SUBSET PlanNumbers]
Statuses == {"complete", "no_directory", "partial", "planned", "researched", "discussed", "empty"}

ManagerTyped ==
  /\ dependsOn \in NeedsSet /\ ticked \subseteq ManagedPhases /\ fresh \subseteq ManagedPhases
  /\ folder \in [ManagedPhases -> Folders \cup {NoFolder}]
  /\ discussing \subseteq ManagedPhases
  /\ chosen \subseteq [phase : ManagedPhases, action : {"execute", "plan", "discuss"}]
  /\ agents \in [Slots -> Planners \cup Executors \cup {Idle}]

\* A summary is that of a plan; who plans has a directory, and who executes has a plan.
ManagerSound ==
  /\ \A p \in ManagedPhases : SummaryFiles(p) \subseteq PlanFiles(p)
  /\ \A a \in chosen : /\ a.action = "plan" => Has(a.phase)
                       /\ a.action = "execute" => PlanFiles(a.phase) # {}
  /\ \A s \in Slots : /\ agents[s].is = "planner" => Has(agents[s].phase)
                      /\ agents[s].is = "executor" => /\ PlanFiles(agents[s].phase) # {}
                                                      /\ agents[s].todo \subseteq PlanFiles(agents[s].phase)
ManagerInv == ManagerTyped /\ ManagerSound

\* The counts of a phase: it has none of what is not there.
LEMMA ManagerCounts ==
  ASSUME ManagerInv, NEW p \in ManagedPhases
  PROVE  /\ PlanCount(p) \in Nat /\ SummaryCount(p) \in Nat /\ SummaryCount(p) <= PlanCount(p)
         /\ PlanCount(p) = 0 <=> PlanFiles(p) = {}
         /\ SummaryCount(p) = 0 <=> SummaryFiles(p) = {}
         /\ Has(p) => folder[p] \in Folders
<1>1. Has(p) => folder[p] \in Folders
  BY DEF ManagerInv, ManagerTyped, Has
<1>2. PlanFiles(p) \subseteq PlanNumbers /\ SummaryFiles(p) \subseteq PlanFiles(p)
  BY <1>1 DEF PlanFiles, Folders, ManagerInv, ManagerSound
<1>3. MaxPhasePlans \in Nat
  BY ManagerAssumption DEF ManagerAssumption
<1>4. IsFiniteSet(PlanFiles(p)) /\ IsFiniteSet(SummaryFiles(p))
  <2>1. IsFiniteSet(1 .. MaxPhasePlans)
    BY <1>3, FS_Interval
  <2> QED BY <1>2, <2>1, FS_Subset DEF PlanNumbers
<1>5. SummaryCount(p) <= PlanCount(p)
  BY <1>2, <1>4, FS_Subset DEF SummaryCount, PlanCount
<1> QED BY <1>1, <1>4, <1>5, FS_CardinalityType, FS_EmptySet DEF SummaryCount, PlanCount

\* The status of a phase tells what is there.
LEMMA StatusFacts ==
  ASSUME ManagerInv, NEW p \in ManagedPhases
  PROVE  /\ ManagerStatus(p) \in Statuses
         /\ p \in ticked => ManagerStatus(p) = "complete"
         /\ ManagerStatus(p) \in {"discussed", "researched"} => Has(p)
         /\ ManagerStatus(p) = "planned" => PlanFiles(p) # {}
         /\ PlanFiles(p) # {} => ManagerStatus(p) \in {"complete", "partial", "planned"}
         /\ SummaryFiles(p) # {} => ManagerStatus(p) \in {"complete", "partial"}
<1>1. /\ PlanCount(p) \in Nat /\ SummaryCount(p) \in Nat /\ SummaryCount(p) <= PlanCount(p)
      /\ PlanCount(p) = 0 <=> PlanFiles(p) = {}
      /\ SummaryCount(p) = 0 <=> SummaryFiles(p) = {}
      /\ Has(p) => folder[p] \in Folders
  BY ManagerCounts
<1>2. CASE p \in ticked \/ ~ Has(p)
  <2>1. p \in ticked => ManagerStatus(p) = "complete"
    BY DEF ManagerStatus
  <2>2. p \notin ticked => ManagerStatus(p) = "no_directory" /\ PlanFiles(p) = {} /\ SummaryFiles(p) = {}
    BY <1>2 DEF ManagerStatus, PlanFiles, SummaryFiles
  <2> QED BY <2>1, <2>2 DEF Statuses
<1>3. CASE p \notin ticked /\ Has(p)
  <2>1. ManagerStatus(p) =
         (CASE PlanCount(p) > 0 /\ SummaryCount(p) >= PlanCount(p) -> "complete"
            [] SummaryCount(p) > 0 /\ SummaryCount(p) < PlanCount(p) -> "partial"
            [] PlanCount(p) > 0 /\ SummaryCount(p) = 0 -> "planned"
            [] PlanCount(p) = 0 /\ folder[p].research -> "researched"
            [] PlanCount(p) = 0 /\ ~folder[p].research /\ folder[p].context -> "discussed"
            [] OTHER -> "empty")
    BY <1>3 DEF ManagerStatus
  <2>2. CASE PlanCount(p) > 0
    <3>1. ManagerStatus(p) = IF SummaryCount(p) >= PlanCount(p) THEN "complete"
                             ELSE IF SummaryCount(p) > 0 THEN "partial" ELSE "planned"
      BY <1>1, <2>1, <2>2
    <3> QED BY <1>1, <1>3, <2>2, <3>1 DEF Statuses
  <2>3. CASE PlanCount(p) = 0
    <3>1. ManagerStatus(p) = IF folder[p].research THEN "researched"
                             ELSE IF folder[p].context THEN "discussed" ELSE "empty"
      BY <1>1, <2>1, <2>3
    <3> QED BY <1>1, <1>3, <2>3, <3>1 DEF Statuses
  <2> QED BY <1>1, <2>2, <2>3
<1> QED BY <1>2, <1>3

Unmet(p) == dependsOn[p] \ (ticked \cup Elsewhere)
ReachedFrom(p) == {q \in ManagedPhases : Reaches(p, q)}
ClosedFrom(S, p) == \A r \in {p} \cup S : dependsOn[r] \cap ManagedPhases \subseteq S

\* What is found from a phase is the least set that is closed under the dependencies.
LEMMA ReachedIsLeast ==
  ASSUME ManagerInv, NEW p \in ManagedPhases
  PROVE  /\ \A q : Reaches(p, q) <=>
              q \in ManagedPhases /\ \A S \in SUBSET ManagedPhases : ClosedFrom(S, p) => q \in S
         /\ ClosedFrom(ReachedFrom(p), p)
<1>1. dependsOn \in NeedsSet
  BY DEF ManagerInv, ManagerTyped
<1>2. Closure[dependsOn][p] = {q \in ManagedPhases : \A S \in SUBSET ManagedPhases :
                                 ClosedFrom(S, p) => q \in S}
  BY <1>1 DEF Closure, ClosedFrom
<1>3. \A q : Reaches(p, q) <=>
        q \in ManagedPhases /\ \A S \in SUBSET ManagedPhases : ClosedFrom(S, p) => q \in S
  BY <1>2 DEF Reaches
<1>4. ASSUME NEW r \in {p} \cup ReachedFrom(p), NEW q \in dependsOn[r] \cap ManagedPhases,
             NEW S \in SUBSET ManagedPhases, ClosedFrom(S, p)
      PROVE  q \in S
  <2>1. r \in {p} \cup S
    BY <1>3, <1>4 DEF ReachedFrom
  <2> QED BY <1>4, <2>1 DEF ClosedFrom
<1>5. ClosedFrom(ReachedFrom(p), p)
  BY <1>3, <1>4 DEF ClosedFrom, ReachedFrom
<1> QED BY <1>3, <1>5

\* A dependency is found, and what is found from what is found.
LEMMA ReachesOn ==
  ASSUME ManagerInv, NEW p \in ManagedPhases
  PROVE  /\ \A q \in dependsOn[p] \cap ManagedPhases : Reaches(p, q)
         /\ \A q, r \in ManagedPhases : Reaches(p, q) /\ Reaches(q, r) => Reaches(p, r)
<1>1. \A q \in dependsOn[p] \cap ManagedPhases : Reaches(p, q)
  BY ReachedIsLeast DEF ClosedFrom, ReachedFrom
<1>2. ASSUME NEW q \in ManagedPhases, NEW r \in ManagedPhases, Reaches(p, q), Reaches(q, r)
      PROVE  Reaches(p, r)
  <2>1. ClosedFrom(ReachedFrom(p), p) /\ q \in ReachedFrom(p)
    BY <1>2, ReachedIsLeast DEF ReachedFrom
  <2>2. ClosedFrom(ReachedFrom(p), q) /\ ReachedFrom(p) \in SUBSET ManagedPhases
    BY <2>1 DEF ClosedFrom, ReachedFrom
  <2>3. r \in ReachedFrom(p)
    BY <1>2, <2>2, ReachedIsLeast
  <2> QED BY <2>3 DEF ReachedFrom
<1> QED BY <1>1, <1>2

\* What is found is a dependency, or is found from one.
LEMMA ReachesThrough ==
  ASSUME ManagerInv, NEW p \in ManagedPhases, NEW q \in ManagedPhases, Reaches(p, q)
  PROVE  \/ q \in dependsOn[p]
         \/ \E r \in dependsOn[p] \cap ManagedPhases : Reaches(r, q)
<1> DEFINE S == {s \in ManagedPhases : \/ s \in dependsOn[p]
                                       \/ \E r \in dependsOn[p] \cap ManagedPhases : Reaches(r, s)}
<1>1. ASSUME NEW s \in {p} \cup S, NEW t \in dependsOn[s] \cap ManagedPhases
      PROVE  t \in S
  <2>1. CASE s = p
    BY <2>1
  <2>2. CASE s \in S /\ s \in dependsOn[p]
    BY <2>2, ReachesOn
  <2>3. ASSUME s \in S, NEW r \in dependsOn[p] \cap ManagedPhases, Reaches(r, s)
        PROVE  t \in S
    <3>1. Reaches(s, t)
      BY <2>3, ReachesOn
    <3>2. Reaches(r, t)
      BY <2>3, <3>1, ReachesOn
    <3> QED BY <3>2
  <2> QED BY <2>1, <2>2, <2>3
<1>2. ClosedFrom(S, p) /\ S \in SUBSET ManagedPhases
  BY <1>1 DEF ClosedFrom
<1>3. q \in S
  BY <1>2, ReachedIsLeast
<1> QED BY <1>3

\* Among phases of which every one waits for another one of them, there is one that waits,
\* perhaps through others, for itself.
LEMMA WaitingLoop ==
  ASSUME ManagerInv, NEW W \in SUBSET ManagedPhases, W # {},
         \A q \in W : \E n \in W : n \in dependsOn[q]
  PROVE  \E q \in W : Reaches(q, q)
<1> SUFFICES ASSUME \A q \in W : ~ Reaches(q, q) PROVE FALSE
  OBVIOUS
<1> DEFINE Sizes == {Cardinality(ReachedFrom(q)) : q \in W}
<1>1. \A q \in W : IsFiniteSet(ReachedFrom(q)) /\ Cardinality(ReachedFrom(q)) \in Nat
  <2>1. \A q \in W : IsFiniteSet(ReachedFrom(q))
    BY ManagerAssumption, FS_Subset DEF ManagerAssumption, ReachedFrom
  <2> QED BY <2>1, FS_CardinalityType
<1>2. PICK m \in Sizes : \A n \in Sizes : m <= n
  <2>1. Sizes \subseteq Nat /\ Sizes # {}
    BY <1>1
  <2> QED BY <2>1, SmallestExists
<1>3. PICK q \in W : Cardinality(ReachedFrom(q)) = m
  BY <1>2
<1>4. PICK n \in W : n \in dependsOn[q]
  OBVIOUS
<1>5. n \in ReachedFrom(q) /\ n \notin ReachedFrom(n)
  BY <1>4, ReachesOn DEF ReachedFrom
<1>6. ReachedFrom(n) \subseteq ReachedFrom(q)
  BY <1>4, <1>5, ReachesOn DEF ReachedFrom
<1>7. Cardinality(ReachedFrom(n)) < Cardinality(ReachedFrom(q))
  BY <1>1, <1>5, <1>6, FS_Subset
<1>8. Cardinality(ReachedFrom(n)) \in Sizes
  OBVIOUS
<1>9. m <= Cardinality(ReachedFrom(n))
  BY <1>2, <1>8
<1>10. Cardinality(ReachedFrom(n)) \in Nat /\ Cardinality(ReachedFrom(q)) \in Nat
  BY <1>1
<1> HIDE DEF Sizes
<1> QED BY <1>3, <1>7, <1>9, <1>10

\* Nothing is recommended, nothing is at work and nothing has broken off: then every phase
\* that is not complete waits for a number that is not met.
LEMMA NothingToDo ==
  ASSUME ManagerInv, FilteredActions = {}, fresh = {},
         \A p \in ManagedPhases : ManagerStatus(p) # "partial",
         NEW q \in NonBacklog, ManagerStatus(q) # "complete"
  PROVE  \E n \in Unmet(q) : n \in NonBacklog => ManagerStatus(n) # "complete"
<1>1. ActiveExecuting = {} /\ ActivePlanning = {}
  BY DEF ActiveExecuting, ActivePlanning
<1>2. RecommendedActions = {}
  BY <1>1 DEF FilteredActions
<1>3. q \in ManagedPhases \ BacklogPhases
  BY DEF NonBacklog
<1>4. ManagerStatus(q) \in Statuses \ {"complete", "partial"}
  BY <1>3, StatusFacts
<1>5. ManagerStatus(q) \in DOMAIN ActionFor
  BY <1>4 DEF Statuses, ActionFor
<1>6. ~ (dependsOn[q] \subseteq CompletedNums)
  <2>1. SUFFICES ASSUME dependsOn[q] \subseteq CompletedNums PROVE FALSE
    OBVIOUS
  <2>2. Advice(q, ActionFor[ManagerStatus(q)]) \in RecommendedActions
    BY <1>3, <1>5, <2>1 DEF RecommendedActions, DepsSatisfied
  <2> QED BY <1>2, <2>2
<1>7. PICK n \in dependsOn[q] : n \notin CompletedNums
  BY <1>6
<1> QED BY <1>7 DEF CompletedNums, Unmet, NonBacklog

\* The dashboard does not run out of things to do.
LEMMA ItGoesOn == ASSUME ManagerInv PROVE GoesOn(FilteredActions)
<1> SUFFICES ASSUME FilteredActions = {}, fresh = {},
                    \A p \in ManagedPhases : ManagerStatus(p) # "partial",
                    NEW p \in NonBacklog, ManagerStatus(p) # "complete", ~ Blocked(p)
             PROVE  FALSE
  BY DEF GoesOn
<1> DEFINE U == {p} \cup ReachedFrom(p)
           W == {q \in U \cap NonBacklog : ManagerStatus(q) # "complete"}
<1>1. p \in ManagedPhases /\ U \subseteq ManagedPhases /\ W \in SUBSET ManagedPhases /\ p \in W
  BY DEF NonBacklog, ReachedFrom
<1>2. \A q \in U : ~ Reaches(q, q) /\ \A n \in Unmet(q) : n \in NonBacklog
  BY DEF Blocked, ReachedFrom, Unmet
<1>3. ASSUME NEW q \in W PROVE \E n \in W : n \in dependsOn[q]
  <2>1. PICK n \in Unmet(q) : n \in NonBacklog => ManagerStatus(n) # "complete"
    BY <1>3, NothingToDo
  <2>2. n \in NonBacklog /\ n \in dependsOn[q] \cap ManagedPhases
    BY <1>2, <1>3, <2>1 DEF Unmet, NonBacklog
  <2>3. n \in U
    <3>1. Reaches(q, n)
      BY <1>1, <1>3, <2>2, ReachesOn
    <3> QED BY <1>1, <1>3, <2>2, <3>1, ReachesOn DEF ReachedFrom
  <2> QED BY <2>1, <2>2, <2>3
<1>4. \E q \in W : Reaches(q, q)
  BY <1>1, <1>3, WaitingLoop
<1> QED BY <1>2, <1>4

\* What is executed next is apart from what is executed, and from what is executed beside it.
LEMMA ItKeepsApart == ASSUME ManagerInv PROVE KeepsApart(FilteredActions)
<1> DEFINE execute == {a.phase : a \in {b \in FilteredActions : b.action = "execute"}}
<1>1. ASSUME NEW p \in execute
      PROVE  /\ p \in ManagedPhases /\ ManagerStatus(p) = "planned" /\ dependsOn[p] \subseteq CompletedNums
             /\ \A x \in ActiveExecuting : ~ HasDepRelationship(p, x)
  <2>1. PICK a \in FilteredActions : a.action = "execute" /\ p = a.phase
    BY <1>1
  <2>2. a \in RecommendedActions /\ \A x \in ActiveExecuting : ~ HasDepRelationship(p, x)
    BY <2>1 DEF FilteredActions
  <2>3. PICK q \in ManagedPhases \ BacklogPhases :
          /\ ManagerStatus(q) \in DOMAIN ActionFor
          /\ ActionFor[ManagerStatus(q)] # "plan" => dependsOn[q] \subseteq CompletedNums
          /\ a = Advice(q, ActionFor[ManagerStatus(q)])
    BY <2>2 DEF RecommendedActions, DepsSatisfied
  <2>4. p = q /\ ActionFor[ManagerStatus(q)] = "execute"
    BY <2>1, <2>3 DEF Advice
  <2>5. ManagerStatus(q) = "planned"
    BY <2>3, <2>4 DEF ActionFor
  <2> QED BY <2>2, <2>3, <2>4, <2>5
<1>2. ASSUME NEW p \in execute, NEW s \in Slots, agents[s].is = "executor",
             HasDepRelationship(p, agents[s].phase)
      PROVE  \/ ManagerStatus(agents[s].phase) = "complete"
             \/ ManagerStatus(agents[s].phase) = "planned" /\ agents[s].phase \notin fresh
  <2>1. agents[s].phase \in ManagedPhases
    BY <1>2 DEF ManagerInv, ManagerTyped, Planners, Executors, Idle
  <2>2. ManagerStatus(agents[s].phase) \in {"complete", "partial", "planned"}
    BY <1>2, <2>1, StatusFacts DEF ManagerInv, ManagerSound
  <2>3. agents[s].phase \notin ActiveExecuting
    BY <1>1, <1>2
  <2> QED BY <2>1, <2>2, <2>3 DEF ActiveExecuting
<1>3. ASSUME NEW p \in execute, NEW q \in execute, Reaches(p, q)
      PROVE  \E r \in dependsOn[p] : ManagerStatus(r) = "complete" /\ Reaches(r, q)
  <2>1. /\ p \in ManagedPhases /\ dependsOn[p] \subseteq CompletedNums
        /\ q \in ManagedPhases /\ ManagerStatus(q) = "planned"
    BY <1>1, <1>3
  <2>2. \A r \in ManagedPhases \cap CompletedNums : ManagerStatus(r) = "complete"
    BY StatusFacts, ManagerAssumption DEF CompletedNums, ManagerAssumption
  <2>3. q \notin dependsOn[p]
    BY <2>1, <2>2
  <2>4. PICK r \in dependsOn[p] \cap ManagedPhases : Reaches(r, q)
    BY <1>3, <2>1, <2>3, ReachesThrough
  <2> QED BY <2>1, <2>2, <2>4
<1> HIDE DEF execute
<1>4. \A p \in execute :
        /\ \A s \in Slots : agents[s].is = "executor" /\ HasDepRelationship(p, agents[s].phase) =>
             \/ ManagerStatus(agents[s].phase) = "complete"
             \/ ManagerStatus(agents[s].phase) = "planned" /\ agents[s].phase \notin fresh
        /\ \A q \in execute : Reaches(p, q) =>
             \E r \in dependsOn[p] : ManagerStatus(r) = "complete" /\ Reaches(r, q)
  BY <1>2, <1>3
<1> QED BY <1>4 DEF KeepsApart, execute

\* The first of some phases is one of them, which is not 0.
LEMMA FirstIs ==
  ASSUME NEW phases \in SUBSET ManagedPhases, phases # {}
  PROVE  FirstOf(phases) # 0
<1>1. phases \subseteq Nat /\ 0 \notin phases
  BY ManagerAssumption DEF ManagerAssumption
<1>2. \E p \in phases : \A q \in phases : p <= q
  BY <1>1, SmallestExists
<1>3. FirstOf(phases) \in phases
  BY <1>2 DEF FirstOf
<1> QED BY <1>1, <1>3

\* As long as a phase is not complete, init progress names one.
LEMMA ItNamesAPhase ==
  ASSUME ManagerInv, NEW p \in ManagedPhases, ManagerStatus(p) # "complete"
  PROVE  InitProgress.current # 0 \/ InitProgress.next # 0
<1> DEFINE listed == {q \in ManagedPhases : Has(q)}
           begun == {q \in listed : ProgressStatus(q) \in {"in_progress", "researched"}}
           waits == {q \in listed : ProgressStatus(q) = "pending"}
           others == {q \in ManagedPhases \ listed : ProgressStatus(q) # "complete"}
<1>1. p \notin ticked
  BY StatusFacts
<1>2. p \in begun \cup waits \cup others
  <2>1. CASE ~ Has(p)
    BY <1>1, <2>1 DEF ProgressStatus
  <2>2. CASE Has(p)
    <3>1. PlanCount(p) \in Nat /\ SummaryCount(p) \in Nat
      BY ManagerCounts
    <3>2. ~ (PlanCount(p) > 0 /\ SummaryCount(p) >= PlanCount(p))
      <4>1. ManagerStatus(p) =
             (CASE PlanCount(p) > 0 /\ SummaryCount(p) >= PlanCount(p) -> "complete"
                [] SummaryCount(p) > 0 /\ SummaryCount(p) < PlanCount(p) -> "partial"
                [] PlanCount(p) > 0 /\ SummaryCount(p) = 0 -> "planned"
                [] PlanCount(p) = 0 /\ folder[p].research -> "researched"
                [] PlanCount(p) = 0 /\ ~folder[p].research /\ folder[p].context -> "discussed"
                [] OTHER -> "empty")
        BY <1>1, <2>2 DEF ManagerStatus
      <4> QED BY <3>1, <4>1
    <3>3. ProgressStatus(p) = (CASE PlanCount(p) > 0 /\ SummaryCount(p) >= PlanCount(p) -> "complete"
                    [] PlanCount(p) > 0 /\ SummaryCount(p) < PlanCount(p) -> "in_progress"
                    [] OTHER -> IF folder[p].research THEN "researched" ELSE "pending")
      BY <2>2 DEF ProgressStatus
    <3>4. ProgressStatus(p) \in {"in_progress", "researched", "pending"}
      BY <3>1, <3>2, <3>3
    <3> QED BY <2>2, <3>4
  <2> QED BY <2>1, <2>2
<1>3. begun # {} => FirstOf(begun) # 0
  BY FirstIs
<1>4. waits # {} => FirstOf(waits) # 0
  BY FirstIs
<1>5. others # {} => FirstOf(others) # 0
  BY FirstIs
<1>6. /\ InitProgress.current = FirstOf(begun)
      /\ InitProgress.next = IF FirstOf(waits) = 0 /\ FirstOf(begun) = 0 THEN FirstOf(others)
                             ELSE FirstOf(waits)
  BY DEF InitProgress
<1> HIDE DEF begun, waits, others
<1> QED BY <1>2, <1>3, <1>4, <1>5, <1>6

\* What the invariant says of a state.
LEMMA ManagerGuidesWell == ASSUME ManagerInv PROVE ManagerGuides
<1>1. GoesOn(FilteredActions) /\ KeepsApart(FilteredActions)
  BY ItGoesOn, ItKeepsApart
<1>2. ASSUME ~ AllComplete, NonBacklog # {}
      PROVE  InitProgress.current # 0 \/ InitProgress.next # 0
  <2>1. PICK p \in NonBacklog : ManagerStatus(p) # "complete"
    BY <1>2 DEF AllComplete
  <2> QED BY <2>1, ItNamesAPhase DEF NonBacklog
<1>3. ASSUME AllPhasesComplete, NEW p \in NonBacklog
      PROVE  ManagerStatus(p) \in {"complete", "partial"}
  <2>1. p \in ManagedPhases /\ SummaryCount(p) > 0
    BY <1>3 DEF AllPhasesComplete, MilestoneOpComplete, NonBacklog
  <2>2. SummaryFiles(p) # {}
    BY <2>1, ManagerCounts
  <2> QED BY <2>1, <2>2, StatusFacts
<1> QED BY <1>1, <1>2, <1>3 DEF ManagerGuides

\* The first state, with the directories that are found.
LEMMA ManagerInitInv == ManagerInit => ManagerInv
<1> SUFFICES ASSUME ManagerInit PROVE ManagerInv
  OBVIOUS
<1>1. MaxPhasePlans \in Nat \ {0} /\ 1 .. MaxPhasePlans # {}
  BY ManagerAssumption DEF ManagerAssumption
<1>2. ASSUME NEW p \in ManagedPhases
      PROVE  /\ folder[p] \in Folders \cup {NoFolder}
             /\ SummaryFiles(p) \subseteq PlanFiles(p)
  <2>1. folder[p] \in {[NewFolder EXCEPT !.context = TRUE, !.plans = 1 .. MaxPhasePlans],
                       [NewFolder EXCEPT !.context = TRUE], NoFolder}
    BY <1>2 DEF ManagerInit, FoundFolder
  <2> QED BY <2>1 DEF Folders, NewFolder, NoFolder, SummaryFiles, PlanFiles, Has, PlanNumbers
<1>3. ManagerTyped
  <2>1. ticked \subseteq ManagedPhases
    BY DEF ManagerInit, NonBacklog
  <2> QED BY <1>2, <2>1 DEF ManagerInit, ManagerTyped
<1>4. ManagerSound
  <2>1. \A s \in Slots : agents[s].is = "idle"
    BY DEF ManagerInit, Idle
  <2> QED BY <1>2, <2>1 DEF ManagerInit, ManagerSound
<1> QED BY <1>3, <1>4 DEF ManagerInv

\* Nobody needs more: what is chosen was chosen, and an agent is as it was, or has stopped,
\* or has a plan less to do.
LessToDo(s) ==
  \/ agents'[s] = agents[s]
  \/ agents'[s] = Idle
  \/ /\ agents[s].is = "executor"
     /\ \E n \in agents[s].todo : agents'[s] = [agents[s] EXCEPT !.todo = @ \ {n}]

\* Nothing that a phase has is lost.
FilesKept ==
  \A q \in ManagedPhases : /\ Has(q) => Has(q)'
                           /\ PlanFiles(q) \subseteq PlanFiles(q)'
                           /\ SummaryFiles(q)' \subseteq PlanFiles(q)'

\* Files are added only: what a phase has it keeps.
LEMMA FilesGrow ==
  ASSUME ManagerInv, NEW p \in ManagedPhases, NEW new \in Folders, folder' = [folder EXCEPT ![p] = new],
         Has(p) => folder[p].plans \subseteq new.plans, new.summaries \subseteq new.plans
  PROVE  folder' \in [ManagedPhases -> Folders \cup {NoFolder}] /\ FilesKept
<1>1. folder \in [ManagedPhases -> Folders \cup {NoFolder}]
  BY DEF ManagerInv, ManagerTyped
<1>2. folder' \in [ManagedPhases -> Folders \cup {NoFolder}]
  BY <1>1
<1>3. new # NoFolder
  BY DEF Folders, NoFolder
<1>4. Has(p)' /\ PlanFiles(p)' = new.plans /\ SummaryFiles(p)' = new.summaries
  BY <1>1, <1>3 DEF Has, PlanFiles, SummaryFiles
<1>5. \A q \in ManagedPhases \ {p} : /\ Has(q)' <=> Has(q)
                                     /\ PlanFiles(q)' = PlanFiles(q) /\ SummaryFiles(q)' = SummaryFiles(q)
  BY <1>1 DEF Has, PlanFiles, SummaryFiles
<1>6. PlanFiles(p) \subseteq PlanFiles(p)'
  BY <1>4 DEF PlanFiles
<1>7. \A q \in ManagedPhases : SummaryFiles(q)' \subseteq PlanFiles(q)'
  BY <1>4, <1>5 DEF ManagerInv, ManagerSound
<1> QED BY <1>2, <1>4, <1>5, <1>6, <1>7 DEF FilesKept

\* Files that stay are kept.
LEMMA FilesStay ==
  ASSUME ManagerInv, folder' = folder
  PROVE  /\ FilesKept
         /\ \A q : /\ Has(q)' <=> Has(q)
                   /\ PlanFiles(q)' = PlanFiles(q) /\ SummaryFiles(q)' = SummaryFiles(q)
<1>1. \A q : /\ Has(q)' <=> Has(q)
             /\ PlanFiles(q)' = PlanFiles(q) /\ SummaryFiles(q)' = SummaryFiles(q)
  BY DEF Has, PlanFiles, SummaryFiles
<1> QED BY <1>1 DEF FilesKept, ManagerInv, ManagerSound

\* With files kept and nothing more to do, the rest of the invariant stays.
LEMMA SoundKept ==
  ASSUME ManagerInv, FilesKept, chosen' \subseteq chosen, \A s \in Slots : LessToDo(s)
  PROVE  ManagerSound'
<1>1. \A q \in ManagedPhases : SummaryFiles(q)' \subseteq PlanFiles(q)'
  BY DEF FilesKept
<1>2. ASSUME NEW p \in ManagedPhases, NEW a \in chosen', p = a.phase
      PROVE  /\ a.action = "plan" => Has(p)'
             /\ a.action = "execute" => PlanFiles(p)' # {}
  <2>1. a \in chosen
    BY <1>2
  <2>2. /\ a.action = "plan" => Has(a.phase)
        /\ a.action = "execute" => PlanFiles(a.phase) # {}
    BY <2>1 DEF ManagerInv, ManagerSound
  <2>3. (Has(p) => Has(p)') /\ PlanFiles(p) \subseteq PlanFiles(p)'
    BY DEF FilesKept
  <2> QED BY <1>2, <2>2, <2>3
<1>3. ASSUME NEW s \in Slots, NEW p, p = agents'[s].phase
      PROVE  /\ agents'[s].is = "planner" => Has(p)'
             /\ agents'[s].is = "executor" => PlanFiles(p)' # {} /\ agents'[s].todo \subseteq PlanFiles(p)'
  <2>1. agents[s] \in Planners \cup Executors \cup {Idle}
    BY DEF ManagerInv, ManagerTyped
  <2>2. agents[s].is \in {"planner", "executor"} => agents[s].phase \in ManagedPhases
    BY <2>1 DEF Planners, Executors, Idle
  <2>3. /\ agents[s].is = "planner" => Has(agents[s].phase)
        /\ agents[s].is = "executor" => /\ PlanFiles(agents[s].phase) # {}
                                        /\ agents[s].todo \subseteq PlanFiles(agents[s].phase)
    BY DEF ManagerInv, ManagerSound
  <2>4. p \in ManagedPhases => (Has(p) => Has(p)') /\ PlanFiles(p) \subseteq PlanFiles(p)'
    BY DEF FilesKept
  <2>5. CASE agents'[s] = agents[s]
    BY <1>3, <2>2, <2>3, <2>4, <2>5
  <2>6. CASE agents'[s] = Idle
    BY <2>6 DEF Idle
  <2>7. ASSUME agents[s].is = "executor", NEW n \in agents[s].todo,
               agents'[s] = [agents[s] EXCEPT !.todo = @ \ {n}]
        PROVE  agents'[s].is = "executor" /\ PlanFiles(p)' # {} /\ agents'[s].todo \subseteq PlanFiles(p)'
    <3>1. agents[s] \in Executors
      BY <2>1, <2>7 DEF Planners, Executors, Idle
    <3>2. agents'[s].is = "executor" /\ p = agents[s].phase /\ agents'[s].todo \subseteq agents[s].todo
      BY <1>3, <2>7, <3>1 DEF Executors
    <3> QED BY <2>2, <2>3, <2>4, <2>7, <3>2
  <2> QED BY <2>5, <2>6, <2>7 DEF LessToDo
<1>4. ASSUME NEW s \in Slots
      PROVE  (/\ agents[s].is = "planner" => Has(agents[s].phase)
              /\ agents[s].is = "executor" => /\ PlanFiles(agents[s].phase) # {}
                                              /\ agents[s].todo \subseteq PlanFiles(agents[s].phase))'
  BY <1>3 DEF Has, PlanFiles
<1>5. \A a \in chosen' : a.phase \in ManagedPhases
  BY DEF ManagerInv, ManagerTyped
<1> QED BY <1>1, <1>2, <1>4, <1>5 DEF ManagerSound

\* An agent is started at a phase that allows it.
LEMMA SpawnedWell ==
  ASSUME ManagerInv, NEW p \in ManagedPhases, NEW action \in {"plan", "execute"}, NEW s \in Slots,
         action = "plan" => Has(p), action = "execute" => PlanFiles(p) # {},
         agents' = [agents EXCEPT ![s] = Spawned(p, action)], chosen' \subseteq chosen, folder' = folder
  PROVE  agents' \in [Slots -> Planners \cup Executors \cup {Idle}] /\ ManagerSound'
<1>1. agents \in [Slots -> Planners \cup Executors \cup {Idle}]
  BY DEF ManagerInv, ManagerTyped
<1>2. IncompletePlans(p) \subseteq PlanFiles(p) /\ PlanFiles(p) \subseteq PlanNumbers
  BY ManagerCounts DEF IncompletePlans, PlanFiles, Folders
<1>3. Spawned(p, action) \in Planners \cup Executors
  BY <1>2 DEF Spawned, Planners, Executors
<1>4. /\ action = "plan" => Spawned(p, action).is = "planner" /\ Spawned(p, action).phase = p
      /\ action = "execute" => /\ Spawned(p, action).is = "executor" /\ Spawned(p, action).phase = p
                               /\ Spawned(p, action).todo \subseteq PlanFiles(p)
  BY <1>2 DEF Spawned
<1>5. ASSUME NEW t \in Slots
      PROVE  /\ agents'[t].is = "planner" => Has(agents'[t].phase)
             /\ agents'[t].is = "executor" => /\ PlanFiles(agents'[t].phase) # {}
                                              /\ agents'[t].todo \subseteq PlanFiles(agents'[t].phase)
  <2>1. CASE t = s
    <3>1. agents'[t] = Spawned(p, action)
      BY <1>1, <2>1
    <3> QED BY <1>4, <3>1
  <2>2. CASE t # s
    BY <1>1, <2>2 DEF ManagerInv, ManagerSound
  <2> QED BY <2>1, <2>2
<1>6. \A q : /\ Has(q)' <=> Has(q)
             /\ PlanFiles(q)' = PlanFiles(q) /\ SummaryFiles(q)' = SummaryFiles(q)
  BY FilesStay
<1>7. ManagerSound'
  BY <1>5, <1>6 DEF ManagerSound, ManagerInv
<1> QED BY <1>1, <1>3, <1>7

\* What stays apart from the files.
LEMMA AgentsTyped ==
  ASSUME ManagerInv, NEW s \in Slots, agents' = [agents EXCEPT ![s] = Idle]
  PROVE  /\ agents' \in [Slots -> Planners \cup Executors \cup {Idle}]
         /\ \A t \in Slots : LessToDo(t)
<1>1. agents \in [Slots -> Planners \cup Executors \cup {Idle}]
  BY DEF ManagerInv, ManagerTyped
<1> QED BY <1>1 DEF LessToDo

\* The files of one phase are written.
LEMMA WritesWell ==
  ASSUME ManagerInv, NEW p \in ManagedPhases, NEW new \in Folders, Writes(p, new),
         Has(p) => folder[p].plans \subseteq new.plans, new.summaries \subseteq new.plans
  PROVE  /\ folder' \in [ManagedPhases -> Folders \cup {NoFolder}] /\ FilesKept
         /\ fresh' \subseteq ManagedPhases
<1>1. folder' = [folder EXCEPT ![p] = new] /\ fresh' = fresh \cup {p}
  BY DEF Writes
<1>2. fresh' \subseteq ManagedPhases
  BY <1>1 DEF ManagerInv, ManagerTyped
<1> QED BY <1>1, <1>2, FilesGrow

\* What is recommended fits what is there.
LEMMA ContinueInv == ASSUME ManagerInv, Continue PROVE ManagerInv'
<1>1. UNCHANGED <<dependsOn, ticked, folder, fresh, discussing, agents>> /\ chosen' = FilteredActions
  BY DEF Continue
<1>2. ASSUME NEW a \in FilteredActions
      PROVE  /\ a \in [phase : ManagedPhases, action : {"execute", "plan", "discuss"}]
             /\ a.action = "plan" => Has(a.phase)
             /\ a.action = "execute" => PlanFiles(a.phase) # {}
  <2>1. a \in RecommendedActions
    BY <1>2 DEF FilteredActions
  <2>2. PICK q \in ManagedPhases \ BacklogPhases :
          ManagerStatus(q) \in DOMAIN ActionFor /\ a = Advice(q, ActionFor[ManagerStatus(q)])
    BY <2>1 DEF RecommendedActions, DepsSatisfied
  <2>3. a.phase = q /\ a.action = ActionFor[ManagerStatus(q)]
        /\ a = [phase |-> q, action |-> ActionFor[ManagerStatus(q)]]
    BY <2>2 DEF Advice
  <2>4. a.action \in {"execute", "plan", "discuss"}
        /\ (a.action = "plan" => ManagerStatus(q) \in {"discussed", "researched"})
        /\ (a.action = "execute" => ManagerStatus(q) = "planned")
    BY <2>2, <2>3 DEF ActionFor
  <2> QED BY <2>2, <2>3, <2>4, StatusFacts
<1>3. ManagerTyped'
  BY <1>1, <1>2 DEF ManagerInv, ManagerTyped
<1>4. \A q : /\ Has(q)' <=> Has(q)
             /\ PlanFiles(q)' = PlanFiles(q) /\ SummaryFiles(q)' = SummaryFiles(q)
  BY <1>1, FilesStay
<1>5. ManagerSound'
  <2>1. \A a \in chosen' : /\ a.action = "plan" => Has(a.phase)
                           /\ a.action = "execute" => PlanFiles(a.phase) # {}
    BY <1>1, <1>2
  <2> QED BY <1>1, <1>4, <2>1 DEF ManagerInv, ManagerSound
<1> QED BY <1>3, <1>5 DEF ManagerInv

\* What was chosen still fits, as files are only added.
LEMMA SpawnInv == ASSUME ManagerInv, Spawn PROVE ManagerInv'
<1>1. PICK a \in chosen, s \in Slots :
        /\ a.action # "discuss"
        /\ agents' = [agents EXCEPT ![s] = Spawned(a.phase, a.action)] /\ chosen' = chosen \ {a}
  BY DEF Spawn
<1>2. UNCHANGED <<dependsOn, ticked, folder, fresh, discussing>>
  BY DEF Spawn
<1>3. /\ a.phase \in ManagedPhases /\ a.action \in {"plan", "execute"}
      /\ a.action = "plan" => Has(a.phase)
      /\ a.action = "execute" => PlanFiles(a.phase) # {}
  BY <1>1 DEF ManagerInv, ManagerTyped, ManagerSound
<1>4. agents' \in [Slots -> Planners \cup Executors \cup {Idle}] /\ ManagerSound'
  BY <1>1, <1>2, <1>3, SpawnedWell
<1> QED BY <1>1, <1>2, <1>4 DEF ManagerInv, ManagerTyped

\* A discussion adds the context of its phase.
LEMMA DiscussionInv == ASSUME ManagerInv, StartDiscussion \/ FinishDiscussion PROVE ManagerInv'
<1>1. UNCHANGED <<dependsOn, ticked, agents>> /\ chosen' \subseteq chosen
  BY DEF StartDiscussion, FinishDiscussion
<1>2. discussing' \subseteq ManagedPhases
  BY DEF StartDiscussion, FinishDiscussion, ManagerInv, ManagerTyped
<1>3. \A s \in Slots : LessToDo(s)
  BY <1>1 DEF LessToDo
<1>4. folder' \in [ManagedPhases -> Folders \cup {NoFolder}] /\ FilesKept /\ fresh' \subseteq ManagedPhases
  <2>1. CASE StartDiscussion
    BY <2>1, FilesStay DEF StartDiscussion, ManagerInv, ManagerTyped
  <2>2. CASE FinishDiscussion
    <3>1. PICK p \in discussing :
            Writes(p, [IF Has(p) THEN folder[p] ELSE NewFolder EXCEPT !.context = TRUE])
      BY <2>2 DEF FinishDiscussion
    <3> DEFINE old == IF Has(p) THEN folder[p] ELSE NewFolder
               new == [old EXCEPT !.context = TRUE]
    <3>2. p \in ManagedPhases
      BY DEF ManagerInv, ManagerTyped
    <3>3. old \in Folders /\ old.summaries \subseteq old.plans /\ (Has(p) => old = folder[p])
      BY <3>2, ManagerCounts DEF Folders, NewFolder, ManagerInv, ManagerSound, PlanFiles, SummaryFiles
    <3>4. new \in Folders /\ new.summaries = old.summaries /\ new.plans = old.plans
      BY <3>3 DEF Folders
    <3>5. Writes(p, new)
      BY <3>1
    <3> HIDE DEF new, old
    <3> QED BY <3>2, <3>3, <3>4, <3>5, WritesWell
  <2> QED BY <2>1, <2>2
<1>5. ManagerSound'
  BY <1>1, <1>3, <1>4, SoundKept
<1> QED BY <1>1, <1>2, <1>4, <1>5 DEF ManagerInv, ManagerTyped

\* What the user does by hand: the commands refuse what does not fit.
LEMMA UserActsInv == ASSUME ManagerInv, UserActs PROVE ManagerInv'
<1>1. UNCHANGED <<dependsOn, chosen, discussing>>
  BY DEF UserActs
<1>2. ASSUME NEW p \in ManagedPhases, NEW s \in Slots, NEW action \in {"plan", "execute"},
             Has(p), Accepts(action, p), agents' = [agents EXCEPT ![s] = Spawned(p, action)],
             UNCHANGED <<ticked, folder, fresh>>
      PROVE  ManagerInv'
  <2>1. action = "execute" => PlanFiles(p) # {}
    BY <1>2, ManagerCounts DEF Accepts
  <2>2. agents' \in [Slots -> Planners \cup Executors \cup {Idle}] /\ ManagerSound'
    BY <1>1, <1>2, <2>1, SpawnedWell
  <2> QED BY <1>1, <1>2, <2>2 DEF ManagerInv, ManagerTyped
<1>3. ASSUME NEW p \in ManagedPhases, ticked' = IF p \in ticked THEN ticked \ {p} ELSE ticked \cup {p},
             UNCHANGED <<agents, folder, fresh>>
      PROVE  ManagerInv'
  <2>1. ManagerSound'
    <3>1. \A s \in Slots : LessToDo(s)
      BY <1>3 DEF LessToDo
    <3> QED BY <1>1, <1>3, <3>1, FilesStay, SoundKept
  <2> QED BY <1>1, <1>3, <2>1 DEF ManagerInv, ManagerTyped
<1>4. ASSUME NEW p \in ManagedPhases, ~ Has(p), folder' = [folder EXCEPT ![p] = NewFolder],
             UNCHANGED <<agents, ticked, fresh>>
      PROVE  ManagerInv'
  <2>1. NewFolder \in Folders /\ NewFolder.summaries \subseteq NewFolder.plans
    BY DEF NewFolder, Folders
  <2>2. folder' \in [ManagedPhases -> Folders \cup {NoFolder}] /\ FilesKept
    BY <1>4, <2>1, FilesGrow
  <2>3. ManagerSound'
    <3>1. \A s \in Slots : LessToDo(s)
      BY <1>4 DEF LessToDo
    <3> QED BY <1>1, <2>2, <3>1, SoundKept
  <2> QED BY <1>1, <1>4, <2>2, <2>3 DEF ManagerInv, ManagerTyped
<1> QED BY <1>2, <1>3, <1>4 DEF UserActs

\* A planner adds its research or a plan.
LEMMA PlanInv == ASSUME ManagerInv, NEW s \in Slots, Plan(s) PROVE ManagerInv'
<1>1. UNCHANGED <<dependsOn, ticked, chosen, discussing, agents>>
  BY DEF Plan
<1>2. PICK p \in ManagedPhases : p = agents[s].phase /\ Has(p)
  <2>1. agents[s].is = "planner" /\ Has(agents[s].phase)
    BY DEF Plan, ManagerInv, ManagerSound
  <2>2. agents[s] \in Planners \cup Executors \cup {Idle}
    BY DEF ManagerInv, ManagerTyped
  <2>3. agents[s].phase \in ManagedPhases
    BY <2>1, <2>2 DEF Planners, Executors, Idle
  <2> QED BY <2>1, <2>3
<1>3. folder[p] \in Folders /\ folder[p].summaries \subseteq folder[p].plans
  BY <1>2, ManagerCounts DEF ManagerInv, ManagerSound, PlanFiles, SummaryFiles
<1>4. folder' \in [ManagedPhases -> Folders \cup {NoFolder}] /\ FilesKept /\ fresh' \subseteq ManagedPhases
  <2>1. CASE Writes(p, [folder[p] EXCEPT !.research = TRUE])
    <3> DEFINE new == [folder[p] EXCEPT !.research = TRUE]
    <3>1. new \in Folders /\ new.plans = folder[p].plans /\ new.summaries = folder[p].summaries
      BY <1>3 DEF Folders
    <3>2. Writes(p, new)
      BY <2>1
    <3> HIDE DEF new
    <3> QED BY <1>3, <3>1, <3>2, WritesWell
  <2>2. ASSUME NEW n \in 1 .. MaxPhasePlans,
               Writes(p, [folder[p] EXCEPT !.plans = @ \cup {n}, !.verified = FALSE])
        PROVE  folder' \in [ManagedPhases -> Folders \cup {NoFolder}] /\ FilesKept
               /\ fresh' \subseteq ManagedPhases
    <3> DEFINE new == [folder[p] EXCEPT !.plans = @ \cup {n}, !.verified = FALSE]
    <3>1. new \in Folders /\ new.plans = folder[p].plans \cup {n} /\ new.summaries = folder[p].summaries
      BY <1>3 DEF Folders, PlanNumbers
    <3>2. Writes(p, new)
      BY <2>2
    <3> HIDE DEF new
    <3> QED BY <1>3, <3>1, <3>2, WritesWell
  <2> QED BY <1>2, <2>1, <2>2 DEF Plan
<1>5. ManagerSound'
  <2>1. \A t \in Slots : LessToDo(t)
    BY <1>1 DEF LessToDo
  <2> QED BY <1>1, <1>4, <2>1, SoundKept
<1> QED BY <1>1, <1>4, <1>5 DEF ManagerInv, ManagerTyped

\* An executor adds the summary of a plan it was given.
LEMMA SummarizeInv == ASSUME ManagerInv, NEW s \in Slots, Summarize(s) PROVE ManagerInv'
<1>1. UNCHANGED <<dependsOn, ticked, chosen, discussing>>
  BY DEF Summarize
<1>2. agents[s] \in Executors
  BY DEF Summarize, ManagerInv, ManagerTyped, Planners, Executors, Idle
<1>3. PICK p \in ManagedPhases : p = agents[s].phase /\ PlanFiles(p) # {} /\ agents[s].todo \subseteq PlanFiles(p)
  BY <1>2 DEF Summarize, ManagerInv, ManagerSound, Executors
<1>4. PICK n \in agents[s].todo :
        /\ agents' = [agents EXCEPT ![s].todo = @ \ {n}]
        /\ Writes(p, [folder[p] EXCEPT !.summaries = @ \cup {n}])
  BY <1>3 DEF Summarize
<1>5. /\ folder[p] \in Folders /\ folder[p].summaries \subseteq folder[p].plans /\ n \in folder[p].plans
      /\ Has(p)
  BY <1>3, <1>4, ManagerCounts DEF ManagerInv, ManagerSound, PlanFiles, SummaryFiles
<1>6. folder' \in [ManagedPhases -> Folders \cup {NoFolder}] /\ FilesKept /\ fresh' \subseteq ManagedPhases
  <2> DEFINE new == [folder[p] EXCEPT !.summaries = @ \cup {n}]
  <2>1. new \in Folders /\ new.plans = folder[p].plans /\ new.summaries = folder[p].summaries \cup {n}
    BY <1>5 DEF Folders
  <2>2. Writes(p, new)
    BY <1>4
  <2> HIDE DEF new
  <2> QED BY <1>5, <2>1, <2>2, WritesWell
<1>7. agents \in [Slots -> Planners \cup Executors \cup {Idle}]
  BY DEF ManagerInv, ManagerTyped
<1>8. agents' \in [Slots -> Planners \cup Executors \cup {Idle}] /\ \A t \in Slots : LessToDo(t)
  <2>1. agents' = [agents EXCEPT ![s] = [agents[s] EXCEPT !.todo = @ \ {n}]]
    BY <1>4, <1>7
  <2>2. [agents[s] EXCEPT !.todo = @ \ {n}] \in Executors /\ agents[s].is = "executor"
    BY <1>2 DEF Executors
  <2> QED BY <1>4, <1>7, <2>1, <2>2 DEF LessToDo
<1>9. ManagerSound'
  BY <1>1, <1>6, <1>8, SoundKept
<1> QED BY <1>1, <1>6, <1>8, <1>9 DEF ManagerInv, ManagerTyped

\* An agent stops: a phase that passes its verification is ticked.
LEMMA AgentStops ==
  ASSUME ManagerInv, NEW s \in Slots, FinishPlanning(s) \/ FinishExecution(s) \/ AgentDies(s)
  PROVE  ManagerInv'
<1>1. UNCHANGED <<dependsOn, chosen, discussing>> /\ agents' = [agents EXCEPT ![s] = Idle]
  BY DEF FinishPlanning, FinishExecution, AgentDies
<1>2. agents' \in [Slots -> Planners \cup Executors \cup {Idle}] /\ \A t \in Slots : LessToDo(t)
  BY <1>1, AgentsTyped
<1>3. /\ folder' \in [ManagedPhases -> Folders \cup {NoFolder}] /\ FilesKept
      /\ fresh' \subseteq ManagedPhases /\ ticked' \subseteq ManagedPhases
  <2>1. CASE UNCHANGED <<ticked, folder, fresh>>
    BY <2>1, FilesStay DEF ManagerInv, ManagerTyped
  <2>2. CASE FinishExecution(s) /\ ~ UNCHANGED <<ticked, folder, fresh>>
    <3>1. PICK p : /\ p = agents[s].phase /\ PlanCount(p) > 0
                   /\ Writes(p, [folder[p] EXCEPT !.verified = TRUE]) /\ ticked' = ticked \cup {p}
      BY <2>2 DEF FinishExecution
    <3>2. p \in ManagedPhases /\ PlanFiles(p) # {}
      BY <2>2, <3>1 DEF FinishExecution, ManagerInv, ManagerTyped, ManagerSound, Planners, Executors, Idle
    <3>3. folder[p] \in Folders /\ folder[p].summaries \subseteq folder[p].plans
      BY <3>2, ManagerCounts DEF ManagerInv, ManagerSound, PlanFiles, SummaryFiles
    <3> DEFINE new == [folder[p] EXCEPT !.verified = TRUE]
    <3>4. new \in Folders /\ new.plans = folder[p].plans /\ new.summaries = folder[p].summaries
      BY <3>3 DEF Folders
    <3>5. Writes(p, new)
      BY <3>1
    <3>6. ticked' \subseteq ManagedPhases
      BY <3>1, <3>2 DEF ManagerInv, ManagerTyped
    <3> HIDE DEF new
    <3> QED BY <3>2, <3>3, <3>4, <3>5, <3>6, WritesWell
  <2> QED BY <2>1, <2>2 DEF FinishPlanning, FinishExecution, AgentDies
<1>4. ManagerSound'
  BY <1>1, <1>2, <1>3, SoundKept
<1> QED BY <1>1, <1>2, <1>3, <1>4 DEF ManagerInv, ManagerTyped

\* Every step keeps the invariant.
LEMMA ManagerStep == ManagerInv /\ [ManagerNext]_managerVars => ManagerInv'
<1> SUFFICES ASSUME ManagerInv, [ManagerNext]_managerVars PROVE ManagerInv'
  OBVIOUS
<1>1. ASSUME Silence \/ UNCHANGED managerVars PROVE ManagerInv'
  <2>1. UNCHANGED <<dependsOn, ticked, folder, chosen, discussing, agents>> /\ fresh' \subseteq fresh
    BY <1>1 DEF Silence, managerVars
  <2>2. ManagerSound'
    <3>1. \A s \in Slots : LessToDo(s)
      BY <2>1 DEF LessToDo
    <3> QED BY <2>1, <3>1, FilesStay, SoundKept
  <2> QED BY <2>1, <2>2 DEF ManagerInv, ManagerTyped
<1> QED BY <1>1, ContinueInv, SpawnInv, DiscussionInv, UserActsInv, PlanInv, SummarizeInv, AgentStops
        DEF ManagerNext

\* For every number of phases, plans and agents and every dependency between phases: the
\* manager leads a milestone to its end and, with the exceptions KeepsApart names, has no two
\* phases executed at a time of which one depends on the other.
THEOREM ManagerLeads == ManagerSpec => []ManagerGuides
<1>1. ManagerInv => ManagerGuides
  BY ManagerGuidesWell
<1> QED BY <1>1, ManagerInitInv, ManagerStep, PTL DEF ManagerSpec

\* One discussion at a time, and so many things the user does.
ManagerBounded ==
  /\ discussing = {} \/ \E p : discussing = {p}
  /\ interventions \in 0 .. MaxInterventions

LEMMA ManagerBoundedStep == ManagerBounded /\ [ManagerNext]_managerVars => ManagerBounded'
<1> SUFFICES ASSUME ManagerBounded, [ManagerNext]_managerVars PROVE ManagerBounded'
  OBVIOUS
<1>1. Intervene => interventions' \in 0 .. MaxInterventions
  <2>1. interventions \in 0 .. MaxInterventions /\ MaxInterventions \in Nat
    BY ManagerAssumption DEF ManagerBounded
  <2> QED BY <2>1 DEF Intervene
<1>2. CASE Continue \/ Spawn \/ Silence \/ UNCHANGED managerVars
  BY <1>2 DEF Continue, Spawn, Silence, managerVars, ManagerBounded
<1>3. CASE StartDiscussion \/ FinishDiscussion
  BY <1>3 DEF StartDiscussion, FinishDiscussion, ManagerBounded
<1>4. CASE UserActs
  BY <1>1, <1>4 DEF UserActs, ManagerBounded
<1>5. ASSUME NEW s \in Slots, Plan(s) \/ FinishPlanning(s) \/ Summarize(s) \/ FinishExecution(s) PROVE ManagerBounded'
  BY <1>5 DEF Plan, FinishPlanning, Summarize, FinishExecution, ManagerBounded
<1>6. ASSUME NEW s \in Slots, AgentDies(s) PROVE ManagerBounded'
  BY <1>1, <1>6 DEF AgentDies, ManagerBounded
<1> QED
  BY <1>2, <1>3, <1>4, <1>5, <1>6 DEF ManagerNext

\* The manager keeps its types: a summary is that of a plan, an agent works on a phase that
\* has a directory, and one discussion goes on at a time.
THEOREM PhaseManagerTyped == ManagerSpec => []ManagerTypeOK
<1>1. ManagerSpec => []ManagerInv
  BY ManagerInitInv, ManagerStep, PTL DEF ManagerSpec
<1>2. ManagerInit => ManagerBounded
  BY ManagerAssumption DEF ManagerInit, ManagerBounded
<1>3. ManagerSpec => []ManagerBounded
  BY <1>2, ManagerBoundedStep, PTL DEF ManagerSpec
<1>4. ManagerInv /\ ManagerBounded => ManagerTypeOK
  <2> SUFFICES ASSUME ManagerInv, ManagerBounded PROVE ManagerTypeOK
    OBVIOUS
  <2>1. Cardinality(discussing) <= 1
    <3>1. CASE discussing = {}
      <4>1. Cardinality(discussing) = 0
        BY <3>1, FS_EmptySet
      <4> QED BY <4>1
    <3>2. CASE \E p : discussing = {p}
      <4>1. Cardinality(discussing) = 1
        BY <3>2, FS_Singleton
      <4> QED BY <4>1
    <3> QED BY <3>1, <3>2 DEF ManagerBounded
  <2>2. ASSUME NEW p \in ManagedPhases, Has(p)
        PROVE  folder[p].plans \subseteq 1 .. MaxPhasePlans /\ folder[p].summaries \subseteq folder[p].plans
    <3>1. folder[p] \in Folders
      BY <2>2 DEF Has, ManagerInv, ManagerTyped
    <3> QED BY <2>2, <3>1 DEF Folders, PlanNumbers, ManagerInv, ManagerSound, PlanFiles, SummaryFiles
  <2>3. ASSUME NEW s \in Slots, agents[s] # Idle PROVE Has(agents[s].phase)
    <3>1. agents[s] \in Planners \cup Executors
      BY <2>3 DEF ManagerInv, ManagerTyped
    <3>2. agents[s].is = "planner" \/ agents[s].is = "executor"
      BY <3>1 DEF Planners, Executors
    <3> QED BY <3>2 DEF ManagerInv, ManagerSound, PlanFiles
  <2> QED BY <2>1, <2>2, <2>3 DEF ManagerInv, ManagerTyped, ManagerBounded, ManagerTypeOK
<1> QED
  BY <1>1, <1>3, <1>4, PTL

----------------------------------------------------------------------------
(* PlanningHealth.  A run with --repair settles, for every directory.      *)

Codes == {"E004", "W003", "E005", "W008", "W016", "W018"}
Dos == {"regenerateState", "writeConfig", "addNyquistKey", "addAiIntegrationPhaseKey",
        "backfillMilestones"}
RepairSteps == [code : Codes, do : Dos]

\* The repairs of a queue, each of which is in it once.
DosOf(q) == {q[i].do : i \in DOMAIN q}
Once(q) == q \in Seq(RepairSteps) /\ \A i, j \in DOMAIN q : q[i].do = q[j].do => i = j

HealthTyped ==
  /\ DOMAIN plan = PlanFields /\ plan.config \in {Absent, Broken} \cup Configs
  /\ Once(queue) /\ settled \in 0 .. 2
  /\ held \in {Absent} \cup Configs
  /\ held # Absent => queue # <<>> /\ Head(queue).do \in DOMAIN KeyOf
  /\ backfilling # NoBackfill => queue # <<>> /\ Head(queue).do = "backfillMilestones" /\ backfilling.version \in seen

\* Since a run with --repair nothing else has happened: what is wrong is still to be repaired,
\* but for the key that a configuration written anew lacks; and a configuration is written
\* anew only where there is none to be read.
ToBeRepaired ==
  settled > 0 /\ plan.there =>
    /\ plan.state = Absent => "regenerateState" \in DosOf(queue)
    /\ plan.config \in {Absent, Broken} <=> "writeConfig" \in DosOf(queue)
    /\ plan.config \in Configs =>
         /\ ~ plan.config.nyquist => "addNyquistKey" \in DosOf(queue)
         /\ ~ plan.config.ai => settled = 1 \/ "addAiIntegrationPhaseKey" \in DosOf(queue)
    /\ settled = 2 => "writeConfig" \notin DosOf(queue)
    /\ MissingFromRegistry \subseteq (IF "backfillMilestones" \in DosOf(queue) THEN seen ELSE {})
    /\ held # Absent => held = plan.config
    /\ backfilling # NoBackfill => backfilling.registry = plan.registry

HealthInv ==
  /\ HealthTyped /\ ToBeRepaired /\ dropped = FALSE
  /\ settled > 0 /\ ~ plan.there => queue = <<>>

\* A configuration that can be read is not one that cannot.
LEMMA ReadableOrNot == Configs \cap {Absent, Broken} = {} /\ Absent # Broken
  BY DEF Configs, Absent, Broken

\* What is left of a queue after its head.
LEMMA QueueTail ==
  ASSUME NEW q, Once(q), q # <<>>
  PROVE  /\ Once(Tail(q)) /\ Head(q) \in RepairSteps /\ Head(q).do \in DosOf(q)
         /\ DosOf(Tail(q)) = DosOf(q) \ {Head(q).do}
<1>1. q \in Seq(RepairSteps) /\ Len(q) \in Nat \ {0} /\ DOMAIN q = 1 .. Len(q) /\ Head(q) = q[1]
  BY DEF Once
<1>2. /\ Tail(q) \in Seq(RepairSteps) /\ Len(Tail(q)) = Len(q) - 1
      /\ DOMAIN Tail(q) = 1 .. Len(q) - 1
      /\ \A i \in 1 .. Len(q) - 1 : Tail(q)[i] = q[i + 1]
  BY <1>1
<1>3. Once(Tail(q))
  <2>1. ASSUME NEW i \in 1 .. Len(q) - 1, NEW j \in 1 .. Len(q) - 1, q[i + 1].do = q[j + 1].do
        PROVE  i = j
    <3>1. i + 1 \in DOMAIN q /\ j + 1 \in DOMAIN q
      BY <1>1
    <3>2. i + 1 = j + 1
      BY <2>1, <3>1 DEF Once
    <3> QED BY <1>1, <3>2
  <2> QED BY <1>2, <2>1 DEF Once
<1>4. DosOf(Tail(q)) \subseteq DosOf(q) \ {Head(q).do}
  <2>1. ASSUME NEW i \in 1 .. Len(q) - 1 PROVE q[i + 1].do \in DosOf(q) \ {q[1].do}
    <3>1. i + 1 \in DOMAIN q /\ 1 \in DOMAIN q /\ i + 1 # 1
      BY <1>1
    <3> QED BY <3>1 DEF Once, DosOf
  <2> QED BY <1>1, <1>2, <2>1 DEF DosOf
<1>5. DosOf(q) \ {Head(q).do} \subseteq DosOf(Tail(q))
  <2>1. ASSUME NEW i \in 1 .. Len(q), q[i].do # q[1].do PROVE q[i].do \in DosOf(Tail(q))
    <3>1. i - 1 \in 1 .. Len(q) - 1 /\ (i - 1) + 1 = i
      BY <1>1, <2>1
    <3>2. Tail(q)[i - 1] = q[i]
      BY <1>2, <3>1
    <3> QED BY <1>2, <3>1, <3>2 DEF DosOf
  <2> QED BY <1>1, <2>1 DEF DosOf
<1>6. Head(q) \in RepairSteps /\ Head(q).do \in DosOf(q)
  BY <1>1 DEF DosOf
<1> QED BY <1>3, <1>4, <1>5, <1>6

\* Two queues that repair different things, one after the other.
LEMMA QueueJoined ==
  ASSUME NEW s, NEW t, Once(s), Once(t), DosOf(s) \cap DosOf(t) = {}
  PROVE  Once(s \o t) /\ DosOf(s \o t) = DosOf(s) \cup DosOf(t)
<1>1. s \in Seq(RepairSteps) /\ t \in Seq(RepairSteps)
  BY DEF Once
<1>2. /\ s \o t \in Seq(RepairSteps) /\ DOMAIN (s \o t) = 1 .. Len(s) + Len(t)
      /\ \A i \in 1 .. Len(s) : (s \o t)[i] = s[i]
      /\ \A i \in 1 .. Len(t) : (s \o t)[Len(s) + i] = t[i]
      /\ Len(s) \in Nat /\ Len(t) \in Nat /\ DOMAIN s = 1 .. Len(s) /\ DOMAIN t = 1 .. Len(t)
  BY <1>1
<1>3. ASSUME NEW i \in 1 .. Len(s) + Len(t)
      PROVE  \/ i \in 1 .. Len(s) /\ (s \o t)[i] = s[i]
             \/ i - Len(s) \in 1 .. Len(t) /\ (s \o t)[i] = t[i - Len(s)]
  <2>1. CASE i <= Len(s)
    BY <1>2, <2>1
  <2>2. CASE i > Len(s)
    <3>1. i - Len(s) \in 1 .. Len(t) /\ Len(s) + (i - Len(s)) = i
      BY <1>2, <2>2
    <3> QED BY <1>2, <3>1
  <2> QED BY <1>2, <2>1, <2>2
<1>4. \A i \in 1 .. Len(s) : s[i].do \in DosOf(s)
  BY <1>2 DEF DosOf
<1>5. \A i \in 1 .. Len(t) : t[i].do \in DosOf(t)
  BY <1>2 DEF DosOf
<1>6. ASSUME NEW i \in 1 .. Len(s) + Len(t), NEW j \in 1 .. Len(s) + Len(t),
             (s \o t)[i].do = (s \o t)[j].do
      PROVE  i = j
  <2>1. CASE i \in 1 .. Len(s) /\ j \in 1 .. Len(s)
    BY <1>2, <1>6, <2>1 DEF Once
  <2>2. CASE i - Len(s) \in 1 .. Len(t) /\ j - Len(s) \in 1 .. Len(t)
    <3>1. (s \o t)[i] = t[i - Len(s)] /\ (s \o t)[j] = t[j - Len(s)]
      BY <1>2, <1>3, <2>2
    <3>2. i - Len(s) = j - Len(s)
      BY <1>2, <1>6, <2>2, <3>1 DEF Once
    <3> QED BY <1>2, <3>2
  <2> QED BY <1>3, <1>4, <1>5, <1>6, <2>1, <2>2
<1>7. Once(s \o t)
  BY <1>2, <1>6 DEF Once
<1>8. DosOf(s \o t) \subseteq DosOf(s) \cup DosOf(t)
  BY <1>2, <1>3, <1>4, <1>5 DEF DosOf
<1>9. DosOf(s) \subseteq DosOf(s \o t)
  <2>1. \A i \in 1 .. Len(s) : i \in DOMAIN (s \o t) /\ (s \o t)[i] = s[i]
    BY <1>2
  <2> QED BY <1>2, <2>1 DEF DosOf
<1>10. DosOf(t) \subseteq DosOf(s \o t)
  <2>1. ASSUME NEW i \in 1 .. Len(t) PROVE t[i].do \in DosOf(s \o t)
    <3>1. Len(s) + i \in DOMAIN (s \o t) /\ (s \o t)[Len(s) + i] = t[i]
      BY <1>2
    <3> QED BY <3>1 DEF DosOf
  <2> QED BY <1>2, <2>1 DEF DosOf
<1> QED BY <1>7, <1>8, <1>9, <1>10

\* What a single repair adds to the queue.
LEMMA RepairForFacts ==
  ASSUME NEW code \in Codes, NEW do \in Dos
  PROVE  /\ Once(RepairFor(code, do))
         /\ DosOf(RepairFor(code, do)) =
              IF code \in StateIssues \cup ConfigIssues \cup MilestoneIssues THEN {do} ELSE {}
<1>1. CASE code \in StateIssues \cup ConfigIssues \cup MilestoneIssues
  <2>1. RepairFor(code, do) = <<[code |-> code, do |-> do]>>
    BY <1>1 DEF RepairFor
  <2>2. [code |-> code, do |-> do] \in RepairSteps
    BY DEF RepairSteps
  <2>3. Once(<<[code |-> code, do |-> do]>>)
    BY <2>2 DEF Once
  <2>4. DosOf(<<[code |-> code, do |-> do]>>) = {do}
    BY DEF DosOf
  <2> QED BY <1>1, <2>1, <2>3, <2>4
<1>2. CASE code \notin StateIssues \cup ConfigIssues \cup MilestoneIssues
  <2>1. RepairFor(code, do) = <<>>
    BY <1>2 DEF RepairFor
  <2>2. Once(<<>>) /\ DosOf(<<>>) = {}
    BY DEF Once, DosOf
  <2> QED BY <1>2, <2>1, <2>2
<1> QED BY <1>1, <1>2

\* The codes that are found, one by one.
LEMMA FoundCodes ==
  ASSUME HealthTyped
  PROVE  LET found == StateIssues \cup ConfigIssues \cup MilestoneIssues
         IN /\ "E004" \in found <=> plan.state = Absent
            /\ "W003" \in found <=> plan.config = Absent
            /\ "E005" \in found <=> plan.config = Broken
            /\ "W008" \in found <=> plan.config \in Configs /\ ~ plan.config.nyquist
            /\ "W016" \in found <=> plan.config \in Configs /\ ~ plan.config.ai
            /\ "W018" \in found <=> MissingFromRegistry # {}
<1>1. /\ "E004" \in StateIssues <=> plan.state = Absent
      /\ StateIssues \subseteq {"E004", "W002"}
  BY DEF StateIssues
<1>2. /\ "W018" \in MilestoneIssues <=> MissingFromRegistry # {}
      /\ MilestoneIssues \subseteq {"W018", "W021"}
  BY DEF MilestoneIssues
<1>3. plan.config \in Configs => plan.config.odd \cap Codes = {}
  BY HealthAssumption DEF HealthAssumption, Configs, Codes
<1>4. /\ "W003" \in ConfigIssues <=> plan.config = Absent
      /\ "E005" \in ConfigIssues <=> plan.config = Broken
      /\ "W008" \in ConfigIssues <=> plan.config \in Configs /\ ~ plan.config.nyquist
      /\ "W016" \in ConfigIssues <=> plan.config \in Configs /\ ~ plan.config.ai
      /\ "E004" \notin ConfigIssues /\ "W018" \notin ConfigIssues
  <2>1. CASE plan.config = Absent
    <3>1. ConfigIssues = {"W003"}
      BY <2>1, ReadableOrNot DEF ConfigIssues
    <3> QED BY <2>1, <3>1, ReadableOrNot
  <2>2. CASE plan.config = Broken
    <3>1. ConfigIssues = {"E005"}
      BY <2>2, ReadableOrNot DEF ConfigIssues
    <3> QED BY <2>2, <3>1, ReadableOrNot
  <2>3. CASE plan.config \in Configs
    <3>1. plan.config # Absent /\ plan.config # Broken
      BY <2>3, ReadableOrNot
    <3>2. ConfigIssues = (IF plan.config.nyquist THEN {} ELSE {"W008"})
                         \cup (IF plan.config.ai THEN {} ELSE {"W016"}) \cup plan.config.odd
      BY <3>1 DEF ConfigIssues, SettingIssues
    <3> QED BY <1>3, <2>3, <3>1, <3>2 DEF Codes
  <2> QED BY <2>1, <2>2, <2>3 DEF HealthTyped
<1> QED BY <1>1, <1>2, <1>4

\* What a run with --repair has to do.
LEMMA RepairsFacts ==
  ASSUME HealthTyped
  PROVE  /\ Once(Repairs)
         /\ ~ plan.there => Repairs = <<>>
         /\ plan.there =>
              /\ "regenerateState" \in DosOf(Repairs) <=> plan.state = Absent
              /\ "writeConfig" \in DosOf(Repairs) <=> plan.config \in {Absent, Broken}
              /\ "addNyquistKey" \in DosOf(Repairs) <=> plan.config \in Configs /\ ~ plan.config.nyquist
              /\ "addAiIntegrationPhaseKey" \in DosOf(Repairs) <=>
                   plan.config \in Configs /\ ~ plan.config.ai
              /\ "backfillMilestones" \in DosOf(Repairs) <=> MissingFromRegistry # {}
<1>1. CASE ~ plan.there
  <2>1. Repairs = <<>> /\ Once(<<>>)
    BY <1>1 DEF Repairs, Once
  <2> QED BY <1>1, <2>1
<1>2. CASE plan.there
  <2> DEFINE found == StateIssues \cup ConfigIssues \cup MilestoneIssues
             Of(code, do) == IF code \in found THEN {do} ELSE {}
             r1 == RepairFor("E004", "regenerateState")
             r2 == RepairFor("W003", "writeConfig")
             r3 == RepairFor("E005", "writeConfig")
             r4 == RepairFor("W008", "addNyquistKey")
             r5 == RepairFor("W016", "addAiIntegrationPhaseKey")
             r6 == RepairFor("W018", "backfillMilestones")
  <2>1. Once(r1) /\ DosOf(r1) = Of("E004", "regenerateState")
    BY RepairForFacts DEF Codes, Dos
  <2>2. Once(r2) /\ DosOf(r2) = Of("W003", "writeConfig")
    BY RepairForFacts DEF Codes, Dos
  <2>3. Once(r3) /\ DosOf(r3) = Of("E005", "writeConfig")
    BY RepairForFacts DEF Codes, Dos
  <2>4. Once(r4) /\ DosOf(r4) = Of("W008", "addNyquistKey")
    BY RepairForFacts DEF Codes, Dos
  <2>5. Once(r5) /\ DosOf(r5) = Of("W016", "addAiIntegrationPhaseKey")
    BY RepairForFacts DEF Codes, Dos
  <2>6. Once(r6) /\ DosOf(r6) = Of("W018", "backfillMilestones")
    BY RepairForFacts DEF Codes, Dos
  <2>7. /\ "E004" \in found <=> plan.state = Absent
        /\ "W003" \in found <=> plan.config = Absent
        /\ "E005" \in found <=> plan.config = Broken
        /\ "W008" \in found <=> plan.config \in Configs /\ ~ plan.config.nyquist
        /\ "W016" \in found <=> plan.config \in Configs /\ ~ plan.config.ai
        /\ "W018" \in found <=> MissingFromRegistry # {}
    BY FoundCodes
  <2>8. Repairs = r1 \o r2 \o r3 \o r4 \o r5 \o r6
    BY <1>2 DEF Repairs
  <2> HIDE DEF r1, r2, r3, r4, r5, r6, found
  <2>9. Once(r1 \o r2) /\ DosOf(r1 \o r2) = DosOf(r1) \cup DosOf(r2)
    BY <2>1, <2>2, QueueJoined
  <2>10. Once(r1 \o r2 \o r3) /\ DosOf(r1 \o r2 \o r3) = DosOf(r1) \cup DosOf(r2) \cup DosOf(r3)
    <3>1. DosOf(r1 \o r2) \cap DosOf(r3) = {}
      BY <2>1, <2>2, <2>3, <2>7, <2>9, ReadableOrNot
    <3> QED BY <2>3, <2>9, <3>1, QueueJoined
  <2>11. /\ Once(r1 \o r2 \o r3 \o r4)
         /\ DosOf(r1 \o r2 \o r3 \o r4) = DosOf(r1) \cup DosOf(r2) \cup DosOf(r3) \cup DosOf(r4)
    <3>1. DosOf(r1 \o r2 \o r3) \cap DosOf(r4) = {}
      BY <2>1, <2>2, <2>3, <2>4, <2>10
    <3> QED BY <2>4, <2>10, <3>1, QueueJoined
  <2>12. /\ Once(r1 \o r2 \o r3 \o r4 \o r5)
         /\ DosOf(r1 \o r2 \o r3 \o r4 \o r5) =
              DosOf(r1) \cup DosOf(r2) \cup DosOf(r3) \cup DosOf(r4) \cup DosOf(r5)
    <3>1. DosOf(r1 \o r2 \o r3 \o r4) \cap DosOf(r5) = {}
      BY <2>1, <2>2, <2>3, <2>4, <2>5, <2>11
    <3> QED BY <2>5, <2>11, <3>1, QueueJoined
  <2>13. /\ Once(Repairs)
         /\ DosOf(Repairs) = DosOf(r1) \cup DosOf(r2) \cup DosOf(r3) \cup DosOf(r4) \cup DosOf(r5)
                             \cup DosOf(r6)
    <3>1. DosOf(r1 \o r2 \o r3 \o r4 \o r5) \cap DosOf(r6) = {}
      BY <2>1, <2>2, <2>3, <2>4, <2>5, <2>6, <2>12
    <3> QED BY <2>6, <2>8, <2>12, <3>1, QueueJoined
  <2> QED BY <1>2, <2>1, <2>2, <2>3, <2>4, <2>5, <2>6, <2>7, <2>13
<1> QED BY <1>1, <1>2

\* Of the codes that can be repaired a check finds those.
LEMMA IssuesFound ==
  ASSUME HealthTyped
  PROVE  LET found == StateIssues \cup ConfigIssues \cup MilestoneIssues
         IN /\ plan.there => Issues({}) \cap Repairable \subseteq found
            /\ ~ plan.there => Issues({}) \cap Repairable = {}
<1>1. ~ plan.there => Issues({}) \cap Repairable = {}
  BY DEF Issues, Repairable
<1>2. (ProjectIssues \cup RoadmapIssues \cup FileIssues \cup StatusIssues \cup RoadmapDiskIssues)
        \cap Repairable = {}
  BY DEF ProjectIssues, RoadmapIssues, FileIssues, StatusIssues, RoadmapDiskIssues, Repairable
<1>3. \A p : DirIssues(p) \cap Repairable = {}
  BY DEF DirIssues, Repairable
<1> DEFINE dirs == UNION {DirIssues(p) : p \in DOMAIN plan.dirs}
<1>4. dirs \cap Repairable = {}
  BY <1>3
<1>5. ASSUME plan.there
      PROVE  Issues({}) = ProjectIssues \cup RoadmapIssues \cup StateIssues \cup ConfigIssues \cup dirs
                          \cup RoadmapDiskIssues \cup StatusIssues \cup MilestoneIssues \cup FileIssues \cup {}
  BY <1>5, Zenon DEF Issues
<1> HIDE DEF dirs
<1> QED BY <1>1, <1>2, <1>4, <1>5

\* The property, where the repairs are done.
LEMMA HealthSettled == ASSUME HealthInv PROVE RepairSettles
<1> DEFINE found == StateIssues \cup ConfigIssues \cup MilestoneIssues
<1>1. DosOf(<<>>) = {}
  BY DEF DosOf
<1>2. ASSUME queue = <<>>, settled >= 1
      PROVE  /\ Issues({}) \cap Repairable \subseteq {"W016"}
             /\ settled = 2 => Issues({}) \cap Repairable = {} /\ Repairs = <<>>
  <2>1. CASE ~ plan.there
    BY <2>1, IssuesFound, RepairsFacts DEF HealthInv
  <2>2. CASE plan.there
    <3>1. /\ plan.state # Absent /\ plan.config \in Configs /\ plan.config.nyquist
          /\ MissingFromRegistry = {} /\ (settled = 2 => plan.config.ai)
      BY <1>1, <1>2, <2>2 DEF HealthInv, HealthTyped, ToBeRepaired
    <3>2. /\ "E004" \notin found /\ "W003" \notin found /\ "E005" \notin found /\ "W008" \notin found
          /\ "W018" \notin found /\ (settled = 2 => "W016" \notin found)
      BY <3>1, FoundCodes, ReadableOrNot DEF HealthInv
    <3>3. Issues({}) \cap Repairable \subseteq found
      BY <2>2, IssuesFound DEF HealthInv
    <3>4. settled = 2 => Repairs = <<>>
      BY <2>2, <3>2 DEF Repairs, RepairFor
    <3> HIDE DEF found
    <3> QED BY <3>2, <3>3, <3>4 DEF Repairable
  <2> QED BY <2>1, <2>2
<1>3. \A p \in DOMAIN plan.dirs : PhaseCompleteness(p) =>
        \A s \in plan.dirs[p].plans \ {""} : HasSummary(plan.dirs[p], s)
  BY DEF PhaseCompleteness, HasSummary
<1>4. queue = <<>> /\ settled >= 1 => Issues({}) \cap Repairable \subseteq {"W016"}
  BY <1>2
<1>5. queue = <<>> /\ settled = 2 => Issues({}) \cap Repairable = {} /\ Repairs = <<>>
  BY <1>2
<1>6. ~ dropped
  BY DEF HealthInv
<1> QED BY <1>3, <1>4, <1>5, <1>6 DEF RepairSettles

\* The first state: nothing has been checked yet.
LEMMA HealthInitInv == HealthInit => HealthInv
<1> SUFFICES ASSUME HealthInit PROVE HealthInv
  OBVIOUS
<1>1. DOMAIN plan = PlanFields /\ plan.config \in {Absent, Broken} \cup Configs
  BY HealthAssumption DEF HealthAssumption, HealthInit
<1>2. Once(queue)
  BY DEF HealthInit, Once
<1> QED BY <1>1, <1>2 DEF HealthInit, HealthInv, HealthTyped, ToBeRepaired

\* A check finds what is to be repaired.
LEMMA CheckInv ==
  ASSUME HealthInv, NEW repair \in BOOLEAN, NEW backfill, NEW outside, Check(repair, backfill, outside)
  PROVE  HealthInv'
<1>1. /\ queue = <<>> /\ queue' = (IF repair THEN Repairs ELSE <<>>) /\ seen' = MissingFromRegistry
      /\ settled' = IF repair /\ settled < 2 THEN settled + 1 ELSE settled
      /\ UNCHANGED <<plan, held, backfilling, dropped>>
  BY DEF Check
<1>2. held = Absent /\ backfilling = NoBackfill /\ HealthTyped
  BY <1>1 DEF HealthInv, HealthTyped
<1>3. Once(<<>>) /\ DosOf(<<>>) = {}
  BY DEF Once, DosOf
<1>4. HealthTyped'
  <2>1. Once(queue')
    BY <1>1, <1>2, <1>3, RepairsFacts
  <2>2. settled' \in 0 .. 2
    BY <1>1, <1>2 DEF HealthTyped
  <2>3. UNCHANGED <<plan, held, backfilling>>
    BY <1>1
  <2> QED BY <1>2, <2>1, <2>2, <2>3 DEF HealthTyped
<1>5. MissingFromRegistry' = MissingFromRegistry
  BY <1>1 DEF MissingFromRegistry
<1>6. ToBeRepaired'
  <2>1. CASE repair
    <3>1. settled > 0 /\ plan.there => plan.config \notin {Absent, Broken}
      BY <1>1, <1>3 DEF HealthInv, ToBeRepaired
    <3>2. settled' = 2 => settled > 0
      BY <1>1, <1>2 DEF HealthTyped
    <3>3. queue' = Repairs /\ plan' = plan
      BY <1>1, <2>1
    <3>4. settled' = 2 /\ plan.there => "writeConfig" \notin DosOf(Repairs)
      BY <1>2, <3>1, <3>2, RepairsFacts
    <3> QED BY <1>1, <1>2, <1>5, <3>3, <3>4, RepairsFacts DEF ToBeRepaired
  <2>2. CASE ~ repair
    BY <1>1, <1>2, <1>3, <1>5, <2>2 DEF HealthInv, ToBeRepaired
  <2> QED BY <2>1, <2>2
<1>7. settled' > 0 /\ ~ plan'.there => queue' = <<>>
  BY <1>1, <1>2, RepairsFacts
<1> QED BY <1>1, <1>4, <1>6, <1>7 DEF HealthInv

\* The first repair of the queue is made.
LEMMA RepairTaken ==
  ASSUME HealthInv, queue # <<>>, queue' = Tail(queue)
  PROVE  /\ Once(queue') /\ Head(queue).do \in DosOf(queue)
         /\ DosOf(queue') = DosOf(queue) \ {Head(queue).do}
         /\ settled > 0 => plan.there
<1>1. Once(queue)
  BY DEF HealthInv, HealthTyped
<1> QED BY <1>1, QueueTail DEF HealthInv

\* A state file made anew leaves the configuration and the registry alone.
LEMMA RegenerateStateInv == ASSUME HealthInv, RegenerateState PROVE HealthInv'
<1>1. /\ queue # <<>> /\ queue' = Tail(queue) /\ UNCHANGED <<held, backfilling, settled, dropped, seen>>
      /\ Head(queue).do = "regenerateState" /\ plan' = [plan EXCEPT !.state = RegeneratedState]
  BY DEF RegenerateState, Next1, Quiet
<1>2. held = Absent /\ backfilling = NoBackfill /\ HealthTyped
  BY <1>1 DEF HealthInv, HealthTyped, KeyOf
<1>3. /\ Once(queue') /\ DosOf(queue') = DosOf(queue) \ {Head(queue).do}
      /\ Head(queue).do \in DosOf(queue) /\ (settled > 0 => plan.there)
  BY <1>1, RepairTaken
<1>4. /\ DOMAIN plan' = PlanFields /\ plan'.config = plan.config /\ plan'.there = plan.there
      /\ plan'.snapshots = plan.snapshots /\ plan'.registry = plan.registry
      /\ plan'.state = RegeneratedState
  BY <1>1, <1>2 DEF HealthTyped, PlanFields
<1>5. RegeneratedState # Absent
  BY DEF RegeneratedState, Absent
<1>6. MissingFromRegistry' = MissingFromRegistry
  BY <1>4 DEF MissingFromRegistry
<1>7. HealthTyped'
  BY <1>1, <1>2, <1>3, <1>4 DEF HealthTyped
<1>8. ToBeRepaired'
  BY <1>1, <1>2, <1>3, <1>4, <1>5, <1>6 DEF HealthInv, ToBeRepaired
<1> QED BY <1>1, <1>3, <1>4, <1>7, <1>8 DEF HealthInv

\* The registry is read for a version, or all have had their turn.
LEMMA BackfillReadsInv == ASSUME HealthInv, BackfillReads PROVE HealthInv'
<1>1. /\ queue # <<>> /\ Head(queue).do = "backfillMilestones" /\ backfilling = NoBackfill
      /\ UNCHANGED <<plan, seen, held, settled, dropped>>
  BY DEF BackfillReads
<1>2. held = Absent /\ HealthTyped /\ MissingFromRegistry' = MissingFromRegistry
  BY <1>1 DEF HealthInv, HealthTyped, KeyOf, MissingFromRegistry
<1>3. CASE seen = {}
  <2>1. queue' = Tail(queue) /\ backfilling' = NoBackfill
    BY <1>1, <1>3 DEF BackfillReads
  <2>2. /\ Once(queue') /\ DosOf(queue') = DosOf(queue) \ {"backfillMilestones"}
        /\ (settled > 0 => plan.there)
    BY <1>1, <2>1, RepairTaken
  <2>3. HealthTyped'
    BY <1>1, <1>2, <2>1, <2>2 DEF HealthTyped
  <2>4. settled > 0 => MissingFromRegistry = {}
    BY <1>3, <2>2 DEF HealthInv, ToBeRepaired
  <2>5. ToBeRepaired'
    BY <1>1, <1>2, <2>1, <2>2, <2>4 DEF HealthInv, ToBeRepaired
  <2> QED BY <1>1, <2>2, <2>3, <2>5 DEF HealthInv
<1>4. CASE seen # {}
  <2>1. PICK v \in seen : backfilling' = [is |-> "read", version |-> v, registry |-> plan.registry]
    BY <1>4 DEF BackfillReads
  <2>2. queue' = queue /\ backfilling'.version = v /\ backfilling'.registry = plan.registry
    BY <1>4, <2>1 DEF BackfillReads
  <2>3. HealthTyped'
    BY <1>1, <1>2, <2>2 DEF HealthTyped
  <2>4. ToBeRepaired'
    BY <1>1, <1>2, <2>2 DEF HealthInv, ToBeRepaired
  <2> QED BY <1>1, <2>2, <2>3, <2>4 DEF HealthInv
<1> QED BY <1>3, <1>4

\* A version is added to the registry, as it was read unless the run was disturbed.
LEMMA BackfillInv == ASSUME HealthInv, BackfillMilestones PROVE HealthInv'
<1>1. /\ backfilling # NoBackfill /\ backfilling' = NoBackfill /\ seen' = seen \ {backfilling.version}
      /\ plan' = [plan EXCEPT !.registry = backfilling.registry \cup {backfilling.version}]
      /\ UNCHANGED <<queue, held, settled, dropped>>
  BY DEF BackfillMilestones
<1>2. /\ queue # <<>> /\ Head(queue).do = "backfillMilestones" /\ held = Absent /\ HealthTyped
      /\ (settled > 0 => plan.there)
  BY <1>1 DEF HealthInv, HealthTyped, KeyOf
<1>3. "backfillMilestones" \in DosOf(queue)
  BY <1>2, QueueTail DEF HealthTyped
<1>4. /\ DOMAIN plan' = PlanFields /\ plan'.config = plan.config /\ plan'.there = plan.there
      /\ plan'.snapshots = plan.snapshots /\ plan'.registry = backfilling.registry \cup {backfilling.version}
      /\ plan'.state = plan.state
  BY <1>1, <1>2 DEF HealthTyped, PlanFields
<1>5. settled > 0 => MissingFromRegistry' \subseteq seen'
  <2> SUFFICES ASSUME settled > 0 PROVE MissingFromRegistry' \subseteq seen'
    OBVIOUS
  <2>1. backfilling.registry = plan.registry /\ MissingFromRegistry \subseteq seen
    BY <1>1, <1>2, <1>3 DEF HealthInv, ToBeRepaired
  <2> QED BY <1>1, <1>4, <2>1 DEF MissingFromRegistry
<1>6. HealthTyped'
  BY <1>1, <1>2, <1>4 DEF HealthTyped
<1>7. ToBeRepaired'
  BY <1>1, <1>2, <1>3, <1>4, <1>5 DEF HealthInv, ToBeRepaired
<1> QED BY <1>1, <1>2, <1>4, <1>6, <1>7 DEF HealthInv

\* The configuration is written anew: there was none to be read, unless the run was disturbed.
LEMMA WriteConfigInv == ASSUME HealthInv, WriteConfig PROVE HealthInv'
<1>1. /\ queue # <<>> /\ queue' = Tail(queue) /\ UNCHANGED <<held, backfilling, settled, seen>>
      /\ Head(queue).do = "writeConfig" /\ plan' = [plan EXCEPT !.config = DefaultConfig]
  BY DEF WriteConfig, Next1, Quiet
<1>2. held = Absent /\ backfilling = NoBackfill /\ HealthTyped
  BY <1>1 DEF HealthInv, HealthTyped, KeyOf
<1>3. /\ Once(queue') /\ DosOf(queue') = DosOf(queue) \ {"writeConfig"}
      /\ "writeConfig" \in DosOf(queue) /\ (settled > 0 => plan.there)
  BY <1>1, RepairTaken
<1>4. settled > 0 => plan.config \in {Absent, Broken} /\ settled = 1
  BY <1>2, <1>3 DEF HealthInv, ToBeRepaired, HealthTyped
<1>5. dropped' = FALSE
  BY <1>4 DEF WriteConfig, HealthInv
<1>6. DefaultConfig \in Configs /\ DefaultConfig.nyquist = TRUE
  BY DEF DefaultConfig, Configs
<1>7. /\ DOMAIN plan' = PlanFields /\ plan'.config = DefaultConfig /\ plan'.there = plan.there
      /\ plan'.snapshots = plan.snapshots /\ plan'.registry = plan.registry
      /\ plan'.state = plan.state
  BY <1>1, <1>2 DEF HealthTyped, PlanFields
<1>8. MissingFromRegistry' = MissingFromRegistry
  BY <1>7 DEF MissingFromRegistry
<1>9. HealthTyped'
  BY <1>1, <1>2, <1>3, <1>6, <1>7 DEF HealthTyped
<1>10. ToBeRepaired'
  <2>1. plan'.config \notin {Absent, Broken}
    BY <1>6, <1>7, ReadableOrNot
  <2> QED BY <1>1, <1>2, <1>3, <1>4, <1>6, <1>7, <1>8, <2>1 DEF HealthInv, ToBeRepaired
<1> QED BY <1>1, <1>3, <1>5, <1>7, <1>9, <1>10 DEF HealthInv

\* The configuration is read for a key: one that has it, or cannot be read, is left alone.
LEMMA ReadForKeyInv == ASSUME HealthInv, ReadForKey PROVE HealthInv'
<1>1. /\ queue # <<>> /\ Head(queue).do \in DOMAIN KeyOf /\ held = Absent
      /\ UNCHANGED <<plan, backfilling, settled, dropped, seen>>
  BY DEF ReadForKey, Quiet
<1>2. HealthTyped /\ backfilling = NoBackfill /\ MissingFromRegistry' = MissingFromRegistry
  BY <1>1 DEF HealthInv, HealthTyped, MissingFromRegistry, KeyOf
<1>3. CASE plan.config \in {Absent, Broken} \/ plan.config[KeyOf[Head(queue).do]]
  <2>1. queue' = Tail(queue) /\ held' = held
    BY <1>3 DEF ReadForKey
  <2>2. /\ Once(queue') /\ DosOf(queue') = DosOf(queue) \ {Head(queue).do}
        /\ (settled > 0 => plan.there)
    BY <1>1, <2>1, RepairTaken
  <2>3. /\ Head(queue).do \in {"addNyquistKey", "addAiIntegrationPhaseKey"}
        /\ Head(queue).do = "addNyquistKey" => KeyOf[Head(queue).do] = "nyquist"
        /\ Head(queue).do = "addAiIntegrationPhaseKey" => KeyOf[Head(queue).do] = "ai"
    BY <1>1 DEF KeyOf
  <2>4. plan.config \in Configs =>
          /\ Head(queue).do = "addNyquistKey" => plan.config.nyquist
          /\ Head(queue).do = "addAiIntegrationPhaseKey" => plan.config.ai
    BY <1>3, <2>3, ReadableOrNot
  <2>5. HealthTyped'
    BY <1>1, <1>2, <2>1, <2>2 DEF HealthTyped
  <2>6. ToBeRepaired'
    BY <1>1, <1>2, <2>1, <2>2, <2>3, <2>4 DEF HealthInv, ToBeRepaired
  <2> QED BY <1>1, <2>2, <2>5, <2>6 DEF HealthInv
<1>4. CASE ~ (plan.config \in {Absent, Broken} \/ plan.config[KeyOf[Head(queue).do]])
  <2>1. held' = plan.config /\ queue' = queue
    BY <1>4 DEF ReadForKey
  <2>2. HealthTyped'
    BY <1>1, <1>2, <1>4, <2>1 DEF HealthTyped
  <2>3. ToBeRepaired'
    BY <1>1, <1>2, <2>1 DEF HealthInv, ToBeRepaired
  <2> QED BY <1>1, <2>1, <2>2, <2>3 DEF HealthInv
<1> QED BY <1>3, <1>4

\* The configuration is written with the key, as it was read unless the run was disturbed.
LEMMA WriteKeyInv == ASSUME HealthInv, WriteKey PROVE HealthInv'
<1>1. /\ queue # <<>> /\ Head(queue).do \in DOMAIN KeyOf /\ held # Absent /\ queue' = Tail(queue)
      /\ plan' = [plan EXCEPT !.config = WithKey(held, Head(queue).do)]
      /\ held' = Absent /\ UNCHANGED <<backfilling, settled, seen>>
  BY DEF WriteKey, Quiet
<1>2. held \in Configs /\ backfilling = NoBackfill /\ HealthTyped
  BY <1>1 DEF HealthInv, HealthTyped, KeyOf
<1>3. /\ Once(queue') /\ DosOf(queue') = DosOf(queue) \ {Head(queue).do}
      /\ (settled > 0 => plan.there)
  BY <1>1, RepairTaken
<1>4. settled > 0 => plan.config = held
  BY <1>1, <1>3 DEF HealthInv, ToBeRepaired
<1>5. dropped' = FALSE
  BY <1>4 DEF WriteKey, HealthInv
<1>6. /\ Head(queue).do \in {"addNyquistKey", "addAiIntegrationPhaseKey"}
      /\ Head(queue).do = "addNyquistKey" =>
           WithKey(held, Head(queue).do) = [held EXCEPT !.nyquist = TRUE]
      /\ Head(queue).do = "addAiIntegrationPhaseKey" =>
           WithKey(held, Head(queue).do) = [held EXCEPT !.ai = TRUE]
  <2>1. Head(queue).do \in {"addNyquistKey", "addAiIntegrationPhaseKey"}
    BY <1>1 DEF KeyOf
  <2>2. KeyOf["addNyquistKey"] = "nyquist" /\ KeyOf["addAiIntegrationPhaseKey"] = "ai"
    BY DEF KeyOf
  <2>3. /\ WithKey(held, "addNyquistKey") = [held EXCEPT !["nyquist"] = TRUE]
        /\ WithKey(held, "addAiIntegrationPhaseKey") = [held EXCEPT !["ai"] = TRUE]
    BY <2>2 DEF WithKey
  <2> QED BY <2>1, <2>3
<1>7. PICK new \in Configs :
        /\ new = WithKey(held, Head(queue).do)
        /\ new.nyquist \/ (new.nyquist = held.nyquist /\ Head(queue).do # "addNyquistKey")
        /\ new.ai \/ (new.ai = held.ai /\ Head(queue).do # "addAiIntegrationPhaseKey")
  BY <1>2, <1>6 DEF Configs
<1>8. /\ DOMAIN plan' = PlanFields /\ plan'.config = new /\ plan'.there = plan.there
      /\ plan'.snapshots = plan.snapshots /\ plan'.registry = plan.registry
      /\ plan'.state = plan.state
  BY <1>1, <1>2, <1>7 DEF HealthTyped, PlanFields
<1>9. MissingFromRegistry' = MissingFromRegistry
  BY <1>8 DEF MissingFromRegistry
<1>10. HealthTyped'
  BY <1>1, <1>2, <1>3, <1>8 DEF HealthTyped
<1>11. ToBeRepaired'
  <2>1. plan'.config \notin {Absent, Broken}
    BY <1>8, ReadableOrNot
  <2>2. settled > 0 => plan.config \notin {Absent, Broken} /\ "writeConfig" \notin DosOf(queue)
    BY <1>2, <1>3, <1>4, ReadableOrNot DEF HealthInv, ToBeRepaired
  <2> QED BY <1>1, <1>2, <1>3, <1>4, <1>6, <1>7, <1>8, <1>9, <2>1, <2>2 DEF HealthInv, ToBeRepaired
<1> QED BY <1>1, <1>3, <1>5, <1>8, <1>10, <1>11 DEF HealthInv

\* What disturbs a run starts anew.
LEMMA Disturbed ==
  ASSUME HealthInv, settled' = 0, DOMAIN plan' = PlanFields, plan'.config \in {Absent, Broken} \cup Configs,
         UNCHANGED <<queue, seen, held, backfilling, dropped>>
  PROVE  HealthInv'
  BY DEF HealthInv, HealthTyped, ToBeRepaired

\* What others do to the directory.
LEMMA ChangedInv ==
  ASSUME HealthInv, ConfigSets \/ Damages \/ FinishesPhase \/ ArchivesMilestone
  PROVE  HealthInv'
<1> DEFINE Readable == plan.config \in {Absent, Broken} \cup Configs
<1>1. DOMAIN plan = PlanFields /\ Readable
  BY DEF HealthInv, HealthTyped
<1>2. ASSUME NEW new, Change(new), DOMAIN new = PlanFields, new.config \in {Absent, Broken} \cup Configs
      PROVE  HealthInv'
  BY <1>2, Disturbed DEF Change
<1>3. ASSUME NEW c \in {Absent, Broken} \cup Configs, Change([plan EXCEPT !.config = c]) PROVE HealthInv'
  <2>1. /\ DOMAIN [plan EXCEPT !.config = c] = PlanFields
        /\ [plan EXCEPT !.config = c].config \in {Absent, Broken} \cup Configs
    BY <1>1 DEF PlanFields
  <2> QED BY <1>2, <1>3, <2>1
<1>4. CASE ConfigSets
  <2> DEFINE c == IF plan.config = Absent THEN [nyquist |-> TRUE, ai |-> TRUE, odd |-> {}, own |-> TRUE]
                  ELSE [plan.config EXCEPT !.own = TRUE]
  <2>1. plan.config # Broken /\ Change([plan EXCEPT !.config = c])
    BY <1>1, <1>4 DEF ConfigSets, PlanFields
  <2>2. c \in Configs
    BY <1>1, <2>1 DEF Configs
  <2> HIDE DEF c
  <2> QED BY <1>3, <2>1, <2>2
<1>5. CASE Damages
  <2>1. ASSUME NEW o \in SUBSET OddSettings, plan.config \notin {Absent, Broken},
               Change([plan EXCEPT !.config.odd = o])
        PROVE  HealthInv'
    <3> DEFINE c == [plan.config EXCEPT !.odd = o]
    <3>1. c \in Configs
      BY <1>1, <2>1 DEF Configs
    <3>2. Change([plan EXCEPT !.config = c])
      BY <1>1, <2>1 DEF PlanFields
    <3> HIDE DEF c
    <3> QED BY <1>3, <3>1, <3>2
  <2>2. ASSUME Change([plan EXCEPT !.state = Absent]) \/ Change([plan EXCEPT !.stray = TRUE]) PROVE HealthInv'
    <3>1. /\ DOMAIN [plan EXCEPT !.state = Absent] = PlanFields
          /\ DOMAIN [plan EXCEPT !.stray = TRUE] = PlanFields
          /\ [plan EXCEPT !.state = Absent].config = plan.config
          /\ [plan EXCEPT !.stray = TRUE].config = plan.config
      BY <1>1 DEF PlanFields
    <3> QED BY <1>1, <1>2, <2>2, <3>1
  <2> QED BY <1>3, <1>5, <2>1, <2>2 DEF Damages
<1>6. CASE FinishesPhase
  <2>1. PICK p, t, s, c, d :
          Change([plan EXCEPT !.roadmap.ticked = t, !.dirs[p].summaries = s, !.state.current = c,
                              !.state.status = d])
    BY <1>6 DEF FinishesPhase
  <2> QED BY <1>1, <1>2, <2>1 DEF PlanFields
<1>7. CASE ArchivesMilestone
  <2>1. PICK v, r :
          Change([plan EXCEPT !.snapshots = @ \cup {v}, !.archived[v] = DOMAIN plan.dirs,
                              !.dirs = <<>>, !.registry = r])
    BY <1>7 DEF ArchivesMilestone
  <2> QED BY <1>1, <1>2, <2>1 DEF PlanFields
<1> QED BY <1>4, <1>5, <1>6, <1>7

\* Every step keeps the invariant.
LEMMA HealthStep == HealthInv /\ [HealthNext]_healthVars => HealthInv'
<1> SUFFICES ASSUME HealthInv, [HealthNext]_healthVars PROVE HealthInv'
  OBVIOUS
<1>1. ASSUME UNCHANGED healthVars PROVE HealthInv'
  <2>1. UNCHANGED <<plan, queue, held, backfilling, settled, dropped, seen>>
    BY <1>1 DEF healthVars
  <2>2. MissingFromRegistry' = MissingFromRegistry
    BY <2>1 DEF MissingFromRegistry
  <2> QED BY <2>1, <2>2 DEF HealthInv, HealthTyped, ToBeRepaired
<1>2. ASSUME CheckConsistency PROVE HealthInv'
  <2>1. UNCHANGED <<plan, queue, held, backfilling, settled, dropped, seen>>
    BY <1>2 DEF CheckConsistency
  <2>2. MissingFromRegistry' = MissingFromRegistry
    BY <2>1 DEF MissingFromRegistry
  <2> QED BY <2>1, <2>2 DEF HealthInv, HealthTyped, ToBeRepaired
<1>3. ASSUME RepairFails PROVE HealthInv'
  <2>1. /\ queue # <<>> /\ queue' = Tail(queue) /\ held' = Absent /\ settled' = 0
        /\ Head(queue).do # "backfillMilestones" /\ UNCHANGED <<plan, backfilling, dropped>>
    BY <1>3 DEF RepairFails
  <2>2. Once(queue') /\ backfilling = NoBackfill
    BY <2>1, RepairTaken DEF HealthInv, HealthTyped
  <2> QED BY <2>1, <2>2 DEF HealthInv, HealthTyped, ToBeRepaired
<1>4. ASSUME BackfillSkips PROVE HealthInv'
  BY <1>4 DEF BackfillSkips, HealthInv, HealthTyped, ToBeRepaired
<1> QED BY <1>1, <1>2, <1>3, <1>4, CheckInv, RegenerateStateInv, BackfillReadsInv, BackfillInv, WriteConfigInv, ReadForKeyInv, WriteKeyInv,
           ChangedInv DEF HealthNext

\* A run with --repair that nothing disturbs settles, and takes away no setting of the user's,
\* for every directory and every milestone.
THEOREM RepairsSettle == HealthSpec => []RepairSettles
<1>1. HealthInv => RepairSettles
  BY HealthSettled
<1> QED BY <1>1, HealthInitInv, HealthStep, PTL DEF HealthSpec

\* Each repair is in the queue once, and there are five.
LEMMA FewRepairs == ASSUME NEW q, Once(q) PROVE Len(q) <= 5
<1>1. q \in Seq(RepairSteps) /\ Len(q) \in Nat /\ DOMAIN q = 1 .. Len(q)
  BY DEF Once
<1> SUFFICES ASSUME Len(q) >= 6 PROVE FALSE
  BY <1>1
<1>2. \A i \in 1 .. 6 : i \in DOMAIN q
  BY <1>1
<1>3. \A i \in 1 .. 6 : q[i].do \in Dos
  <2>1. \A i \in DOMAIN q : q[i] \in RepairSteps
    BY <1>1
  <2>2. \A r \in RepairSteps : r.do \in Dos
    BY DEF RepairSteps
  <2> QED BY <1>2, <2>1, <2>2
<1>4. \A i, j \in 1 .. 6 : q[i].do = q[j].do => i = j
  BY <1>2 DEF Once
<1> DEFINE d(i) == q[i].do
<1>5. \A i \in 1 .. 6 : d(i) \in Dos
  BY <1>3
<1>6. /\ d(1) # d(2) /\ d(1) # d(3) /\ d(1) # d(4) /\ d(1) # d(5) /\ d(1) # d(6)
      /\ d(2) # d(3) /\ d(2) # d(4) /\ d(2) # d(5) /\ d(2) # d(6)
      /\ d(3) # d(4) /\ d(3) # d(5) /\ d(3) # d(6) /\ d(4) # d(5) /\ d(4) # d(6) /\ d(5) # d(6)
  BY <1>4
<1> HIDE DEF d
<1>7. d(1) \in Dos /\ d(2) \in Dos /\ d(3) \in Dos /\ d(4) \in Dos /\ d(5) \in Dos /\ d(6) \in Dos
  BY <1>5
<1> QED
  BY <1>6, <1>7 DEF Dos

\* The registry and the snapshots are of milestones, and what disturbs is counted.
HealthCounted ==
  /\ plan.snapshots \subseteq HealthVersions /\ plan.registry \subseteq HealthVersions
  /\ seen \subseteq HealthVersions /\ (backfilling # NoBackfill => backfilling.registry \subseteq HealthVersions)
  /\ changes \in 0 .. MaxHealthChanges /\ healthFaults \in 0 .. MaxHealthFaults

LEMMA HealthCountedStarts == HealthInit => HealthCounted
<1> SUFFICES ASSUME HealthInit PROVE HealthCounted
  OBVIOUS
<1>1. plan.snapshots \cup plan.registry \subseteq HealthVersions
  BY HealthAssumption DEF HealthInit
<1>2. MaxHealthChanges \in Nat /\ MaxHealthFaults \in Nat
  BY HealthAssumption
<1> QED
  BY <1>1, <1>2 DEF HealthInit, HealthCounted

LEMMA HealthCountedStep == HealthInv /\ HealthCounted /\ [HealthNext]_healthVars => HealthCounted'
<1> SUFFICES ASSUME HealthInv, HealthCounted, [HealthNext]_healthVars PROVE HealthCounted'
  OBVIOUS
<1>0. /\ DOMAIN plan = PlanFields /\ changes \in 0 .. MaxHealthChanges /\ healthFaults \in 0 .. MaxHealthFaults
      /\ MaxHealthChanges \in Nat /\ MaxHealthFaults \in Nat
  BY HealthAssumption DEF HealthInv, HealthTyped, HealthCounted
<1>1. ASSUME UNCHANGED <<plan, backfilling, changes>>, seen' \subseteq seen,
             healthFaults' = healthFaults \/ (healthFaults < MaxHealthFaults /\ healthFaults' = healthFaults + 1)
      PROVE  HealthCounted'
  BY <1>0, <1>1 DEF HealthCounted
<1>2. CASE UNCHANGED healthVars \/ CheckConsistency \/ ReadForKey \/ RepairFails
  BY <1>1, <1>2 DEF healthVars, CheckConsistency, ReadForKey, RepairFails, Quiet
<1>3. ASSUME NEW repair, NEW backfill, NEW outside, Check(repair, backfill, outside) PROVE HealthCounted'
  BY <1>3 DEF Check, MissingFromRegistry, HealthCounted
<1>4. CASE WriteConfig \/ RegenerateState \/ WriteKey
  <2>1. plan'.snapshots = plan.snapshots /\ plan'.registry = plan.registry
    BY <1>0, <1>4 DEF WriteConfig, RegenerateState, WriteKey, PlanFields
  <2>2. UNCHANGED <<seen, backfilling, changes, healthFaults>>
    BY <1>4 DEF WriteConfig, RegenerateState, WriteKey, Quiet
  <2> QED BY <2>1, <2>2 DEF HealthCounted
<1>5. CASE BackfillReads \/ BackfillMilestones \/ BackfillSkips
  <2>1. CASE BackfillReads
    <3>1. backfilling' \in {backfilling} \/ backfilling'.registry = plan.registry
      BY <2>1 DEF BackfillReads
    <3> QED BY <2>1, <3>1 DEF BackfillReads, HealthCounted
  <2>2. CASE BackfillMilestones
    <3>1. plan'.snapshots = plan.snapshots /\ plan'.registry = backfilling.registry \cup {backfilling.version}
      BY <1>0, <2>2 DEF BackfillMilestones, PlanFields
    <3>2. backfilling # NoBackfill /\ backfilling.version \in seen
      BY <2>2 DEF BackfillMilestones, HealthInv, HealthTyped
    <3> QED BY <2>2, <3>1, <3>2 DEF BackfillMilestones, HealthCounted
  <2>3. CASE BackfillSkips
    BY <1>0, <2>3 DEF BackfillSkips, HealthCounted
  <2> QED BY <1>5, <2>1, <2>2, <2>3
<1>6. ASSUME NEW new, Change(new), new.snapshots \subseteq HealthVersions, new.registry \subseteq HealthVersions
      PROVE  HealthCounted'
  BY <1>0, <1>6 DEF Change, HealthCounted
<1>7. CASE ConfigSets
  <2>1. PICK c : Change([plan EXCEPT !.config = c])
    BY <1>7 DEF ConfigSets
  <2> QED BY <1>0, <1>6, <2>1 DEF HealthCounted, PlanFields
<1>8. CASE Damages
  <2>1. PICK c, o : \/ Change([plan EXCEPT !.config = c]) \/ Change([plan EXCEPT !.state = Absent])
                    \/ Change([plan EXCEPT !.config.odd = o]) \/ Change([plan EXCEPT !.stray = TRUE])
    BY <1>8 DEF Damages
  <2> QED BY <1>0, <1>6, <2>1 DEF HealthCounted, PlanFields
<1>9. CASE FinishesPhase
  <2>1. PICK p, t, s, c, d :
          Change([plan EXCEPT !.roadmap.ticked = t, !.dirs[p].summaries = s, !.state.current = c,
                              !.state.status = d])
    BY <1>9 DEF FinishesPhase
  <2> QED BY <1>0, <1>6, <2>1 DEF HealthCounted, PlanFields
<1>10. CASE ArchivesMilestone
  <2>1. PICK v \in HealthVersions, registered \in BOOLEAN :
          Change([plan EXCEPT !.snapshots = @ \cup {v}, !.archived[v] = DOMAIN plan.dirs,
                  !.dirs = <<>>, !.registry = IF registered THEN @ \cup {v} ELSE @])
    BY <1>10 DEF ArchivesMilestone
  <2> DEFINE new == [plan EXCEPT !.snapshots = @ \cup {v}, !.archived[v] = DOMAIN plan.dirs,
                       !.dirs = <<>>, !.registry = IF registered THEN @ \cup {v} ELSE @]
  <2>2. new.snapshots = plan.snapshots \cup {v} /\ new.registry \subseteq plan.registry \cup {v}
    BY <1>0 DEF PlanFields
  <2> HIDE DEF new
  <2> QED BY <1>6, <2>1, <2>2 DEF HealthCounted, new
<1> QED
  BY <1>2, <1>3, <1>4, <1>5, <1>7, <1>8, <1>9, <1>10 DEF HealthNext

\* The check and its repairs keep their types: the registry is of milestones that were, and a
\* configuration that was read is that of the repair at the head of the queue.
THEOREM PlanningHealthTyped == HealthSpec => []HealthTypeOK
<1>1. HealthSpec => []HealthInv
  BY HealthInitInv, HealthStep, PTL DEF HealthSpec
<1>2. HealthSpec => []HealthCounted
  BY <1>1, HealthCountedStarts, HealthCountedStep, PTL DEF HealthSpec
<1>3. HealthInv /\ HealthCounted => HealthTypeOK
  <2> SUFFICES ASSUME HealthInv, HealthCounted PROVE HealthTypeOK
    OBVIOUS
  <2>1. Len(queue) <= 5
    BY FewRepairs DEF HealthInv, HealthTyped
  <2>2. FALSE \in BOOLEAN
    OBVIOUS
  <2>3. dropped \in BOOLEAN
    BY <2>2, Zenon DEF HealthInv
  <2> QED BY <2>1, <2>3, Zenon DEF HealthInv, HealthTyped, HealthCounted, HealthTypeOK
<1> QED
  BY <1>1, <1>2, <1>3, PTL

----------------------------------------------------------------------------
(* ModelRouting.  A retry is not weaker, for every configuration.          *)

\* What was resolved is what the configuration says of the attempt.
RoutingInv ==
  /\ cfg \in RoutingConfigs /\ agentType \in AgentTypes /\ attempt \in Nat
  /\ resolved = ResolveExecution(cfg, agentType, attempt)

\* Every level has its place.
LEMMA LevelOf ==
  ASSUME NEW i \in 1 .. 6 PROVE EffortLevel(Efforts[i]) = i /\ Len(Efforts) = 6
<1>1. Len(Efforts) = 6
  BY DEF Efforts
<1>2. \A j \in 1 .. 6 : Efforts[j] = Efforts[i] => j = i
  BY DEF Efforts
<1> QED BY <1>1, <1>2 DEF EffortLevel

LEMMA LevelsAre == \A e : e \in EffortSet <=> \E i \in 1 .. 6 : e = Efforts[i]
  BY DEF EffortSet, Efforts

\* So many levels up, from level i.
LEMMA RaisedLevel ==
  ASSUME NEW i \in 1 .. 6, NEW n \in Nat
  PROVE  Raise(Efforts[i], n) = Efforts[IF i + n > 6 THEN 6 ELSE i + n]
  BY LevelOf DEF Raise

\* What a runtime makes of a higher level is not lower.
LEMMA ClampMonotone ==
  ASSUME NEW r, NEW i \in 1 .. 6, NEW j \in i .. 6
  PROVE  EffortLevel(Clamp(r, Efforts[i])) <= EffortLevel(Clamp(r, Efforts[j]))
<1> DEFINE at(k) == IF r = "claude" /\ k = 1 THEN 2 ELSE IF r = "codex" /\ k = 6 THEN 5 ELSE k
<1>1. ASSUME NEW k \in 1 .. 6 PROVE Clamp(r, Efforts[k]) = Efforts[at(k)] /\ at(k) \in 1 .. 6
  BY DEF Clamp, Efforts
<1>2. at(i) <= at(j)
  OBVIOUS
<1> HIDE DEF at
<1> QED BY <1>1, <1>2, LevelOf

\* The effort before anything is raised is one of the levels.
LEMMA BaseIsLevel ==
  ASSUME NEW c \in RoutingConfigs, NEW a \in AgentTypes
  PROVE  \E i \in 1 .. 6 : ResolveEffort(c, a) = Efforts[i]
<1>1. ManifestEffort[a.routing] \in {"low", "high", "xhigh"}
  BY RoutingAssumption DEF ManifestEffort
<1>2. {"low", "high", "xhigh"} \subseteq EffortSet
  BY LevelsAre DEF Efforts
<1>3. ResolveEffort(c, a) \in EffortSet
  BY <1>1, <1>2 DEF ResolveEffort
<1> QED BY <1>3, LevelsAre

\* The attempt after a failure has a level that is not lower, and the same past the cap.
LEMMA HigherOrSame ==
  ASSUME NEW c \in RoutingConfigs, NEW a \in AgentTypes, NEW n \in Nat
  PROVE  \E i \in 1 .. 6, j \in 1 .. 6 :
           /\ ResolveEffortForTier(c, a, n) = Efforts[i]
           /\ ResolveEffortForTier(c, a, n + 1) = Efforts[j]
           /\ i <= j /\ (n + 1 > c.routing.cap => i = j)
<1>1. PICK b \in 1 .. 6 : ResolveEffort(c, a) = Efforts[b]
  BY BaseIsLevel
<1> DEFINE least(m) == IF m < c.routing.cap THEN m ELSE c.routing.cap
           at(m) == IF b + least(m) > 6 THEN 6 ELSE b + least(m)
<1>2. c.routing.cap \in Nat
  BY RoutingAssumption
<1>3. CASE c.routing.enabled /\ c.routing.escalates
  <2>1. ASSUME NEW m \in Nat PROVE ResolveEffortForTier(c, a, m) = Efforts[at(m)] /\ at(m) \in 1 .. 6
    <3>1. least(m) \in Nat
      BY <1>2
    <3>2. ResolveEffortForTier(c, a, m) = Raise(Efforts[b], least(m))
      BY <1>1, <1>3 DEF ResolveEffortForTier
    <3> HIDE DEF least
    <3> QED BY <3>1, <3>2, RaisedLevel
  <2>2. at(n) <= at(n + 1) /\ (n + 1 > c.routing.cap => at(n) = at(n + 1))
    BY <1>2
  <2> HIDE DEF at
  <2> QED BY <2>1, <2>2
<1>4. CASE ~ (c.routing.enabled /\ c.routing.escalates)
  BY <1>1, <1>4 DEF ResolveEffortForTier
<1> QED BY <1>3, <1>4

\* A retry from a state of the invariant is not weaker, and keeps it.
LEMMA RetryKeeps ==
  ASSUME RoutingInv, Retry
  PROVE  /\ RoutingInv'
         /\ resolved'.model = resolved.model
         /\ EffortLevel(resolved'.effort) >= EffortLevel(resolved.effort)
         /\ EffortLevel(resolved'.rendered) >= EffortLevel(resolved.rendered)
         /\ attempt' > cfg.routing.cap => resolved'.effort = resolved.effort
<1>1. /\ cfg' = cfg /\ agentType' = agentType /\ attempt' = attempt + 1
      /\ resolved' = ResolveExecution(cfg, agentType, attempt + 1)
      /\ resolved = ResolveExecution(cfg, agentType, attempt)
      /\ cfg \in RoutingConfigs /\ agentType \in AgentTypes /\ attempt \in Nat
  BY DEF RoutingInv, Retry
<1>2. PICK i \in 1 .. 6, j \in 1 .. 6 :
        /\ ResolveEffortForTier(cfg, agentType, attempt) = Efforts[i]
        /\ ResolveEffortForTier(cfg, agentType, attempt + 1) = Efforts[j]
        /\ i <= j /\ (attempt + 1 > cfg.routing.cap => i = j)
  BY <1>1, HigherOrSame
<1>3. /\ resolved.effort = Efforts[i] /\ resolved'.effort = Efforts[j]
      /\ resolved.rendered = Clamp(Runtime(cfg), Efforts[i])
      /\ resolved'.rendered = Clamp(Runtime(cfg), Efforts[j])
      /\ resolved'.model = resolved.model
  BY <1>1, <1>2 DEF ResolveExecution
<1>4. EffortLevel(Efforts[i]) = i /\ EffortLevel(Efforts[j]) = j
  BY LevelOf
<1>5. EffortLevel(Clamp(Runtime(cfg), Efforts[i])) <= EffortLevel(Clamp(Runtime(cfg), Efforts[j]))
  BY <1>2, ClampMonotone
<1>6. EffortLevel(resolved'.rendered) >= EffortLevel(resolved.rendered)
  <2>1. \A r : \A k \in 1 .. 6 : EffortLevel(Clamp(r, Efforts[k])) \in 1 .. 6
    <3> TAKE r
    <3> TAKE k \in 1 .. 6
    <3>1. \E m \in 1 .. 6 : Clamp(r, Efforts[k]) = Efforts[m]
      BY DEF Clamp, Efforts
    <3> QED BY <3>1, LevelOf
  <2> QED BY <1>3, <1>5, <2>1
<1>7. RoutingInv'
  BY <1>1 DEF RoutingInv
<1> QED BY <1>1, <1>2, <1>3, <1>4, <1>6, <1>7

\* For every configuration, every agent of the catalog and every number of attempts: an agent
\* that is spawned again has the same model and no lower effort.
THEOREM RetriesKeepUp == RoutingSpec => RetryIsNotWeaker
<1> DEFINE NotWeaker == /\ resolved'.model = resolved.model
                        /\ EffortLevel(resolved'.effort) >= EffortLevel(resolved.effort)
                        /\ EffortLevel(resolved'.rendered) >= EffortLevel(resolved.rendered)
                        /\ attempt' > cfg.routing.cap => resolved'.effort = resolved.effort
<1>1. RoutingInit => RoutingInv
  BY DEF RoutingInit, RoutingInv
<1>2. RoutingInv /\ [RoutingNext]_routingVars => RoutingInv'
  <2>1. RoutingInv /\ UNCHANGED routingVars => RoutingInv'
    BY DEF RoutingInv, routingVars
  <2> QED BY <2>1, RetryKeeps DEF RoutingNext
<1>3. RoutingInv /\ [RoutingNext]_routingVars => [NotWeaker]_routingVars
  BY RetryKeeps DEF RoutingNext
<1> HIDE DEF NotWeaker
<1>4. RoutingSpec => [][NotWeaker]_routingVars
  BY <1>1, <1>2, <1>3, PTL DEF RoutingSpec
<1> QED BY <1>4 DEF RetryIsNotWeaker, NotWeaker

\* Who names the model, and which tier it is of.
LEMMA ModelTyped ==
  ASSUME NEW c, NEW a \in AgentTypes
  PROVE  /\ ResolveModel(c, a).by \in {"override", "policy", "runtime", "omitted", "id", "alias"}
         /\ ResolveModel(c, a).tier \in ModelTiers \cup {"inherit", "fixed", None}
<1>1. AdaptiveTierMap[a.routing] \in ModelTiers
  BY RoutingAssumption DEF AdaptiveTierMap, ModelTiers
<1>2. ModelProfile(a, c.profile) \in ModelTiers
  BY <1>1, RoutingAssumption DEF ModelProfile
<1>3. TierFor(c, a) \in ModelTiers \cup {"inherit"}
  BY <1>2 DEF TierFor
<1>4. \E by \in {"override", "policy", "runtime", "omitted", "id", "alias"},
         tier \in {TierFor(c, a), "fixed", None} : ResolveModel(c, a) = [by |-> by, tier |-> tier]
  BY DEF ResolveModel
<1> QED
  BY <1>3, <1>4

\* What a runtime makes of an effort is one it takes.
LEMMA ClampSupported == ASSUME NEW r, NEW e \in EffortSet PROVE Clamp(r, e) \in Supported(r)
<1>1. "low" \in EffortSet /\ "xhigh" \in EffortSet
  BY LevelsAre DEF Efforts
<1> QED
  BY <1>1 DEF Clamp, Supported

LEMMA FastTyped ==
  ASSUME NEW c \in RoutingConfigs, NEW a \in AgentTypes PROVE ResolveFastMode(c, a) \in BOOLEAN
<1>1. ManifestFast[a.routing] \in BOOLEAN
  <2>1. a.routing \in {"light", "standard", "heavy"}
    BY RoutingAssumption
  <2>2. ManifestFast[a.routing] = TRUE \/ ManifestFast[a.routing] = FALSE
    BY <2>1 DEF ManifestFast
  <2>3. TRUE \in BOOLEAN /\ FALSE \in BOOLEAN
    OBVIOUS
  <2> QED BY <2>2, <2>3, Zenon
<1>2. c.fast.set => c.fast.enabled \in BOOLEAN
  BY RoutingAssumption
<1>3. (c.fast.tiers[a.routing] = "yes") \in BOOLEAN
  BY Zenon
<1> QED
  BY <1>1, <1>2, <1>3 DEF ResolveFastMode

\* Every agent that is spawned has a model, an effort that its runtime takes, and a mode,
\* however often it has failed.
THEOREM RoutingTyped == RoutingSpec => []RoutingTypeOK
<1> DEFINE Bounded == attempt <= MaxAttempts
<1>1. RoutingInit => RoutingInv /\ Bounded
  BY RoutingAssumption DEF RoutingInit, RoutingInv
<1>2. RoutingInv /\ Bounded /\ [RoutingNext]_routingVars => RoutingInv' /\ Bounded'
  <2>1. RoutingInv /\ Bounded /\ UNCHANGED routingVars => RoutingInv' /\ Bounded'
    BY DEF RoutingInv, routingVars
  <2>2. RoutingInv /\ Retry => Bounded'
    BY RoutingAssumption DEF RoutingInv, Retry
  <2> QED BY <2>1, <2>2, RetryKeeps DEF RoutingNext
<1>3. RoutingInv /\ Bounded => RoutingTypeOK
  <2> SUFFICES ASSUME RoutingInv, Bounded PROVE RoutingTypeOK
    OBVIOUS
  <2>1. cfg \in RoutingConfigs /\ agentType \in AgentTypes /\ attempt \in Nat
        /\ resolved = ResolveExecution(cfg, agentType, attempt)
    BY DEF RoutingInv
  <2>2. ResolveEffortForTier(cfg, agentType, attempt) \in EffortSet
    BY <2>1, HigherOrSame, LevelsAre
  <2>3. Clamp(Runtime(cfg), ResolveEffortForTier(cfg, agentType, attempt)) \in Supported(Runtime(cfg))
    BY <2>2, ClampSupported
  <2>4. /\ resolved.model = ResolveModel(cfg, agentType)
        /\ resolved.effort = ResolveEffortForTier(cfg, agentType, attempt)
        /\ resolved.rendered = Clamp(Runtime(cfg), ResolveEffortForTier(cfg, agentType, attempt))
        /\ resolved.fast = ResolveFastMode(cfg, agentType)
    BY <2>1 DEF ResolveExecution
  <2>5. resolved.fast \in BOOLEAN
    BY <2>1, <2>4, FastTyped
  <2>6. attempt \in 0 .. MaxAttempts
    BY <2>1, RoutingAssumption
  <2>7. resolved.model.by \in {"override", "policy", "runtime", "omitted", "id", "alias"}
        /\ resolved.model.tier \in ModelTiers \cup {"inherit", "fixed", None}
    BY <2>1, <2>4, ModelTyped
  <2> QED BY <2>2, <2>3, <2>4, <2>5, <2>6, <2>7 DEF RoutingTypeOK
<1> HIDE DEF Bounded
<1> QED
  BY <1>1, <1>2, <1>3, PTL DEF RoutingSpec

----------------------------------------------------------------------------
(* MCPlanning.                                                             *)

\* A step of the composition is one of each component, or leaves it as it is.
LEMMA PlanningStep ==
  [PlanningNext]_planningVars =>
    /\ part' = part
    /\ [StateNext]_stateVars
    /\ [PhaseNext]_phaseVars
    /\ [WaveNext]_waveVars
    /\ [ConfigNext]_confVars
    /\ [HealthNext]_healthVars
    /\ [GateNext]_gateVars
    /\ [RoutingNext]_routingVars
    /\ [ManagerNext]_managerVars
<1>1. CASE UNCHANGED planningVars
  BY <1>1 DEF planningVars
<1>2. CASE PlanningNext
  BY <1>2 DEF PlanningNext, Rest
<1> QED BY <1>1, <1>2

\* A behaviour of the composition is one of each of its components (of the routing, while it
\* is at work): whatever is proved of a component, for every value of its constants, holds of
\* the composition TLC checks.
THEOREM PartsArePlanners ==
  PlanningSpec =>
    /\ StateSpec
    /\ PhaseSpec
    /\ WaveSpec
    /\ ConfigSpec
    /\ HealthSpec
    /\ GateSpec
    /\ part = "routing" => RoutingSpec
    /\ ManagerSpec
<1>1. PlanningInit =>
        /\ StateInit
        /\ PhaseInit
        /\ WaveInit
        /\ ConfigInit
        /\ HealthInit
        /\ GateInit
        /\ part = "routing" => RoutingInit
        /\ ManagerInit
  BY DEF PlanningInit
<1>2. PlanningSpec => StateSpec
  BY <1>1, PlanningStep, PTL DEF PlanningSpec, StateSpec
<1>3. PlanningSpec => PhaseSpec
  BY <1>1, PlanningStep, PTL DEF PlanningSpec, PhaseSpec
<1>4. PlanningSpec => WaveSpec
  BY <1>1, PlanningStep, PTL DEF PlanningSpec, WaveSpec
<1>5. PlanningSpec => ConfigSpec
  BY <1>1, PlanningStep, PTL DEF PlanningSpec, ConfigSpec
<1>6. PlanningSpec => HealthSpec
  BY <1>1, PlanningStep, PTL DEF PlanningSpec, HealthSpec
<1>7. PlanningSpec => GateSpec
  BY <1>1, PlanningStep, PTL DEF PlanningSpec, GateSpec
<1>8. PlanningSpec => (part = "routing" => RoutingSpec)
  BY <1>1, PlanningStep, PTL DEF PlanningSpec, RoutingSpec
<1>9. PlanningSpec => ManagerSpec
  BY <1>1, PlanningStep, PTL DEF PlanningSpec, ManagerSpec
<1> QED BY <1>2, <1>3, <1>4, <1>5, <1>6, <1>7, <1>8, <1>9

\* Whichever keeper of the planning files is at work, its variables have their types.
THEOREM PlanningTyped == PlanningSpec => []PlanningTypeOK
<1>1. PlanningInit => part \in Parts
  BY DEF PlanningInit
<1>2. part \in Parts /\ [PlanningNext]_planningVars => (part \in Parts)'
  BY PlanningStep
<1>3. (~ (part = "routing")) /\ [PlanningNext]_planningVars => (~ (part = "routing"))'
  BY PlanningStep
<1>4. /\ part \in Parts /\ (~ (part = "routing") \/ RoutingTypeOK)
      /\ StateTypeOK
      /\ PhaseTypeOK
      /\ WaveTypeOK
      /\ ConfigTypeOK
      /\ HealthTypeOK
      /\ GateTypeOK
      /\ ManagerTypeOK
      => PlanningTypeOK
  BY DEF PlanningTypeOK
<1> QED
  BY <1>1, <1>2, <1>3, <1>4, PartsArePlanners,
     StateTyped, PhaseTyped, WavesTyped, ConfigurationTyped, PlanningHealthTyped, GateTyped,
     RoutingTyped, PhaseManagerTyped, PTL DEF PlanningSpec

\* All that the run of the composition checks of the planning files, for every value of the
\* constants: a property of a component holds while it works as while it rests.
THEOREM PlannersKeepTheirWord ==
  PlanningSpec =>
    /\ []SyncSettles /\ NewPhaseIsFresh /\ []DirsFollowHeadings /\ []DependenciesFirst
    /\ []ConfigReadsBack /\ []RepairSettles /\ []PlannedIsHonored /\ []ManagerGuides
    /\ RetryIsNotWeaker
<1>1. (~ (part = "routing")) /\ [PlanningNext]_planningVars =>
        /\ (~ (part = "routing"))'
        /\ [/\ resolved'.model = resolved.model
            /\ EffortLevel(resolved'.effort) >= EffortLevel(resolved.effort)
            /\ EffortLevel(resolved'.rendered) >= EffortLevel(resolved.rendered)
            /\ attempt' > cfg.routing.cap => resolved'.effort = resolved.effort]_routingVars
  <2> SUFFICES ASSUME ~ (part = "routing"), [PlanningNext]_planningVars
               PROVE  part' = part /\ UNCHANGED routingVars
    OBVIOUS
  <2>1. CASE UNCHANGED planningVars
    BY <2>1 DEF planningVars
  <2>2. CASE PlanningNext
    BY <2>2 DEF PlanningNext, Rest
  <2> QED BY <2>1, <2>2
<1>2. PlanningSpec => (part = "routing" => RetryIsNotWeaker)
  BY PartsArePlanners, RetriesKeepUp, PTL
<1>3. PlanningSpec => (~ (part = "routing") => RetryIsNotWeaker)
  BY <1>1, PTL DEF PlanningSpec, RetryIsNotWeaker
<1> QED
  BY <1>2, <1>3, PartsArePlanners, SyncIsIdempotent, NumbersAreFresh, DirsAreFound, WavesInOrder,
     ConfigIsKept, RepairsSettle, AcceptedIsHonored, ManagerLeads, PTL
=============================================================================
