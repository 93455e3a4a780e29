------------------------------- MODULE PhaseGates -------------------------------
(***************************************************************************)
(* The checks a phase passes on its way: the decisions of its CONTEXT are  *)
(* looked for in its plans before it is executed, and in what it shipped   *)
(* after; its plans, summaries, files and commits are checked against each *)
(* other; and a schema that was changed has to have been pushed. Agents    *)
(* write plans, execute and revise them between the checks.                *)
(***************************************************************************)
EXTENDS Naturals, FiniteSets

CONSTANTS
  Decisions,        \* of the CONTEXT
  Requirements,     \* of REQUIREMENTS.md
  Wordings,         \* texts of a decision; one of less than six words is Brief
  InitialWordings,  \* what the decisions may say at first
  GatePlans,        \* names of plans
  GateFiles, SchemaFiles, \* files, and those of them that are a schema of an ORM
  ModifiedBy,       \* plan -> the files it is to modify, the first one an artifact it must have
  MaxGateSteps      \* bound: steps of the agents

ASSUME GateAssumption ==
  /\ InitialWordings \subseteq [Decisions -> Wordings] /\ SchemaFiles \subseteq GateFiles
  /\ ModifiedBy \in [GatePlans -> (SUBSET GateFiles) \ {{}}] /\ MaxGateSteps \in Nat

AllReqs == {"*"}                \* no --phase-req-ids was given
Unlisted == "REQ-9"             \* an ID that REQUIREMENTS.md does not have
Nothing == [is |-> "absent"]
Brief == "brief"                \* too short to be told by its phrase

\* How a plan mentions a decision: by its ID or its phrase, in a section that
\* counts or elsewhere, in a comment, or by a phrase a comment interrupts.
Ways == {"id", "phrase", "id elsewhere", "id in a comment", "phrase around a comment"}
Tags == {"plain", "informational", "discretion"}
GateSettings == {"absent", "true", "false", "'FALSE'", "odd"}

VARIABLES
  context,   \* decision -> tag, for those in <decisions>, or Nothing without a CONTEXT
  wording,   \* decision -> its text, of which the first six words are its phrase
  setting,   \* workflow.context_coverage_gate
  planDoc,   \* plan -> mentions, texts it quotes, structure, files it modifies, artifact it
             \* must have
  summary,   \* plan -> what its SUMMARY says
  disk,      \* files that exist
  objects,   \* commits git knows
  gitLog,    \* what the last commit messages say: decisions, and a push
  verdict,   \* of the verification: none, gaps, passed, or passed with a schema not pushed
  accepted,  \* history: decisions the gate has found in the plans as they are
  gateSteps

gateVars == <<context, wording, setting, planDoc, summary, disk, objects, gitLog, verdict, accepted, gateSteps>>

Written == {p \in GatePlans : planDoc[p] # Nothing}
Executed == {p \in GatePlans : summary[p] # Nothing}
----------------------------------------------------------------------------
(* Decisions.                                                              *)

\* A comment or a fence hides a decision; a discretion heading or a tag makes
\* it one that is not tracked.
ParseDecisions == IF context = Nothing THEN {} ELSE DOMAIN context
LoadTrackableDecisions == {d \in ParseDecisions : context[d] = "plain"}

\* A text that is no boolean leaves the gate on.
GateEnabled == setting \notin {"false", "'FALSE'"}

\* The phrase of the decision as it reads now is in the plan.
ByPhrase(p, d) == wording[d] # Brief /\ planDoc[p].quoted[d] = wording[d]

\* The sections that count, without their comments.
MentionedInSections(p, d) ==
  \E way \in planDoc[p].mentions[d] :
    way = "id" \/ (way \in {"phrase", "phrase around a comment"} /\ ByPhrase(p, d))

MentionedInPlan(p, d) ==
  \E way \in planDoc[p].mentions[d] :
    way \in {"id", "id elsewhere", "id in a comment"} \/ (way = "phrase" /\ ByPhrase(p, d))

SkippedReason ==
  CASE ~GateEnabled -> "disabled"
    [] GateEnabled /\ context = Nothing -> "no CONTEXT"
    [] GateEnabled /\ context # Nothing /\ LoadTrackableDecisions = {} -> "nothing to track"
    [] OTHER -> ""

\* Before execution: blocking.
DecisionCoveragePlan ==
  LET uncovered == {d \in LoadTrackableDecisions : \A p \in Written : ~MentionedInSections(p, d)}
  IN IF SkippedReason # "" THEN [passed |-> TRUE, skipped |-> TRUE, covered |-> {}]
     ELSE [passed |-> uncovered = {}, skipped |-> FALSE, covered |-> LoadTrackableDecisions \ uncovered]

\* The files that summaries list, as far as they exist.
ReadModifiedFiles(d) == \E p \in Executed : summary[p].files \subseteq disk /\ d \in summary[p].inFiles

\* Mutant of Shipped: only what was written after planning.
ShippedWithoutPlans(d) ==
  (\E p \in Executed : d \in summary[p].decisions) \/ ReadModifiedFiles(d) \/ d \in gitLog.decisions
\* What was shipped: plans, summaries, the files they list, and commit messages.
Shipped(d) ==
  \/ \E p \in Written : MentionedInPlan(p, d)
  \/ \E p \in Executed : d \in summary[p].decisions
  \/ ReadModifiedFiles(d) \/ d \in gitLog.decisions

\* After execution: a warning at most.
DecisionCoverageVerify ==
  IF SkippedReason # "" THEN [skipped |-> TRUE, notHonored |-> {}]
  ELSE [skipped |-> FALSE, notHonored |-> {d \in LoadTrackableDecisions : ~Shipped(d)}]

\* The gap analysis looks for IDs only, also for decisions that are not tracked.
DetectCoverage(item) ==
  IF \E p \in Written : planDoc[p].mentions[item] \cap {"id", "id elsewhere", "id in a comment"} # {}
  THEN "covered" ELSE "not covered"

RunGapAnalysis(wanted) ==
  LET looked == ParseDecisions \cup IF wanted = AllReqs THEN Requirements ELSE Requirements \cap wanted
  IN {[item |-> i, status |-> DetectCoverage(i)] : i \in looked}
     \cup {[item |-> i, status |-> "missing"] : i \in wanted \ (Requirements \cup AllReqs)}
----------------------------------------------------------------------------
(* Plans, summaries, files and commits.                                    *)

\* A plan with a checkpoint that says it is autonomous, or with a task without
\* a name, is invalid; most of the rest is a warning.
VerifyPlanStructure(p) == planDoc[p].structure # "invalid"

VerifyArtifacts(p) == planDoc[p].artifact \in disk

\* A link holds when its pattern is in the source or in the target.
VerifyKeyLinks(p) == planDoc[p].artifact \in disk \/ planDoc[p].modifies \cap disk # {}

VerifyCommits(p) == summary[p].commit \in objects

\* Commits that git does not know are an error of the report and no more.
VerifySummary(p) ==
  IF summary[p] = Nothing THEN [passed |-> FALSE, errors |-> {"no summary"}]
  ELSE [passed |-> summary[p].files \subseteq disk /\ summary[p].selfCheck # "failed",
        errors |-> {e \in {"files", "commits", "self-check"} :
                      \/ e = "files" /\ ~(summary[p].files \subseteq disk)
                      \/ e = "commits" /\ ~VerifyCommits(p)
                      \/ e = "self-check" /\ summary[p].selfCheck = "failed"}]

\* Only a list in brackets is read for schema files.
DetectSchemaFiles == {p \in Written : planDoc[p].inline /\ planDoc[p].modifies \cap SchemaFiles # {}}
PushEvidence == gitLog.push \/ \E p \in Executed : summary[p].push

CheckSchemaDrift(skip) ==
  LET drift == DetectSchemaFiles # {} /\ ~PushEvidence
  IN [driftDetected |-> drift, blocking |-> drift /\ ~skip]
----------------------------------------------------------------------------
(* What happens in between.                                                *)

GateStep == gateSteps < MaxGateSteps /\ gateSteps' = gateSteps + 1

\* The discussion is continued: a decision comes, goes, changes its tag or is reworded.
Discuss ==
  /\ GateStep
  /\ \/ /\ \E d \in Decisions, tag \in Tags \cup {"gone"} :
             LET now == IF context = Nothing THEN {} ELSE DOMAIN context
             IN context' = IF tag = "gone" THEN [e \in now \ {d} |-> context[e]]
                           ELSE [e \in now \cup {d} |-> IF e = d THEN tag ELSE context[e]]
        /\ UNCHANGED wording
     \/ /\ \E d \in Decisions, text \in Wordings : wording' = [wording EXCEPT ![d] = text]
        /\ UNCHANGED context
  /\ UNCHANGED <<setting, planDoc, summary, disk, objects, gitLog, verdict, accepted>>

SetGate ==
  /\ GateStep /\ setting' \in GateSettings \ {setting}
  /\ UNCHANGED <<context, wording, planDoc, summary, disk, objects, gitLog, verdict, accepted>>

\* A plan is written or revised: what was accepted of the old plans is void.
PlanWritten(p) ==
  /\ GateStep /\ summary[p] = Nothing
  /\ \E d \in Decisions \cup Requirements, way \in Ways, listing \in {"inline", "block", "invalid"} :
       planDoc' = [planDoc EXCEPT ![p] =
         [mentions |-> [e \in Decisions \cup Requirements |-> IF e = d THEN {way} ELSE {}],
          quoted |-> wording,
          structure |-> IF listing = "invalid" THEN "invalid" ELSE "valid",
          inline |-> listing = "inline", modifies |-> ModifiedBy[p], artifact |-> CHOOSE f \in ModifiedBy[p] : TRUE]]
  /\ accepted' = {}
  /\ UNCHANGED <<context, wording, setting, summary, disk, objects, gitLog, verdict>>

\* The phase is marked as planned only when the blocking gate lets it.
MarkPlanned ==
  /\ Written # {} /\ \A p \in Written : VerifyPlanStructure(p)
  /\ DecisionCoveragePlan.passed /\ DecisionCoveragePlan.covered # {}
  /\ accepted' = DecisionCoveragePlan.covered
  /\ UNCHANGED <<context, wording, setting, planDoc, summary, disk, objects, gitLog, verdict, gateSteps>>

\* An executor creates some of the files, commits, and writes its summary.
ExecutePlan(p) ==
  /\ GateStep /\ planDoc[p] # Nothing /\ summary[p] = Nothing /\ VerifyPlanStructure(p)
  /\ \E made \in SUBSET planDoc[p].modifies, push \in BOOLEAN, check \in {"passed", "failed"} :
       /\ made = planDoc[p].modifies => check = "passed"
       /\ summary' = [summary EXCEPT ![p] = [files |-> planDoc[p].modifies, push |-> push, selfCheck |-> check,
                        commit |-> gateSteps + 1, decisions |-> {}, inFiles |-> {}]]
       /\ disk' = disk \cup made
  /\ objects' = objects \cup {gateSteps + 1}
  /\ UNCHANGED <<context, wording, setting, planDoc, gitLog, verdict, accepted>>

\* A summary that does not pass is thrown away and its plan executed again.
RetryPlan(p) ==
  /\ GateStep /\ summary[p] # Nothing
  /\ ~VerifySummary(p).passed \/ ~VerifyArtifacts(p) \/ ~VerifyKeyLinks(p)
  /\ summary' = [summary EXCEPT ![p] = Nothing]
  /\ UNCHANGED <<context, wording, setting, planDoc, disk, objects, gitLog, verdict, accepted>>

\* Other commits: they mention a decision, or a push; or history is rewritten.
OtherCommits ==
  /\ GateStep
  /\ \/ \E d \in Decisions, push \in BOOLEAN :
          gitLog' = [decisions |-> gitLog.decisions \cup {d}, push |-> gitLog.push \/ push]
        /\ UNCHANGED objects
     \/ gitLog' = [decisions |-> {}, push |-> FALSE] /\ objects' = {}
  /\ UNCHANGED <<context, wording, setting, planDoc, summary, disk, verdict, accepted>>

\* Verification starts when nothing is left to execute and the schema gate does
\* not block, or is told to skip.
VerifyPhase ==
  /\ Written # {} /\ Executed = Written /\ verdict = "none"
  /\ \E skip \in BOOLEAN :
       /\ ~CheckSchemaDrift(skip).blocking
       /\ verdict' = CASE \E p \in Written : ~VerifyArtifacts(p) \/ ~VerifyKeyLinks(p) -> "gaps"
                       [] (\A p \in Written : VerifyArtifacts(p) /\ VerifyKeyLinks(p))
                            /\ CheckSchemaDrift(skip).driftDetected -> "passed unpushed"
                       [] OTHER -> "passed"
  /\ UNCHANGED <<context, wording, setting, planDoc, summary, disk, objects, gitLog, accepted, gateSteps>>

GateInit ==
  /\ context \in {Nothing} \cup [Decisions -> {"plain"}] 
  /\ wording \in InitialWordings /\ setting = "absent"
  /\ planDoc = [p \in GatePlans |-> Nothing] /\ summary = [p \in GatePlans |-> Nothing]
  /\ disk = {} /\ objects = {} /\ gitLog = [decisions |-> {}, push |-> FALSE]
  /\ verdict = "none" /\ accepted = {} /\ gateSteps = 0

GateNext ==
  \/ Discuss \/ SetGate \/ MarkPlanned \/ OtherCommits \/ VerifyPhase
  \/ \E p \in GatePlans : PlanWritten(p) \/ ExecutePlan(p) \/ RetryPlan(p)

GateSpec == GateInit /\ [][GateNext]_gateVars
----------------------------------------------------------------------------
GateTypeOK ==
  /\ context = Nothing \/ (DOMAIN context \subseteq Decisions /\ \A d \in DOMAIN context : context[d] \in Tags)
  /\ wording \in [Decisions -> Wordings] /\ setting \in GateSettings /\ disk \subseteq GateFiles /\ objects \subseteq 1 .. MaxGateSteps
  /\ \A p \in GatePlans : summary[p] # Nothing => planDoc[p] # Nothing
  /\ gitLog.decisions \subseteq Decisions /\ accepted \subseteq Decisions
  /\ verdict \in {"none", "gaps", "passed", "passed unpushed"} /\ gateSteps \in 0 .. MaxGateSteps

\* A decision the blocking gate has found in the plans is not reported as lost
\* after their execution, however the discussion, the settings and the history
\* have changed since, as long as the plans are as they were; nor does the gap
\* analysis miss it, if it was cited by its ID.  The exceptions are decisions that no
\* plan cites by ID, and whose phrase a comment interrupts, which the plan gate
\* strips and the other does not, or which were reworded since
\* (check-command-router.cjs:29-41, 113-117, 142-171, 202-234, 279-320).
PlannedIsHonored ==
  \A d \in accepted :
    /\ \/ d \notin DecisionCoverageVerify.notHonored
       \/ /\ \A p \in Written : "id" \notin planDoc[p].mentions[d]
          /\ \E p \in Written :
               \/ "phrase around a comment" \in planDoc[p].mentions[d]
               \/ "phrase" \in planDoc[p].mentions[d] /\ planDoc[p].quoted[d] # wording[d]
    /\ (\E p \in Written : "id" \in planDoc[p].mentions[d]) /\ d \in ParseDecisions =>
         [item |-> d, status |-> "covered"] \in RunGapAnalysis({Unlisted})
=============================================================================
