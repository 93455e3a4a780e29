--------------------------- MODULE PlanningState ---------------------------
(***************************************************************************)
(* STATE.md: the position, the status and the progress that the `state`    *)
(* commands (state.cjs) and `phase complete` (phase.cjs) keep in its body, *)
(* and the frontmatter that every write derives anew from the body and     *)
(* from the phase directories (buildStateFrontmatter).                     *)
(*                                                                         *)
(* The body comes in two styles.  In the bold one a field is a line        *)
(* **Status:** ...; in the plain one, that of templates/state.md, it is a  *)
(* line Status: ... under "Current Position".  stateReplaceField looks for *)
(* the bold line first and then for the first plain one, whatever its      *)
(* case: in the plain style that is the line `status:` or `progress:` of   *)
(* the frontmatter, which the write discards.  Dates, names, session and   *)
(* blocker lines are left out.                                             *)
(***************************************************************************)
EXTENDS Integers, FiniteSets

CONSTANTS
  LastPhase,      \* the roadmap of the milestone has the phases 1 .. LastPhase
  MaxPlans,       \* bound: plans of a phase
  MaxStateSteps   \* bound: commands

ASSUME StateAssumption ==
  LastPhase \in Nat \ {0} /\ MaxPlans \in Nat \ {0} /\ MaxStateSteps \in Nat

Phases == 1 .. LastPhase

VARIABLES
  style,       \* "bold" or "plain"
  plans,       \* phase -> its PLAN.md files
  sums,        \* phase -> its SUMMARY.md files
  table,       \* phase -> its status in the progress table of ROADMAP.md
  body,        \* the fields of the body
  front,       \* the counters and the status of the frontmatter
  notes,       \* the phases whose decisions STATE.md lists
  pruned,      \* those whose decisions STATE-ARCHIVE.md lists
  velocity,    \* phase -> its row of "By Phase", -1 if it has none
  synced,      \* `state sync` was the last to write
  steps        \* commands so far

stateVars == <<style, plans, sums, table, body, front, notes, pruned, velocity, synced, steps>>

\* The status line; n is the phase it names, 0 if none.
StatusKinds == {"not started", "ready to plan", "defining", "ready to execute", "executing",
          "phase complete", "complete", "milestone complete", "verified"}
Says(k) == [kind |-> k, n |-> 0]
About(k, p) == [kind |-> k, n |-> p]

\* The status of the frontmatter.
Norms == {"planning", "executing", "verifying", "completed", "other"}

StateTypeOK ==
  /\ style \in {"bold", "plain"}
  /\ plans \in [Phases -> 0 .. MaxPlans] /\ sums \in [Phases -> 0 .. MaxPlans]
  /\ table \in [Phases -> {"Not started", "Planned", "In Progress", "Complete"}]
  /\ body \in [phase : 0 .. LastPhase, plan : 0 .. MaxPlans, of : 0 .. MaxPlans,
               status : [kind : StatusKinds, n : 0 .. LastPhase], percent : 0 .. 100]
  /\ front \in [status : Norms, phases : 0 .. LastPhase, donePhases : 0 .. LastPhase,
                plans : 0 .. LastPhase * MaxPlans, donePlans : 0 .. LastPhase * MaxPlans,
                percent : 0 .. 100]
  /\ notes \subseteq Phases /\ pruned \subseteq Phases
  /\ velocity \in [Phases -> -1 .. MaxPlans]
  /\ synced \in BOOLEAN /\ steps \in 0 .. MaxStateSteps

----------------------------------------------------------------------------
(* What is counted.                                                        *)

\* The files of all phases, with f[p] of them in the phase p.
Sum(f) == Cardinality({file \in Phases \X (1 .. MaxPlans) : file[2] <= f[file[1]]})

\* Math.round(100 * a / b), at most 100.
Percent(a, b) == LET r == (200 * a + b) \div (2 * b) IN IF r > 100 THEN 100 ELSE r

\* scanPhasePlans: a phase is completed once it has plans and as many summaries.
Completed(p) == plans[p] > 0 /\ sums[p] >= plans[p]
DonePhases == {p \in Phases : Completed(p)}

\* computeProgressPercent: the smaller of the two fractions; plans that do not
\* exist yet do not count.
ComputedPercent(donePlans, allPlans, done, all) ==
  LET byPhase == Percent(done, all)
  IN  IF allPlans = 0 THEN byPhase
      ELSE IF Percent(donePlans, allPlans) < byPhase THEN Percent(donePlans, allPlans)
      ELSE byPhase

\* The phases in all: the headings of the milestone in ROADMAP.md, of which the
\* directories are a part.
TotalPhases == LastPhase

DiskPercent == ComputedPercent(Sum(sums), Sum(plans), Cardinality(DonePhases), TotalPhases)

\* normalizeStateStatus.
Norm(s) == CASE s.kind \in {"executing", "ready to execute"} -> "executing"
             [] s.kind = "ready to plan" -> "planning"
             [] s.kind \in {"phase complete", "verified"} -> "verifying"
             [] s.kind \in {"complete", "milestone complete"} -> "completed"
             [] s.kind \in {"not started", "defining"} -> "other"

\* buildStateFrontmatter over a body.
Derived(b) == [status |-> Norm(b.status), phases |-> TotalPhases,
               donePhases |-> Cardinality(DonePhases),
               plans |-> Sum(plans), donePlans |-> Sum(sums), percent |-> DiskPercent]

----------------------------------------------------------------------------
(* How a field is found and replaced.                                      *)

\* stateReplaceField on the whole text: the plain style loses what it writes
\* to a line that the frontmatter has as well.
Put(b, field, v) == IF style = "plain" /\ field \in {"status", "percent"} THEN b
                    ELSE [b EXCEPT ![field] = v]

\* A field that only the bold style has.
PutBold(b, field, v) == IF style = "bold" THEN [b EXCEPT ![field] = v] ELSE b

\* A line of "Current Position".
PutPosition(b, field, v) == IF style = "plain" THEN [b EXCEPT ![field] = v] ELSE b

\* isStateTemplateDefault for the status: a text one of the tools wrote.
Template(s) == s.kind \notin {"not started", "milestone complete", "verified"}

\* stateReplaceFieldIfTemplate, then updateCurrentPositionFields: the status is
\* replaced unless somebody gave it a text of their own.
PutIfTemplate(b, s) == IF Template(b.status) THEN [b EXCEPT !.status = s] ELSE b

\* readModifyWriteStateMd with the frontmatter built anew.
Store(b) == body' = b /\ front' = Derived(b)

\* { resync: false }: the counters of the frontmatter stay.
StoreBody(b) == body' = b /\ front' = [front EXCEPT !.status = Norm(b.status)]

Command == steps < MaxStateSteps /\ steps' = steps + 1
DiskStays == UNCHANGED <<style, plans, sums>>

----------------------------------------------------------------------------
(* The planner and the executor.                                           *)

StateInit ==
  /\ style \in {"bold", "plain"}
  /\ plans = [p \in Phases |-> 0] /\ sums = [p \in Phases |-> 0]
  /\ table = [p \in Phases |-> "Not started"]
  /\ body = [phase |-> 1, plan |-> 0, of |-> 0, status |-> Says("ready to plan"), percent |-> 0]
  /\ front = [status |-> "planning", phases |-> 0, donePhases |-> 0,
              plans |-> 0, donePlans |-> 0, percent |-> 0]
  /\ notes = {} /\ pruned = {} /\ velocity = [p \in Phases |-> -1]
  /\ synced = FALSE /\ steps = 0

\* The planner writes a PLAN.md, the executor the SUMMARY.md of a plan.
WritePlan(p) ==
  /\ plans[p] < MaxPlans /\ plans' = [plans EXCEPT ![p] = @ + 1]
  /\ Command /\ synced' = FALSE
  /\ UNCHANGED <<style, sums, table, body, front, notes, pruned, velocity>>
WriteSummary(p) ==
  /\ sums[p] < plans[p] /\ sums' = [sums EXCEPT ![p] = @ + 1]
  /\ Command /\ synced' = FALSE
  /\ UNCHANGED <<style, plans, table, body, front, notes, pruned, velocity>>

----------------------------------------------------------------------------
(* The commands of state.cjs.                                              *)

\* cmdStatePlannedPhase: the counters are left alone.
PlannedPhase(p) ==
  /\ Command /\ DiskStays /\ synced' = FALSE
  /\ StoreBody(PutBold(PutIfTemplate(body, Says("ready to execute")), "of", plans[p]))
  /\ UNCHANGED <<table, notes, pruned, velocity>>

\* cmdStateBeginPhase.  The guard of a resumed phase reads the status line that
\* Put would write to: in the plain style it never sees "Executing Phase".
Executing(p) == style = "bold" /\ body.status = About("executing", p)
BeginPhase(p) ==
  /\ Command /\ DiskStays /\ synced' = FALSE
  /\ LET of == IF plans[p] > 0 \/ style = "plain" THEN plans[p] ELSE body.of
     IN  Store(IF Executing(p) THEN body
               ELSE [body EXCEPT !.phase = p, !.plan = 1, !.of = of,
                                 !.status = About("executing", p)])
  /\ UNCHANGED <<table, notes, pruned, velocity>>

\* cmdStateAdvancePlan: a position that is not a number of a number is refused.
AdvancePlan ==
  /\ body.plan > 0 /\ body.of > 0
  /\ Command /\ DiskStays /\ synced' = FALSE
  /\ Store(IF body.plan >= body.of THEN PutIfTemplate(body, Says("phase complete"))
           ELSE PutIfTemplate([body EXCEPT !.plan = @ + 1], Says("ready to execute")))
  /\ UNCHANGED <<table, notes, pruned, velocity>>

\* cmdStateCompletePhase, without a phase the one of resolvePhaseIdForCompletePhase.
\* Only the bold style has the field that tells a phase already left behind.
CompletePhase(p) ==
  /\ style = "bold" /\ body.phase # 0 => p = body.phase
  /\ Command /\ DiskStays /\ synced' = FALSE
  /\ Store(PutPosition([body EXCEPT !.status = About("complete", p)], "phase", p))
  /\ UNCHANGED <<table, notes, pruned, velocity>>

\* cmdStateUpdateProgress: the plans alone.
UpdateProgress ==
  /\ Command /\ DiskStays /\ synced' = FALSE
  /\ Store(Put(body, "percent", IF Sum(plans) = 0 THEN 0 ELSE Percent(Sum(sums), Sum(plans))))
  /\ UNCHANGED <<table, notes, pruned, velocity>>

\* cmdStateUpdate and cmdStatePatch: the user writes a status; update strips the
\* frontmatter first, patch does not.
UpdateStatus ==
  /\ Command /\ DiskStays /\ synced' = FALSE
  /\ StoreBody([body EXCEPT !.status = Says("verified")])
  /\ UNCHANGED <<table, notes, pruned, velocity>>
PatchStatus ==
  /\ Command /\ DiskStays /\ synced' = FALSE
  /\ Store(Put(body, "status", Says("verified")))
  /\ UNCHANGED <<table, notes, pruned, velocity>>

\* cmdStateAddDecision: an entry "[Phase p]: ...".
AddDecision(p) ==
  /\ p \notin notes \cup pruned
  /\ Command /\ DiskStays /\ synced' = FALSE
  /\ notes' = notes \cup {p}
  /\ Store(body)
  /\ UNCHANGED <<table, pruned, velocity>>

\* cmdStatePrune: the decisions and the rows of "By Phase" up to the cutoff go to the
\* archive.  The plain style has no field "Current Phase" and is never pruned.
Cutoff(keep) == IF style = "bold" THEN body.phase - keep ELSE 0
Old(keep) == {p \in Phases : p <= Cutoff(keep)}
StatePruned(keep) ==
  /\ notes' = notes \ Old(keep)
  /\ pruned' = pruned \cup (notes \cap Old(keep))
StatePrune(keep) ==
  /\ Cutoff(keep) > 0
  /\ Command /\ DiskStays /\ synced' = FALSE
  /\ StatePruned(keep)
  /\ velocity' = [p \in Phases |-> IF p \in Old(keep) THEN -1 ELSE velocity[p]]
  /\ Store(body)
  /\ UNCHANGED table

\* cmdStateMilestoneSwitch: the counters are set to zero.
MilestoneSwitch ==
  /\ Command /\ DiskStays /\ synced' = FALSE
  /\ LET reset == [body EXCEPT !.phase = 0, !.plan = 0, !.of = 0, !.status = Says("defining")]
     IN  body' = IF style = "plain" THEN reset ELSE body
  /\ front' = [status |-> "planning", phases |-> 0, donePhases |-> 0,
               plans |-> 0, donePlans |-> 0, percent |-> 0]
  /\ UNCHANGED <<table, notes, pruned, velocity>>

----------------------------------------------------------------------------
(* state sync.                                                             *)

\* cmdStateSync: the last phase with plans that lacks a summary or, if there is none,
\* the first one with plans.
WithPlans == {p \in Phases : plans[p] > 0}
HighestIncomplete ==
  LET open == {p \in WithPlans : sums[p] < plans[p]}
  IN  IF open # {} THEN CHOOSE p \in open : \A q \in open : q <= p
      ELSE CHOOSE p \in WithPlans : \A q \in WithPlans : p <= q

\* The body the command wants.  A total of plans that is not there is not added.
SyncOf(b) == IF style = "bold" /\ WithPlans # {} THEN plans[HighestIncomplete] ELSE b.of
SyncTarget(b) == Put([b EXCEPT !.of = SyncOf(b)], "percent", DiskPercent)

\* The lines it reports as changed.
SyncChanges(b) == (IF b.of # SyncOf(b) THEN {"of"} ELSE {})
             \cup (IF b.percent # DiskPercent THEN {"percent"} ELSE {})

\* Mutant of StateSync: the progress line counts the plans alone.
SyncByPlans ==
  /\ Command /\ DiskStays /\ synced' = TRUE
  /\ Store(Put(SyncTarget(body), "percent",
               IF Sum(plans) = 0 THEN 0 ELSE Percent(Sum(sums), Sum(plans))))
  /\ UNCHANGED <<table, notes, pruned, velocity>>

\* It writes when a line has changed; with none it does so only for the date.
SyncWrites == \/ Store(SyncTarget(body))
              \/ SyncChanges(body) = {} /\ UNCHANGED <<body, front>>

StateSync ==
  /\ Command /\ DiskStays /\ synced' = TRUE
  /\ SyncWrites
  /\ UNCHANGED <<table, notes, pruned, velocity>>

----------------------------------------------------------------------------
(* The roadmap's share.                                                    *)

\* cmdRoadmapUpdatePlanProgress: the row of the phase.
UpdatePlanProgress(p) ==
  /\ plans[p] > 0
  /\ table' = [table EXCEPT ![p] = IF sums[p] >= plans[p] THEN "Complete"
                                   ELSE IF sums[p] > 0 THEN "In Progress" ELSE "Planned"]
  /\ Command /\ synced' = FALSE
  /\ UNCHANGED <<style, plans, sums, body, front, notes, pruned, velocity>>

\* deriveProgressFromRoadmap: the rows that say "Complete".
CompleteRows == {p \in Phases : table'[p] = "Complete"}

\* updatePerformanceMetricsSection: the row of the phase in "By Phase".
Measured(p) == [velocity EXCEPT ![p] = sums[p]]

\* cmdPhaseComplete: the row, the position of the next phase, the counters of the
\* body, its row in "By Phase", and the pruning that may follow.
PhaseCompleted(p) ==
  /\ Command /\ DiskStays /\ synced' = FALSE
  /\ table' = [table EXCEPT ![p] = "Complete"]
  /\ velocity' = Measured(p)
  /\ LET last == p = LastPhase
         moved == [body EXCEPT !.phase = IF last THEN p ELSE p + 1, !.plan = 0,
                               !.of = IF style = "plain" THEN 0 ELSE @]
         told == Put(moved, "status", Says(IF last THEN "milestone complete" ELSE "ready to plan"))
     IN  Store(PutBold(told, "percent", Percent(Cardinality(CompleteRows), LastPhase)))
  /\ UNCHANGED <<notes, pruned>>

StateNext ==
  \/ AdvancePlan \/ UpdateProgress \/ UpdateStatus \/ PatchStatus \/ MilestoneSwitch \/ StateSync
  \/ StatePrune(1)
  \/ \E p \in Phases :
        \/ WritePlan(p) \/ WriteSummary(p) \/ PlannedPhase(p) \/ BeginPhase(p)
        \/ CompletePhase(p) \/ AddDecision(p) \/ UpdatePlanProgress(p) \/ PhaseCompleted(p)

StateSpec == StateInit /\ [][StateNext]_stateVars

----------------------------------------------------------------------------
(* Properties.                                                             *)

\* `state sync` settles: right after it, a second one would change nothing.  The plain style
\* is the exception: there the progress line it wants never reaches the body, and the
\* line is reported for as long as it differs.
SyncSettles ==
  synced => SyncChanges(body) \subseteq (IF style = "plain" THEN {"percent"} ELSE {})
=============================================================================
