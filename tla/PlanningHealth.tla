--------------------------- MODULE PlanningHealth ---------------------------
(***************************************************************************)
(* `validate health` and its repairs: what is wrong with a planning        *)
(* directory is found in one pass, and what can be repaired is repaired    *)
(* afterwards, one file after the other, while other commands may work on  *)
(* the directory.  `validate consistency` and `verify phase-completeness`  *)
(* report on the same files.                                               *)
(***************************************************************************)
EXTENDS Naturals, Sequences, FiniteSets

CONSTANTS
  HealthPhases,     \* numbers of phases
  HealthVersions,   \* milestones
  OddSettings,      \* codes of the settings that are out of range, of those the check knows
  InitialHealth,    \* the directories to start from
  MaxHealthChanges, \* bound: what others do to the directory
  MaxHealthFaults   \* bound: repairs that fail

\* A plan and its summary are named PLAN.md, 01-01-PLAN.md or 01-01-slug-PLAN.md: "",
\* "short" and "slug" in the sets below.
Absent == [is |-> "absent"]
Broken == [is |-> "broken"]
NoBackfill == [is |-> "none"]
Configs == [nyquist : BOOLEAN, ai : BOOLEAN, odd : SUBSET OddSettings, own : BOOLEAN]
PlanFields == {"there", "project", "roadmap", "state", "config", "dirs", "archived", "snapshots",
               "registry", "stray", "version"}

ASSUME HealthAssumption ==
  /\ HealthPhases \subseteq Nat /\ MaxHealthChanges \in Nat /\ MaxHealthFaults \in Nat
  /\ OddSettings \subseteq {"W004", "W012", "W013", "W014", "W015"}
  /\ \A p \in InitialHealth : DOMAIN p = PlanFields /\ p.config \in {Absent, Broken} \cup Configs
                            /\ p.snapshots \cup p.registry \subseteq HealthVersions

VARIABLES
  plan,      \* the planning directory, see InitialHealth
  queue,     \* repairs still to be made
  seen,      \* versions the check found missing from the registry, still to be added
  held,      \* the configuration a repair has read and not written
  backfilling, \* the registry the backfill has read and not written, and for which version
  report,    \* what the last check said: [by, status]
  settled,   \* runs with --repair since something else happened, or failed
  changes, healthFaults,
  dropped    \* history: a repair removed settings of a readable configuration nobody else touched

healthVars == <<plan, queue, seen, held, backfilling, report, settled, changes, healthFaults, dropped>>

----------------------------------------------------------------------------
(* What is wrong.                                                          *)

CanonicalPlanStem(s) == IF s = "slug" THEN "short" ELSE s

\* A directory has [plans, summaries: sets of stems, research, validation, proper: the name].
HasSummary(d, s) == \E t \in d.summaries : s = t \/ CanonicalPlanStem(s) = CanonicalPlanStem(t)

ListMilestoneArchiveDirs == {v \in HealthVersions : plan.archived[v] # {}}

\* The archive of the milestone that STATE.md names; without one, the latest.
ActiveMilestoneArchive ==
  IF plan.state # Absent /\ plan.state.milestone # 0
  THEN {plan.state.milestone} \cap ListMilestoneArchiveDirs
  ELSE {v \in ListMilestoneArchiveDirs : \A w \in ListMilestoneArchiveDirs : w <= v}

CollectDiskPhases ==
  DOMAIN plan.dirs \cup UNION {plan.archived[v] : v \in ActiveMilestoneArchive}

ArchivedPhases == UNION {plan.archived[v] : v \in HealthVersions}

\* The phases the roadmap names, and those it lists without a tick.
ListedPhases == IF plan.roadmap = Absent THEN {} ELSE plan.roadmap.listed
NotStarted == ListedPhases \ plan.roadmap.ticked

ProjectIssues ==
  CASE plan.project = "absent" -> {"E002"} [] plan.project = "bare" -> {"W001"} [] OTHER -> {}

RoadmapIssues == IF plan.roadmap = Absent THEN {"E003"} ELSE {}

StateIssues ==
  IF plan.state = Absent THEN {"E004"}
  ELSE LET valid == CollectDiskPhases \cup ArchivedPhases \cup ListedPhases
       IN IF valid # {} /\ ~(plan.state.refs \subseteq valid) THEN {"W002"} ELSE {}

\* Strategies, templates and sizes that are out of range, whatever it is that is odd.
SettingIssues == plan.config.odd

ConfigIssues ==
  CASE plan.config = Absent -> {"W003"}
    [] plan.config = Broken -> {"E005"}
    [] OTHER -> (IF plan.config.nyquist THEN {} ELSE {"W008"})
                \cup (IF plan.config.ai THEN {} ELSE {"W016"})
                \cup SettingIssues

DirIssues(p) ==
  LET d == plan.dirs[p]
  IN (IF d.proper THEN {} ELSE {"W005"})
     \cup (IF \A s \in d.plans : HasSummary(d, s) THEN {} ELSE {"I001"})
     \cup (IF d.research /\ ~d.validation THEN {"W009"} ELSE {})

\* A phase with an unticked entry has not begun, and needs no directory.
RoadmapDiskIssues ==
  IF plan.roadmap = Absent THEN {}
  ELSE (IF ListedPhases \ NotStarted \subseteq CollectDiskPhases \cup ArchivedPhases
        THEN {} ELSE {"W006"})
       \cup (IF CollectDiskPhases \subseteq ListedPhases THEN {} ELSE {"W007"})

\* Only these two words mean that the current phase is done.
StatusIssues ==
  IF plan.state # Absent /\ plan.roadmap # Absent /\ plan.state.current \in plan.roadmap.ticked
     /\ plan.state.status \notin {"complete", "done"}
  THEN {"W011"} ELSE {}

MissingFromRegistry == plan.snapshots \ plan.registry

MilestoneIssues ==
  (IF MissingFromRegistry = {} THEN {} ELSE {"W018"})
  \cup (IF /\ plan.state # Absent /\ plan.roadmap # Absent
           /\ plan.state.status = "milestone complete"
           /\ ~(plan.roadmap.listed \subseteq DOMAIN plan.dirs)
        THEN {"W021"} ELSE {})

FileIssues == IF plan.stray THEN {"W019"} ELSE {}

\* What lies outside the directory: the product's agents may not all be installed ...
AgentStates == {"installed", "missing"}
AgentIssues(agents) == IF agents = "missing" THEN {"W010"} ELSE {}

\* ... git may fail to list the worktrees, or there is no repository, and of a linked
\* worktree the directory may be gone, or not have been touched for an hour.
WorktreeLists == {"listed", "no repository", "failed"}
WorktreeFindings == SUBSET {"orphan", "stale"}
WorktreeIssues(list, findings) ==
  CASE list = "failed" -> {"W020"}
    [] list = "listed" /\ findings # {} -> {"W017"}
    [] OTHER -> {}

OutsideIssues ==
  {AgentIssues(a) \cup WorktreeIssues(l, f) : a \in AgentStates, l \in WorktreeLists, f \in WorktreeFindings}

\* Without the directory nothing else is looked at.
Issues(outside) ==
  IF ~plan.there THEN {"E001"}
  ELSE
  ProjectIssues \cup RoadmapIssues \cup StateIssues \cup ConfigIssues
  \cup (UNION {DirIssues(p) : p \in DOMAIN plan.dirs}) \cup RoadmapDiskIssues \cup StatusIssues
  \cup MilestoneIssues \cup FileIssues \cup outside

Errors == {"E001", "E002", "E003", "E004", "E005"}
Health(codes) == CASE codes \cap Errors # {} -> "broken"
                   [] codes \subseteq {"I001"} -> "healthy"
                   [] OTHER -> "degraded"

RepairFor(code, do) ==
  IF code \in StateIssues \cup ConfigIssues \cup MilestoneIssues THEN <<[code |-> code, do |-> do]>> ELSE <<>>

\* In the order the check finds them.
Repairs ==
  IF ~plan.there THEN <<>> ELSE
  RepairFor("E004", "regenerateState") \o RepairFor("W003", "writeConfig")
  \o RepairFor("E005", "writeConfig") \o RepairFor("W008", "addNyquistKey")
  \o RepairFor("W016", "addAiIntegrationPhaseKey") \o RepairFor("W018", "backfillMilestones")

\* The other two reports.  They want a summary of the plan's full name, and PLAN.md is no plan.
PhaseCompleteness(p) == plan.dirs[p].plans \ {""} \subseteq plan.dirs[p].summaries

Consistency ==
  IF plan.roadmap = Absent THEN {"no roadmap"}
  ELSE (IF plan.roadmap.listed \subseteq CollectDiskPhases THEN {} ELSE {"no directory"})
       \cup (IF CollectDiskPhases \subseteq plan.roadmap.listed THEN {} ELSE {"not in roadmap"})
       \cup (IF \E p \in CollectDiskPhases : /\ p + 1 \notin CollectDiskPhases
                                              /\ \E q \in CollectDiskPhases : q > p
             THEN {"gap"} ELSE {})
       \cup (IF \A p \in DOMAIN plan.dirs : plan.dirs[p].summaries \ {""} \subseteq plan.dirs[p].plans
             THEN {} ELSE {"no plan"})

----------------------------------------------------------------------------
(* The command.                                                            *)

\* A reset of the configuration has no key for the AI integration phase.
DefaultConfig == [nyquist |-> TRUE, ai |-> FALSE, odd |-> {}, own |-> FALSE]
RegeneratedState == [refs |-> {}, current |-> 0, milestone |-> plan.version, status |-> "resuming"]

HealthInit ==
  /\ plan \in InitialHealth /\ queue = <<>> /\ seen = {} /\ held = Absent /\ backfilling = NoBackfill
  /\ report = [by |-> "none", status |-> "healthy"]
  /\ settled = 0 /\ changes = 0 /\ healthFaults = 0 /\ dropped = FALSE

\* --backfill by itself repairs nothing.
Check(repair, backfill, outside) ==
  /\ queue = <<>>
  /\ report' = [by |-> "health", status |-> Health(Issues(outside))]
  /\ queue' = IF repair THEN Repairs ELSE <<>>
  /\ seen' = MissingFromRegistry
  /\ settled' = IF repair /\ settled < 2 THEN settled + 1 ELSE settled
  /\ UNCHANGED <<plan, held, backfilling, changes, healthFaults, dropped>>

CheckConsistency ==
  /\ queue = <<>>
  /\ report' = [by |-> "consistency",
                status |-> IF "no roadmap" \in Consistency THEN "failed" ELSE "passed"]
  /\ UNCHANGED <<plan, queue, seen, held, backfilling, settled, changes, healthFaults, dropped>>

Next1(do) == queue # <<>> /\ Head(queue).do = do /\ queue' = Tail(queue)
Quiet == UNCHANGED <<seen, backfilling, report, changes, healthFaults>>

WriteConfig ==
  /\ Next1("writeConfig")
  /\ plan' = [plan EXCEPT !.config = DefaultConfig]
  /\ dropped' = (dropped \/ (settled > 0 /\ plan.config \notin {Absent, Broken} /\ plan.config.own))
  /\ UNCHANGED <<held, settled>> /\ Quiet

\* It was missing when the check looked; one that has come since is copied first.
RegenerateState ==
  /\ Next1("regenerateState")
  /\ plan' = [plan EXCEPT !.state = RegeneratedState]
  /\ UNCHANGED <<held, settled, dropped>> /\ Quiet

\* Mutant of KeyOf: one repair is a copy of the other.
KeyOfCopied == [addNyquistKey |-> "nyquist", addAiIntegrationPhaseKey |-> "nyquist"]

KeyOf == [addNyquistKey |-> "nyquist", addAiIntegrationPhaseKey |-> "ai"]
WithKey(c, do) == [c EXCEPT ![KeyOf[do]] = TRUE]

\* A file that is gone, or cannot be parsed, is left alone.
ReadForKey ==
  /\ queue # <<>> /\ Head(queue).do \in DOMAIN KeyOf /\ held = Absent
  /\ IF plan.config \in {Absent, Broken} \/ plan.config[KeyOf[Head(queue).do]]
     THEN queue' = Tail(queue) /\ UNCHANGED held
     ELSE held' = plan.config /\ UNCHANGED queue
  /\ UNCHANGED <<plan, settled, dropped>> /\ Quiet

WriteKey ==
  /\ queue # <<>> /\ Head(queue).do \in DOMAIN KeyOf /\ held # Absent
  /\ plan' = [plan EXCEPT !.config = WithKey(held, Head(queue).do)]
  /\ dropped' = (dropped \/ (settled > 0 /\ plan.config \notin {Absent, Broken}
                             /\ plan.config.own /\ ~held.own))
  /\ held' = Absent /\ queue' = Tail(queue)
  /\ UNCHANGED settled /\ Quiet

\* For each version an entry is added at the top of the registry, which is read for it and
\* written back: what is there when it is read stays.
BackfillReads ==
  /\ queue # <<>> /\ Head(queue).do = "backfillMilestones" /\ backfilling = NoBackfill
  /\ IF seen = {} THEN queue' = Tail(queue) /\ UNCHANGED backfilling
     ELSE /\ \E v \in seen : backfilling' = [is |-> "read", version |-> v, registry |-> plan.registry]
          /\ UNCHANGED queue
  /\ UNCHANGED <<plan, seen, held, report, settled, changes, healthFaults, dropped>>

BackfillMilestones ==
  /\ backfilling # NoBackfill /\ backfilling' = NoBackfill
  /\ plan' = [plan EXCEPT !.registry = backfilling.registry \cup {backfilling.version}]
  /\ seen' = seen \ {backfilling.version}
  /\ UNCHANGED <<queue, held, report, settled, changes, healthFaults, dropped>>

\* A version that cannot be added is left out, and nothing is said of it.
BackfillSkips ==
  /\ backfilling # NoBackfill /\ backfilling' = NoBackfill
  /\ healthFaults < MaxHealthFaults /\ healthFaults' = healthFaults + 1
  /\ seen' = seen \ {backfilling.version} /\ settled' = 0
  /\ UNCHANGED <<plan, queue, held, report, changes, dropped>>

\* A repair that fails is reported, and the next one is tried; the backfill as such never does.
RepairFails ==
  /\ queue # <<>> /\ Head(queue).do # "backfillMilestones"
  /\ healthFaults < MaxHealthFaults /\ healthFaults' = healthFaults + 1
  /\ queue' = Tail(queue) /\ held' = Absent /\ settled' = 0
  /\ UNCHANGED <<plan, seen, backfilling, report, changes, dropped>>

\* What users and other commands do to the directory meanwhile.
Change(new) ==
  /\ changes < MaxHealthChanges /\ changes' = changes + 1
  /\ plan' = new /\ settled' = 0
  /\ UNCHANGED <<queue, seen, held, backfilling, report, healthFaults, dropped>>

ConfigSets == plan.config # Broken /\ Change([plan EXCEPT !.config =
  IF @ = Absent THEN [nyquist |-> TRUE, ai |-> TRUE, odd |-> {}, own |-> TRUE] ELSE [@ EXCEPT !.own = TRUE]])
Damages == \/ \E c \in {Absent, Broken} : Change([plan EXCEPT !.config = c])
           \/ Change([plan EXCEPT !.state = Absent])
           \/ \E o \in SUBSET OddSettings : plan.config \notin {Absent, Broken} /\
                Change([plan EXCEPT !.config.odd = o])
           \/ Change([plan EXCEPT !.stray = TRUE])
FinishesPhase == \E p \in DOMAIN plan.dirs :
  /\ plan.state # Absent /\ plan.roadmap # Absent /\ plan.state.current = p
  /\ LET more == {q \in plan.roadmap.listed : q > p}
     IN Change([plan EXCEPT !.roadmap.ticked = @ \cup {p},
          !.dirs[p].summaries = @ \cup plan.dirs[p].plans,
          !.state.current = IF more = {} THEN p ELSE CHOOSE q \in more : \A r \in more : q <= r,
          !.state.status = IF more = {} THEN "milestone complete" ELSE "ready to plan"])
ArchivesMilestone == \E v \in HealthVersions, registered \in BOOLEAN :
  /\ v \notin plan.snapshots
  /\ Change([plan EXCEPT !.snapshots = @ \cup {v}, !.archived[v] = DOMAIN plan.dirs,
               !.dirs = <<>>, !.registry = IF registered THEN @ \cup {v} ELSE @])

HealthNext ==
  \/ \E repair, backfill \in BOOLEAN, outside \in OutsideIssues :
       Check(repair, backfill, outside)
  \/ CheckConsistency
  \/ WriteConfig \/ RegenerateState \/ ReadForKey \/ WriteKey
  \/ BackfillReads \/ BackfillMilestones \/ BackfillSkips \/ RepairFails
  \/ ConfigSets \/ Damages \/ FinishesPhase \/ ArchivesMilestone

HealthSpec == HealthInit /\ [][HealthNext]_healthVars
----------------------------------------------------------------------------
HealthTypeOK ==
  /\ plan.snapshots \subseteq HealthVersions /\ plan.registry \subseteq HealthVersions
  /\ DOMAIN plan = PlanFields /\ plan.config \in {Absent, Broken} \cup Configs
  /\ seen \subseteq HealthVersions /\ settled \in 0 .. 2 /\ Len(queue) <= 5
  /\ held # Absent => queue # <<>> /\ Head(queue).do \in DOMAIN KeyOf
  /\ backfilling # NoBackfill => queue # <<>> /\ Head(queue).do = "backfillMilestones" /\ backfilling.version \in seen
  /\ changes \in 0 .. MaxHealthChanges /\ healthFaults \in 0 .. MaxHealthFaults
  /\ dropped \in BOOLEAN

Repairable == {"E004", "E005", "W003", "W008", "W016", "W018"}

\* A run with --repair that nothing disturbs resolves all it may repair but the key the default
\* configuration lacks, a second one that too, and none takes away a setting the user made in a
\* file that can be read (verify.cjs: cmdValidateHealth).  A phase that verify
\* phase-completeness calls complete has a summary for each of its plans but PLAN.md.
RepairSettles ==
  /\ queue = <<>> /\ settled >= 1 => Issues({}) \cap Repairable \subseteq {"W016"}
  /\ queue = <<>> /\ settled = 2 => Issues({}) \cap Repairable = {} /\ Repairs = <<>>
  /\ ~dropped
  /\ \A p \in DOMAIN plan.dirs : PhaseCompleteness(p) =>
       \A s \in plan.dirs[p].plans \ {""} : HasSummary(plan.dirs[p], s)
=============================================================================
