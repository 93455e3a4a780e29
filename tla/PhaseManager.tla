------------------------------ MODULE PhaseManager ------------------------------
(***************************************************************************)
(* The command center of a milestone: from the files of the phases and the *)
(* roadmap it tells what each phase has reached and what to do next, and   *)
(* the user has it spawn planners and executors in the background while a  *)
(* discussion goes on. Nobody tells it who is at work: it takes a phase    *)
(* for active whose files have changed in the last five minutes.           *)
(***************************************************************************)
EXTENDS Naturals, FiniteSets

CONSTANTS
  ManagedPhases,    \* numbers of the phases of the milestone
  BacklogPhases,    \* those numbered 999
  Elsewhere,        \* numbers ticked in other milestones of the roadmap
  NeedsSet,         \* the dependencies to look at: functions from phases to numbers
  PlannedBefore,    \* phases that are planned when the manager is started first,
  DiscussedBefore,  \* and those that are only discussed
  MaxPhasePlans,    \* bound: plans of a phase
  MaxAgents,        \* bound: agents at a time
  MaxInterventions  \* bound: what the user does by hand, and agents that die

ASSUME ManagerAssumption ==
  /\ ManagedPhases \subseteq Nat \ {0} /\ IsFiniteSet(ManagedPhases)
  /\ BacklogPhases \subseteq ManagedPhases /\ Elsewhere \cap ManagedPhases = {}
  /\ NeedsSet \subseteq [ManagedPhases -> SUBSET Nat]
  /\ MaxPhasePlans \in Nat \ {0} /\ MaxInterventions \in Nat

NoFolder == [is |-> "absent"]
NewFolder == [is |-> "there", context |-> FALSE, research |-> FALSE, plans |-> {}, summaries |-> {},
              verified |-> FALSE]
Idle == [is |-> "idle"]
Slots == 1 .. MaxAgents

VARIABLES
  dependsOn,      \* phase -> the numbers found in its 'Depends on'
  ticked,     \* phases with a tick in the roadmap
  folder,     \* phase -> its directory
  fresh,      \* phases whose files changed within five minutes
  chosen,      \* what is left of the actions the user chose at the dashboard
  discussing, \* phases in an inline discussion: one at most
  agents,     \* slot -> a planner or an executor at work
  interventions

managerVars == <<dependsOn, ticked, folder, fresh, chosen, discussing, agents, interventions>>
----------------------------------------------------------------------------
(* What a phase has reached, in the four ways it is told.                  *)

Has(p) == folder[p] # NoFolder
PlanFiles(p) == IF Has(p) THEN folder[p].plans ELSE {}
SummaryFiles(p) == IF Has(p) THEN folder[p].summaries ELSE {}
PlanCount(p) == Cardinality(PlanFiles(p))
SummaryCount(p) == Cardinality(SummaryFiles(p))

\* For the manager a tick completes a phase whatever is on disk.
ManagerStatus(p) ==
  CASE p \in ticked -> "complete"
    [] p \notin ticked /\ ~Has(p) -> "no_directory"
    [] p \notin ticked /\ Has(p) ->
         (CASE PlanCount(p) > 0 /\ SummaryCount(p) >= PlanCount(p) -> "complete"
            [] SummaryCount(p) > 0 /\ SummaryCount(p) < PlanCount(p) -> "partial"
            [] PlanCount(p) > 0 /\ SummaryCount(p) = 0 -> "planned"
            [] PlanCount(p) = 0 /\ folder[p].research -> "researched"
            [] PlanCount(p) = 0 /\ ~folder[p].research /\ folder[p].context -> "discussed"
            [] OTHER -> "empty")

\* For init progress only one that has no directory.
ProgressStatus(p) ==
  CASE ~Has(p) -> IF p \in ticked THEN "complete" ELSE "not_started"
    [] Has(p) -> (CASE PlanCount(p) > 0 /\ SummaryCount(p) >= PlanCount(p) -> "complete"
                    [] PlanCount(p) > 0 /\ SummaryCount(p) < PlanCount(p) -> "in_progress"
                    [] OTHER -> IF folder[p].research THEN "researched" ELSE "pending")

\* For init milestone-op one summary does.
MilestoneOpComplete(p) == SummaryCount(p) > 0

\* For the progress report and init plan-phase the verification decides.
DeterminePhaseStatus(p) ==
  CASE PlanCount(p) = 0 -> "Pending"
    [] PlanCount(p) > 0 /\ SummaryCount(p) = 0 -> "Planned"
    [] SummaryCount(p) \in 1 .. PlanCount(p) - 1 -> "In Progress"
    [] OTHER -> IF folder[p].verified THEN "Complete" ELSE "Executed"
----------------------------------------------------------------------------
(* The dashboard.                                                          *)

\* Mutant of CompletedNums: ticks count in this milestone only.
CompletedHere == {p \in ManagedPhases : ManagerStatus(p) = "complete"}

\* Ticks count in every milestone of the roadmap.
CompletedNums == {p \in ManagedPhases : ManagerStatus(p) = "complete"} \cup ticked \cup Elsewhere

\* What a search along the dependencies of listed phases finds from each of them: the
\* least set that has the listed ones among its own, and theirs with every phase in it.
Closure ==
  [needs \in NeedsSet |-> [p \in ManagedPhases |->
     {q \in ManagedPhases : \A S \in SUBSET ManagedPhases :
        (\A r \in {p} \cup S : needs[r] \cap ManagedPhases \subseteq S) => q \in S}]]
Reaches(p, q) == q \in Closure[dependsOn][p]
HasDepRelationship(p, q) == Reaches(p, q) \/ Reaches(q, p)

Advice(p, action) == [phase |-> p, action |-> action]

ActionFor ==
  [planned |-> "execute", discussed |-> "plan", researched |-> "plan",
   empty |-> "discuss", no_directory |-> "discuss"]

DepsSatisfied(p, completed) == dependsOn[p] \subseteq completed

\* Planning does not wait for the dependencies.
RecommendedActions ==
  LET completed == CompletedNums
  IN {Advice(p, ActionFor[ManagerStatus(p)]) :
        p \in {q \in ManagedPhases \ BacklogPhases :
                 /\ ManagerStatus(q) \in DOMAIN ActionFor
                 /\ ActionFor[ManagerStatus(q)] # "plan" => DepsSatisfied(q, completed)}}

ActiveExecuting ==
  {p \in ManagedPhases : ManagerStatus(p) = "partial" \/ (ManagerStatus(p) = "planned" /\ p \in fresh)}
ActivePlanning == {p \in fresh : ManagerStatus(p) \in {"discussed", "researched"}}

FilteredActions ==
  LET executing == ActiveExecuting
      planning == ActivePlanning
  IN {a \in RecommendedActions :
        /\ a.action = "execute" => \A p \in executing : ~HasDepRelationship(a.phase, p)
        /\ a.action = "plan" => \A p \in planning : ~HasDepRelationship(a.phase, p)}

NonBacklog == ManagedPhases \ BacklogPhases
AllComplete == NonBacklog # {} /\ \A p \in NonBacklog : ManagerStatus(p) = "complete"

\* The two phases init progress names, 0 for none: one in progress, and one not
\* begun, in the order of the numbers and those with a directory first.
FirstOf(phases) == IF phases = {} THEN 0 ELSE CHOOSE p \in phases : \A q \in phases : p <= q

InitProgress ==
  LET listed == {p \in ManagedPhases : Has(p)}
      current == FirstOf({p \in listed : ProgressStatus(p) \in {"in_progress", "researched"}})
      pending == FirstOf({p \in listed : ProgressStatus(p) = "pending"})
  IN [current |-> current,
      next |-> IF pending = 0 /\ current = 0
               THEN FirstOf({p \in ManagedPhases \ listed : ProgressStatus(p) # "complete"})
               ELSE pending]

AllPhasesComplete == ManagedPhases # {} /\ \A p \in ManagedPhases : MilestoneOpComplete(p)

\* What an executor is given: the plans without a summary at that time.
IncompletePlans(p) == PlanFiles(p) \ SummaryFiles(p)
----------------------------------------------------------------------------
(* The user and the agents.                                                *)

Intervene == interventions < MaxInterventions /\ interventions' = interventions + 1

\* A file of p is written.
Writes(p, new) == folder' = [folder EXCEPT ![p] = new] /\ fresh' = fresh \cup {p}

\* At the dashboard: everything that is recommended is to be done.
Continue ==
  /\ chosen = {} /\ discussing = {}
  /\ chosen' = FilteredActions /\ chosen' # {}
  /\ UNCHANGED <<dependsOn, ticked, folder, fresh, discussing, agents, interventions>>

Spawned(p, action) ==
  IF action = "plan" THEN [is |-> "planner", phase |-> p]
  ELSE [is |-> "executor", phase |-> p, todo |-> IncompletePlans(p)]

\* The agents first, one after the other; then the discussion of one phase.
Spawn ==
  /\ \E a \in chosen, s \in Slots :
       /\ a.action # "discuss" /\ agents[s] = Idle
       /\ agents' = [agents EXCEPT ![s] = Spawned(a.phase, a.action)]
       /\ chosen' = chosen \ {a}
  /\ UNCHANGED <<dependsOn, ticked, folder, fresh, discussing, interventions>>

StartDiscussion ==
  /\ \A a \in chosen : a.action = "discuss"
  /\ \E a \in chosen : discussing' = {a.phase}
  /\ chosen' = {}
  /\ UNCHANGED <<dependsOn, ticked, folder, fresh, agents, interventions>>

FinishDiscussion ==
  /\ \E p \in discussing :
       Writes(p, [IF Has(p) THEN folder[p] ELSE NewFolder EXCEPT !.context = TRUE])
  /\ discussing' = {}
  /\ UNCHANGED <<dependsOn, ticked, chosen, agents, interventions>>

\* Planning refuses a phase that is closed (but for --force), execution one without a plan.
Accepts(action, p) ==
  IF action = "plan" THEN DeterminePhaseStatus(p) # "Complete" ELSE PlanCount(p) > 0

\* By hand: a phase is planned or executed whatever is recommended, a tick is set
\* or removed, a directory created.
UserActs ==
  /\ Intervene
  /\ \/ /\ \E p \in ManagedPhases, s \in Slots, action \in {"plan", "execute"} :
             /\ Has(p) /\ Accepts(action, p) /\ agents[s] = Idle
             /\ agents' = [agents EXCEPT ![s] = Spawned(p, action)]
        /\ UNCHANGED <<ticked, folder, fresh>>
     \/ /\ \E p \in ManagedPhases : ticked' = IF p \in ticked THEN ticked \ {p} ELSE ticked \cup {p}
        /\ UNCHANGED <<agents, folder, fresh>>
     \/ /\ \E p \in ManagedPhases : ~Has(p) /\ folder' = [folder EXCEPT ![p] = NewFolder]
        /\ UNCHANGED <<agents, ticked, fresh>>
  /\ UNCHANGED <<dependsOn, chosen, discussing>>

\* A planner writes its research and then plan after plan; after the first one
\* the phase looks planned.
Plan(s) ==
  /\ agents[s].is = "planner"
  /\ LET p == agents[s].phase
     IN \/ ~folder[p].research /\ folder[p].plans = {} /\ Writes(p, [folder[p] EXCEPT !.research = TRUE])
        \/ \E n \in 1 .. MaxPhasePlans :
             /\ n = PlanCount(p) + 1
             /\ Writes(p, [folder[p] EXCEPT !.plans = @ \cup {n}, !.verified = FALSE])
  /\ UNCHANGED <<dependsOn, ticked, chosen, discussing, agents, interventions>>

FinishPlanning(s) ==
  /\ agents[s].is = "planner" /\ PlanCount(agents[s].phase) > 0
  /\ agents' = [agents EXCEPT ![s] = Idle]
  /\ UNCHANGED <<dependsOn, ticked, folder, fresh, chosen, discussing, interventions>>

\* An executor works off the plans it was given.
Summarize(s) ==
  /\ agents[s].is = "executor"
  /\ \E n \in agents[s].todo :
       /\ agents' = [agents EXCEPT ![s].todo = @ \ {n}]
       /\ LET p == agents[s].phase IN Writes(p, [folder[p] EXCEPT !.summaries = @ \cup {n}])
  /\ UNCHANGED <<dependsOn, ticked, chosen, discussing, interventions>>

\* Then it verifies: a phase that passes is ticked, one with gaps stays as it is.
FinishExecution(s) ==
  /\ agents[s].is = "executor" /\ agents[s].todo = {}
  /\ LET p == agents[s].phase
     IN \/ UNCHANGED <<ticked, folder, fresh>>
        \/ /\ PlanCount(p) > 0 /\ IncompletePlans(p) = {}
           /\ Writes(p, [folder[p] EXCEPT !.verified = TRUE]) /\ ticked' = ticked \cup {p}
  /\ agents' = [agents EXCEPT ![s] = Idle]
  /\ UNCHANGED <<dependsOn, chosen, discussing, interventions>>

AgentDies(s) ==
  /\ Intervene /\ agents[s] # Idle
  /\ agents' = [agents EXCEPT ![s] = Idle]
  /\ UNCHANGED <<dependsOn, ticked, folder, fresh, chosen, discussing>>

\* Five minutes without a change.
Silence ==
  /\ \E p \in fresh : fresh' = fresh \ {p}
  /\ UNCHANGED <<dependsOn, ticked, folder, chosen, discussing, agents, interventions>>

\* What the manager finds of a milestone that was begun without it, or ended.
FoundFolder(p) ==
  CASE p \in PlannedBefore -> [NewFolder EXCEPT !.context = TRUE, !.plans = 1 .. MaxPhasePlans]
    [] p \in DiscussedBefore \ PlannedBefore -> [NewFolder EXCEPT !.context = TRUE]
    [] OTHER -> NoFolder

ManagerInit ==
  /\ dependsOn \in NeedsSet /\ ticked \in {{}, NonBacklog}
  /\ folder = [p \in ManagedPhases |-> FoundFolder(p)] /\ fresh = {} /\ chosen = {}
  /\ discussing = {} /\ agents = [s \in Slots |-> Idle] /\ interventions = 0

ManagerNext ==
  \/ Continue \/ Spawn \/ StartDiscussion \/ FinishDiscussion \/ UserActs \/ Silence
  \/ \E s \in Slots : Plan(s) \/ FinishPlanning(s) \/ Summarize(s) \/ FinishExecution(s) \/ AgentDies(s)

ManagerSpec == ManagerInit /\ [][ManagerNext]_managerVars
----------------------------------------------------------------------------
ManagerTypeOK ==
  /\ ticked \subseteq ManagedPhases /\ fresh \subseteq ManagedPhases
  /\ discussing \subseteq ManagedPhases /\ Cardinality(discussing) <= 1
  /\ \A p \in ManagedPhases : Has(p) => /\ folder[p].plans \subseteq 1 .. MaxPhasePlans
                                        /\ folder[p].summaries \subseteq folder[p].plans
  /\ \A s \in Slots : agents[s] # Idle => Has(agents[s].phase)
  /\ interventions \in 0 .. MaxInterventions

\* A phase that nothing can complete from the dashboard: it waits, perhaps through
\* others, for a number that is not listed, for the backlog, or for itself.
Blocked(p) ==
  \E q \in {p} \cup {r \in ManagedPhases : Reaches(p, r)} :
    Reaches(q, q) \/ \E n \in dependsOn[q] \ (ticked \cup Elsewhere) : n \notin NonBacklog

\* The dashboard never runs out of things to do before the milestone is done,
\* except for a phase whose execution broke off half way, for dependencies that
\* cannot be met, and for files that changed a moment ago.
GoesOn(actions) ==
  actions = {} /\ fresh = {} /\ ~AllComplete /\ NonBacklog # {} =>
    \/ \E p \in ManagedPhases : ManagerStatus(p) = "partial"
    \/ \A p \in NonBacklog : ManagerStatus(p) # "complete" => Blocked(p)

\* What it has executed does not depend on what is being executed, or on
\* what it has executed beside it: except through phases that count as complete,
\* or when an executor has not written a file for five minutes.
KeepsApart(actions) ==
  LET execute == {a.phase : a \in {b \in actions : b.action = "execute"}}
  IN \A p \in execute :
    /\ \A s \in Slots : agents[s].is = "executor" /\ HasDepRelationship(p, agents[s].phase) =>
         \/ ManagerStatus(agents[s].phase) = "complete"
         \/ ManagerStatus(agents[s].phase) = "planned" /\ agents[s].phase \notin fresh
    /\ \A q \in execute : Reaches(p, q) =>
         \E r \in dependsOn[p] : ManagerStatus(r) = "complete" /\ Reaches(r, q)

\* The manager leads a milestone to its end and keeps agents whose phases are
\* related apart, although it sees only their files; and as long as it is not
\* done, init progress names a phase, too, and milestone-op takes no phase for
\* complete that was not begun (init.cjs:945-1215, 1216-1331, 814-917).
ManagerGuides ==
  /\ LET actions == FilteredActions IN GoesOn(actions) /\ KeepsApart(actions)
  /\ ~AllComplete /\ NonBacklog # {} => LET named == InitProgress IN named.current # 0 \/ named.next # 0
  /\ AllPhasesComplete => \A p \in NonBacklog : ManagerStatus(p) \in {"complete", "partial"}
=============================================================================
