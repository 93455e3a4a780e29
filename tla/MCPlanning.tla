----------------------------- MODULE MCPlanning -----------------------------
(***************************************************************************)
(* The components of the agent tooling that keep the planning files: a     *)
(* behaviour is one of one component, named by `part`; the others rest in  *)
(* an initial state.                                                       *)
(***************************************************************************)
EXTENDS PlanningState, PlanningPhases, PlanWaves, Configuration, PlanningHealth,
        PhaseGates, ModelRouting, PhaseManager, TLC

CONSTANTS n1, n2

VARIABLE part

planningVars == <<part, stateVars, phaseVars, waveVars, confVars, healthVars, gateVars,
                  routingVars, managerVars>>

Parts == {"state", "phases", "waves", "config", "health", "gates", "routing", "manager"}

----------------------------------------------------------------------------
(* The instances.                                                          *)

\* Neighbours of different names, and two neighbours of one name.
MCNamings == { [k \in 0 .. MaxKeys |-> IF k % 2 = 0 THEN n1 ELSE n2],
               [k \in 0 .. MaxKeys |-> IF k \in {2, 3} THEN n1 ELSE n2] }

\* Plans without dependencies, a chain, a short way beside a long one, and two cycles.
MCDependencies == { {}, {<<2, 1>>, <<3, 2>>}, {<<2, 1>>, <<3, 2>>, <<4, 3>>, <<4, 1>>},
                    {<<1, 1>>}, {<<1, 2>>, <<2, 1>>, <<3, 2>>} }

\* One decision can be told by its phrase at first.
MCWordings == {[d \in Decisions |-> IF d = "D-01" THEN "one" ELSE "brief"]}

\* Files with legacy keys, with flat keys beside nested ones, and none.
NoFile(is) == [is |-> is, text |-> NoKeys]
OldFile == [is |-> "ok", text |-> [NoKeys EXCEPT !["branching_strategy"] = "none", !["depth"] = "quick",
                                                 !["multiRepo"] = "yes"]]
FlatFile == [is |-> "ok", text |-> [NoKeys EXCEPT !["git.branching_strategy"] = "none",
                                                  !["branching_strategy"] = "phase", !["research"] = "no"]]
ReposFile == [is |-> "ok", text |-> [NoKeys EXCEPT !["sub_repos"] = "old", !["commit_docs"] = "yes"]]
MCInitialFiles ==
  {"root" :> r @@ "stream" :> NoFile("nodir") :
     r \in {OldFile, FlatFile, ReposFile, NoFile("broken"), NoFile("nodir")}}
  \cup {"root" :> FlatFile @@ "stream" :> OldFile}

\* Two agents of the catalog, and the settings that decide about the model, then about
\* the effort.
Planner == [routing |-> "heavy", phase |-> "planning", golden |-> "opus", balanced |-> "opus", budget |-> "sonnet"]
Mapper == [routing |-> "light", phase |-> "research", golden |-> "sonnet", balanced |-> "haiku", budget |-> "haiku"]
PlainRouting ==
  [agentOverride |-> FALSE, profile |-> "balanced", models |-> [planning |-> None, research |-> None],
   runtime |-> None, policy |-> [runtimeTiers |-> {}, provider |-> None, levels |-> {"opus"}, budget |-> "medium"],
   overrides |-> {"sonnet"}, resolveIds |-> "no", effort |-> [set |-> FALSE],
   fast |-> [set |-> FALSE], routing |-> [enabled |-> FALSE, cap |-> 1]]
RestingRoute == ResolveExecution(PlainRouting, Planner, 0)
MCAgentTypes == {Planner, Mapper}
MCRoutingConfigs ==
  { [PlainRouting EXCEPT !.agentOverride = (o = "agent"), !.profile = p, !.models["planning"] = m, !.runtime = r,
        !.policy.provider = pr, !.policy.runtimeTiers = IF o = "tiers" THEN {"haiku"} ELSE {},
        !.resolveIds = ids] :
      o \in {"agent", "tiers", "no"}, p \in {"quality", "balanced", "budget", "adaptive", "inherit"},
      m \in {None, "sonnet", "inherit", "large"}, r \in {None, "codex", "other"},
      pr \in {None, "preset", "custom"}, ids \in {"no", "yes", "omit"} }
  \cup
  { [PlainRouting EXCEPT !.runtime = r, !.routing = [enabled |-> TRUE, escalates |-> e, cap |-> k],
        !.effort = [set |-> s, agent |-> a, default |-> d, tiers |-> [light |-> t, standard |-> "high", heavy |-> t]],
        !.fast = [set |-> s, enabled |-> e, tiers |-> [light |-> f, standard |-> f, heavy |-> "no"]]] :
      r \in {None, "codex", "other"}, e \in BOOLEAN, k \in 0 .. 2, s \in BOOLEAN, a \in {None, "xhigh"},
      d \in {None, "minimal"}, t \in {None, "low", "max"}, f \in {None, "yes"} }

\* A sound project, one of an older version with gaps, one that is not readable, and none.
PlanDir(ps, ss, r) == [plans |-> ps, summaries |-> ss, research |-> r, validation |-> FALSE,
                                 proper |-> ~r]
SoundPlan ==
  [there |-> TRUE, project |-> "ok", roadmap |-> [listed |-> {1, 2}, ticked |-> {}],
   state |-> [refs |-> {1}, current |-> 1, milestone |-> 0, status |-> "executing"],
   config |-> [nyquist |-> TRUE, ai |-> TRUE, odd |-> {}, own |-> FALSE],
   dirs |-> 1 :> PlanDir({"slug"}, {"short"}, FALSE) @@ 2 :> PlanDir({"short"}, {}, FALSE),
   archived |-> [v \in HealthVersions |-> {}], snapshots |-> {}, registry |-> {}, stray |-> FALSE, version |-> 2]
OldPlan == [SoundPlan EXCEPT !.project = "bare", !.config = [nyquist |-> FALSE, ai |-> FALSE, odd |-> {}, own |-> TRUE],
              !.dirs = 1 :> PlanDir({"", "slug"}, {"slug"}, TRUE) @@ 3 :> PlanDir({"short"}, {}, FALSE),
              !.archived[1] = {2}, !.state.milestone = 1, !.state.refs = {4}, !.snapshots = {1}]
NoPlan == [SoundPlan EXCEPT !.there = FALSE, !.project = "absent", !.roadmap = Absent, !.state = Absent,
             !.config = Absent, !.dirs = <<>>]
MCInitialHealth == {SoundPlan, OldPlan, [OldPlan EXCEPT !.config = Broken, !.roadmap = Absent], NoPlan}

\* A plan for the schema, and one for the code with its tests.
MCModifiedBy == [p \in GatePlans |-> IF p = 1 THEN {"schema"} ELSE {"code", "test"}]

\* Phases in a row through the backlog, in a circle, and with a dependency that
\* is elsewhere or nowhere.
Needs(a, b, c) == [p \in ManagedPhases |-> CASE p = 1 -> a [] p = 2 -> b [] OTHER -> c]
MCNeeds == {Needs({}, {3}, {1}), Needs({2}, {1}, {}), Needs({7}, {0}, {})}

MCUserDefaults == {[NoKeys EXCEPT !["depth"] = "quick", !["research"] = "no"]}

----------------------------------------------------------------------------
PlanningInit ==
  /\ part \in Parts
  /\ IF part = "state" THEN TRUE ELSE style = "bold"
  /\ StateInit
  /\ IF part = "phases" THEN TRUE ELSE nameOf = (CHOOSE n \in Namings : TRUE) /\ phaseDirs = {}
  /\ PhaseInit
  /\ IF part = "waves" THEN TRUE ELSE needs = {} /\ zeroBased = FALSE
  /\ WaveInit
  /\ IF part = "config" THEN TRUE ELSE readable = [w \in Where |-> "nodir"] /\ subRepos = "empty"
  /\ ConfigInit
  /\ IF part = "health" THEN TRUE ELSE plan = SoundPlan
  /\ HealthInit
  /\ IF part = "gates" THEN TRUE ELSE context = Nothing
  /\ GateInit
  /\ IF part = "routing" THEN RoutingInit
     ELSE cfg = PlainRouting /\ agentType = Planner /\ attempt = 0 /\ resolved = RestingRoute
  /\ IF part = "manager" THEN TRUE ELSE dependsOn = (CHOOSE n \in NeedsSet : TRUE) /\ ticked = NonBacklog
  /\ ManagerInit

\* The components other than p.
Rest(p) ==
  /\ IF p = "state" THEN TRUE ELSE UNCHANGED stateVars
  /\ IF p = "phases" THEN TRUE ELSE UNCHANGED phaseVars
  /\ IF p = "waves" THEN TRUE ELSE UNCHANGED waveVars
  /\ IF p = "config" THEN TRUE ELSE UNCHANGED confVars
  /\ IF p = "health" THEN TRUE ELSE UNCHANGED healthVars
  /\ IF p = "gates" THEN TRUE ELSE UNCHANGED gateVars
  /\ IF p = "routing" THEN TRUE ELSE UNCHANGED routingVars
  /\ IF p = "manager" THEN TRUE ELSE UNCHANGED managerVars

PlanningNext ==
  /\ UNCHANGED part
  /\ \/ part = "state" /\ StateNext /\ Rest("state")
     \/ part = "phases" /\ PhaseNext /\ Rest("phases")
     \/ part = "waves" /\ WaveNext /\ Rest("waves")
     \/ part = "config" /\ ConfigNext /\ Rest("config")
     \/ part = "health" /\ HealthNext /\ Rest("health")
     \/ part = "gates" /\ GateNext /\ Rest("gates")
     \/ part = "routing" /\ RoutingNext /\ Rest("routing")
     \/ part = "manager" /\ ManagerNext /\ Rest("manager")

PlanningSpec == PlanningInit /\ [][PlanningNext]_planningVars

\* Every variable of the component at work has its type.
PlanningTypeOK ==
  /\ part \in Parts
  /\ part = "state" => StateTypeOK
  /\ part = "phases" => PhaseTypeOK
  /\ part = "waves" => WaveTypeOK
  /\ part = "config" => ConfigTypeOK
  /\ part = "health" => HealthTypeOK
  /\ part = "gates" => GateTypeOK
  /\ part = "routing" => RoutingTypeOK
  /\ part = "manager" => ManagerTypeOK
=============================================================================
