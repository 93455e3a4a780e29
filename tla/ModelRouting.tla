---------------------------- MODULE ModelRouting ----------------------------
(***************************************************************************)
(* The model and the effort an agent is spawned with: what the             *)
(* configuration of the project says about it, from the most specific      *)
(* entry to the default, and what changes when a failed agent is spawned   *)
(* again.                                                                  *)
(***************************************************************************)
EXTENDS Integers, Sequences

CONSTANTS
  AgentTypes,      \* entries of the catalog: [routing, phase, golden, balanced, budget]
  RoutingConfigs,  \* the configurations of interest
  MaxAttempts      \* bound on the attempts of an agent

ModelTiers == {"haiku", "sonnet", "opus"}

\* Escalations that are not a number from 0 on count as 1.
ASSUME RoutingAssumption ==
  /\ \A a \in AgentTypes : /\ a.routing \in {"light", "standard", "heavy"}
                            /\ {a.golden, a.balanced, a.budget} \subseteq ModelTiers
  /\ \A c \in RoutingConfigs : c.routing.cap \in Nat /\ (c.fast.set => c.fast.enabled \in BOOLEAN)
  /\ MaxAttempts \in Nat

None == "none"

VARIABLES cfg, agentType, attempt, resolved

routingVars == <<cfg, agentType, attempt, resolved>>

----------------------------------------------------------------------------
(* The model.                                                              *)

AdaptiveTierMap == [heavy |-> "opus", standard |-> "sonnet", light |-> "haiku"]

\* The column of the profile in the agent's row of the catalog.
ModelProfile(a, profile) ==
  CASE profile = "quality" -> a.golden
    [] profile = "budget" -> a.budget
    [] profile = "adaptive" -> AdaptiveTierMap[a.routing]
    [] OTHER -> a.balanced

\* An entry for the phase's type decides; then the profile.
TierFor(c, a) ==
  IF c.models[a.phase] \in ModelTiers \cup {"inherit"} THEN c.models[a.phase]
  ELSE IF c.profile = "inherit" THEN "inherit" ELSE ModelProfile(a, c.profile)

\* Where a policy finds a model: the user's entry for the runtime, then the provider's preset,
\* or the user's own three levels.
PolicyHas(c, tier) ==
  \/ tier \in c.policy.runtimeTiers
  \/ c.policy.provider = "custom" /\ tier \in c.policy.levels
  \/ c.policy.provider = "preset" /\ c.policy.budget \in {"low", "medium", "high"}

\* The catalog has models for the known runtimes; the user may add some.
RuntimeHas(c, tier) == c.runtime = "codex" \/ tier \in c.overrides

\* [by: who names the model, tier: which one].
ResolveModel(c, a) ==
  LET tier == TierFor(c, a)
      foreign == c.runtime \notin {None, "claude"} /\ tier # "inherit"
  IN CASE c.agentOverride -> [by |-> "override", tier |-> "fixed"]
       [] ~c.agentOverride /\ foreign /\ PolicyHas(c, tier) -> [by |-> "policy", tier |-> tier]
       [] ~c.agentOverride /\ foreign /\ ~PolicyHas(c, tier) /\ RuntimeHas(c, tier) ->
            [by |-> "runtime", tier |-> tier]
       [] OTHER -> IF c.resolveIds = "omit" THEN [by |-> "omitted", tier |-> None]
                   ELSE [by |-> IF tier # "inherit" /\ c.resolveIds = "yes" THEN "id" ELSE "alias",
                         tier |-> tier]

----------------------------------------------------------------------------
(* The effort.                                                             *)

Efforts == <<"minimal", "low", "medium", "high", "xhigh", "max">>
EffortLevel(e) == CHOOSE i \in 1 .. Len(Efforts) : Efforts[i] = e
EffortSet == {Efforts[i] : i \in 1 .. Len(Efforts)}

\* Mutant of Raise: the list is taken for a ring.
RaiseAround(e, n) == Efforts[((EffortLevel(e) + n - 1) % Len(Efforts)) + 1]

\* So many levels up, or as many as there are.
Raise(e, n) == Efforts[IF EffortLevel(e) + n > Len(Efforts) THEN Len(Efforts) ELSE EffortLevel(e) + n]

ManifestEffort == [light |-> "low", standard |-> "high", heavy |-> "xhigh"]

\* The agent, its tier, the default; what is built in counts only where the project says
\* nothing about effort at all.
ResolveEffort(c, a) ==
  IF ~c.effort.set THEN ManifestEffort[a.routing]
  ELSE CASE c.effort.agent \in EffortSet -> c.effort.agent
         [] c.effort.agent \notin EffortSet /\ c.effort.tiers[a.routing] \in EffortSet -> c.effort.tiers[a.routing]
         [] OTHER -> IF c.effort.default \in EffortSet THEN c.effort.default ELSE "high"

\* Each failed attempt raises the effort, up to the cap of the escalations.
ResolveEffortForTier(c, a, n) ==
  LET base == ResolveEffort(c, a)
  IN IF c.routing.enabled /\ c.routing.escalates
     THEN Raise(base, IF n < c.routing.cap THEN n ELSE c.routing.cap) ELSE base

\* The runtimes that take the effort do not take all levels.
Clamp(runtime, e) ==
  CASE runtime = "claude" /\ e = "minimal" -> "low"
    [] runtime = "codex" /\ e = "max" -> "xhigh"
    [] OTHER -> e

Supported(runtime) ==
  CASE runtime = "claude" -> EffortSet \ {"minimal"}
    [] runtime = "codex" -> EffortSet \ {"max"}
    [] OTHER -> EffortSet

----------------------------------------------------------------------------
(* Fast mode.                                                              *)

ManifestFast == [light |-> TRUE, standard |-> FALSE, heavy |-> FALSE]

ResolveFastMode(c, a) ==
  CASE ~c.fast.set -> ManifestFast[a.routing]
    [] c.fast.set /\ c.fast.tiers[a.routing] \in {"yes", "no"} -> c.fast.tiers[a.routing] = "yes"
    [] OTHER -> c.fast.enabled

----------------------------------------------------------------------------
(* Spawning.                                                               *)

Runtime(c) == IF c.runtime = None THEN "claude" ELSE c.runtime

\* resolve-execution: the model does not depend on the attempt.
ResolveExecution(c, a, n) ==
  [model |-> ResolveModel(c, a),
   effort |-> ResolveEffortForTier(c, a, n),
   rendered |-> Clamp(Runtime(c), ResolveEffortForTier(c, a, n)),
   fast |-> ResolveFastMode(c, a)]

RoutingInit ==
  /\ cfg \in RoutingConfigs /\ agentType \in AgentTypes
  /\ attempt = 0 /\ resolved = ResolveExecution(cfg, agentType, 0)

\* The orchestrator marks the result a failure and spawns the agent again.
Retry ==
  /\ attempt < MaxAttempts
  /\ attempt' = attempt + 1
  /\ resolved' = ResolveExecution(cfg, agentType, attempt')
  /\ UNCHANGED <<cfg, agentType>>

RoutingNext == Retry

RoutingSpec == RoutingInit /\ [][RoutingNext]_routingVars

----------------------------------------------------------------------------
(* Properties.                                                             *)

\* Every agent has a model, and an effort its runtime takes.
RoutingTypeOK ==
  /\ attempt \in 0 .. MaxAttempts
  /\ resolved.model.by \in {"override", "policy", "runtime", "omitted", "id", "alias"}
  /\ resolved.model.tier \in ModelTiers \cup {"inherit", "fixed", None}
  /\ resolved.effort \in EffortSet /\ resolved.rendered \in Supported(Runtime(cfg))
  /\ resolved.fast \in BOOLEAN

\* An agent spawned again gets the same model and no lower effort than the attempt that
\* failed, and no higher one past the cap (core.cjs:1602, model-catalog.cjs:126).
RetryIsNotWeaker ==
  [][/\ resolved'.model = resolved.model
     /\ EffortLevel(resolved'.effort) >= EffortLevel(resolved.effort)
     /\ EffortLevel(resolved'.rendered) >= EffortLevel(resolved.rendered)
     /\ attempt' > cfg.routing.cap => resolved'.effort = resolved.effort]_routingVars
=============================================================================
