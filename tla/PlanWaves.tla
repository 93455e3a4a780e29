----------------------------- MODULE PlanWaves -----------------------------
(***************************************************************************)
(* The waves of a phase: phase-plan-index (phase.cjs) sorts the plans of a *)
(* phase by their depends_on into waves, and execute-phase runs one wave   *)
(* after the other.  The counter of the algorithm's open dependencies is   *)
(* the set of them, and its queue a set that is emptied in any order.      *)
(***************************************************************************)
EXTENDS Integers, FiniteSets

CONSTANTS
  Plans,           \* the plans of the phase
  GapPlans,        \* those of them that close gaps
  Dependencies     \* the sets of pairs <<plan, plan it depends on>> to look at

ASSUME WavesAssumption ==
  /\ IsFiniteSet(Plans) /\ GapPlans \subseteq Plans
  /\ \A g \in Dependencies : g \subseteq Plans \X Plans

VARIABLES
  needs,       \* the resolved dependencies; one that names no plan is ignored
  zeroBased,   \* a plan declares wave 0
  waiting,     \* plan -> its dependencies not yet visited
  queued,      \* plans in the queue
  visited,     \* plans taken out of it
  level,       \* plan -> the longest chain of dependencies found so far
  stage,       \* "indexing", then "cycle" or "ready"
  summaries,   \* the plans with a summary
  mode,        \* what execute-phase is at
  todo,        \* the plans of this run that are still to be begun
  atWork,      \* those an executor works on
  failed,      \* those that failed, until the user is asked
  dispatched,  \* history: plans that were begun in the order of their waves
  leftOut,     \* history: plans without a summary that --gaps-only skipped
  passedOver   \* history: failed plans after which the user went on

waveVars == <<needs, zeroBased, waiting, queued, visited, level, stage, summaries, mode, todo,
              atWork, failed, dispatched, leftOut, passedOver>>
indexVars == <<needs, zeroBased, waiting, queued, visited, level, stage>>
runVars == <<summaries, mode, todo, atWork, failed, dispatched, leftOut, passedOver>>

WaveTypeOK ==
  /\ needs \in Dependencies /\ zeroBased \in BOOLEAN
  /\ waiting \in [Plans -> SUBSET Plans] /\ level \in [Plans -> Nat]
  /\ queued \subseteq Plans /\ visited \subseteq Plans /\ summaries \subseteq Plans
  /\ stage \in {"indexing", "cycle", "ready"}
  /\ mode \in {"idle", "delegating", "waves", "interactive"}
  /\ todo \subseteq Plans /\ atWork \subseteq Plans /\ failed \subseteq Plans
  /\ dispatched \subseteq Plans /\ leftOut \subseteq Plans /\ passedOver \subseteq Plans

WaveInit ==
  /\ needs \in Dependencies /\ zeroBased \in BOOLEAN
  /\ waiting = [p \in Plans |-> {q \in Plans : <<p, q>> \in needs}]
  /\ queued = {p \in Plans : waiting[p] = {}}
  /\ visited = {} /\ level = [p \in Plans |-> 0]
  /\ stage = "indexing" /\ summaries = {}
  /\ mode = "idle" /\ todo = {} /\ atWork = {} /\ failed = {}
  /\ dispatched = {} /\ leftOut = {} /\ passedOver = {}

\* computeDependencyLevels: the plans that depend on the one visited.
Dependents(cur) == {p \in Plans : cur \in waiting[p]}

\* Mutant of Raised: the first level found stays.
RaisedOnce(p, cur) == IF level[p] = 0 THEN level[cur] + 1 ELSE level[p]
Raised(p, cur) == IF level[cur] + 1 > level[p] THEN level[cur] + 1 ELSE level[p]

Visit(cur) ==
  /\ stage = "indexing" /\ cur \in queued
  /\ visited' = visited \cup {cur}
  /\ waiting' = [p \in Plans |-> waiting[p] \ {cur}]
  /\ queued' = (queued \ {cur}) \cup {p \in Dependents(cur) : waiting[p] = {cur}}
  /\ level' = [p \in Plans |-> IF p \in Dependents(cur) THEN Raised(p, cur) ELSE level[p]]
  /\ UNCHANGED <<needs, zeroBased, stage, runVars>>

\* cmdPhasePlanIndex: a plan that was not reached is on a cycle, or behind one.
Indexed ==
  /\ stage = "indexing" /\ queued = {}
  /\ stage' = IF visited = Plans THEN "ready" ELSE "cycle"
  /\ UNCHANGED <<needs, zeroBased, waiting, queued, visited, level, runVars>>

\* Waves count from 1, unless a plan declares wave 0.
Wave(p) == level[p] + (IF zeroBased THEN 0 ELSE 1)
Incomplete == Plans \ summaries

----------------------------------------------------------------------------
(* execute-phase, over and over: a run ends whenever the user stops it, it *)
(* is through or the session dies, and the next one selects what is left.  *)

AllWaves == -1

\* The arguments: --gaps-only, --wave N, which wants the earlier waves of what is
\* selected done, and --interactive.
StartRun ==
  /\ stage = "ready" /\ mode = "idle"
  /\ \E gapsOnly \in BOOLEAN, wave \in {AllWaves} \cup {Wave(p) : p \in Plans} :
       LET matching == Incomplete \cap (IF gapsOnly THEN GapPlans ELSE Plans)
       IN /\ wave # AllWaves => \A p \in matching : Wave(p) >= wave
          /\ todo' = {p \in matching : wave \in {AllWaves, Wave(p)}}
          /\ leftOut' = leftOut \cup (IF gapsOnly THEN Incomplete \ GapPlans ELSE {})
  /\ mode' \in {"delegating", "interactive"}
  /\ UNCHANGED <<indexVars, summaries, atWork, failed, dispatched, passedOver>>

\* Plans for another AI come before all waves, one by one; one that fails is left to
\* its wave.
Delegate(p) ==
  /\ mode = "delegating" /\ p \in todo
  /\ todo' = todo \ {p} /\ summaries' = summaries \cup {p}
  /\ UNCHANGED <<indexVars, mode, atWork, failed, dispatched, leftOut, passedOver>>

DelegationOver ==
  /\ mode = "delegating" /\ mode' = "waves"
  /\ UNCHANGED <<indexVars, summaries, todo, atWork, failed, dispatched, leftOut, passedOver>>

\* Interactively every plan is offered, whatever its wave, and executed or skipped.
Offer(p) ==
  /\ mode = "interactive" /\ p \in todo /\ todo' = todo \ {p}
  /\ summaries' \in {summaries, summaries \cup {p}}
  /\ UNCHANGED <<indexVars, mode, atWork, failed, dispatched, leftOut, passedOver>>

\* An executor gets a plan of the first wave that is not over; it is over when every
\* plan has ended, and the user has gone on after those that failed.
Dispatch(p) ==
  /\ mode = "waves" /\ p \in todo
  /\ \A q \in todo \cup atWork \cup failed : Wave(p) <= Wave(q)
  /\ todo' = todo \ {p} /\ atWork' = atWork \cup {p} /\ dispatched' = dispatched \cup {p}
  /\ UNCHANGED <<indexVars, summaries, mode, failed, leftOut, passedOver>>

\* The summary is there, perhaps long after the run gave the executor up.
Finish(p) ==
  /\ p \in dispatched /\ (p \in atWork \/ p \notin summaries)
  /\ summaries' = summaries \cup {p}
  /\ atWork' = atWork \ {p} /\ failed' = failed \ {p}
  /\ UNCHANGED <<indexVars, mode, todo, dispatched, leftOut, passedOver>>

\* The executor returns an error, or a summary that fails the spot checks.
Fail(p) ==
  /\ p \in atWork /\ atWork' = atWork \ {p} /\ failed' = failed \cup {p}
  /\ summaries' \in {summaries, summaries \cup {p}}
  /\ UNCHANGED <<indexVars, mode, todo, dispatched, leftOut, passedOver>>

RetryFailed(p) ==
  /\ p \in failed /\ failed' = failed \ {p} /\ todo' = todo \cup {p}
  /\ UNCHANGED <<indexVars, summaries, mode, atWork, dispatched, leftOut, passedOver>>

\* "Continue with remaining waves?"
GoOn ==
  /\ mode = "waves" /\ failed # {}
  /\ \A p \in failed, q \in todo \cup atWork : Wave(p) < Wave(q)
  /\ passedOver' = passedOver \cup failed /\ failed' = {}
  /\ UNCHANGED <<indexVars, summaries, mode, todo, atWork, dispatched, leftOut>>

EndRun ==
  /\ mode # "idle" /\ mode' = "idle"
  /\ todo' = {} /\ atWork' = {} /\ failed' = {}
  /\ UNCHANGED <<indexVars, summaries, dispatched, leftOut, passedOver>>

WaveNext ==
  \/ Indexed \/ StartRun \/ DelegationOver \/ GoOn \/ EndRun
  \/ \E p \in Plans : \/ Visit(p) \/ Delegate(p) \/ Offer(p) \/ Dispatch(p) \/ Finish(p)
                      \/ Fail(p) \/ RetryFailed(p)

WaveSpec == WaveInit /\ [][WaveNext]_waveVars

----------------------------------------------------------------------------
\* Over any number of runs, whatever fails or is retried, no executor gets a plan before
\* every plan it depends on has a summary; the exceptions are a dependency that
\* --gaps-only skipped and one that failed before the user chose to go on.  Plans that
\* are delegated or offered interactively come in no order (phase-plan-index,
\* execute-phase).
DependenciesFirst ==
  \A p \in dispatched, q \in Plans :
    <<p, q>> \in needs => p # q /\ q \in summaries \cup leftOut \cup passedOver
=============================================================================
