----------------------------- MODULE ContextMonitor -----------------------------
(***************************************************************************)
(* How an agent learns that its context runs out: the status line leaves   *)
(* the metrics of the session in a file, a hook that runs after each use   *)
(* of a tool reads them and warns. A second file counts the uses between   *)
(* two warnings. Tools that an agent uses in parallel run their hooks in   *)
(* parallel, and neither file is locked or replaced in one step.           *)
(***************************************************************************)
EXTENDS Naturals, FiniteSets

CONSTANTS
  Uses,       \* hooks that may run at a time
  Debounce,   \* uses of tools from one warning to the next
  MaxMishaps, \* bound: hooks that are killed, and times the context is compacted
  MaxBeside   \* bound: hooks that run beside another one, between two warnings

ASSUME MonitorAssumption == Debounce \in Nat \ {0} /\ MaxMishaps \in Nat /\ MaxBeside \in Nat

Levels == {"fine", "warning", "critical"}
Absent == [is |-> "absent"]
Torn == [is |-> "torn"]
Old == [is |-> "old"]
Metrics(level) == [is |-> "metrics", level |-> level]
Sentinel(calls, last, recorded) ==
  [is |-> "sentinel", calls |-> calls, last |-> last, recorded |-> recorded]
Waiting == [pc |-> "waiting"]

VARIABLES
  tracked,   \* the project has a STATE.md
  context,   \* what is left of the context
  bridge,    \* the metrics file
  sentinel,  \* the file with the count
  use,       \* use of a tool -> its hook
  records,   \* ghost: times the session was recorded, two standing for more
  told,      \* ghost: the agent was warned of the critical level
  seen,      \* ghost: a hook that saw the critical level has ended
  silent,    \* ghost: hooks since the last warning that saw little context and kept silent
  beside,    \* ghost: of them, those that ran beside another one
  everBeside, \* ghost: some hook ran beside another one
  killings, compactions

bridgeVars == <<bridge, sentinel>>
ghosts == <<records, told, seen, silent, beside, everBeside>>
monitorVars == <<tracked, context, bridgeVars, use, ghosts, killings, compactions>>
----------------------------------------------------------------------------
(* The session and the status line.                                        *)

Consume ==
  /\ context # "critical"
  /\ context' = IF context = "fine" THEN "warning" ELSE "critical"
  /\ UNCHANGED <<tracked, bridgeVars, use, ghosts, killings, compactions>>

Compact ==
  /\ killings + compactions < MaxMishaps /\ compactions' = compactions + 1
  /\ context' = "fine"
  /\ UNCHANGED <<tracked, bridgeVars, use, ghosts, killings>>

\* The file is truncated, and then written.
OpenBridge ==
  /\ bridge' = Torn
  /\ UNCHANGED <<tracked, context, sentinel, use, ghosts, killings, compactions>>

WriteBridge ==
  /\ bridge = Torn /\ bridge' = Metrics(context)
  /\ UNCHANGED <<tracked, context, sentinel, use, ghosts, killings, compactions>>

MinutePasses ==
  /\ bridge.is = "metrics" /\ bridge' = Old
  /\ UNCHANGED <<tracked, context, sentinel, use, ghosts, killings, compactions>>
----------------------------------------------------------------------------
(* The hook.                                                               *)

Others(u) == {v \in Uses \ {u} : use[v] # Waiting}

\* Mutant of ReadMetrics: fine metrics do not end the hook.
ReadAllMetrics(u) ==
  /\ use[u] = Waiting
  /\ bridge.is = "metrics"
  /\ Others(u) # {} => beside < MaxBeside
  /\ use' = [use EXCEPT ![u] = [pc |-> "metrics", level |-> bridge.level]]
  /\ beside' = IF Others(u) = {} THEN beside ELSE beside + 1
  /\ everBeside' = (everBeside \/ Others(u) # {})
  /\ UNCHANGED <<tracked, context, bridgeVars, records, told, seen, silent, killings, compactions>>

\* Metrics that are missing, torn, old or fine end it.
ReadMetrics(u) ==
  /\ use[u] = Waiting
  /\ bridge.is = "metrics" /\ bridge.level # "fine"
  /\ Others(u) # {} => beside < MaxBeside
  /\ use' = [use EXCEPT ![u] = [pc |-> "metrics", level |-> bridge.level]]
  /\ beside' = IF Others(u) = {} THEN beside ELSE beside + 1
  /\ everBeside' = (everBeside \/ Others(u) # {})
  /\ UNCHANGED <<tracked, context, bridgeVars, records, told, seen, silent, killings, compactions>>

\* A sentinel that is missing or torn makes it the first warning.
CallCount == IF sentinel.is = "sentinel" THEN sentinel.calls + 1 ELSE 1
LastLevel == IF sentinel.is = "sentinel" THEN sentinel.last ELSE "none"
Recorded == sentinel.is = "sentinel" /\ sentinel.recorded

SeverityEscalated(level) == level = "critical" /\ LastLevel = "warning"
\* Mutant of StaysSilent: the first warning is debounced, too.
StaysSilentAtFirst(level) == CallCount < Debounce /\ ~SeverityEscalated(level)

StaysSilent(level) ==
  sentinel.is = "sentinel" /\ CallCount < Debounce /\ ~SeverityEscalated(level)

ReadSentinel(u) ==
  /\ use[u].pc = "metrics"
  /\ use' = [use EXCEPT ![u] =
       IF StaysSilent(use[u].level)
       THEN [pc |-> "open", warns |-> FALSE, level |-> use[u].level,
             data |-> Sentinel(CallCount, LastLevel, Recorded)]
       ELSE [pc |-> "open", warns |-> TRUE, level |-> use[u].level,
             data |-> Sentinel(0, use[u].level, Recorded)]]
  /\ UNCHANGED <<tracked, context, bridgeVars, ghosts, killings, compactions>>

OpenSentinel(u) ==
  /\ use[u].pc = "open" /\ sentinel' = Torn
  /\ use' = [use EXCEPT ![u].pc = "write"]
  /\ UNCHANGED <<tracked, context, bridge, ghosts, killings, compactions>>

\* The first critical warning of a tracked project is recorded in STATE.md by a
\* process of its own; that it was is written into the sentinel once more.
WriteSentinel(u) ==
  /\ use[u].pc = "write" /\ sentinel' = use[u].data
  /\ LET records1 == use[u].warns /\ use[u].level = "critical" /\ tracked /\ ~use[u].data.recorded
     IN /\ use' = [use EXCEPT ![u] = IF records1 THEN [@ EXCEPT !.pc = "open", !.data.recorded = TRUE]
                                                 ELSE [@ EXCEPT !.pc = "end"]]
        /\ records' = IF records1 /\ records < 2 THEN records + 1 ELSE records
  /\ UNCHANGED <<tracked, context, bridge, told, seen, silent, beside, everBeside, killings, compactions>>

\* The warning is printed last.
EndHook(u) ==
  /\ use[u].pc = "end"
  /\ seen' = (seen \/ use[u].level = "critical")
  /\ IF use[u].warns
     THEN silent' = 0 /\ beside' = Cardinality(Others(u)) /\ told' = (told \/ use[u].level = "critical")
     ELSE silent' = silent + 1 /\ UNCHANGED <<beside, told>>
  /\ use' = [use EXCEPT ![u] = Waiting]
  /\ UNCHANGED <<tracked, context, bridgeVars, records, everBeside, killings, compactions>>

\* The runtime gives a hook ten seconds.
KillHook(u) ==
  /\ killings + compactions < MaxMishaps /\ killings' = killings + 1
  /\ use[u] # Waiting /\ use' = [use EXCEPT ![u] = Waiting]
  /\ UNCHANGED <<tracked, context, bridgeVars, ghosts, compactions>>

MonitorInit ==
  /\ tracked \in BOOLEAN
  /\ context = "fine" /\ bridge = Absent /\ sentinel = Absent
  /\ use = [u \in Uses |-> Waiting]
  /\ records = 0 /\ told = FALSE /\ seen = FALSE /\ silent = 0 /\ beside = 0 /\ everBeside = FALSE
  /\ killings = 0 /\ compactions = 0

MonitorNext ==
  \/ Consume \/ Compact \/ OpenBridge \/ WriteBridge \/ MinutePasses
  \/ \E u \in Uses :
       \/ ReadMetrics(u) \/ ReadSentinel(u) \/ OpenSentinel(u) \/ WriteSentinel(u)
       \/ EndHook(u) \/ KillHook(u)

MonitorSpec == MonitorInit /\ [][MonitorNext]_monitorVars
----------------------------------------------------------------------------
MonitorTypeOK ==
  /\ sentinel.is = "sentinel" => sentinel.calls \in 0 .. Debounce - 1 /\ sentinel.last \in Levels \cup {"none"}
  /\ \A u \in Uses : use[u] # Waiting => use[u].level \in Levels \ {"fine"}
  /\ records \in 0 .. 2 /\ killings \in 0 .. MaxMishaps

\* A hook that is about to warn.
AboutToTell ==
  \E u \in Uses : use[u].pc \in {"open", "write", "end"} /\ use[u].warns /\ use[u].level = "critical"

\* Hooks that run beside each other write back counts they read before, and a
\* killed one may have counted a warning that nobody saw: each may cost the
\* agent Debounce silent uses, and no more. Whatever happens to the files, the
\* first use that sees the critical level tells it; and the session is then
\* recorded, once unless two hooks ran beside each other or one was killed (hooks/gsd-context-monitor.js:94-195).
AgentIsWarned ==
  /\ silent < Debounce * (1 + beside + killings)
  /\ seen /\ killings = 0 => told \/ AboutToTell
  /\ told /\ tracked => records > 0
  /\ records > 1 => everBeside \/ killings > 0
=============================================================================
