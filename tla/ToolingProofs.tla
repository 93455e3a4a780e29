----------------------------- MODULE ToolingProofs -----------------------------
(***************************************************************************)
(* Proofs about the agent tooling, one section per module: the inductive   *)
(* invariant, one lemma per action, and the theorems that follow.          *)
(***************************************************************************)
EXTENDS MCTooling, InstallerProofs, FiniteSetTheorems, WellFoundedInduction, TLAPS

----------------------------------------------------------------------------
(* Worktrees.                                                              *)

\* Facts about one agent: its commits and where they are.
WorkFacts(a) ==
  /\ agent[a] = "unborn" => /\ commits[a] = 0 /\ dirty[a] = {} /\ wt[a].state = "none"
  /\ agent[a] # "unborn" => wt[a].state # "none"
  /\ agent[a] # "unborn" /\ wt[a].state # "removed" => branch[a]
  /\ wt[a].state = "removed" /\ a \notin late => merged[a] = commits[a]
  /\ wt[a].state # "removed" \/ a \notin late => lost[a] = {}

\* The entry at work had a worktree; unless its agent has written since, what the
\* clean-up is about to remove is merged and holds nothing but a summary that has its copy.
WaveFacts ==
  wave.step # "idle" =>
    /\ wave.at \in ManifestEntries
    /\ \A i \in ManifestEntries : agent[RawManifest[i].agent] # "unborn"
    /\ wave.rescued => saved[Entry]
    /\ wave.step \in {"merge", "remove"} /\ Entry \notin late =>
         dirty[Entry] \subseteq (IF wave.rescued THEN {"summary"} ELSE {})
    /\ wave.step \in {"remove", "branch"} /\ Entry \notin late => merged[Entry] = commits[Entry]
    /\ wave.step = "branch" => wt[Entry].state = "removed"

\* The reaper's tip is older than HEAD; what it is about to remove was merged by then.
ReaperFacts ==
  /\ \A a \in Agents : reaper.tip[a] <= merged[a]
  /\ reaper.at # 0 => agent[reaper.at] = "dead" /\ reaper.tip[reaper.at] = commits[reaper.at]

WorkInv == (\A a \in Agents : WorkFacts(a)) /\ WaveFacts /\ ReaperFacts

WorkTyped == WorktreeTypeOK /\ WorkInv

\* The kept entries of the manifest name agents.
LEMMA EntriesTyped == \A i \in ManifestEntries : RawManifest[i].agent \in Agents
<1> DEFINE Raw == [agent : Agents, valid : BOOLEAN]
<1>1. ManifestEntries \subseteq 1 .. Len(RawManifest)
  BY DEF ManifestEntries
<1>2. RawManifest \in Seq(Raw)
  BY WorktreeAssumption
<1>3. ASSUME NEW i \in ManifestEntries PROVE RawManifest[i] \in Raw
  <2> HIDE DEF Raw
  <2>1. i \in 1 .. Len(RawManifest)
    BY <1>1
  <2>2. QED
    BY <1>2, <2>1
<1>4. QED
  BY <1>3

LEMMA BoundsTyped == MaxCommits \in [Agents -> Nat] /\ MaxWaves \in Nat /\ MaxGitFaults \in Nat
                     /\ Origins \subseteq OriginStates
  BY WorktreeAssumption

\* The entry at work is that of an agent which has been spawned.
LEMMA EntryWasSpawned ==
  ASSUME WorktreeTypeOK, WaveFacts, wave.step # "idle"
  PROVE  Entry \in Agents /\ agent[Entry] # "unborn"
<1>1. wave.at \in ManifestEntries /\ agent[RawManifest[wave.at].agent] # "unborn"
  BY DEF WaveFacts
<1>2. QED
  BY <1>1, EntriesTyped DEF Entry

LEMMA WorkInit == WorktreeInit => WorkTyped
<1> SUFFICES ASSUME WorktreeInit PROVE WorkTyped
  OBVIOUS
<1> USE BoundsTyped DEF WorktreeInit
<1>1. WorktreeTypeOK
  <2>1. origin \in OriginStates
    OBVIOUS
  <2>2. wave \in [at : ManifestEntries \cup {0}, rescued : BOOLEAN,
                 step : {"idle", "check", "rescue", "status", "merge", "remove", "branch"}]
    BY DEF Idle
  <2>3. reaper \in [at : Agents \cup {0}, todo : SUBSET Agents, tip : [Agents -> Nat]]
    BY DEF Asleep
  <2>4. waves \in 0 .. MaxWaves /\ gitFaults \in 0 .. MaxGitFaults /\ commits \in [Agents -> Nat]
    OBVIOUS
  <2>5. wt \in [Agents -> [state : {"none", "present", "removed"},
                         locked : BOOLEAN, attached : BOOLEAN, onHead : BOOLEAN]]
    OBVIOUS
  <2>6. /\ merged \in [Agents -> Nat] /\ pushed \in [Agents -> Nat]
        /\ \A a \in Agents : pushed[a] <= merged[a] /\ merged[a] <= commits[a]
    OBVIOUS
  <2>7. lost \in [Agents -> SUBSET {"summary", "code"}] /\ late \subseteq Agents
    OBVIOUS
  <2>8. QED
    BY <2>1, <2>2, <2>3, <2>4, <2>5, <2>6, <2>7 DEF WorktreeTypeOK
<1>2. \A a \in Agents : WorkFacts(a)
  BY DEF WorkFacts
<1>3. WaveFacts /\ ReaperFacts
  BY DEF WaveFacts, ReaperFacts, Idle, Asleep
<1>4. QED
  BY <1>1, <1>2, <1>3 DEF WorkTyped, WorkInv

\* What an action that leaves some of the state alone leaves of the invariant.
LEMMA SameAgents ==
  ASSUME NEW a \in Agents, WorkFacts(a),
         UNCHANGED <<agent, commits, dirty, wt, merged, branch, lost, late>>
  PROVE  WorkFacts(a)'
  BY DEF WorkFacts

LEMMA SameWave ==
  ASSUME WaveFacts, UNCHANGED <<wave, agent, saved, dirty, merged, commits, wt, late>>
  PROVE  WaveFacts'
  BY DEF WaveFacts, Entry

LEMMA SameReaper ==
  ASSUME ReaperFacts, UNCHANGED <<reaper, merged, agent, commits>>
  PROVE  ReaperFacts'
  BY DEF ReaperFacts

----------------------------------------------------------------------------
(* The agents and the user.                                                *)

LEMMA SpawnStep == ASSUME WorkTyped, NEW b \in Agents, Spawn(b) PROVE WorkTyped'
<1> USE DEF WorkTyped
<1>1. PICK attached \in BOOLEAN :
        wt' = [wt EXCEPT ![b] = [state |-> "present", locked |-> TRUE, attached |-> attached,
                                 onHead |-> ~ origin.fork \/ ~ origin.ahead]]
  BY DEF Spawn
<1>2. (~ origin.fork \/ ~ origin.ahead) \in BOOLEAN
  OBVIOUS
<1>3. wt' \in [Agents -> [state : {"none", "present", "removed"},
                          locked : BOOLEAN, attached : BOOLEAN, onHead : BOOLEAN]]
  BY <1>1, <1>2 DEF WorktreeTypeOK
<1>4. WorktreeTypeOK'
  BY <1>3 DEF Spawn, WorktreeTypeOK
<1>5. agent[b] = "unborn" /\ commits[b] = 0 /\ dirty[b] = {} /\ lost[b] = {}
  BY DEF Spawn, WorkInv, WorkFacts
<1>6. wt'[b].state = "present"
  BY <1>1 DEF WorktreeTypeOK
<1>7. \A a \in Agents \ {b} : wt'[a] = wt[a] /\ branch'[a] = branch[a] /\ agent'[a] = agent[a]
  BY <1>1 DEF Spawn, WorktreeTypeOK
<1>8. agent'[b] = "running" /\ branch'[b] = TRUE /\ UNCHANGED <<commits, dirty, merged, lost, late>>
  BY DEF Spawn, WorktreeTypeOK
<1>9. ASSUME NEW a \in Agents PROVE WorkFacts(a)'
  <2>1. CASE a = b
    BY <1>5, <1>6, <1>8, <2>1 DEF WorkFacts
  <2>2. CASE a # b
    <3>1. WorkFacts(a)
      BY DEF WorkInv
    <3>2. QED
      BY <1>7, <1>8, <2>2, <3>1 DEF WorkFacts
  <2>3. QED
    BY <2>1, <2>2
<1>10. WaveFacts'
  <2>1. UNCHANGED <<wave, saved, dirty, merged, commits, late>>
    BY DEF Spawn
  <2>2. ASSUME wave.step # "idle"
        PROVE  /\ Entry \in Agents \ {b}
               /\ \A i \in ManifestEntries : agent'[RawManifest[i].agent] # "unborn"
    <3>1. Entry \in Agents /\ agent[Entry] # "unborn"
      BY <2>2, EntryWasSpawned DEF WorkInv
    <3>2. \A i \in ManifestEntries : agent[RawManifest[i].agent] # "unborn" /\ RawManifest[i].agent \in Agents
      BY <2>2, EntriesTyped DEF WorkInv, WaveFacts
    <3>3. QED
      BY <1>5, <1>7, <3>1, <3>2
  <2>3. QED
    BY <1>7, <2>1, <2>2 DEF WorkInv, WaveFacts, Entry
<1>11. ReaperFacts'
  <2>1. reaper.at # 0 => reaper.at \in Agents \ {b}
    BY <1>5 DEF WorkInv, ReaperFacts, WorktreeTypeOK
  <2>2. QED
    BY <1>7, <2>1 DEF Spawn, WorkInv, ReaperFacts
<1>12. QED
  BY <1>4, <1>9, <1>10, <1>11 DEF WorkInv

\* An agent that writes is not the one to be reaped; when the clean-up is past the
\* rescue of its entry it becomes late, and its worktree is still there.
LEMMA Writing ==
  ASSUME WorkTyped, NEW b \in Agents, agent[b] = "running", wt[b].state = "present",
         late' = late \cup {c \in {b} : CleaningUp(c)}
  PROVE  /\ reaper.at # 0 => reaper.at \in Agents /\ reaper.at # b
         /\ late' \subseteq Agents /\ late \subseteq late' /\ late' \ late \subseteq {b}
         /\ wave.step # "idle" => Entry \in Agents
         /\ wave.step \in {"status", "merge", "remove"} /\ Entry = b => b \in late'
         /\ wave.step = "branch" => Entry # b
<1>1. WorktreeTypeOK /\ WaveFacts /\ ReaperFacts
  BY DEF WorkTyped, WorkInv
<1>2. reaper.at \in Agents \cup {0} /\ late \subseteq Agents
  BY <1>1 DEF WorktreeTypeOK
<1>3. QED
  BY <1>1, <1>2, EntryWasSpawned DEF ReaperFacts, WaveFacts, CleaningUp, Entry

LEMMA EditStep == ASSUME WorkTyped, NEW b \in Agents, Edit(b) PROVE WorkTyped'
<1> USE DEF WorkTyped
<1>1. /\ agent[b] = "running" /\ wt[b].state = "present" /\ gitFaults' \in 0 .. MaxGitFaults
      /\ late' = late \cup {c \in {b} : CleaningUp(c)}
      /\ dirty' = dirty \/ dirty' = [dirty EXCEPT ![b] = @ \cup {"code"}]
      /\ UNCHANGED <<origin, wt, branch, commits, merged, pushed, saved,
                     agent, wave, waves, midMerge, reaper, lost>>
  BY BoundsTyped DEF Edit, WorktreeTypeOK
<1>2. WorktreeTypeOK'
  <2>1. dirty' \in [Agents -> SUBSET {"summary", "code"}]
    BY <1>1 DEF WorktreeTypeOK
  <2>2. late' \subseteq Agents
    BY <1>1, Writing
  <2>3. QED
    BY <1>1, <2>1, <2>2 DEF WorktreeTypeOK
<1>3. \A a \in Agents \ {b} : dirty'[a] = dirty[a]
  BY <1>1 DEF WorktreeTypeOK
<1>4. ASSUME NEW a \in Agents PROVE WorkFacts(a)'
  BY <1>1, <1>3, Writing DEF WorkInv, WorkFacts
<1>5. WaveFacts'
  <2>1. Entry' = Entry
    BY <1>1 DEF Entry
  <2>2. QED
    BY <1>1, <1>3, <2>1, Writing DEF WorkInv, WaveFacts
<1>6. ReaperFacts'
  BY <1>1, SameReaper DEF WorkInv
<1>7. QED
  BY <1>2, <1>4, <1>5, <1>6 DEF WorkInv

LEMMA WorkStep == ASSUME WorkTyped, NEW b \in Agents, Work(b) PROVE WorkTyped'
<1> USE DEF WorkTyped
<1>1. /\ agent[b] = "running" /\ wt[b].state = "present"
      /\ late' = late \cup {c \in {b} : CleaningUp(c)}
      /\ UNCHANGED <<origin, wt, branch, merged, pushed, saved, agent,
                     wave, waves, midMerge, reaper, lost, gitFaults>>
  BY DEF Work
<1>2. /\ dirty' \in [Agents -> SUBSET {"summary", "code"}]
      /\ \A a \in Agents \ {b} : dirty'[a] = dirty[a]
  BY DEF Work, WorktreeTypeOK
<1>3. /\ commits' \in [Agents -> Nat]
      /\ \A a \in Agents \ {b} : commits'[a] = commits[a]
      /\ commits'[b] >= commits[b]
  BY DEF Work, WorktreeTypeOK
<1>4. \A a \in Agents : merged[a] <= commits'[a]
  BY <1>3 DEF WorktreeTypeOK
<1>5. WorktreeTypeOK'
  <2>1. late' \subseteq Agents
    BY <1>1, Writing
  <2>2. QED
    BY <1>1, <1>2, <1>3, <1>4, <2>1 DEF WorktreeTypeOK
<1>7. ASSUME NEW a \in Agents PROVE WorkFacts(a)'
  BY <1>1, <1>2, <1>3, Writing DEF WorkInv, WorkFacts
<1>8. WaveFacts'
  <2>1. Entry' = Entry
    BY <1>1 DEF Entry
  <2>2. QED
    BY <1>1, <1>2, <1>3, <2>1, Writing DEF WorkInv, WaveFacts
<1>9. ReaperFacts'
  BY <1>1, <1>3, Writing DEF WorkInv, ReaperFacts
<1>11. QED
  BY <1>5, <1>7, <1>8, <1>9 DEF WorkInv

LEMMA DieStep == ASSUME WorkTyped, NEW b \in Agents, Die(b) PROVE WorkTyped'
<1> USE DEF WorkTyped
<1>1. WorktreeTypeOK'
  BY DEF Die, WorktreeTypeOK
<1>2. /\ agent[b] = "running" /\ agent'[b] = "dead" /\ \A a \in Agents \ {b} : agent'[a] = agent[a]
      /\ UNCHANGED <<origin, wt, branch, commits, merged, pushed,
                     dirty, saved, wave, waves, midMerge, reaper, lost, late>>
  BY DEF Die, WorktreeTypeOK
<1>3. ASSUME NEW a \in Agents PROVE WorkFacts(a)'
  BY <1>2 DEF WorkInv, WorkFacts
<1>4. WaveFacts'
  <2>1. UNCHANGED Entry
    BY <1>2 DEF Entry
  <2>2. wave.step # "idle" => \A i \in ManifestEntries : agent'[RawManifest[i].agent] # "unborn"
    BY <1>2, EntriesTyped DEF WorkInv, WaveFacts
  <2>3. QED
    BY <1>2, <2>1, <2>2 DEF WorkInv, WaveFacts
<1>5. ReaperFacts'
  <2>1. reaper.at \in Agents \cup {0}
    BY DEF WorktreeTypeOK
  <2>2. QED
    BY <1>2, <2>1 DEF WorkInv, ReaperFacts
<1>7. QED
  BY <1>1, <1>3, <1>4, <1>5 DEF WorkInv

LEMMA OperatorStep == ASSUME WorkTyped, Operator PROVE WorkTyped'
<1> USE DEF WorkTyped
<1>1. pushed' \in {pushed, merged} /\ midMerge' \in BOOLEAN
  BY DEF Operator, WorktreeTypeOK
<1>2. UNCHANGED <<origin, wt, branch, commits, merged, dirty,
                  saved, agent, wave, waves, reaper, lost, late, gitFaults>>
  BY DEF Operator
<1>3. \A a \in Agents : pushed'[a] <= merged[a]
  BY <1>1 DEF WorktreeTypeOK
<1>4. WorktreeTypeOK'
  BY <1>1, <1>2, <1>3 DEF WorktreeTypeOK
<1>5. QED
  BY <1>2, <1>4, SameAgents, SameWave, SameReaper DEF WorkInv
----------------------------------------------------------------------------
(* The reaper.                                                             *)

LEMMA ReapStartStep == ASSUME WorkTyped, ReapStart PROVE WorkTyped'
<1> USE DEF WorkTyped
<1>1. /\ reaper'.at = 0 /\ reaper'.tip \in {pushed, merged}
      /\ reaper' \in [at : Agents \cup {0}, todo : SUBSET Agents, tip : [Agents -> Nat]]
      /\ UNCHANGED <<origin, wt, branch, commits, merged, pushed,
                     dirty, saved, agent, wave, waves, midMerge, lost, late, gitFaults>>
  BY DEF ReapStart, MainTip, WorktreeTypeOK
<1>2. WorktreeTypeOK'
  BY <1>1 DEF WorktreeTypeOK
<1>3. ReaperFacts'
  BY <1>1 DEF WorktreeTypeOK, ReaperFacts
<1>4. QED
  BY <1>1, <1>2, <1>3, SameAgents, SameWave DEF WorkInv

LEMMA ReapDecideStep == ASSUME WorkTyped, NEW b \in Agents, ReapDecide(b) PROVE WorkTyped'
<1> USE DEF WorkTyped
<1>1. UNCHANGED <<origin, wt, branch, commits, merged, pushed,
                  dirty, saved, agent, wave, waves, midMerge, lost, late, gitFaults>>
  BY DEF ReapDecide, OwnerDead
<1>2. \/ reaper' = [reaper EXCEPT !.at = b] /\ agent[b] = "dead" /\ Reachable(b)
      \/ reaper' = Asleep
      \/ reaper' = [reaper EXCEPT !.todo = @ \ {b}] /\ reaper.at = 0
  BY DEF ReapDecide, OwnerDead
<1>3. /\ reaper' \in [at : Agents \cup {0}, todo : SUBSET Agents, tip : [Agents -> Nat]]
      /\ \/ reaper'.tip = reaper.tip
         \/ reaper'.at = 0 /\ \A a \in Agents : reaper'.tip[a] = 0
      /\ reaper'.at # 0 => reaper'.at = b /\ reaper'.tip = reaper.tip /\ agent[b] = "dead" /\ Reachable(b)
  BY <1>2 DEF WorktreeTypeOK, Asleep
<1>4. WorktreeTypeOK'
  BY <1>1, <1>3 DEF WorktreeTypeOK
<1>5. ReaperFacts'
  <2>1. \A a \in Agents : reaper'.tip[a] <= merged[a]
    BY <1>3 DEF WorktreeTypeOK, WorkInv, ReaperFacts
  <2>2. QED
    BY <1>1, <1>3, <2>1 DEF ReaperFacts, Reachable
<1>6. QED
  BY <1>1, <1>4, <1>5, SameAgents, SameWave DEF WorkInv

LEMMA ReapRemoveStep == ASSUME WorkTyped, ReapRemove PROVE WorkTyped'
<1> USE DEF WorkTyped
<1> DEFINE b == reaper.at
<1>1. /\ b \in Agents /\ agent[b] = "dead" /\ reaper.tip[b] = commits[b] /\ reaper.tip[b] <= merged[b]
      /\ merged[b] <= commits[b] /\ merged[b] \in Nat /\ commits[b] \in Nat
  BY DEF ReapRemove, WorktreeTypeOK, WorkInv, ReaperFacts
<1>2. merged[b] = commits[b]
  BY <1>1
<1>3. UNCHANGED <<origin, branch, commits, merged, pushed, saved,
                  agent, wave, waves, midMerge, lost, late>>
  BY DEF ReapRemove
<1>4. /\ \/ wt' = [wt EXCEPT ![b].state = "removed", ![b].locked = FALSE]
         \/ wt' = [wt EXCEPT ![b].locked = FALSE]
      /\ dirty' = dirty \/ dirty' = [dirty EXCEPT ![b] = {}]
      /\ reaper' = Asleep \/ reaper' = [reaper EXCEPT !.at = 0, !.todo = @ \ {b}]
      /\ gitFaults' = gitFaults \/ (gitFaults < MaxGitFaults /\ gitFaults' = gitFaults + 1)
  BY DEF ReapRemove
<1> HIDE DEF b
<1>t. /\ wt \in [Agents -> [state : {"none", "present", "removed"},
                           locked : BOOLEAN, attached : BOOLEAN, onHead : BOOLEAN]]
      /\ dirty \in [Agents -> SUBSET {"summary", "code"}]
      /\ reaper \in [at : Agents \cup {0}, todo : SUBSET Agents, tip : [Agents -> Nat]]
      /\ gitFaults \in 0 .. MaxGitFaults
  BY DEF WorktreeTypeOK
<1>5. /\ wt' \in [Agents -> [state : {"none", "present", "removed"},
                             locked : BOOLEAN, attached : BOOLEAN, onHead : BOOLEAN]]
      /\ \A a \in Agents \ {b} : wt'[a] = wt[a]
      /\ wt'[b].state \in {"removed", wt[b].state}
  <2>1. CASE wt' = [wt EXCEPT ![b].locked = FALSE]
    BY <1>1, <1>t, <2>1
  <2>2. CASE wt' = [wt EXCEPT ![b].state = "removed", ![b].locked = FALSE]
    <3>1. wt' = [wt EXCEPT ![b] = [wt[b] EXCEPT !.state = "removed", !.locked = FALSE]]
      BY <1>1, <1>t, <2>2
    <3>2. QED
      BY <1>1, <1>t, <3>1
  <2>3. QED
    BY <1>4, <2>1, <2>2
<1>6. /\ dirty' \in [Agents -> SUBSET {"summary", "code"}]
      /\ \A a \in Agents : dirty'[a] \subseteq dirty[a]
  BY <1>1, <1>4, <1>t
<1>7. /\ reaper' \in [at : Agents \cup {0}, todo : SUBSET Agents, tip : [Agents -> Nat]]
      /\ reaper'.at = 0 /\ \A a \in Agents : reaper'.tip[a] \in {reaper.tip[a], 0}
  <2>1. CASE reaper' = Asleep
    BY <2>1 DEF Asleep
  <2>2. CASE reaper' = [reaper EXCEPT !.at = 0, !.todo = @ \ {b}]
    BY <1>t, <2>2
  <2>3. QED
    BY <1>4, <2>1, <2>2
<1>g. gitFaults' \in 0 .. MaxGitFaults
  BY <1>4, <1>t, BoundsTyped
<1>8. WorktreeTypeOK'
  BY <1>3, <1>5, <1>6, <1>7, <1>g DEF WorktreeTypeOK
<1>9. ASSUME NEW a \in Agents PROVE WorkFacts(a)'
  <2>1. WorkFacts(a)
    BY DEF WorkInv
  <2>2. CASE a = b
    BY <1>1, <1>2, <1>3, <1>5, <1>6, <2>1, <2>2 DEF WorkFacts
  <2>3. CASE a # b
    BY <1>3, <1>5, <1>6, <2>1, <2>3 DEF WorkFacts
  <2>4. QED
    BY <2>2, <2>3
<1>10. WaveFacts'
  <2>1. wave.step # "idle" => Entry \in Agents
    BY EntryWasSpawned DEF WorkInv
  <2>2. wt[b].state # "none" /\ UNCHANGED Entry
    BY <1>1, <1>3 DEF WorkInv, WorkFacts, Entry
  <2>3. \A a \in Agents : wt[a].state = "removed" => wt'[a].state = "removed"
    BY <1>5
  <2>4. QED
    BY <1>3, <1>6, <2>1, <2>2, <2>3 DEF WorkInv, WaveFacts
<1>11. ReaperFacts'
  BY <1>3, <1>7 DEF WorktreeTypeOK, WorkInv, ReaperFacts
<1>12. QED
  BY <1>3, <1>8, <1>9, <1>10, <1>11 DEF WorkInv

----------------------------------------------------------------------------
(* The clean-up of the wave.                                               *)

LEMMA BlockTyped ==
  ASSUME Block
  PROVE  /\ wave' \in [at : ManifestEntries \cup {0}, rescued : BOOLEAN,
               step : {"idle", "check", "rescue", "status", "merge", "remove", "branch"}]
         /\ WaveFacts'
<1>1. wave' = Idle /\ wave'.step = "idle"
  BY DEF Block, Idle
<1>2. QED
  BY <1>1 DEF Idle, WaveFacts

LEMMA ProceedTyped ==
  ASSUME NEW step \in {"check", "rescue", "status", "merge", "remove", "branch"},
         WorktreeTypeOK, WaveFacts, wave.step # "idle", Proceed(step)
  PROVE  /\ wave'.step = step /\ wave'.at = wave.at /\ wave'.rescued = wave.rescued
         /\ wave' \in [at : ManifestEntries \cup {0}, rescued : BOOLEAN,
               step : {"idle", "check", "rescue", "status", "merge", "remove", "branch"}]
         /\ Entry' = Entry
  BY DEF WorktreeTypeOK, Proceed, Entry

LEMMA WaveStartStep == ASSUME WorkTyped, WaveStart PROVE WorkTyped'
<1> USE DEF WorkTyped
<1>1. PICK i \in ManifestEntries : wave' = [at |-> i, step |-> "check", rescued |-> FALSE]
  BY DEF WaveStart
<1>2. /\ \A j \in ManifestEntries : agent[RawManifest[j].agent] # "unborn"
      /\ waves' \in 0 .. MaxWaves /\ late' = {a \in late : wt[a].state # "present"}
      /\ UNCHANGED <<origin, wt, branch, commits, merged, pushed,
                     dirty, saved, agent, midMerge, reaper, lost, gitFaults>>
  BY BoundsTyped DEF WaveStart, Finished, WorktreeTypeOK
<1>3. WorktreeTypeOK'
  BY <1>1, <1>2 DEF WorktreeTypeOK
<1>4. WaveFacts'
  BY <1>1, <1>2 DEF WaveFacts
<1>5. ASSUME NEW a \in Agents PROVE WorkFacts(a)'
  BY <1>2 DEF WorkInv, WorkFacts
<1>6. QED
  BY <1>2, <1>3, <1>4, <1>5, SameReaper DEF WorkInv

LEMMA WaveCheckStep == ASSUME WorkTyped, WaveCheck PROVE WorkTyped'
<1> USE DEF WorkTyped
<1>1. UNCHANGED <<origin, wt, branch, commits, merged, pushed,
                  dirty, saved, agent, waves, midMerge, reaper, lost, late, gitFaults>>
      /\ wave.step = "check" /\ (Block \/ Proceed("rescue"))
  BY DEF WaveCheck
<1>2. WaveFacts
  BY DEF WorkInv
<1>3. WorktreeTypeOK'
  BY <1>1, <1>2, BlockTyped, ProceedTyped DEF WorktreeTypeOK
<1>4. WaveFacts'
  BY <1>1, <1>2, BlockTyped, ProceedTyped DEF WaveFacts
<1>5. QED
  BY <1>1, <1>3, <1>4, SameAgents, SameReaper DEF WorkInv

LEMMA WaveRescueStep == ASSUME WorkTyped, WaveRescue PROVE WorkTyped'
<1> USE DEF WorkTyped
<1>1. UNCHANGED <<origin, wt, branch, commits, merged, pushed, dirty,
                  agent, waves, midMerge, reaper, lost, late>>
      /\ wave.step = "rescue"
  BY DEF WaveRescue
<1>2. Entry \in Agents /\ WaveFacts
  BY <1>1, EntryWasSpawned DEF WorkInv
<1>3. (\A a \in Agents : WorkFacts(a))' /\ ReaperFacts'
  BY <1>1, SameAgents, SameReaper DEF WorkInv
<1>4. \/ /\ saved' = [saved EXCEPT ![Entry] = TRUE]
         /\ wave' = [wave EXCEPT !.step = "status", !.rescued = TRUE]
         /\ UNCHANGED gitFaults
      \/ /\ gitFaults < MaxGitFaults /\ gitFaults' = gitFaults + 1
         /\ Block /\ UNCHANGED saved
      \/ Proceed("status") /\ UNCHANGED <<saved, gitFaults>>
  BY DEF WaveRescue
<1>5. gitFaults' \in 0 .. MaxGitFaults
  BY <1>4, BoundsTyped DEF WorktreeTypeOK
<1>6. CASE /\ saved' = [saved EXCEPT ![Entry] = TRUE]
           /\ wave' = [wave EXCEPT !.step = "status", !.rescued = TRUE]
           /\ UNCHANGED gitFaults
  <2>1. saved' \in [Agents -> BOOLEAN] /\ saved'[Entry] = TRUE
    BY <1>2, <1>6 DEF WorktreeTypeOK
  <2>2. /\ wave'.at = wave.at /\ wave'.step = "status"
        /\ wave' \in [at : ManifestEntries \cup {0}, rescued : BOOLEAN,
               step : {"idle", "check", "rescue", "status", "merge", "remove", "branch"}]
    BY <1>6 DEF WorktreeTypeOK
  <2>3. WorktreeTypeOK'
    BY <1>1, <1>5, <2>1, <2>2 DEF WorktreeTypeOK
  <2>4. Entry' = Entry
    BY <2>2 DEF Entry
  <2>5. WaveFacts'
    BY <1>1, <1>2, <2>1, <2>2, <2>4 DEF WaveFacts
  <2>6. QED
    BY <1>3, <2>3, <2>5 DEF WorkInv
<1>7. CASE Block /\ UNCHANGED saved
  <2>1. WorktreeTypeOK'
    BY <1>1, <1>5, <1>7, BlockTyped DEF WorktreeTypeOK
  <2>2. QED
    BY <1>3, <1>7, <2>1, BlockTyped DEF WorkInv
<1>8. CASE Proceed("status") /\ UNCHANGED <<saved, gitFaults>>
  <2>1. WorktreeTypeOK'
    BY <1>1, <1>2, <1>8, ProceedTyped DEF WorktreeTypeOK
  <2>2. WaveFacts'
    BY <1>1, <1>2, <1>8, ProceedTyped DEF WaveFacts
  <2>3. QED
    BY <1>3, <2>1, <2>2 DEF WorkInv
<1>9. QED
  BY <1>4, <1>6, <1>7, <1>8

LEMMA WaveStatusStep == ASSUME WorkTyped, WaveStatus PROVE WorkTyped'
<1> USE DEF WorkTyped
<1>1. UNCHANGED <<origin, wt, branch, commits, merged, pushed,
                  dirty, saved, agent, waves, midMerge, reaper, lost, late, gitFaults>>
      /\ wave.step = "status" /\ (Block \/ (Unsaved(Entry) = {} /\ Proceed("merge")))
  BY DEF WaveStatus
<1>2. WaveFacts
  BY DEF WorkInv
<1>3. WorktreeTypeOK'
  BY <1>1, <1>2, BlockTyped, ProceedTyped DEF WorktreeTypeOK
<1>4. WaveFacts'
  BY <1>1, <1>2, BlockTyped, ProceedTyped DEF WaveFacts, Unsaved
<1>5. QED
  BY <1>1, <1>3, <1>4, SameAgents, SameReaper DEF WorkInv

LEMMA WaveMergeStep == ASSUME WorkTyped, WaveMerge PROVE WorkTyped'
<1> USE DEF WorkTyped
<1>1. UNCHANGED <<origin, wt, branch, commits, pushed, dirty,
                  saved, agent, waves, reaper, lost, late, gitFaults>>
      /\ wave.step = "merge"
  BY DEF WaveMerge
<1>2. Entry \in Agents /\ WaveFacts /\ ReaperFacts
  BY <1>1, EntryWasSpawned DEF WorkInv
<1>3. CASE merged' = [merged EXCEPT ![Entry] = commits[Entry]] /\ Proceed("remove") /\ UNCHANGED midMerge
  <2>1. /\ merged' \in [Agents -> Nat]
        /\ \A a \in Agents : pushed[a] <= merged'[a] /\ merged'[a] <= commits[a] /\ merged[a] <= merged'[a]
        /\ merged'[Entry] = commits[Entry] /\ \A a \in Agents \ {Entry} : merged'[a] = merged[a]
    BY <1>2, <1>3 DEF WorktreeTypeOK
  <2>2. WorktreeTypeOK'
    BY <1>1, <1>2, <1>3, <2>1, ProceedTyped DEF WorktreeTypeOK
  <2>3. WaveFacts'
    BY <1>1, <1>2, <1>3, <2>1, ProceedTyped DEF WaveFacts
  <2>4. ASSUME NEW a \in Agents PROVE WorkFacts(a)'
    BY <1>1, <2>1 DEF WorkInv, WorkFacts
  <2>5. ReaperFacts'
    BY <1>1, <1>2, <2>1 DEF ReaperFacts, WorktreeTypeOK
  <2>7. QED
    BY <2>2, <2>3, <2>4, <2>5 DEF WorkInv
<1>4. CASE midMerge' = TRUE /\ Block /\ UNCHANGED merged
  <2>2. WorktreeTypeOK'
    BY <1>1, <1>4, BlockTyped DEF WorktreeTypeOK
  <2>4. (\A a \in Agents : WorkFacts(a))' /\ ReaperFacts'
    BY <1>1, <1>4, SameAgents, SameReaper DEF WorkInv
  <2>5. QED
    BY <1>4, <2>2, <2>4, BlockTyped DEF WorkInv
<1>5. QED
  BY <1>3, <1>4 DEF WaveMerge

\* What is removed was found to hold no more than a summary that has its copy, and
\* nothing has been added unless the agent is late.
LEMMA WaveRemoveStep == ASSUME WorkTyped, WaveRemove PROVE WorkTyped'
<1> USE DEF WorkTyped
<1>1. UNCHANGED <<origin, branch, commits, merged, pushed, saved,
                  agent, waves, midMerge, reaper, late>>
      /\ wave.step = "remove"
  BY DEF WaveRemove
<1>2. Entry \in Agents /\ agent[Entry] # "unborn" /\ WaveFacts
  BY <1>1, EntryWasSpawned DEF WorkInv
<1>3. ReaperFacts'
  BY <1>1, SameReaper DEF WorkInv
<1>t. wt \in [Agents -> [state : {"none", "present", "removed"},
                         locked : BOOLEAN, attached : BOOLEAN, onHead : BOOLEAN]]
  BY DEF WorktreeTypeOK
<1>4. CASE /\ wt' = [wt EXCEPT ![Entry].state = "removed"]
           /\ lost' = [lost EXCEPT ![Entry] = dirty[Entry] \ (IF saved[Entry] THEN {"summary"} ELSE {})]
           /\ dirty' = [dirty EXCEPT ![Entry] = {}]
           /\ Proceed("branch") /\ UNCHANGED gitFaults
  <2>1. /\ wt' \in [Agents -> [state : {"none", "present", "removed"},
                               locked : BOOLEAN, attached : BOOLEAN, onHead : BOOLEAN]]
        /\ \A a \in Agents \ {Entry} : wt'[a] = wt[a]
        /\ wt'[Entry].state = "removed"
    BY <1>2, <1>4, <1>t
  <2>2. Entry \notin late => dirty[Entry] \ (IF saved[Entry] THEN {"summary"} ELSE {}) = {}
    <3>1. wave.rescued => saved[Entry]
      BY <1>1, <1>2 DEF WaveFacts
    <3>2. Entry \notin late => dirty[Entry] \subseteq (IF wave.rescued THEN {"summary"} ELSE {})
      BY <1>1, <1>2 DEF WaveFacts
    <3>3. QED
      BY <3>1, <3>2
  <2>3. /\ lost' \in [Agents -> SUBSET {"summary", "code"}] /\ (Entry \notin late => lost'[Entry] = {})
        /\ \A a \in Agents \ {Entry} : lost'[a] = lost[a]
    <3>1. /\ dirty[Entry] \in SUBSET {"summary", "code"} /\ lost \in [Agents -> SUBSET {"summary", "code"}]
      BY <1>2 DEF WorktreeTypeOK
    <3>2. dirty[Entry] \ (IF saved[Entry] THEN {"summary"} ELSE {}) \in SUBSET {"summary", "code"}
      BY <3>1
    <3>3. QED
      BY <1>2, <1>4, <2>2, <3>1, <3>2
  <2>4. /\ dirty' \in [Agents -> SUBSET {"summary", "code"}] /\ dirty'[Entry] = {}
        /\ \A a \in Agents \ {Entry} : dirty'[a] = dirty[a]
    BY <1>2, <1>4 DEF WorktreeTypeOK
  <2>5. WorktreeTypeOK'
    BY <1>1, <1>2, <1>4, <2>1, <2>3, <2>4, ProceedTyped DEF WorktreeTypeOK
  <2>6. Entry \notin late => merged[Entry] = commits[Entry]
    BY <1>1, <1>2 DEF WaveFacts
  <2>7. ASSUME NEW a \in Agents PROVE WorkFacts(a)'
    <3>1. WorkFacts(a) /\ WorkFacts(Entry)
      BY <1>2 DEF WorkInv
    <3>2. CASE a = Entry
      BY <1>1, <1>2, <2>1, <2>3, <2>4, <2>6, <3>1, <3>2 DEF WorkFacts
    <3>3. CASE a # Entry
      BY <1>1, <2>1, <2>3, <2>4, <3>1, <3>3 DEF WorkFacts
    <3>4. QED
      BY <3>2, <3>3
  <2>8. WaveFacts'
    BY <1>1, <1>2, <1>4, <2>1, <2>6, ProceedTyped DEF WaveFacts
  <2>10. QED
    BY <1>3, <2>5, <2>7, <2>8 DEF WorkInv
<1>5. CASE /\ UNCHANGED gitFaults \/ (gitFaults < MaxGitFaults /\ gitFaults' = gitFaults + 1)
           /\ wt' = [wt EXCEPT ![Entry].locked = FALSE]
           /\ Block /\ UNCHANGED <<lost, dirty>>
  <2>2. gitFaults' \in 0 .. MaxGitFaults
    BY <1>5, BoundsTyped DEF WorktreeTypeOK
  <2>3. /\ wt' \in [Agents -> [state : {"none", "present", "removed"},
                               locked : BOOLEAN, attached : BOOLEAN, onHead : BOOLEAN]]
        /\ \A a \in Agents : wt'[a].state = wt[a].state
    BY <1>2, <1>5, <1>t
  <2>4. WorktreeTypeOK'
    BY <1>1, <1>5, <2>2, <2>3, BlockTyped DEF WorktreeTypeOK
  <2>6. \A a \in Agents : WorkFacts(a)'
    BY <1>1, <1>5, <2>3 DEF WorkInv, WorkFacts
  <2>7. QED
    BY <1>3, <1>5, <2>4, <2>6, BlockTyped DEF WorkInv
<1>6. QED
  BY <1>4, <1>5 DEF WaveRemove

LEMMA WaveBranchStep == ASSUME WorkTyped, WaveBranch PROVE WorkTyped'
<1> USE DEF WorkTyped
<1>1. UNCHANGED <<origin, wt, commits, merged, pushed, dirty,
                  saved, agent, waves, midMerge, reaper, lost, late>>
      /\ wave.step = "branch"
  BY DEF WaveBranch
<1>2. Entry \in Agents /\ WaveFacts
  BY <1>1, EntryWasSpawned DEF WorkInv
<1>3. \/ branch' = [branch EXCEPT ![Entry] = FALSE] /\ UNCHANGED gitFaults
      \/ gitFaults < MaxGitFaults /\ gitFaults' = gitFaults + 1 /\ UNCHANGED branch
  BY DEF WaveBranch
<1>4. /\ branch' \in [Agents -> BOOLEAN]
      /\ \A a \in Agents : branch[a] /\ a # Entry => branch'[a]
  BY <1>2, <1>3 DEF WorktreeTypeOK
<1>5. gitFaults' \in 0 .. MaxGitFaults
  BY <1>3, BoundsTyped DEF WorktreeTypeOK
<1>6. \/ wave' = Idle
      \/ \E i \in ManifestEntries : wave' = [at |-> i, step |-> "check", rescued |-> FALSE]
  BY DEF WaveBranch, FirstOf
<1>7. /\ wave' \in [at : ManifestEntries \cup {0}, rescued : BOOLEAN,
               step : {"idle", "check", "rescue", "status", "merge", "remove", "branch"}]
      /\ wave'.step = "idle" \/ (wave'.step = "check" /\ wave'.at \in ManifestEntries /\ wave'.rescued = FALSE)
  <2>1. CASE wave' = Idle
    BY <2>1 DEF Idle
  <2>2. CASE \E i \in ManifestEntries : wave' = [at |-> i, step |-> "check", rescued |-> FALSE]
    <3>1. PICK i \in ManifestEntries : wave' = [at |-> i, step |-> "check", rescued |-> FALSE]
      BY <2>2
    <3>2. QED
      BY <3>1
  <2>3. QED
    BY <1>6, <2>1, <2>2
<1>8. WorktreeTypeOK'
  BY <1>1, <1>4, <1>5, <1>7 DEF WorktreeTypeOK
<1>9. ASSUME NEW a \in Agents PROVE WorkFacts(a)'
  <2>1. wt[Entry].state = "removed"
    BY <1>1, <1>2 DEF WaveFacts
  <2>2. QED
    BY <1>1, <1>4, <2>1 DEF WorkInv, WorkFacts
<1>10. WaveFacts'
  BY <1>1, <1>2, <1>7 DEF WaveFacts
<1>11. ReaperFacts'
  BY <1>1, SameReaper DEF WorkInv
<1>12. QED
  BY <1>8, <1>9, <1>10, <1>11 DEF WorkInv

LEMMA WaveGitFailsStep == ASSUME WorkTyped, WaveGitFails PROVE WorkTyped'
<1> USE DEF WorkTyped
<1>1. UNCHANGED <<origin, wt, branch, commits, merged, pushed,
                  dirty, saved, agent, waves, midMerge, reaper, lost, late>>
      /\ Block
  BY DEF WaveGitFails
<1>4. gitFaults' \in 0 .. MaxGitFaults
  BY BoundsTyped DEF WaveGitFails, WorktreeTypeOK
<1>5. WorktreeTypeOK'
  BY <1>1, <1>4, BlockTyped DEF WorktreeTypeOK
<1>7. QED
  BY <1>1, <1>5, BlockTyped, SameAgents, SameReaper DEF WorkInv

LEMMA WorktreeStep == WorkTyped /\ [WorktreeNext]_wtVars => WorkTyped'
<1> SUFFICES ASSUME WorkTyped, [WorktreeNext]_wtVars PROVE WorkTyped'
  OBVIOUS
<1>1. CASE Operator
  BY <1>1, OperatorStep
<1>2. ASSUME NEW a \in Agents, Spawn(a) \/ Edit(a) \/ Work(a) \/ Die(a) \/ ReapDecide(a) PROVE WorkTyped'
  BY <1>2, SpawnStep, EditStep, WorkStep, DieStep, ReapDecideStep
<1>3. CASE WaveStart \/ WaveCheck \/ WaveRescue \/ WaveStatus
  BY <1>3, WaveStartStep, WaveCheckStep, WaveRescueStep, WaveStatusStep
<1>4. CASE WaveMerge \/ WaveRemove \/ WaveBranch \/ WaveGitFails
  BY <1>4, WaveMergeStep, WaveRemoveStep, WaveBranchStep, WaveGitFailsStep
<1>5. CASE ReapStart \/ ReapRemove
  BY <1>5, ReapStartStep, ReapRemoveStep
<1>6. CASE UNCHANGED wtVars
  <2>1. UNCHANGED <<origin, wt, branch, commits, merged, pushed,
                    dirty, saved, agent, wave, waves, midMerge, reaper, lost, late, gitFaults>>
    BY <1>6 DEF wtVars
  <2>2. WorktreeTypeOK'
    BY <2>1 DEF WorkTyped, WorktreeTypeOK
  <2>3. QED
    BY <2>1, <2>2, SameAgents, SameWave, SameReaper DEF WorkTyped, WorkInv
<1>7. QED
  BY <1>1, <1>2, <1>3, <1>4, <1>5, <1>6 DEF WorktreeNext

LEMMA WorkAlways == WorktreeSpec => []WorkTyped
  BY WorkInit, WorktreeStep, PTL DEF WorktreeSpec

\* For every manifest, number of agents and commits, and whatever the clean-up, the
\* reaper, the agents and failing git commands do in whatever order: of an agent that
\* writes nothing while the clean-up is past the rescue of its entry, no commit is out
\* of reach and no uncommitted work goes with its worktree
\* (worktree-safety.cjs: executeWorktreeWaveCleanupPlan, reapOrphanWorktrees).
THEOREM WorkIsSafe == WorktreeSpec => []WorkIsKept
<1>1. WorkTyped => WorkIsKept
  <2> SUFFICES ASSUME WorkTyped, NEW a \in Agents \ late
               PROVE  /\ commits[a] > merged[a] => wt[a].state = "present" \/ (wt[a].attached /\ branch[a])
                      /\ lost[a] = {}
    BY DEF WorkIsKept
  <2>1. WorkFacts(a)
    BY DEF WorkTyped, WorkInv
  <2>2. /\ commits[a] \in Nat /\ merged[a] \in Nat /\ merged[a] <= commits[a]
        /\ wt[a].state \in {"none", "present", "removed"}
    BY DEF WorkTyped, WorktreeTypeOK
  <2>3. commits[a] > merged[a] => wt[a].state = "present"
    <3>1. agent[a] \in {"unborn", "running", "dead"}
      BY DEF WorkTyped, WorktreeTypeOK
    <3>2. QED
      BY <2>1, <2>2, <3>1 DEF WorkFacts
  <2>4. QED
    BY <2>1, <2>3 DEF WorkFacts
<1>2. QED
  BY <1>1, WorkAlways, PTL

\* A worktree, its branch and its commits, and the wave of clean-up, have their types.
THEOREM WorktreeTyped == WorktreeSpec => []WorktreeTypeOK
<1>1. WorkTyped => WorktreeTypeOK
  BY DEF WorkTyped
<1> QED BY <1>1, WorkAlways, PTL

----------------------------------------------------------------------------
(* CodebaseDrift.                                                          *)

\* A file that the map need not report: a mapper has described it, its stamp has left
\* it behind, or it is ordinary and lies where the map says something.
Settled(f) == \/ f \in covered \cup passedOver
              \/ ClassifyFile(f) = "ordinary" /\ IsPathMapped(f)

\* Commits are numbered as they are made; none has the number of a garbled stamp.
CommitFacts ==
  /\ MaxCommitIds \in Nat /\ head \in 1 .. MaxCommitIds
  /\ head \in reachable /\ reachable \subseteq DOMAIN tree
  /\ \A c \in DOMAIN tree : c \in 1 .. head
  /\ structure.stamp \in (0 .. head) \cup {Garbled}

\* The gate's mapper is given every place that holds something to report.
MapperFacts ==
  mapper # NoMapper =>
    /\ mapper.is \in {"user", "gate"}
    /\ mapper.files = InScope(mapper.scope, mapper.saw)
    /\ mapper.is = "gate" => \A f \in mapper.saw \ mapper.files : Settled(f)

\* What was there at the commit of the stamp needs no report.
StampFacts == structure.stamp \in DOMAIN tree => \A f \in tree[structure.stamp] : Settled(f)

DriftInv == CommitFacts /\ MapperFacts /\ StampFacts

LEMMA DriftStarts == DriftInit => DriftInv
<1> SUFFICES ASSUME DriftInit PROVE DriftInv
  OBVIOUS
<1>1. PICK files \in InitialTrees : tree = [c \in {1} |-> files]
  BY DEF DriftInit
<1>2. head = 1 /\ reachable = {1} /\ DOMAIN tree = {1} /\ structure.stamp = 0 /\ mapper = NoMapper
  BY <1>1 DEF DriftInit, NoStamp
<1>3. MaxCommitIds \in Nat \ {0}
  BY DriftAssumption
<1>4. CommitFacts
  BY <1>2, <1>3 DEF CommitFacts
<1>5. QED
  BY <1>2, <1>4 DEF DriftInv, MapperFacts, StampFacts

\* A stamp names no commit that is still to be made.
LEMMA NewCommitStep == ASSUME DriftInv, MayCommit, head' = head + 1, NEW files,
                              tree' = [c \in DOMAIN tree \cup {head'} |-> IF c = head' THEN files ELSE tree[c]],
                              reachable' = reachable \cup {head'} \/ reachable' = {head'},
                              UNCHANGED <<structure, mapper, covered, passedOver>>
                       PROVE  DriftInv'
<1>1. CommitFacts
  BY DEF DriftInv
<1>2. /\ head' \in 1 .. MaxCommitIds /\ head' \notin DOMAIN tree
      /\ structure.stamp \in (0 .. head') \cup {Garbled} /\ structure.stamp # head'
  BY <1>1 DEF CommitFacts, MayCommit, Garbled
<1>3. DOMAIN tree' = DOMAIN tree \cup {head'} /\ \A c \in DOMAIN tree : tree'[c] = tree[c]
  BY <1>2
<1>4. \A c \in DOMAIN tree' : c \in 1 .. head'
  BY <1>1, <1>2, <1>3 DEF CommitFacts
<1>5. CommitFacts'
  BY <1>1, <1>2, <1>3, <1>4 DEF CommitFacts, Garbled
<1>6. \A f : Settled(f)' <=> Settled(f)
  BY DEF Settled, IsPathMapped, ClassifyFile
<1>7. MapperFacts'
  BY <1>6 DEF DriftInv, MapperFacts, InScope
<1>8. StampFacts'
  BY <1>2, <1>3, <1>6 DEF DriftInv, StampFacts
<1>9. QED
  BY <1>5, <1>7, <1>8 DEF DriftInv

LEMMA LoseObjectsStep == ASSUME DriftInv, LoseObjects PROVE DriftInv'
<1>1. /\ DOMAIN tree' = reachable /\ \A c \in reachable : tree'[c] = tree[c]
      /\ UNCHANGED <<reachable, head, structure, mapper, covered, passedOver>>
  BY DEF LoseObjects
<1>2. CommitFacts
  BY DEF DriftInv
<1>3. CommitFacts'
  BY <1>1, <1>2 DEF CommitFacts, Garbled
<1>4. \A f : Settled(f)' <=> Settled(f)
  BY <1>1 DEF Settled, IsPathMapped, ClassifyFile
<1>5. MapperFacts' /\ StampFacts'
  BY <1>1, <1>2, <1>4 DEF DriftInv, MapperFacts, InScope, StampFacts, CommitFacts
<1>6. QED
  BY <1>3, <1>5 DEF DriftInv

\* What is in the tree and need not be reported stays so while a mapper of the gate
\* works: the gate names the place of everything it reports.
LEMMA ReportedOrSettled == ASSUME DriftInv, NEW f \in tree[head], f \notin DetectDrift PROVE Settled(f)
<1>1. CASE f \in Added
  BY <1>1 DEF DetectDrift, Settled
<1>2. CASE f \in Base
  BY <1>2 DEF Base, DriftInv, StampFacts
<1>3. QED
  BY <1>1, <1>2 DEF Added

LEMMA StartMapperStep == ASSUME DriftInv, NEW by \in {"user", "gate"}, NEW scope, StartMapper(by, scope),
                                by = "gate" => scope = ChooseAffectedPaths(DetectDrift)
                         PROVE  DriftInv'
<1>1. /\ UNCHANGED <<tree, reachable, head, structure, covered, passedOver>>
      /\ mapper' = [is |-> by, scope |-> scope, saw |-> tree[head], files |-> InScope(scope, tree[head])]
  BY DEF StartMapper
<1>2. CommitFacts' /\ StampFacts'
  BY <1>1 DEF DriftInv, CommitFacts, Garbled, StampFacts, Settled, IsPathMapped, ClassifyFile
<1>3. \A f : Settled(f)' <=> Settled(f)
  BY <1>1 DEF Settled, IsPathMapped, ClassifyFile
<1>4. ASSUME by = "gate", NEW f \in tree[head], f \notin InScope(scope, tree[head])
      PROVE  Settled(f)
  <2>1. f \notin DetectDrift
    BY <1>4 DEF InScope, ChooseAffectedPaths
  <2>2. QED
    BY <1>4, <2>1, ReportedOrSettled
<1>5. /\ mapper'.is = by /\ mapper'.scope = scope /\ mapper'.saw = tree[head]
      /\ mapper'.files = InScope(scope, tree[head])
  BY <1>1
<1>6. MapperFacts'
  BY <1>3, <1>4, <1>5 DEF MapperFacts, InScope
<1>7. QED
  BY <1>2, <1>6 DEF DriftInv

\* When the stamp is HEAD, what is there was mapped, or came meanwhile, or was left
\* out by the user, or needed no report when the gate chose the scope.
LEMMA WriteMappedCommitStep == ASSUME DriftInv, WriteMappedCommit PROVE DriftInv'
<1>1. PICK stamp \in DOMAIN tree \cup {NoStamp, Garbled} :
        /\ structure' = [is |-> "there", stamp |-> stamp,
             mentions |-> {TopOf[f] : f \in mapper.files} \cup
                          (IF mapper.scope = Whole THEN {} ELSE structure.mentions)]
        /\ passedOver' = IF stamp \notin DOMAIN tree THEN passedOver
                         ELSE passedOver \cup (tree[stamp] \ mapper.saw) \cup
                              (IF mapper.is = "user" THEN tree[stamp] \ mapper.files ELSE {})
  BY DEF WriteMappedCommit
<1>2. /\ mapper # NoMapper /\ mapper' = NoMapper /\ covered' = covered \cup mapper.files
      /\ UNCHANGED <<tree, reachable, head>>
  BY DEF WriteMappedCommit
<1>3. structure'.stamp = stamp /\ (mapper.scope # Whole => structure.mentions \subseteq structure'.mentions)
  BY <1>1
<1>4. CommitFacts
  BY DEF DriftInv
<1>5. CommitFacts'
  BY <1>2, <1>3, <1>4 DEF CommitFacts, Garbled, NoStamp
<1>6. ASSUME stamp \in DOMAIN tree, NEW f \in tree[stamp] PROVE Settled(f)'
  <2>1. passedOver' = passedOver \cup (tree[stamp] \ mapper.saw) \cup
                      (IF mapper.is = "user" THEN tree[stamp] \ mapper.files ELSE {})
    BY <1>1, <1>6
  <2>2. CASE f \notin mapper.saw
    BY <1>6, <2>1, <2>2 DEF Settled
  <2>3. CASE f \in mapper.files
    BY <1>2, <2>3 DEF Settled
  <2>4. CASE f \in mapper.saw \ mapper.files /\ mapper.is = "user"
    BY <1>6, <2>1, <2>4 DEF Settled
  <2>5. CASE f \in mapper.saw \ mapper.files /\ mapper.is = "gate"
    <3>1. Settled(f) /\ mapper.files = InScope(mapper.scope, mapper.saw)
      BY <1>2, <2>5 DEF DriftInv, MapperFacts
    <3>2. mapper.scope # Whole
      BY <2>5, <3>1 DEF InScope
    <3>3. IsPathMapped(f) => IsPathMapped(f)'
      BY <1>3, <3>2 DEF IsPathMapped
    <3>4. covered \subseteq covered' /\ passedOver \subseteq passedOver'
      BY <1>2, <2>1
    <3>5. QED
      BY <3>1, <3>3, <3>4 DEF Settled, ClassifyFile
  <2>6. QED
    BY <1>2, <2>2, <2>3, <2>4, <2>5 DEF DriftInv, MapperFacts
<1>7. StampFacts'
  BY <1>2, <1>3, <1>6 DEF StampFacts
<1>8. MapperFacts'
  BY <1>2 DEF MapperFacts, NoMapper
<1>9. QED
  BY <1>5, <1>7, <1>8 DEF DriftInv

LEMMA DriftStep == DriftInv /\ [DriftNext]_driftVars => DriftInv'
<1> SUFFICES ASSUME DriftInv, [DriftNext]_driftVars PROVE DriftInv'
  OBVIOUS
<1>1. ASSUME NEW files, CommitFiles(files) PROVE DriftInv'
  BY <1>1, NewCommitStep DEF CommitFiles
<1>2. CASE CommitChange
  BY <1>1, <1>2 DEF CommitChange
<1>3. CASE Squash
  BY <1>3, NewCommitStep DEF Squash
<1>4. CASE MapCodebase
  BY <1>4, StartMapperStep DEF MapCodebase
<1>5. CASE AutoRemap
  <2>1. VerifyCodebaseDrift("works").paths = ChooseAffectedPaths(DetectDrift)
    BY <1>5 DEF AutoRemap, VerifyCodebaseDrift
  <2>2. QED
    BY <1>5, <2>1, StartMapperStep DEF AutoRemap
<1>6. ASSUME UNCHANGED <<tree, reachable, head, structure, covered, passedOver>>, mapper' \in {mapper, NoMapper}
      PROVE  DriftInv'
  <2>1. CommitFacts' /\ StampFacts'
    BY <1>6 DEF DriftInv, CommitFacts, Garbled, StampFacts, Settled, IsPathMapped, ClassifyFile
  <2>2. \A f : Settled(f)' <=> Settled(f)
    BY <1>6 DEF Settled, IsPathMapped, ClassifyFile
  <2>3. MapperFacts'
    BY <1>6, <2>2 DEF DriftInv, MapperFacts, InScope, NoMapper
  <2>4. QED
    BY <2>1, <2>3 DEF DriftInv
<1>7. CASE MapperFails \/ UNCHANGED driftVars
  BY <1>6, <1>7 DEF MapperFails, driftVars
<1>8. QED
  BY <1>2, <1>3, <1>4, <1>5, <1>7, LoseObjectsStep, WriteMappedCommitStep DEF DriftNext

\* For every repository, threshold and history of commits, squashes, lost objects,
\* garbled or foreign stamps and failing mappers, unless the gate says it was skipped:
\* what is structural or lies where the map says nothing is reported until a mapper has
\* described it (drift.cjs: detectDrift, chooseAffectedPaths, writeMappedCommit;
\* verify.cjs: cmdVerifyCodebaseDrift).
THEOREM DriftIsReported == DriftSpec => []UnmappedIsReported
<1>1. DriftSpec => []DriftInv
  BY DriftStarts, DriftStep, PTL DEF DriftSpec
<1>2. DriftInv => UnmappedIsReported
  <2> SUFFICES ASSUME DriftInv, structure.is = "there", NEW f \in tree[head] \ (covered \cup passedOver),
                      NEW gate \in GateOutcomes
               PROVE  \/ f \in VerifyCodebaseDrift(gate).elements
                      \/ gate = "fails" /\ VerifyCodebaseDrift(gate).skipped
                      \/ ClassifyFile(f) = "ordinary" /\ IsPathMapped(f)
    BY DEF UnmappedIsReported
  <2>1. IF gate = "fails" THEN VerifyCodebaseDrift(gate).skipped
        ELSE VerifyCodebaseDrift(gate).elements = DetectDrift
    BY DEF VerifyCodebaseDrift
  <2>2. QED
    BY <2>1, ReportedOrSettled DEF Settled
<1>3. QED
  BY <1>1, <1>2, PTL

\* What DriftInv does not say of the types: whatever is in a commit, in the hands of a
\* mapper or in a history is a file, and the map mentions top directories.
FilesKnown ==
  /\ \A c \in DOMAIN tree : tree[c] \subseteq DriftFiles
  /\ mapper # NoMapper => mapper.saw \subseteq DriftFiles
  /\ structure.mentions \subseteq DOMAIN Reads
  /\ covered \subseteq DriftFiles /\ passedOver \subseteq DriftFiles
  /\ settings \in [threshold : Thresholds, action : Actions]

LEMMA FilesKnownStep == DriftInv /\ FilesKnown /\ [DriftNext]_driftVars => FilesKnown'
<1> SUFFICES ASSUME DriftInv, FilesKnown, [DriftNext]_driftVars PROVE FilesKnown'
  OBVIOUS
<1>1. head \in DOMAIN tree /\ tree[head] \subseteq DriftFiles
  BY DEF DriftInv, CommitFacts, FilesKnown
<1>2. ASSUME NEW files \in SUBSET DriftFiles,
             tree' = [c \in DOMAIN tree \cup {head'} |-> IF c = head' THEN files ELSE tree[c]],
             UNCHANGED <<structure, mapper, covered, passedOver, settings>>
      PROVE  FilesKnown'
  <2>1. \A c \in DOMAIN tree' : tree'[c] \subseteq DriftFiles
    BY <1>2 DEF FilesKnown
  <2>2. QED
    BY <1>2, <2>1 DEF FilesKnown
<1>3. CASE CommitChange
  <2>1. PICK files \in SUBSET DriftFiles : CommitFiles(files)
    BY <1>1, <1>3 DEF CommitChange
  <2>2. QED
    BY <1>2, <2>1 DEF CommitFiles
<1>4. CASE Squash
  BY <1>1, <1>2, <1>4 DEF Squash
<1>5. CASE LoseObjects
  BY <1>5 DEF LoseObjects, DriftInv, CommitFacts, FilesKnown
<1>6. ASSUME NEW by, NEW scope, StartMapper(by, scope) PROVE FilesKnown'
  <2>1. mapper'.saw \subseteq DriftFiles
    BY <1>1, <1>6 DEF StartMapper
  <2>2. QED
    BY <1>6, <2>1 DEF StartMapper, FilesKnown
<1>7. CASE MapCodebase \/ AutoRemap
  BY <1>6, <1>7 DEF MapCodebase, AutoRemap
<1>8. CASE WriteMappedCommit
  <2>1. mapper.files \subseteq DriftFiles /\ mapper.saw \subseteq DriftFiles
    BY <1>8 DEF WriteMappedCommit, DriftInv, MapperFacts, InScope, FilesKnown
  <2>2. {TopOf[f] : f \in mapper.files} \subseteq DOMAIN Reads
    BY <2>1, DriftAssumption
  <2>3. structure'.mentions \subseteq DOMAIN Reads
    BY <1>8, <2>2 DEF WriteMappedCommit, FilesKnown
  <2>4. passedOver' \subseteq DriftFiles
    BY <1>1, <1>8, <2>1 DEF WriteMappedCommit, FilesKnown
  <2>5. mapper' = NoMapper /\ covered' \subseteq DriftFiles /\ UNCHANGED <<tree, settings>>
    BY <1>8, <2>1 DEF WriteMappedCommit, FilesKnown
  <2>6. QED
    BY <2>3, <2>4, <2>5 DEF FilesKnown, NoMapper
<1>9. CASE MapperFails \/ UNCHANGED driftVars
  BY <1>9 DEF MapperFails, driftVars, FilesKnown
<1>10. QED
  BY <1>3, <1>4, <1>5, <1>7, <1>8, <1>9 DEF DriftNext

\* Every commit has files of the repository, every stamp a commit or a mark of none.
THEOREM DriftTyped == DriftSpec => []DriftTypeOK
<1>1. DriftInit => FilesKnown
  BY DriftAssumption DEF DriftInit, FilesKnown
<1>2. DriftInv /\ FilesKnown => DriftTypeOK
  BY DEF DriftInv, CommitFacts, FilesKnown, DriftTypeOK, Garbled
<1>3. QED
  BY <1>1, <1>2, DriftStarts, DriftStep, FilesKnownStep, PTL DEF DriftSpec

----------------------------------------------------------------------------
(* UpdateCheck.                                                            *)

\* What was found out about a place is still so.
StillTrue(v, stale, place) == v = VersionAt(place) /\ (stale <=> StaleHooks(place))

\* A worker knows the version of its place, and later the one published, as long as
\* neither has changed.
FoundOut(w) ==
  /\ worker[w].pc = "ask" /\ worker[w].current =>
       StillTrue(worker[w].installed, worker[w].stale, worker[w].place)
  /\ worker[w].pc \in {"open", "write"} =>
       /\ worker[w].result.ours
       /\ worker[w].result.place = worker[w].place
       /\ worker[w].result.available <=>
            worker[w].result.latest # 0 /\ IsSemverNewer(worker[w].result.latest, worker[w].result.installed)
       /\ worker[w].current =>
            /\ StillTrue(worker[w].result.installed, worker[w].result.stale, worker[w].place)
            /\ worker[w].result.latest \in {0, published}

\* The cache is foreign or what a worker knew; a cache of a place that is being
\* updated is about to be removed.
CacheFacts ==
  cache.is = "result" /\ cache.ours =>
    /\ cache.available <=> cache.latest # 0 /\ IsSemverNewer(cache.latest, cache.installed)
    /\ cache.current => cache.latest \in {0, published}
    /\ cache.current /\ cache.place \notin updating => StillTrue(cache.installed, cache.stale, cache.place)

BannerInv == UpdateTypeOK /\ (\A w \in Workers : FoundOut(w)) /\ CacheFacts

\* A set of naturals that is not empty has a smallest element.
LEMMA SmallestExists == ASSUME NEW S, S \subseteq Nat, S # {} PROVE \E m \in S : \A q \in S : m <= q
<1>1. PICK m \in S : \A q \in S : ~ (<<q, m>> \in OpToRel(<, Nat))
  BY NatLessThanWellFounded, WFMin
<1>2. ASSUME NEW q \in S PROVE m <= q
  <2>1. m \in Nat /\ q \in Nat /\ ~ (q < m)
    BY <1>1 DEF OpToRel
  <2>2. QED
    BY <2>1
<1>3. QED
  BY <1>2

\* A session uses an install that exists, or none.
LEMMA InstallTyped == ASSUME UpdateTypeOK, NEW inProject \in BOOLEAN
                      PROVE  InstallOf(inProject) \in Places \cup {NoPlace}
<1>1. ASSUME NEW base \in Bases PROVE DetectConfigDir(base) \in Places \cup {NoPlace}
  <2> DEFINE there == {r \in UpdateRuntimes : version[<<base, r>>] # 0}
             first == CHOOSE r \in there : \A q \in there : r <= q
  <2>1. there \subseteq Nat /\ there \subseteq UpdateRuntimes
    BY UpdateCheckAssumption
  <2> HIDE DEF there
  <2>2. there # {} => first \in UpdateRuntimes
    BY <2>1, SmallestExists
  <2> HIDE DEF first
  <2>3. there # {} => <<base, first>> \in Places
    BY <2>2 DEF Places
  <2>4. env \in Places \cup {NoPlace}
    BY DEF UpdateTypeOK
  <2>5. DetectConfigDir(base) \in {env, NoPlace} \/ (there # {} /\ DetectConfigDir(base) = <<base, first>>)
    BY DEF DetectConfigDir, there, first
  <2>6. QED
    BY <2>3, <2>4, <2>5
<1>2. "home" \in Bases /\ "project" \in Bases
  BY DEF Bases
<1>3. QED
  BY <1>1, <1>2 DEF InstallOf

\* What is true of a place is of the types a worker keeps.
LEMMA TruthTyped == ASSUME UpdateTypeOK, NEW place \in Places \cup {NoPlace}
                    PROVE  VersionAt(place) \in 0 .. published /\ StaleHooks(place) \in BOOLEAN
<1>1. /\ version \in [Places -> 0 .. published] /\ published \in Nat
  BY UpdateCheckAssumption DEF UpdateTypeOK
<1>2. QED
  BY <1>1 DEF VersionAt, StaleHooks

LEMMA BannerInit == UpdateInit => BannerInv
<1> SUFFICES ASSUME UpdateInit PROVE BannerInv
  OBVIOUS
<1>1. MaxVersion \in Nat /\ published \in 2 .. MaxVersion /\ MaxUpdateSteps \in Nat
  BY UpdateCheckAssumption DEF UpdateInit
<1>2. /\ env \in Places \cup {NoPlace} /\ version \in [Places -> 0 .. 2]
      /\ \/ hooks = version
         \/ \E h \in {NoHeader, Placeholder} : hooks = [p \in Places |-> h]
  BY UpdateCheckAssumption DEF UpdateInit
<1>3. /\ version \in [Places -> 0 .. published]
      /\ \A p \in Places : hooks[p] \in {NoHeader, Placeholder} \/ hooks[p] <= version[p]
  <2>1. \A p \in Places : version[p] \in 0 .. 2
    BY <1>2
  <2>2. \A p \in Places : version[p] \in 0 .. published /\ version[p] <= version[p]
    BY <1>1, <2>1
  <2>3. QED
    BY <1>2, <2>2
<1>4. cache = NoCache /\ worker = [w \in Workers |-> NoWorker]
  BY DEF UpdateInit
<1>5. worker \in [Workers -> WorkerStates] /\ \A w \in Workers : worker[w].pc = "none"
  BY <1>4 DEF WorkerStates, NoWorker
<1>6. UpdateTypeOK
  <2>1. published \in 0 .. MaxVersion /\ hooks \in [Places -> 0 .. published \cup {NoHeader, Placeholder}]
    BY <1>1, <1>2, <1>3
  <2>2. updating \subseteq Places /\ warnedToday \in BOOLEAN /\ updateSteps = 0
    BY DEF UpdateInit
  <2>3. cache \in {NoCache, TornCache} \cup CacheContents
    BY <1>4
  <2>4. QED
    BY <1>1, <1>2, <1>3, <1>5, <2>1, <2>2, <2>3 DEF UpdateTypeOK
<1>7. CacheFacts
  BY <1>4 DEF CacheFacts, NoCache
<1>8. QED
  BY <1>5, <1>6, <1>7 DEF BannerInv, FoundOut

\* What a worker that takes no step has found out, and the cache, hold on while nothing
\* is published or installed.
LEMMA FoundOutStays == ASSUME NEW w \in Workers, FoundOut(w), worker'[w] = worker[w],
                              UNCHANGED <<version, hooks, published>>
                       PROVE  FoundOut(w)'
BY DEF FoundOut, StillTrue, VersionAt, StaleHooks

LEMMA CacheStays == ASSUME CacheFacts, UNCHANGED <<cache, updating, version, hooks, published>>
                    PROVE  CacheFacts'
BY DEF CacheFacts, StillTrue, VersionAt, StaleHooks

\* The rest of the types when only workers and the cache change.
LEMMA TypesStay == ASSUME UpdateTypeOK, UNCHANGED <<env, version, hooks, published>>,
                          worker' \in [Workers -> WorkerStates],
                          cache' \in {NoCache, TornCache} \cup CacheContents,
                          updating' \subseteq Places, warnedToday' \in BOOLEAN,
                          updateSteps' = updateSteps \/ UpdateStep
                   PROVE  UpdateTypeOK'
<1>1. CacheContents' = CacheContents /\ WorkerStates' = WorkerStates
  BY DEF CacheContents, WorkerStates
<1>2. updateSteps' \in 0 .. MaxUpdateSteps
  BY UpdateCheckAssumption DEF UpdateTypeOK, UpdateStep
<1>3. QED
  BY <1>1, <1>2 DEF UpdateTypeOK

\* One worker takes a step and leaves the cache alone.
LEMMA WorkerStep == ASSUME BannerInv, NEW w \in Workers, NEW r \in WorkerStates,
                           worker' = [worker EXCEPT ![w] = r], FoundOut(w)',
                           UNCHANGED <<env, version, hooks, published, cache, updating>>,
                           warnedToday' \in BOOLEAN, updateSteps' = updateSteps \/ UpdateStep
                    PROVE  BannerInv'
<1>1. worker' \in [Workers -> WorkerStates] /\ \A v \in Workers \ {w} : worker'[v] = worker[v]
  BY DEF BannerInv, UpdateTypeOK
<1>2. UpdateTypeOK'
  BY <1>1, TypesStay DEF BannerInv, UpdateTypeOK
<1>3. \A v \in Workers : FoundOut(v)'
  BY <1>1, FoundOutStays DEF BannerInv
<1>4. CacheFacts'
  BY CacheStays DEF BannerInv
<1>5. QED
  BY <1>2, <1>3, <1>4 DEF BannerInv

\* A worker at its second step knows a place and what it read of it, later a result.
LEMMA WorkerShape == ASSUME UpdateTypeOK, NEW w \in Workers
                     PROVE  /\ worker[w].pc = "read" => worker[w].place \in Places \cup {NoPlace}
                            /\ worker[w].pc = "ask" =>
                                 worker[w] \in [pc : {"ask"}, place : Places \cup {NoPlace}, current : BOOLEAN,
                                                installed : 0 .. published, stale : BOOLEAN]
                            /\ worker[w].pc \in {"open", "write"} =>
                                 worker[w] \in [pc : {"open", "write"}, place : Places \cup {NoPlace},
                                                current : BOOLEAN, result : CacheContents]
<1>1. worker[w] \in WorkerStates
  BY DEF UpdateTypeOK
<1>2. CASE worker[w] = NoWorker
  BY <1>2 DEF NoWorker
<1>3. CASE worker[w] \in [pc : {"read"}, place : Places \cup {NoPlace}]
  BY <1>3
<1>4. CASE worker[w] \in [pc : {"ask"}, place : Places \cup {NoPlace}, current : BOOLEAN,
                          installed : 0 .. published, stale : BOOLEAN]
  BY <1>4
<1>5. CASE worker[w] \in [pc : {"open", "write"}, place : Places \cup {NoPlace},
                          current : BOOLEAN, result : CacheContents]
  BY <1>5
<1>6. QED
  BY <1>1, <1>2, <1>3, <1>4, <1>5 DEF WorkerStates

LEMMA SessionStep == ASSUME BannerInv, NEW w \in Workers,
                            SessionStart(w) \/ ReadVersion(w) \/ CheckLatestVersion(w) \/ WorkerDies(w)
                     PROVE  BannerInv'
<1> DEFINE P == Places \cup {NoPlace}
<1>0. UpdateTypeOK /\ worker \in [Workers -> WorkerStates] /\ warnedToday \in BOOLEAN
  BY DEF BannerInv, UpdateTypeOK
<1>1. CASE SessionStart(w)
  <2>1. PICK inProject \in BOOLEAN : worker' = [worker EXCEPT ![w] = [pc |-> "read", place |-> InstallOf(inProject)]]
    BY <1>1 DEF SessionStart
  <2>2. [pc |-> "read", place |-> InstallOf(inProject)] \in WorkerStates
    <3>1. InstallOf(inProject) \in P
      BY <1>0, InstallTyped
    <3>2. QED
      BY <3>1 DEF WorkerStates
  <2>3. worker'[w].pc = "read"
    BY <1>0, <2>1
  <2>4. FoundOut(w)'
    BY <2>3 DEF FoundOut
  <2>5. warnedToday' \in BOOLEAN /\ UpdateStep /\ UNCHANGED <<env, version, hooks, published, cache, updating>>
    BY <1>0, <1>1 DEF SessionStart
  <2>6. QED
    BY <2>1, <2>2, <2>4, <2>5, WorkerStep
<1>2. CASE ReadVersion(w)
  <2> DEFINE r == [pc |-> "ask", place |-> worker[w].place, current |-> TRUE,
                   installed |-> VersionAt(worker[w].place), stale |-> StaleHooks(worker[w].place)]
  <2>1. worker[w].pc = "read" /\ worker' = [worker EXCEPT ![w] = r]
        /\ UNCHANGED <<env, version, hooks, published, cache, updating, warnedToday, updateSteps>>
    BY <1>2 DEF ReadVersion
  <2>2. worker[w].place \in P
    BY <1>0, <2>1, WorkerShape
  <2>3. VersionAt(worker[w].place) \in 0 .. published /\ StaleHooks(worker[w].place) \in BOOLEAN
    BY <1>0, <2>2, TruthTyped
  <2>4. r \in WorkerStates
    BY <2>2, <2>3 DEF WorkerStates
  <2>5. worker'[w] = r
    BY <1>0, <2>1
  <2>6. FoundOut(w)'
    <3>1. worker'[w].pc = "ask" /\ worker'[w].place = worker[w].place
          /\ worker'[w].installed = VersionAt(worker[w].place) /\ worker'[w].stale = StaleHooks(worker[w].place)
      BY <2>5
    <3>2. StillTrue(worker[w].installed, worker[w].stale, worker[w].place)'
      BY <2>1, <3>1 DEF StillTrue, VersionAt, StaleHooks
    <3>3. QED
      BY <3>1, <3>2 DEF FoundOut
  <2>7. QED
    BY <1>0, <2>1, <2>4, <2>6, WorkerStep
<1>3. CASE CheckLatestVersion(w)
  <2>1. PICK latest \in {0, published} : worker' = [worker EXCEPT ![w] =
         [pc |-> "open", place |-> @.place, current |-> @.current,
          result |-> [is |-> "result", ours |-> TRUE, place |-> @.place, current |-> TRUE,
                      installed |-> @.installed, latest |-> latest, stale |-> @.stale,
                      available |-> latest # 0 /\ IsSemverNewer(latest, @.installed)]]]
    BY <1>3 DEF CheckLatestVersion
  <2> DEFINE s == [is |-> "result", ours |-> TRUE, place |-> worker[w].place, current |-> TRUE,
                   installed |-> worker[w].installed, latest |-> latest, stale |-> worker[w].stale,
                   available |-> latest # 0 /\ IsSemverNewer(latest, worker[w].installed)]
             r == [pc |-> "open", place |-> worker[w].place, current |-> worker[w].current, result |-> s]
  <2>2. worker[w].pc = "ask"
        /\ UNCHANGED <<env, version, hooks, published, cache, updating, warnedToday, updateSteps>>
    BY <1>3 DEF CheckLatestVersion
  <2>3. worker' = [worker EXCEPT ![w] = r]
    BY <2>1
  <2>4. worker[w] \in [pc : {"ask"}, place : P, current : BOOLEAN, installed : 0 .. published, stale : BOOLEAN]
    BY <1>0, <2>2, WorkerShape
  <2>5. latest \in 0 .. MaxVersion
    BY <1>0, UpdateCheckAssumption DEF UpdateTypeOK
  <2>6. s \in CacheContents
    <3>1. (latest # 0 /\ IsSemverNewer(latest, worker[w].installed)) \in BOOLEAN
      OBVIOUS
    <3>2. worker[w].place \in P /\ worker[w].installed \in 0 .. published /\ worker[w].stale \in BOOLEAN
      BY <2>4
    <3>3. QED
      BY <2>5, <3>1, <3>2 DEF CacheContents
  <2>7. r \in WorkerStates
    <3>1. worker[w].place \in P /\ worker[w].current \in BOOLEAN
      BY <2>4
    <3>2. QED
      BY <2>6, <3>1 DEF WorkerStates
  <2>8. worker'[w] = r
    BY <1>0, <2>3
  <2>9. FoundOut(w)'
    <3>1. /\ worker'[w].pc = "open" /\ worker'[w].place = worker[w].place
          /\ worker'[w].current = worker[w].current /\ worker'[w].result = s
      BY <2>8
    <3>2. /\ s.ours /\ s.place = worker[w].place /\ s.installed = worker[w].installed
          /\ s.latest = latest /\ s.stale = worker[w].stale
          /\ s.available = (s.latest # 0 /\ IsSemverNewer(s.latest, s.installed))
      OBVIOUS
    <3>3. worker[w].current => StillTrue(s.installed, s.stale, worker[w].place)
      <4>1. worker[w].current => StillTrue(worker[w].installed, worker[w].stale, worker[w].place)
        BY <2>2 DEF BannerInv, FoundOut
      <4>2. QED
        BY <4>1
    <3>4. s.latest \in {0, published}
      BY <3>2
    <3> HIDE DEF s
    <3>5. worker'[w].current => StillTrue(worker'[w].result.installed, worker'[w].result.stale, worker'[w].place)
      BY <3>1, <3>3
    <3>6. worker'[w].current =>
            StillTrue(worker[w].result.installed, worker[w].result.stale, worker[w].place)'
      BY <2>2, <3>5 DEF StillTrue, VersionAt, StaleHooks
    <3>7. QED
      BY <2>2, <3>1, <3>2, <3>4, <3>6 DEF FoundOut, IsSemverNewer
  <2>10. QED
    BY <1>0, <2>2, <2>3, <2>7, <2>9, WorkerStep
<1>4. CASE WorkerDies(w)
  <2>1. NoWorker \in WorkerStates
    BY DEF WorkerStates
  <2>2. worker'[w].pc = "none"
    BY <1>0, <1>4 DEF WorkerDies, NoWorker
  <2>3. FoundOut(w)'
    BY <2>2 DEF FoundOut
  <2>4. QED
    BY <1>0, <1>4, <2>1, <2>3, WorkerStep DEF WorkerDies
<1>5. QED
  BY <1>1, <1>2, <1>3, <1>4

\* One worker and the cache change.
LEMMA CacheStep == ASSUME BannerInv, NEW w \in Workers, NEW r \in WorkerStates,
                          worker' = [worker EXCEPT ![w] = r], FoundOut(w)',
                          cache' \in {NoCache, TornCache} \cup CacheContents, CacheFacts',
                          UNCHANGED <<env, version, hooks, published, updating, warnedToday, updateSteps>>
                   PROVE  BannerInv'
<1>1. worker' \in [Workers -> WorkerStates] /\ \A v \in Workers \ {w} : worker'[v] = worker[v]
  BY DEF BannerInv, UpdateTypeOK
<1>2. UpdateTypeOK'
  BY <1>1, TypesStay DEF BannerInv, UpdateTypeOK
<1>3. \A v \in Workers : FoundOut(v)'
  BY <1>1, FoundOutStays DEF BannerInv
<1>4. QED
  BY <1>2, <1>3 DEF BannerInv

LEMMA OpenCacheStep == ASSUME BannerInv, NEW w \in Workers, OpenCache(w) PROVE BannerInv'
<1> DEFINE r == [worker[w] EXCEPT !.pc = "write"]
<1>1. worker[w].pc = "open" /\ cache' = TornCache
      /\ UNCHANGED <<env, version, hooks, published, updating, warnedToday, updateSteps>>
  BY DEF OpenCache
<1>2. UpdateTypeOK /\ worker \in [Workers -> WorkerStates]
  BY DEF BannerInv, UpdateTypeOK
<1>3. worker' = [worker EXCEPT ![w] = r]
  BY <1>2 DEF OpenCache
<1>4. worker[w] \in [pc : {"open", "write"}, place : Places \cup {NoPlace}, current : BOOLEAN, result : CacheContents]
  BY <1>1, <1>2, WorkerShape
<1>5. /\ r \in [pc : {"open", "write"}, place : Places \cup {NoPlace}, current : BOOLEAN, result : CacheContents]
      /\ r.pc = "write" /\ r.place = worker[w].place /\ r.current = worker[w].current
      /\ r.result = worker[w].result
  BY <1>4
<1> HIDE DEF r
<1>6. r \in WorkerStates
  BY <1>5 DEF WorkerStates
<1>7. worker'[w] = r
  BY <1>2, <1>3
<1>8. FoundOut(w)'
  BY <1>1, <1>5, <1>7 DEF BannerInv, FoundOut, StillTrue, VersionAt, StaleHooks, IsSemverNewer
<1>9. CacheFacts'
  BY <1>1 DEF CacheFacts, TornCache
<1>10. QED
  BY <1>1, <1>3, <1>6, <1>8, <1>9, CacheStep

LEMMA WriteCacheStep == ASSUME BannerInv, NEW w \in Workers, WriteCache(w) PROVE BannerInv'
<1> DEFINE c == [worker[w].result EXCEPT !.current = worker[w].current]
<1>1. worker[w].pc = "write" /\ cache' = c /\ worker' = [worker EXCEPT ![w] = NoWorker]
      /\ UNCHANGED <<env, version, hooks, published, updating, warnedToday, updateSteps>>
  BY DEF WriteCache
<1>2. UpdateTypeOK /\ worker \in [Workers -> WorkerStates]
  BY DEF BannerInv, UpdateTypeOK
<1>3. worker[w] \in [pc : {"open", "write"}, place : Places \cup {NoPlace}, current : BOOLEAN, result : CacheContents]
  BY <1>1, <1>2, WorkerShape
<1>4. /\ c \in CacheContents /\ c.current = worker[w].current
      /\ c.place = worker[w].result.place /\ c.installed = worker[w].result.installed
      /\ c.latest = worker[w].result.latest /\ c.stale = worker[w].result.stale
      /\ c.available = worker[w].result.available
  <2>1. worker[w].result \in CacheContents /\ worker[w].current \in BOOLEAN
    BY <1>3
  <2>2. QED
    BY <2>1 DEF CacheContents
<1> HIDE DEF c
<1>5. /\ c.available <=> c.latest # 0 /\ IsSemverNewer(c.latest, c.installed)
      /\ c.current => c.latest \in {0, published} /\ StillTrue(c.installed, c.stale, c.place)
  BY <1>1, <1>4 DEF BannerInv, FoundOut
<1>6. CacheFacts'
  BY <1>1, <1>5 DEF CacheFacts, StillTrue, VersionAt, StaleHooks, IsSemverNewer
<1>7. NoWorker \in WorkerStates
  BY DEF WorkerStates
<1>8. worker'[w].pc = "none"
  BY <1>1, <1>2 DEF NoWorker
<1>9. FoundOut(w)'
  BY <1>8 DEF FoundOut
<1>10. QED
  BY <1>1, <1>4, <1>6, <1>7, <1>9, CacheStep

\* Nothing happens to the workers, nor to what they and the cache depend on.
LEMMA WorkersAtRest == ASSUME BannerInv, UNCHANGED <<env, version, hooks, published, worker>>,
                              cache' \in {NoCache, TornCache} \cup CacheContents, CacheFacts',
                              updating' \subseteq Places, warnedToday' \in BOOLEAN,
                              updateSteps' = updateSteps \/ UpdateStep
                       PROVE  BannerInv'
<1>1. UpdateTypeOK'
  BY TypesStay DEF BannerInv, UpdateTypeOK
<1>2. \A w \in Workers : FoundOut(w)'
  BY FoundOutStays DEF BannerInv
<1>3. QED
  BY <1>1, <1>2 DEF BannerInv

LEMMA ForeignWriteStep == ASSUME BannerInv, ForeignWrite PROVE BannerInv'
<1>1. UpdateTypeOK /\ warnedToday \in BOOLEAN /\ updating \subseteq Places /\ published \in Nat
  BY UpdateCheckAssumption DEF BannerInv, UpdateTypeOK
<1>2. cache' \in CacheContents
  BY <1>1, UpdateCheckAssumption DEF ForeignWrite, CacheContents
<1>3. CacheFacts'
  BY DEF ForeignWrite, CacheFacts
<1>4. QED
  BY <1>1, <1>2, <1>3, WorkersAtRest DEF ForeignWrite

LEMMA ClearCacheStep == ASSUME BannerInv, ClearCache PROVE BannerInv'
<1>1. UpdateTypeOK /\ warnedToday \in BOOLEAN
  BY DEF BannerInv, UpdateTypeOK
<1>2. CacheFacts'
  BY DEF ClearCache, CacheFacts, NoCache
<1>3. QED
  BY <1>1, <1>2, WorkersAtRest DEF ClearCache

LEMMA DayPassesStep == ASSUME BannerInv, DayPasses \/ UNCHANGED updateVars PROVE BannerInv'
<1>1. UpdateTypeOK /\ warnedToday \in BOOLEAN /\ updating \subseteq Places
      /\ cache \in {NoCache, TornCache} \cup CacheContents
  BY DEF BannerInv, UpdateTypeOK
<1>2. /\ UNCHANGED <<env, version, hooks, published, cache, worker, updating, updateSteps>>
      /\ warnedToday' \in BOOLEAN
  BY <1>1 DEF DayPasses, updateVars
<1>3. CacheFacts'
  BY <1>2, CacheStays DEF BannerInv
<1>4. QED
  BY <1>1, <1>2, <1>3, WorkersAtRest

\* What the workers and the cache keep stays of its type when more is published.
LEMMA TypesGrow == ASSUME published \in Nat, published' \in Nat, published <= published'
                   PROVE  CacheContents \subseteq CacheContents' /\ WorkerStates \subseteq WorkerStates'
<1>1. \A n \in 0 .. published : n \in 0 .. published'
  OBVIOUS
<1>2. CacheContents \subseteq CacheContents'
  BY <1>1 DEF CacheContents
<1>3. QED
  BY <1>1, <1>2 DEF WorkerStates

\* A worker is told that what it knows is not current any more, and nothing else.
LEMMA OutdatedKeeps == ASSUME UpdateTypeOK, NEW steps, steps \subseteq {"ask", "open", "write"}, NEW places,
                              worker' = Outdated(steps, places)
                       PROVE  /\ worker' \in [Workers -> WorkerStates]
                              /\ \A w \in Workers :
                                   /\ worker'[w].pc = worker[w].pc
                                   /\ worker[w].pc = "ask" =>
                                        /\ worker'[w].place = worker[w].place
                                        /\ worker'[w].installed = worker[w].installed
                                        /\ worker'[w].stale = worker[w].stale
                                   /\ worker[w].pc \in {"open", "write"} =>
                                        worker'[w].place = worker[w].place /\ worker'[w].result = worker[w].result
                                   /\ worker[w].pc \in {"ask", "open", "write"} /\ worker'[w].current =>
                                        worker[w].current /\ (worker[w].pc \in steps => worker[w].place \notin places)
<1> SUFFICES ASSUME NEW w \in Workers
             PROVE  /\ worker'[w] \in WorkerStates
                    /\ worker'[w].pc = worker[w].pc
                    /\ worker[w].pc = "ask" =>
                         /\ worker'[w].place = worker[w].place
                         /\ worker'[w].installed = worker[w].installed
                         /\ worker'[w].stale = worker[w].stale
                    /\ worker[w].pc \in {"open", "write"} =>
                         worker'[w].place = worker[w].place /\ worker'[w].result = worker[w].result
                    /\ worker[w].pc \in {"ask", "open", "write"} /\ worker'[w].current =>
                         worker[w].current /\ (worker[w].pc \in steps => worker[w].place \notin places)
  BY DEF Outdated
<1>1. worker[w] \in WorkerStates
  BY DEF UpdateTypeOK
<1>2. CASE worker[w].pc \in steps /\ worker[w].place \in places
  <2>1. worker'[w] = [worker[w] EXCEPT !.current = FALSE]
    BY <1>2 DEF Outdated
  <2>2. CASE worker[w].pc = "ask"
    <3>1. worker[w] \in [pc : {"ask"}, place : Places \cup {NoPlace}, current : BOOLEAN,
                         installed : 0 .. published, stale : BOOLEAN]
      BY <2>2, WorkerShape
    <3>2. /\ worker'[w] \in [pc : {"ask"}, place : Places \cup {NoPlace}, current : BOOLEAN,
                             installed : 0 .. published, stale : BOOLEAN]
          /\ worker'[w].pc = "ask" /\ worker'[w].place = worker[w].place /\ ~worker'[w].current
          /\ worker'[w].installed = worker[w].installed /\ worker'[w].stale = worker[w].stale
      BY <2>1, <3>1
    <3>3. QED
      BY <2>2, <3>2 DEF WorkerStates
  <2>3. CASE worker[w].pc \in {"open", "write"}
    <3>1. worker[w] \in [pc : {"open", "write"}, place : Places \cup {NoPlace}, current : BOOLEAN,
                         result : CacheContents]
      BY <2>3, WorkerShape
    <3>2. /\ worker'[w] \in [pc : {"open", "write"}, place : Places \cup {NoPlace}, current : BOOLEAN,
                             result : CacheContents]
          /\ worker'[w].pc = worker[w].pc /\ worker'[w].place = worker[w].place /\ ~worker'[w].current
          /\ worker'[w].result = worker[w].result
      BY <2>1, <3>1
    <3>3. QED
      BY <2>3, <3>2 DEF WorkerStates
  <2>4. QED
    BY <1>2, <2>2, <2>3
<1>3. CASE ~(worker[w].pc \in steps /\ worker[w].place \in places)
  <2>1. worker'[w] = worker[w]
    BY <1>3 DEF Outdated
  <2>2. QED
    BY <1>1, <1>3, <2>1
<1>4. QED
  BY <1>2, <1>3

LEMMA PublishStep == ASSUME BannerInv, Publish PROVE BannerInv'
<1>0. UpdateTypeOK /\ published \in Nat /\ MaxVersion \in Nat
  BY UpdateCheckAssumption DEF BannerInv, UpdateTypeOK
<1>1. /\ published' = published + 1 /\ published < MaxVersion
      /\ worker' = Outdated({"open", "write"}, Places \cup {NoPlace})
      /\ cache' = IF cache.is = "result" THEN [cache EXCEPT !.current = FALSE] ELSE cache
      /\ UNCHANGED <<env, version, hooks, updating, warnedToday>> /\ UpdateStep
  BY DEF Publish
<1>2. CacheContents \subseteq CacheContents' /\ WorkerStates \subseteq WorkerStates'
  BY <1>0, <1>1, TypesGrow
<1>3. /\ version' \in [Places -> 0 .. published']
      /\ hooks' \in [Places -> 0 .. published' \cup {NoHeader, Placeholder}]
  <2>1. \A n \in 0 .. published : n \in 0 .. published'
    BY <1>0, <1>1
  <2>2. QED
    BY <1>1, <2>1 DEF BannerInv, UpdateTypeOK
<1>4. cache' \in {NoCache, TornCache} \cup CacheContents
      /\ (cache'.is = "result" => ~cache'.current /\ cache'.ours = cache.ours /\ cache'.place = cache.place
                                  /\ cache'.available = cache.available /\ cache'.latest = cache.latest
                                  /\ cache'.installed = cache.installed /\ cache.is = "result")
  <2>1. CASE cache \in CacheContents
    BY <1>1, <2>1 DEF CacheContents
  <2>2. CASE cache \in {NoCache, TornCache}
    BY <1>1, <2>2 DEF NoCache, TornCache
  <2>3. QED
    BY <2>1, <2>2 DEF BannerInv, UpdateTypeOK
<1>5. CacheFacts'
  BY <1>4 DEF BannerInv, CacheFacts, IsSemverNewer
<1>6. worker' \in [Workers -> WorkerStates]
  BY <1>0, <1>1, OutdatedKeeps
<1>7. UpdateTypeOK'
  <2>1. updateSteps' \in 0 .. MaxUpdateSteps
    BY <1>1, UpdateCheckAssumption DEF UpdateStep, BannerInv, UpdateTypeOK
  <2>2. published' \in 0 .. MaxVersion
    BY <1>0, <1>1
  <2>3. QED
    BY <1>0, <1>1, <1>2, <1>3, <1>4, <1>6, <2>1, <2>2 DEF UpdateTypeOK
<1>8. ASSUME NEW w \in Workers PROVE FoundOut(w)'
  <2>1. FoundOut(w)
    BY DEF BannerInv
  <2>2. /\ worker'[w].pc = worker[w].pc
        /\ worker[w].pc = "ask" =>
             /\ worker'[w].place = worker[w].place
             /\ worker'[w].installed = worker[w].installed
             /\ worker'[w].stale = worker[w].stale
             /\ worker'[w].current => worker[w].current
        /\ worker[w].pc \in {"open", "write"} =>
             worker'[w].place = worker[w].place /\ worker'[w].result = worker[w].result
    BY <1>0, <1>1, OutdatedKeeps
  <2>3. worker[w].pc \in {"open", "write"} => ~worker'[w].current
    <3>1. worker[w].pc \in {"open", "write"} => worker[w].place \in Places \cup {NoPlace}
      BY <1>0, WorkerShape
    <3>2. QED
      BY <1>0, <1>1, <3>1, OutdatedKeeps
  <2>4. QED
    BY <1>1, <2>1, <2>2, <2>3 DEF FoundOut, StillTrue, VersionAt, StaleHooks, IsSemverNewer
<1>9. QED
  BY <1>5, <1>7, <1>8 DEF BannerInv

LEMMA InstallStep == ASSUME BannerInv, Install PROVE BannerInv'
<1>0. UpdateTypeOK /\ published \in Nat /\ MaxVersion \in Nat /\ version \in [Places -> 0 .. published]
      /\ hooks \in [Places -> 0 .. published \cup {NoHeader, Placeholder}]
  BY UpdateCheckAssumption DEF BannerInv, UpdateTypeOK
<1>1. PICK place \in Places :
        /\ version' = [version EXCEPT ![place] = published]
        /\ \E h \in {published, hooks[place]} : hooks' = [hooks EXCEPT ![place] = h]
        /\ updating' = updating \cup {place}
        /\ worker' = Outdated({"ask", "open", "write"}, {place})
  BY DEF Install
<1>2. UNCHANGED <<env, published, cache, warnedToday>> /\ UpdateStep
  BY DEF Install
<1>3. PICK h \in {published, hooks[place]} : hooks' = [hooks EXCEPT ![place] = h]
  BY <1>1
<1>4. /\ version' \in [Places -> 0 .. published]
      /\ hooks' \in [Places -> 0 .. published \cup {NoHeader, Placeholder}]
      /\ version'[place] = published /\ \A p \in Places \ {place} : version'[p] = version[p] /\ hooks'[p] = hooks[p]
  BY <1>0, <1>1, <1>3
<1>5. \A p \in Places : hooks'[p] \in {NoHeader, Placeholder} \/ hooks'[p] <= version'[p]
  <2>1. hooks'[place] \in {NoHeader, Placeholder} \/ hooks'[place] <= version'[place]
    <3>1. hooks'[place] \in 0 .. published \cup {NoHeader, Placeholder}
      BY <1>4
    <3>2. QED
      BY <1>0, <1>4, <3>1
  <2>2. QED
    BY <1>0, <1>4, <2>1 DEF UpdateTypeOK
<1>6. \A p \in (Places \cup {NoPlace}) \ {place} : \A v, s : StillTrue(v, s, p) => StillTrue(v, s, p)'
  BY <1>4 DEF StillTrue, VersionAt, StaleHooks, IsSemverNewer
<1>7. worker' \in [Workers -> WorkerStates]
  BY <1>0, <1>1, OutdatedKeeps
<1>8. UpdateTypeOK'
  <2>1. updateSteps' \in 0 .. MaxUpdateSteps
    BY <1>2, UpdateCheckAssumption DEF UpdateStep, BannerInv, UpdateTypeOK
  <2>2. CacheContents' = CacheContents /\ WorkerStates' = WorkerStates
    BY <1>2 DEF CacheContents, WorkerStates
  <2>3. updating' \subseteq Places
    BY <1>0, <1>1 DEF UpdateTypeOK
  <2>4. QED
    BY <1>0, <1>2, <1>4, <1>5, <1>7, <2>1, <2>2, <2>3 DEF UpdateTypeOK
<1>9. ASSUME NEW w \in Workers PROVE FoundOut(w)'
  <2>1. FoundOut(w)
    BY DEF BannerInv
  <2>2. /\ worker'[w].pc = worker[w].pc
        /\ worker[w].pc = "ask" =>
             /\ worker'[w].place = worker[w].place
             /\ worker'[w].installed = worker[w].installed
             /\ worker'[w].stale = worker[w].stale
        /\ worker[w].pc \in {"open", "write"} =>
             worker'[w].place = worker[w].place /\ worker'[w].result = worker[w].result
        /\ worker[w].pc \in {"ask", "open", "write"} /\ worker'[w].current =>
             worker[w].current /\ worker[w].place # place
    <3>1. worker[w].pc \in {"ask", "open", "write"} /\ worker'[w].current =>
            worker[w].current /\ (worker[w].pc \in {"ask", "open", "write"} => worker[w].place \notin {place})
      <4>1. UpdateTypeOK /\ worker' = Outdated({"ask", "open", "write"}, {place})
        BY <1>0, <1>1
      <4>2. QED
        BY <4>1, OutdatedKeeps
    <3>2. /\ worker'[w].pc = worker[w].pc
          /\ worker[w].pc = "ask" =>
               /\ worker'[w].place = worker[w].place
               /\ worker'[w].installed = worker[w].installed
               /\ worker'[w].stale = worker[w].stale
          /\ worker[w].pc \in {"open", "write"} =>
               worker'[w].place = worker[w].place /\ worker'[w].result = worker[w].result
      BY <1>0, <1>1, OutdatedKeeps
    <3>3. QED
      BY <3>1, <3>2
  <2>3. worker[w].pc \in {"ask", "open", "write"} => worker[w].place \in Places \cup {NoPlace}
    BY <1>0, WorkerShape
  <2>4. CASE worker[w].pc = "ask"
    <3>1. worker'[w].current => StillTrue(worker[w].installed, worker[w].stale, worker[w].place)
                                 /\ worker[w].place \in (Places \cup {NoPlace}) \ {place}
      BY <2>1, <2>2, <2>3, <2>4 DEF FoundOut
    <3>2. worker'[w].current => StillTrue(worker[w].installed, worker[w].stale, worker[w].place)'
      BY <1>6, <2>2, <2>4, <3>1
    <3>3. QED
      BY <2>2, <2>4, <3>2 DEF FoundOut
  <2>5. CASE worker[w].pc \in {"open", "write"}
    <3>1. worker'[w].current => StillTrue(worker[w].result.installed, worker[w].result.stale, worker[w].place)
                                 /\ worker[w].place \in (Places \cup {NoPlace}) \ {place}
      BY <2>1, <2>2, <2>3, <2>5 DEF FoundOut
    <3>2. worker'[w].current => StillTrue(worker[w].result.installed, worker[w].result.stale, worker[w].place)'
      BY <1>6, <2>2, <2>5, <3>1
    <3>3. QED
      BY <1>2, <2>1, <2>2, <2>5, <3>2 DEF FoundOut, IsSemverNewer
  <2>6. QED
    BY <2>2, <2>4, <2>5 DEF FoundOut
<1>10. CacheFacts'
  <2>1. CASE cache.is = "result" /\ cache.ours /\ cache.current /\ cache.place \notin updating'
    <3>1. cache \in CacheContents
      BY <1>0, <2>1 DEF UpdateTypeOK, NoCache, TornCache
    <3>2. cache.place \in (Places \cup {NoPlace}) \ {place} /\ cache.place \notin updating
      BY <1>1, <2>1, <3>1 DEF CacheContents
    <3>3. StillTrue(cache.installed, cache.stale, cache.place)'
      BY <1>2, <1>6, <2>1, <3>2 DEF BannerInv, CacheFacts
    <3>4. QED
      BY <1>2, <3>3 DEF BannerInv, CacheFacts, IsSemverNewer
  <2>2. CASE ~(cache.is = "result" /\ cache.ours /\ cache.current /\ cache.place \notin updating')
    BY <1>2, <2>2 DEF BannerInv, CacheFacts, IsSemverNewer
  <2>3. QED
    BY <2>1, <2>2
<1>11. QED
  BY <1>8, <1>9, <1>10 DEF BannerInv

LEMMA UpdateInductive == BannerInv /\ [UpdateNext]_updateVars => BannerInv'
<1> SUFFICES ASSUME BannerInv, [UpdateNext]_updateVars PROVE BannerInv'
  OBVIOUS
<1>1. CASE DayPasses \/ UNCHANGED updateVars
  BY <1>1, DayPassesStep
<1>2. CASE ForeignWrite \/ Publish \/ Install \/ ClearCache
  BY <1>2, ForeignWriteStep, PublishStep, InstallStep, ClearCacheStep
<1>3. ASSUME NEW w \in Workers,
             \/ SessionStart(w) \/ ReadVersion(w) \/ CheckLatestVersion(w) \/ WorkerDies(w)
             \/ OpenCache(w) \/ WriteCache(w)
      PROVE  BannerInv'
  BY <1>3, SessionStep, OpenCacheStep, WriteCacheStep
<1>4. QED
  BY <1>1, <1>2, <1>3 DEF UpdateNext

\* For every number of runtimes, installs, versions and workers, whatever they, the
\* updates and another package write in whatever order: a cache that is of the install
\* in use and has not been overtaken by an update tells the truth about it
\* (gsd-check-update-worker.js, gsd-update-banner.js, gsd-statusline.js).
THEOREM BannerTellsTheTruth == UpdateSpec => []BannerIsTrue
<1>1. UpdateSpec => []BannerInv
  BY BannerInit, UpdateInductive, PTL DEF UpdateSpec
<1>2. BannerInv => BannerIsTrue
  <2> SUFFICES ASSUME BannerInv, NEW inProject \in BOOLEAN,
                      cache.is = "result", updating = {},
                      cache.ours => cache.current /\ cache.place = InstallOf(inProject)
               PROVE  /\ BuildBannerOutput = "available"
                           <=> /\ cache.ours /\ cache.latest # 0
                               /\ IsSemverNewer(published, VersionAt(InstallOf(inProject)))
                      /\ EvaluateUpdateCache.showUpdate <=> BuildBannerOutput = "available"
                      /\ EvaluateUpdateCache.staleWarning # "none" <=> cache.ours /\ StaleHooks(InstallOf(inProject))
    BY DEF BannerIsTrue
  <2>1. cache # NoCache /\ cache # TornCache
    BY DEF NoCache, TornCache
  <2>2. cache.ours =>
          /\ cache.available <=> cache.latest # 0 /\ IsSemverNewer(cache.latest, cache.installed)
          /\ cache.latest \in {0, published}
          /\ cache.installed = VersionAt(InstallOf(inProject))
          /\ cache.stale <=> StaleHooks(InstallOf(inProject))
    BY DEF BannerInv, CacheFacts, StillTrue
  <2>3. BuildBannerOutput = "available" <=> cache.ours /\ cache.available
    BY <2>1 DEF BuildBannerOutput
  <2>4. EvaluateUpdateCache.showUpdate <=> cache.ours /\ cache.available
    BY DEF EvaluateUpdateCache
  <2>5. EvaluateUpdateCache.staleWarning # "none" <=> cache.ours /\ cache.stale
    BY DEF EvaluateUpdateCache
  <2>6. QED
    BY <2>2, <2>3, <2>4, <2>5
<1>3. QED
  BY <1>1, <1>2, PTL

\* The hooks of an install are never newer than its version, nor that than what is published.
THEOREM UpdateTyped == UpdateSpec => []UpdateTypeOK
<1>1. BannerInv => UpdateTypeOK
  BY DEF BannerInv
<1> QED BY <1>1, BannerInit, UpdateInductive, PTL DEF UpdateSpec

----------------------------------------------------------------------------
(* Workstreams.                                                            *)

Migrating == {"look", "move", "unmove"}
Archiving == {"archive", "unarchive"}

\* The directory a session moves entries into or out of.
Target(p) == IF cmd[p].step \in Migrating THEN cmd[p].other ELSE cmd[p].stream

\* What a session is doing has the names it takes.
CommandsNamed == \A p \in Sessions :
  /\ cmd[p].step # "free" => cmd[p].stream \in Streams
  /\ cmd[p].step \in Migrating \cup {"migrate", "mkdir"} => cmd[p].other \in Streams
  /\ cmd[p].step \notin Migrating \cup Archiving => moving[p] = {}

\* No two sessions move entries of one directory.
TargetsApart == \A p, q \in Sessions :
  p # q /\ cmd[p].step \in Migrating \cup Archiving /\ cmd[q].step \in Migrating \cup Archiving =>
    Target(p) # Target(q)

\* The directory of a migration holds what was moved into it and nothing else.
MovedSoFar == \A p \in Sessions :
  cmd[p].step \in Migrating => inDir[cmd[p].other] = moving[p]

StreamInv ==
  /\ WorkstreamTypeOK /\ CommandsNamed
  /\ harmed \/ (TargetsApart /\ MovedSoFar)
  /\ PlanningFilesKept

\* An entry is somewhere.
Kept(i) == \/ i \in root \cup archived
           \/ \E s \in Streams : i \in inDir[s]
           \/ \E p \in Sessions : i \in moving[p]

\* What the property says of one entry.
LEMMA KeptEach ==
  /\ PlanningFilesKept <=> (harmed \/ \A i : i \in made <=> Kept(i))
  /\ PlanningFilesKept' <=> (harmed' \/ \A i : i \in made' <=> Kept(i)')
<1>1. /\ \A i : i \in UNION {inDir[s] : s \in Streams} <=> \E s \in Streams : i \in inDir[s]
      /\ \A i : i \in UNION {moving[p] : p \in Sessions} <=> \E p \in Sessions : i \in moving[p]
      /\ \A i : i \in UNION {inDir'[s] : s \in Streams} <=> \E s \in Streams : i \in inDir'[s]
      /\ \A i : i \in UNION {moving'[p] : p \in Sessions} <=> \E p \in Sessions : i \in moving'[p]
  OBVIOUS
<1> DEFINE U == UNION {inDir[s] : s \in Streams}
           V == UNION {moving[p] : p \in Sessions}
           W == UNION {inDir'[s] : s \in Streams}
           X == UNION {moving'[p] : p \in Sessions}
<1>2. PlanningFilesKept <=> (harmed \/ made = root \cup archived \cup U \cup V)
  BY DEF PlanningFilesKept
<1>3. PlanningFilesKept' <=> (harmed' \/ made' = root' \cup archived' \cup W \cup X)
  BY DEF PlanningFilesKept
<1>4. /\ \A i : Kept(i) <=> i \in root \cup archived \cup U \cup V
      /\ \A i : Kept(i)' <=> i \in root' \cup archived' \cup W \cup X
  BY <1>1 DEF Kept
<1> HIDE DEF U, V, W, X
<1> QED
  BY <1>2, <1>3, <1>4

\* What a session does next leaves its names and the other sessions alone.
LEMMA GotoMoves ==
  ASSUME WorkstreamTypeOK, NEW p \in Sessions, NEW step \in Steps, Goto(p, step)
  PROVE  /\ cmd' \in [Sessions -> [step : Steps, stream : Streams \cup {NoStream},
                                   other : Streams \cup {NoStream}]]
         /\ cmd'[p].step = step /\ cmd'[p].stream = cmd[p].stream /\ cmd'[p].other = cmd[p].other
         /\ \A q \in Sessions \ {p} : cmd'[q] = cmd[q]
  BY DEF WorkstreamTypeOK, Goto

\* A session that ends is free and has nothing in hand.
LEMMA EndRests ==
  ASSUME WorkstreamTypeOK, NEW p \in Sessions, End(p)
  PROVE  /\ cmd' \in [Sessions -> [step : Steps, stream : Streams \cup {NoStream},
                                   other : Streams \cup {NoStream}]]
         /\ cmd'[p].step = "free" /\ \A q \in Sessions \ {p} : cmd'[q] = cmd[q]
         /\ moving' \in [Sessions -> SUBSET Items] /\ left' \in [Sessions -> SUBSET Items]
         /\ moving'[p] = {} /\ \A q \in Sessions \ {p} : moving'[q] = moving[q]
<1>1. Resting \in [step : Steps, stream : Streams \cup {NoStream}, other : Streams \cup {NoStream}]
  BY DEF Resting, Steps
<1>2. Resting.step = "free"
  BY DEF Resting
<1> QED
  BY <1>1, <1>2 DEF WorkstreamTypeOK, End

\* A pointer is cleaned to a pointer.
LEMMA CleanedTyped ==
  ASSUME WorkstreamTypeOK, NEW p \in Sessions
  PROVE  Cleaned(p) \in [Pointers -> Streams \cup {NoStream}]
  BY DEF WorkstreamTypeOK, Cleaned, Pointers

LEMMA StreamStarts == StreamInit => StreamInv
<1> SUFFICES ASSUME StreamInit PROVE StreamInv
  OBVIOUS
<1>1. Flat \subseteq Items
  BY DEF Flat, Items
<1>2. Resting.step = "free" /\ Resting \in [step : Steps, stream : Streams \cup {NoStream},
                                             other : Streams \cup {NoStream}]
  BY DEF Resting, Steps
<1>3. WorkstreamTypeOK
  <2>1. root \subseteq Items /\ archived \subseteq Items /\ made \subseteq Items
    BY <1>1 DEF StreamInit
  <2>2. commands \in 0 .. MaxCommands /\ moveFaults \in 0 .. MaxMoveFaults
    BY WorkstreamAssumption DEF StreamInit
  <2>3. inDir \in [Streams -> SUBSET Items] /\ pointer \in [Pointers -> Streams \cup {NoStream}]
        /\ moving \in [Sessions -> SUBSET Items] /\ left \in [Sessions -> SUBSET Items]
    BY DEF StreamInit
  <2> QED
    BY <1>2, <2>1, <2>2, <2>3 DEF StreamInit, WorkstreamTypeOK
<1>4. CommandsNamed /\ TargetsApart /\ MovedSoFar
  BY <1>2 DEF StreamInit, CommandsNamed, TargetsApart, MovedSoFar, Migrating, Archiving
<1>5. PlanningFilesKept
  BY DEF StreamInit, PlanningFilesKept
<1> QED
  BY <1>3, <1>4, <1>5 DEF StreamInv

\* A step that moves no entry and whose session has none in hand.
LEMMA NothingMoves ==
  ASSUME StreamInv, WorkstreamTypeOK', NEW p \in Sessions,
         cmd[p].step \notin Migrating \cup Archiving, cmd'[p].step \notin Migrating \cup Archiving,
         \A q \in Sessions \ {p} : cmd'[q] = cmd[q],
         CommandsNamed', moving' = moving, inDir' = inDir, harmed' = harmed,
         UNCHANGED <<root, archived, made>>
  PROVE  StreamInv'
<1>1. harmed \/ (TargetsApart' /\ MovedSoFar')
  BY DEF StreamInv, TargetsApart, MovedSoFar, Target
<1>2. PlanningFilesKept'
  BY DEF StreamInv, PlanningFilesKept
<1> QED
  BY <1>1, <1>2 DEF StreamInv

LEMMA CreateStreamStep ==
  ASSUME StreamInv, NEW p \in Sessions, NEW s \in Streams, NEW o \in Streams, NEW m \in BOOLEAN,
         CreateStream(p, s, o, m)
  PROVE  StreamInv'
<1>1. /\ cmd[p].step = "free" /\ cmd'[p].step \in {"migrate", "make"} /\ cmd'[p].stream = s
      /\ cmd'[p].step = "migrate" => cmd'[p].other = o
      /\ \A q \in Sessions \ {p} : cmd'[q] = cmd[q]
      /\ cmd' \in [Sessions -> [step : Steps, stream : Streams \cup {NoStream},
                                other : Streams \cup {NoStream}]]
      /\ UNCHANGED <<root, dirs, inDir, archived, made, pointer, moving, left, wasActive,
                     moveFaults, harmed>>
  BY DEF StreamInv, WorkstreamTypeOK, CreateStream, Resting, Steps
<1>2. WorkstreamTypeOK'
  <2>1. wsRoot' \in BOOLEAN /\ commands' \in 0 .. MaxCommands
    BY WorkstreamAssumption DEF StreamInv, WorkstreamTypeOK, CreateStream
  <2> QED BY <1>1, <2>1 DEF StreamInv, WorkstreamTypeOK
<1>3. CommandsNamed'
  BY <1>1 DEF StreamInv, CommandsNamed, Migrating, Archiving
<1> QED
  BY <1>1, <1>2, <1>3, NothingMoves DEF Migrating, Archiving

LEMMA MigrateCheckStep ==
  ASSUME StreamInv, NEW p \in Sessions, MigrateCheck(p)
  PROVE  StreamInv'
<1>1. cmd[p].step = "migrate" /\ moving[p] = {}
  BY DEF StreamInv, CommandsNamed, MigrateCheck, Migrating, Archiving
<1>2. UNCHANGED <<root, wsRoot, dirs, inDir, archived, made, pointer, wasActive, commands,
                 moveFaults, harmed>>
  BY DEF MigrateCheck
<1>3. /\ cmd'[p].step \in {"free", "mkdir"}
      /\ cmd'[p].step = "mkdir" => cmd'[p].stream = cmd[p].stream /\ cmd'[p].other = cmd[p].other
      /\ \A q \in Sessions \ {p} : cmd'[q] = cmd[q]
      /\ cmd' \in [Sessions -> [step : Steps, stream : Streams \cup {NoStream},
                                other : Streams \cup {NoStream}]]
      /\ moving' = moving /\ left' \in [Sessions -> SUBSET Items]
  <2>1. CASE wsRoot
    <3>1. End(p)
      BY <2>1 DEF MigrateCheck
    <3>2. moving' = moving
      BY <1>1, <3>1 DEF End, StreamInv, WorkstreamTypeOK
    <3> QED BY <3>1, <3>2, EndRests DEF StreamInv
  <2>2. CASE ~ wsRoot
    <3>1. Goto(p, "mkdir") /\ UNCHANGED <<moving, left>>
      BY <2>2 DEF MigrateCheck
    <3> QED BY <3>1, GotoMoves DEF StreamInv, WorkstreamTypeOK, Steps
  <2> QED BY <2>1, <2>2
<1>4. WorkstreamTypeOK'
  BY <1>2, <1>3 DEF StreamInv, WorkstreamTypeOK
<1>5. CommandsNamed'
  BY <1>1, <1>3 DEF StreamInv, CommandsNamed, Migrating, Archiving
<1> QED
  BY <1>1, <1>2, <1>3, <1>4, <1>5, NothingMoves DEF Migrating, Archiving

LEMMA MigrateMkdirStep ==
  ASSUME StreamInv, NEW p \in Sessions, MigrateMkdir(p)
  PROVE  StreamInv'
<1>1. cmd[p].step = "mkdir" /\ moving[p] = {} /\ cmd[p].other \in Streams /\ cmd[p].stream \in Streams
  BY DEF StreamInv, CommandsNamed, MigrateMkdir, Migrating, Archiving
<1>2. /\ cmd' \in [Sessions -> [step : Steps, stream : Streams \cup {NoStream},
                                other : Streams \cup {NoStream}]]
      /\ cmd'[p].step = "look" /\ cmd'[p].stream = cmd[p].stream /\ cmd'[p].other = cmd[p].other
      /\ \A q \in Sessions \ {p} : cmd'[q] = cmd[q]
  BY GotoMoves DEF StreamInv, MigrateMkdir, Steps
<1>3. UNCHANGED <<root, inDir, archived, made, pointer, moving, wasActive, commands, moveFaults>>
  BY DEF MigrateMkdir
<1>4. WorkstreamTypeOK'
  <2>1. Flat \subseteq Items
    BY DEF Flat, Items
  <2>2. left' \in [Sessions -> SUBSET Items] /\ wsRoot' \in BOOLEAN /\ dirs' \subseteq Streams
        /\ dirs \subseteq dirs' /\ harmed' \in BOOLEAN
    BY <1>1, <2>1 DEF StreamInv, WorkstreamTypeOK, MigrateMkdir
  <2> QED BY <1>2, <1>3, <2>2 DEF StreamInv, WorkstreamTypeOK
<1>5. CommandsNamed'
  BY <1>1, <1>2, <1>3 DEF StreamInv, CommandsNamed, Migrating, Archiving
<1>6. PlanningFilesKept'
  BY <1>3 DEF StreamInv, PlanningFilesKept, MigrateMkdir
<1>7. ASSUME ~ harmed' PROVE TargetsApart' /\ MovedSoFar'
  <2>1. ~ harmed /\ cmd[p].other \notin dirs /\ ~ Busy(p, cmd[p].other)
    BY <1>7 DEF MigrateMkdir
  <2>2. TargetsApart'
    <3>1. ASSUME NEW q \in Sessions, q # p, cmd[q].step \in Migrating \cup Archiving
          PROVE  Target(q) # cmd[p].other
      BY <2>1, <3>1 DEF Busy, Target, Migrating, Archiving
    <3> QED
      BY <1>2, <2>1, <3>1 DEF StreamInv, TargetsApart, Target, Migrating
  <2>3. MovedSoFar'
    <3>1. inDir[cmd[p].other] = {}
      BY <1>1, <2>1 DEF StreamInv, WorkstreamTypeOK
    <3> QED BY <1>1, <1>2, <1>3, <2>1, <3>1 DEF StreamInv, MovedSoFar
  <2> QED BY <2>2, <2>3
<1> QED
  BY <1>4, <1>5, <1>6, <1>7 DEF StreamInv

\* A step that moves no entry and that a session takes between two moves.
LEMMA NothingMovesYet ==
  ASSUME StreamInv, WorkstreamTypeOK', NEW p \in Sessions,
         cmd'[p].step \in Migrating <=> cmd[p].step \in Migrating,
         cmd'[p].step \in Archiving <=> cmd[p].step \in Archiving,
         cmd[p].step # "free", cmd[p].step \notin {"migrate", "mkdir"},
         cmd'[p].step \notin {"migrate", "mkdir"},
         cmd'[p].stream = cmd[p].stream, cmd'[p].other = cmd[p].other,
         \A q \in Sessions \ {p} : cmd'[q] = cmd[q],
         moving' = moving, inDir' = inDir, harmed' = harmed,
         UNCHANGED <<root, archived, made>>
  PROVE  StreamInv'
<1>1. CommandsNamed'
  BY DEF StreamInv, CommandsNamed
<1>2. harmed \/ TargetsApart'
  BY DEF StreamInv, TargetsApart, Target
<1>3. harmed \/ MovedSoFar'
  BY DEF StreamInv, MovedSoFar
<1>4. PlanningFilesKept'
  BY DEF StreamInv, PlanningFilesKept
<1> QED
  BY <1>1, <1>2, <1>3, <1>4 DEF StreamInv

LEMMA MigrateLookStep ==
  ASSUME StreamInv, NEW p \in Sessions, NEW i \in Items, MigrateLook(p, i)
  PROVE  StreamInv'
<1>1. cmd[p].step = "look" /\ i \in left[p]
      /\ UNCHANGED <<root, wsRoot, dirs, inDir, archived, made, pointer, moving, wasActive,
                     commands, moveFaults, harmed>>
  BY DEF MigrateLook
<1>2. /\ cmd' \in [Sessions -> [step : Steps, stream : Streams \cup {NoStream},
                                other : Streams \cup {NoStream}]]
      /\ cmd'[p].step \in {"look", "move"}
      /\ cmd'[p].stream = cmd[p].stream /\ cmd'[p].other = cmd[p].other
      /\ \A q \in Sessions \ {p} : cmd'[q] = cmd[q]
      /\ left' \in [Sessions -> SUBSET Items]
  <2>1. CASE i \in root
    <3>1. Goto(p, "move") /\ UNCHANGED left
      BY <2>1 DEF MigrateLook
    <3> QED BY <3>1, GotoMoves DEF StreamInv, WorkstreamTypeOK, Steps
  <2>2. CASE i \notin root
    BY <1>1, <2>2 DEF MigrateLook, StreamInv, WorkstreamTypeOK
  <2> QED BY <2>1, <2>2
<1>3. WorkstreamTypeOK'
  BY <1>1, <1>2 DEF StreamInv, WorkstreamTypeOK
<1> QED
  BY <1>1, <1>2, <1>3, NothingMovesYet DEF Migrating, Archiving

LEMMA MigrateMoveStep ==
  ASSUME StreamInv, NEW p \in Sessions, NEW i \in Items, MigrateMove(p, i)
  PROVE  StreamInv'
<1> DEFINE o == cmd[p].other
<1>1. cmd[p].step = "move" /\ i \in left[p] /\ o \in Streams /\ cmd[p].stream \in Streams
      /\ UNCHANGED <<wsRoot, dirs, archived, made, pointer, wasActive, commands, harmed>>
  BY DEF MigrateMove, StreamInv, CommandsNamed, Migrating
<1>2. CASE /\ i \in root /\ o \in dirs
           /\ root' = root \ {i}
           /\ inDir' = [inDir EXCEPT ![o] = @ \cup {i}]
           /\ moving' = [moving EXCEPT ![p] = @ \cup {i}]
           /\ left' = [left EXCEPT ![p] = @ \ {i}]
           /\ Goto(p, "look") /\ UNCHANGED moveFaults
  <2>1. /\ cmd' \in [Sessions -> [step : Steps, stream : Streams \cup {NoStream},
                                  other : Streams \cup {NoStream}]]
        /\ cmd'[p].step = "look" /\ cmd'[p].stream = cmd[p].stream /\ cmd'[p].other = o
        /\ \A q \in Sessions \ {p} : cmd'[q] = cmd[q]
    BY <1>2, GotoMoves DEF StreamInv, Steps
  <2>2. /\ inDir' \in [Streams -> SUBSET Items] /\ moving' \in [Sessions -> SUBSET Items]
        /\ left' \in [Sessions -> SUBSET Items]
        /\ inDir'[o] = inDir[o] \cup {i} /\ \A s \in Streams \ {o} : inDir'[s] = inDir[s]
        /\ moving'[p] = moving[p] \cup {i} /\ \A q \in Sessions \ {p} : moving'[q] = moving[q]
    BY <1>1, <1>2 DEF StreamInv, WorkstreamTypeOK
  <2>3. WorkstreamTypeOK'
    <3>1. root' \subseteq Items /\ \A s \in Streams \ dirs' : inDir'[s] = {}
      BY <1>1, <1>2, <2>2 DEF StreamInv, WorkstreamTypeOK
    <3> QED BY <1>1, <1>2, <2>1, <2>2, <3>1 DEF StreamInv, WorkstreamTypeOK
  <2>4. CommandsNamed'
    <3> SUFFICES ASSUME NEW q \in Sessions
                 PROVE  /\ cmd'[q].step # "free" => cmd'[q].stream \in Streams
                        /\ cmd'[q].step \in Migrating \cup {"migrate", "mkdir"} => cmd'[q].other \in Streams
                        /\ cmd'[q].step \notin Migrating \cup Archiving => moving'[q] = {}
      BY DEF CommandsNamed
    <3>1. CASE q = p
      BY <1>1, <2>1, <3>1 DEF Migrating
    <3>2. CASE q # p
      BY <2>1, <2>2, <3>2 DEF StreamInv, CommandsNamed
    <3> QED BY <3>1, <3>2
  <2>5. PlanningFilesKept'
    <3>1. ASSUME NEW x PROVE Kept(x) <=> Kept(x)'
      BY <1>1, <1>2, <2>2 DEF Kept
    <3> QED BY <1>1, <3>1, KeptEach DEF StreamInv
  <2>6. ASSUME ~ harmed PROVE TargetsApart'
    BY <1>1, <2>1, <2>6 DEF StreamInv, TargetsApart, Target, Migrating, Archiving
  <2>7. ASSUME ~ harmed PROVE MovedSoFar'
    <3> SUFFICES ASSUME NEW q \in Sessions, cmd'[q].step \in Migrating
                 PROVE  inDir'[cmd'[q].other] = moving'[q]
      BY DEF MovedSoFar
    <3>1. CASE q = p
      <4>1. inDir[o] = moving[p]
        BY <1>1, <2>7 DEF StreamInv, MovedSoFar, Migrating
      <4> QED BY <2>1, <2>2, <3>1, <4>1
    <3>2. CASE q # p
      <4>1. cmd[q].step \in Migrating /\ cmd[q].other \in Streams /\ cmd[q].other # o
        BY <1>1, <2>1, <2>7, <3>2 DEF StreamInv, CommandsNamed, TargetsApart, Target, Migrating
      <4> QED BY <2>1, <2>2, <2>7, <3>2, <4>1 DEF StreamInv, MovedSoFar
    <3> QED BY <3>1, <3>2
  <2> QED BY <1>1, <2>3, <2>4, <2>5, <2>6, <2>7 DEF StreamInv
<1>3. CASE /\ \/ (i \notin root \/ o \notin dirs) /\ UNCHANGED moveFaults
              \/ moveFaults < MaxMoveFaults /\ moveFaults' = moveFaults + 1
           /\ Goto(p, "unmove") /\ UNCHANGED <<root, inDir, moving, left>>
  <2>1. /\ cmd' \in [Sessions -> [step : Steps, stream : Streams \cup {NoStream},
                                  other : Streams \cup {NoStream}]]
        /\ cmd'[p].step = "unmove" /\ cmd'[p].stream = cmd[p].stream /\ cmd'[p].other = o
        /\ \A q \in Sessions \ {p} : cmd'[q] = cmd[q]
    BY <1>3, GotoMoves DEF StreamInv, Steps
  <2>2. moveFaults' \in 0 .. MaxMoveFaults
    BY <1>3, WorkstreamAssumption DEF StreamInv, WorkstreamTypeOK
  <2>3. WorkstreamTypeOK'
    BY <1>1, <1>3, <2>1, <2>2 DEF StreamInv, WorkstreamTypeOK
  <2> QED BY <1>1, <1>3, <2>1, <2>3, NothingMovesYet DEF Migrating, Archiving
<1> QED
  BY <1>2, <1>3 DEF MigrateMove

LEMMA MigrateUnmoveStep ==
  ASSUME StreamInv, NEW p \in Sessions, NEW i \in Items, MigrateUnmove(p, i)
  PROVE  StreamInv'
<1> DEFINE o == cmd[p].other
<1>1. cmd[p].step = "unmove" /\ i \in moving[p] /\ o \in Streams
      /\ moving' = [moving EXCEPT ![p] = @ \ {i}]
      /\ UNCHANGED <<wsRoot, dirs, archived, made, pointer, cmd, left, wasActive, commands>>
  BY DEF MigrateUnmove, StreamInv, CommandsNamed, Migrating
<1>2. moving' \in [Sessions -> SUBSET Items] /\ moving'[p] = moving[p] \ {i}
      /\ \A q \in Sessions \ {p} : moving'[q] = moving[q]
  BY <1>1 DEF StreamInv, WorkstreamTypeOK
<1>3. CommandsNamed'
  BY <1>1, <1>2 DEF StreamInv, CommandsNamed
<1>4. CASE /\ \E s \in {o} : i \in inDir[s]
           /\ root' = root \cup {i} /\ inDir' = [inDir EXCEPT ![o] = @ \ {i}]
           /\ UNCHANGED <<moveFaults, harmed>>
  <2>1. inDir' \in [Streams -> SUBSET Items] /\ inDir'[o] = inDir[o] \ {i} /\ i \in inDir[o]
        /\ \A s \in Streams \ {o} : inDir'[s] = inDir[s]
    BY <1>1, <1>4 DEF StreamInv, WorkstreamTypeOK
  <2>2. WorkstreamTypeOK'
    BY <1>1, <1>2, <1>4, <2>1 DEF StreamInv, WorkstreamTypeOK
  <2>3. PlanningFilesKept'
    <3>1. ASSUME NEW x PROVE Kept(x) <=> Kept(x)'
      BY <1>1, <1>2, <1>4, <2>1 DEF Kept
    <3> QED BY <1>1, <1>4, <3>1, KeptEach DEF StreamInv
  <2>4. ASSUME ~ harmed PROVE TargetsApart'
    BY <1>1, <2>4 DEF StreamInv, TargetsApart, Target
  <2>5. ASSUME ~ harmed PROVE MovedSoFar'
    <3> SUFFICES ASSUME NEW q \in Sessions, cmd[q].step \in Migrating
                 PROVE  inDir'[cmd[q].other] = moving'[q]
      BY <1>1 DEF MovedSoFar
    <3>1. CASE q = p
      BY <1>2, <2>1, <2>5, <3>1 DEF StreamInv, MovedSoFar
    <3>2. CASE q # p
      <4>1. cmd[q].other \in Streams /\ cmd[q].other # o
        BY <1>1, <2>5, <3>2 DEF StreamInv, CommandsNamed, TargetsApart, Target, Migrating
      <4> QED BY <1>2, <2>1, <2>5, <3>2, <4>1 DEF StreamInv, MovedSoFar
    <3> QED BY <3>1, <3>2
  <2> QED BY <1>3, <1>4, <2>2, <2>3, <2>4, <2>5 DEF StreamInv
<1>5. CASE /\ \/ i \notin inDir[o] /\ UNCHANGED moveFaults
              \/ moveFaults < MaxMoveFaults /\ moveFaults' = moveFaults + 1
           /\ harmed' = TRUE /\ UNCHANGED <<root, inDir>>
  <2>1. moveFaults' \in 0 .. MaxMoveFaults
    BY <1>5, WorkstreamAssumption DEF StreamInv, WorkstreamTypeOK
  <2>2. WorkstreamTypeOK'
    BY <1>1, <1>2, <1>5, <2>1 DEF StreamInv, WorkstreamTypeOK
  <2> QED BY <1>3, <1>5, <2>2 DEF StreamInv, PlanningFilesKept
<1> QED
  BY <1>4, <1>5 DEF MigrateUnmove

LEMMA MigrateAbandonStep ==
  ASSUME StreamInv, NEW p \in Sessions, MigrateAbandon(p)
  PROVE  StreamInv'
<1> DEFINE o == cmd[p].other
<1>1. cmd[p].step = "unmove" /\ moving[p] = {} /\ o \in Streams
      /\ dirs' = dirs \ {o} /\ inDir' = [inDir EXCEPT ![o] = {}]
      /\ wsRoot' = (dirs \ {o} # {}) /\ End(p)
      /\ UNCHANGED <<root, archived, made, pointer, wasActive, commands, moveFaults, harmed>>
  BY DEF MigrateAbandon, StreamInv, CommandsNamed, Migrating
<1>2. inDir' \in [Streams -> SUBSET Items] /\ inDir'[o] = {}
      /\ \A s \in Streams \ {o} : inDir'[s] = inDir[s]
  BY <1>1 DEF StreamInv, WorkstreamTypeOK
<1>3. /\ cmd' \in [Sessions -> [step : Steps, stream : Streams \cup {NoStream},
                                other : Streams \cup {NoStream}]]
      /\ cmd'[p].step = "free" /\ \A q \in Sessions \ {p} : cmd'[q] = cmd[q]
      /\ moving' \in [Sessions -> SUBSET Items] /\ left' \in [Sessions -> SUBSET Items]
      /\ \A q \in Sessions : moving'[q] = moving[q]
  BY <1>1, EndRests DEF StreamInv
<1>4. WorkstreamTypeOK'
  BY <1>1, <1>2, <1>3 DEF StreamInv, WorkstreamTypeOK
<1>5. CommandsNamed'
  BY <1>1, <1>3 DEF StreamInv, CommandsNamed, Migrating, Archiving
<1>6. ASSUME ~ harmed PROVE TargetsApart' /\ MovedSoFar' /\ PlanningFilesKept'
  <2>1. inDir' = inDir
    BY <1>1, <1>2, <1>6 DEF StreamInv, WorkstreamTypeOK, MovedSoFar, Migrating
  <2>2. TargetsApart'
    BY <1>3, <1>6 DEF StreamInv, TargetsApart, Target, Migrating, Archiving
  <2>3. MovedSoFar'
    BY <1>3, <1>6, <2>1 DEF StreamInv, MovedSoFar, Migrating
  <2>4. PlanningFilesKept'
    BY <1>1, <1>3, <1>6, <2>1 DEF StreamInv, PlanningFilesKept
  <2> QED BY <2>2, <2>3, <2>4
<1> QED
  BY <1>1, <1>4, <1>5, <1>6 DEF StreamInv, PlanningFilesKept

LEMMA MakeStreamStep ==
  ASSUME StreamInv, NEW p \in Sessions, MakeStream(p)
  PROVE  StreamInv'
<1> DEFINE s == cmd[p].stream
           state == [owner |-> s, kind |-> "state"]
<1>1. /\ cmd[p].step \in {"make", "look"} /\ s \in Streams
      /\ cmd[p].step = "make" => moving[p] = {}
      /\ wsRoot' = TRUE /\ dirs' = dirs \cup {s} /\ End(p)
      /\ pointer' = [pointer EXCEPT ![PointerOf[p]] = s]
      /\ harmed' = (harmed \/ Busy(p, s))
      /\ UNCHANGED <<root, archived, wasActive, commands, moveFaults>>
  BY DEF MakeStream, Activate, StreamInv, CommandsNamed, Migrating, Archiving
<1>2. state \in Items
  BY <1>1 DEF Items, Kinds
<1>3. /\ inDir' \in [Streams -> SUBSET Items] /\ made' \subseteq Items
      /\ \A d \in Streams \ {s} : inDir'[d] = inDir[d]
      /\ \/ inDir' = inDir /\ made' = made
         \/ inDir'[s] = inDir[s] \cup {state} /\ made' = made \cup {state}
  BY <1>1, <1>2 DEF MakeStream, StreamInv, WorkstreamTypeOK
<1>4. /\ cmd' \in [Sessions -> [step : Steps, stream : Streams \cup {NoStream},
                                other : Streams \cup {NoStream}]]
      /\ cmd'[p].step = "free"
      /\ moving' \in [Sessions -> SUBSET Items] /\ left' \in [Sessions -> SUBSET Items]
      /\ moving'[p] = {}
      /\ \A q \in Sessions \ {p} : cmd'[q] = cmd[q] /\ moving'[q] = moving[q]
  BY <1>1, EndRests DEF StreamInv
<1>5. WorkstreamTypeOK'
  <2>1. dirs' \subseteq Streams /\ \A d \in Streams \ dirs' : inDir'[d] = {}
    BY <1>1, <1>3 DEF StreamInv, WorkstreamTypeOK
  <2>2. pointer' \in [Pointers -> Streams \cup {NoStream}]
    BY <1>1 DEF StreamInv, WorkstreamTypeOK
  <2>3. harmed' \in BOOLEAN
    BY <1>1 DEF StreamInv, WorkstreamTypeOK, Busy
  <2> QED BY <1>1, <1>3, <1>4, <2>1, <2>2, <2>3 DEF StreamInv, WorkstreamTypeOK
<1>6. CommandsNamed'
  BY <1>1, <1>4 DEF StreamInv, CommandsNamed, Migrating, Archiving
<1>7. ASSUME ~ harmed' PROVE TargetsApart' /\ MovedSoFar' /\ PlanningFilesKept'
  <2>1. ~ harmed /\ ~ Busy(p, s)
    BY <1>1, <1>7
  <2>2. TargetsApart'
    BY <1>4, <2>1 DEF StreamInv, TargetsApart, Target, Migrating, Archiving
  <2>3. MovedSoFar'
    <3> SUFFICES ASSUME NEW q \in Sessions, cmd'[q].step \in Migrating
                 PROVE  inDir'[cmd'[q].other] = moving'[q]
      BY DEF MovedSoFar
    <3>1. q # p /\ cmd[q].step \in Migrating
      BY <1>4 DEF Migrating
    <3>2. cmd[q].other # s /\ cmd[q].other \in Streams
      BY <2>1, <3>1 DEF Busy, Migrating, StreamInv, CommandsNamed
    <3> QED BY <1>3, <1>4, <2>1, <3>1, <3>2 DEF StreamInv, MovedSoFar
  <2>4. PlanningFilesKept'
    <3> SUFFICES ASSUME NEW x PROVE x \in made' <=> Kept(x)'
      BY KeptEach
    <3>1. x \in made <=> Kept(x)
      BY <2>1, KeptEach DEF StreamInv
    <3>2. x \in moving[p] => \E d \in Streams : x \in inDir[d]
      BY <1>1, <2>1 DEF StreamInv, MovedSoFar, CommandsNamed, Migrating
    <3>3. Kept(x)' <=> \/ x \in root \cup archived \/ \E d \in Streams : x \in inDir'[d]
                       \/ \E q \in Sessions \ {p} : x \in moving[q]
      BY <1>1, <1>4 DEF Kept
    <3>4. Kept(x) <=> \/ x \in root \cup archived \/ \E d \in Streams : x \in inDir[d]
                      \/ \E q \in Sessions \ {p} : x \in moving[q]
      BY <3>2 DEF Kept
    <3>5. CASE inDir' = inDir /\ made' = made
      BY <3>1, <3>3, <3>4, <3>5
    <3>6. CASE inDir'[s] = inDir[s] \cup {state} /\ made' = made \cup {state}
      <4>1. (\E d \in Streams : x \in inDir'[d]) <=> (x = state \/ \E d \in Streams : x \in inDir[d])
        BY <1>1, <1>3, <3>6
      <4>2. x \in made' <=> (x = state \/ x \in made)
        BY <3>6
      <4> HIDE DEF state
      <4> QED BY <3>1, <3>3, <3>4, <4>1, <4>2
    <3> QED BY <1>3, <3>5, <3>6
  <2> QED BY <2>2, <2>3, <2>4
<1> QED
  BY <1>5, <1>6, <1>7 DEF StreamInv, PlanningFilesKept

LEMMA CompleteStreamStep ==
  ASSUME StreamInv, NEW p \in Sessions, NEW s \in Streams, CompleteStream(p, s)
  PROVE  StreamInv'
<1>1. /\ cmd[p].step = "free" /\ moving[p] = {}
      /\ left' = [left EXCEPT ![p] = inDir[s]]
      /\ harmed' = (harmed \/ Busy(p, s))
      /\ cmd' = [cmd EXCEPT ![p] = [step |-> "archive", stream |-> s, other |-> NoStream]]
      /\ UNCHANGED <<root, wsRoot, dirs, inDir, archived, made, moving, moveFaults>>
  BY DEF CompleteStream, Resting, StreamInv, CommandsNamed, Migrating, Archiving
<1>2. /\ cmd' \in [Sessions -> [step : Steps, stream : Streams \cup {NoStream},
                                other : Streams \cup {NoStream}]]
      /\ cmd'[p].step = "archive" /\ cmd'[p].stream = s
      /\ \A q \in Sessions \ {p} : cmd'[q] = cmd[q]
  BY <1>1 DEF StreamInv, WorkstreamTypeOK, Steps
<1>3. WorkstreamTypeOK'
  <2>1. left' \in [Sessions -> SUBSET Items]
    BY <1>1 DEF StreamInv, WorkstreamTypeOK
  <2>2. commands' \in 0 .. MaxCommands
    BY WorkstreamAssumption DEF StreamInv, WorkstreamTypeOK, CompleteStream
  <2>3. pointer' \in [Pointers -> Streams \cup {NoStream}]
    <3>1. Cleaned(p) \in [Pointers -> Streams \cup {NoStream}] /\ PointerOf[p] \in Pointers
      BY CleanedTyped DEF StreamInv, Pointers
    <3>2. pointer' = [Cleaned(p) EXCEPT ![PointerOf[p]] = IF @ = s THEN NoStream ELSE @]
      BY DEF CompleteStream
    <3> QED BY <3>1, <3>2
  <2>4. wasActive' \in [Sessions -> BOOLEAN]
    BY DEF StreamInv, WorkstreamTypeOK, CompleteStream
  <2>5. harmed' \in BOOLEAN
    BY <1>1 DEF StreamInv, WorkstreamTypeOK, Busy
  <2> QED BY <1>1, <1>2, <2>1, <2>2, <2>3, <2>4, <2>5 DEF StreamInv, WorkstreamTypeOK
<1>4. CommandsNamed'
  BY <1>1, <1>2 DEF StreamInv, CommandsNamed, Migrating, Archiving
<1>5. ASSUME ~ harmed' PROVE TargetsApart' /\ MovedSoFar'
  <2>1. ~ harmed /\ ~ Busy(p, s)
    BY <1>1, <1>5
  <2>2. TargetsApart'
    <3>1. ASSUME NEW q \in Sessions, q # p, cmd[q].step \in Migrating \cup Archiving
          PROVE  Target(q) # s
      BY <2>1, <3>1 DEF Busy, Target, Migrating, Archiving
    <3>2. Target(p)' = s /\ \A q \in Sessions \ {p} : Target(q)' = Target(q)
      BY <1>2 DEF Target, Migrating
    <3> QED BY <1>2, <2>1, <3>1, <3>2 DEF StreamInv, TargetsApart
  <2>3. MovedSoFar'
    BY <1>1, <1>2, <2>1 DEF StreamInv, MovedSoFar, Migrating
  <2> QED BY <2>2, <2>3
<1>6. PlanningFilesKept'
  BY <1>1 DEF StreamInv, PlanningFilesKept
<1> QED
  BY <1>3, <1>4, <1>5, <1>6 DEF StreamInv

\* A session that archives moves entries of its directory only.
LEMMA ArchiverMoves ==
  ASSUME StreamInv, WorkstreamTypeOK', NEW p \in Sessions, cmd[p].step \in Archiving,
         cmd'[p].step \in Archiving \cup {"free"}, cmd'[p].stream = cmd[p].stream \/ cmd'[p].step = "free",
         cmd'[p].step = "free" => moving'[p] = {},
         \A q \in Sessions \ {p} : cmd'[q] = cmd[q] /\ moving'[q] = moving[q],
         \A s \in Streams \ {cmd[p].stream} : inDir'[s] = inDir[s],
         harmed \/ harmed' = harmed
  PROVE  CommandsNamed' /\ (harmed \/ (TargetsApart' /\ MovedSoFar'))
<1>1. CommandsNamed'
  BY DEF StreamInv, CommandsNamed, Migrating, Archiving
<1>2. ASSUME ~ harmed PROVE TargetsApart'
  BY <1>2 DEF StreamInv, TargetsApart, Target, Migrating, Archiving
<1>3. ASSUME ~ harmed PROVE MovedSoFar'
  <2> SUFFICES ASSUME NEW q \in Sessions, cmd'[q].step \in Migrating
               PROVE  inDir'[cmd'[q].other] = moving'[q]
    BY DEF MovedSoFar
  <2>1. q # p /\ cmd[q].step \in Migrating
    BY DEF Migrating, Archiving
  <2>2. cmd[q].other \in Streams /\ cmd[q].other # cmd[p].stream
    BY <1>3, <2>1 DEF StreamInv, CommandsNamed, TargetsApart, Target, Migrating, Archiving
  <2> QED BY <1>3, <2>1, <2>2 DEF StreamInv, MovedSoFar
<1> QED
  BY <1>1, <1>2, <1>3

LEMMA ArchiveEntryStep ==
  ASSUME StreamInv, NEW p \in Sessions, NEW i \in Items, ArchiveEntry(p, i)
  PROVE  StreamInv'
<1> DEFINE s == cmd[p].stream
<1>1. cmd[p].step = "archive" /\ i \in left[p] /\ s \in Streams
      /\ UNCHANGED <<root, wsRoot, dirs, archived, made, pointer, wasActive, commands, harmed>>
  BY DEF ArchiveEntry, StreamInv, CommandsNamed
<1>2. CASE /\ i \in inDir[s]
           /\ inDir' = [inDir EXCEPT ![s] = @ \ {i}]
           /\ moving' = [moving EXCEPT ![p] = @ \cup {i}]
           /\ left' = [left EXCEPT ![p] = @ \ {i}]
           /\ UNCHANGED <<cmd, moveFaults>>
  <2>1. /\ inDir' \in [Streams -> SUBSET Items] /\ moving' \in [Sessions -> SUBSET Items]
        /\ left' \in [Sessions -> SUBSET Items]
        /\ inDir'[s] = inDir[s] \ {i} /\ \A d \in Streams \ {s} : inDir'[d] = inDir[d]
        /\ moving'[p] = moving[p] \cup {i} /\ \A q \in Sessions \ {p} : moving'[q] = moving[q]
    BY <1>1, <1>2 DEF StreamInv, WorkstreamTypeOK
  <2>2. WorkstreamTypeOK'
    <3>1. \A d \in Streams \ dirs' : inDir'[d] = {}
      BY <1>1, <2>1 DEF StreamInv, WorkstreamTypeOK
    <3> QED BY <1>1, <1>2, <2>1, <3>1 DEF StreamInv, WorkstreamTypeOK
  <2>3. CommandsNamed' /\ (harmed \/ (TargetsApart' /\ MovedSoFar'))
    BY <1>1, <1>2, <2>1, <2>2, ArchiverMoves DEF Archiving
  <2>4. PlanningFilesKept'
    <3>1. ASSUME NEW x PROVE Kept(x) <=> Kept(x)'
      BY <1>1, <1>2, <2>1 DEF Kept
    <3> QED BY <1>1, <3>1, KeptEach DEF StreamInv
  <2> QED BY <1>1, <2>2, <2>3, <2>4 DEF StreamInv
<1>3. CASE /\ \/ i \notin inDir[s] /\ UNCHANGED moveFaults
              \/ moveFaults < MaxMoveFaults /\ moveFaults' = moveFaults + 1
           /\ Goto(p, "unarchive") /\ UNCHANGED <<inDir, moving, left>>
  <2>1. /\ cmd' \in [Sessions -> [step : Steps, stream : Streams \cup {NoStream},
                                  other : Streams \cup {NoStream}]]
        /\ cmd'[p].step = "unarchive" /\ cmd'[p].stream = s /\ cmd'[p].other = cmd[p].other
        /\ \A q \in Sessions \ {p} : cmd'[q] = cmd[q]
    BY <1>3, GotoMoves DEF StreamInv, Steps
  <2>2. moveFaults' \in 0 .. MaxMoveFaults
    BY <1>3, WorkstreamAssumption DEF StreamInv, WorkstreamTypeOK
  <2>3. WorkstreamTypeOK'
    BY <1>1, <1>3, <2>1, <2>2 DEF StreamInv, WorkstreamTypeOK
  <2> QED BY <1>1, <1>3, <2>1, <2>3, NothingMovesYet DEF Migrating, Archiving
<1> QED
  BY <1>2, <1>3 DEF ArchiveEntry

LEMMA UnarchiveEntryStep ==
  ASSUME StreamInv, NEW p \in Sessions, NEW i \in Items, UnarchiveEntry(p, i)
  PROVE  StreamInv'
<1> DEFINE s == cmd[p].stream
<1>1. /\ cmd[p].step = "unarchive" /\ i \in moving[p] /\ s \in Streams
      /\ moving' = [moving EXCEPT ![p] = @ \ {i}]
      /\ UNCHANGED <<root, wsRoot, dirs, archived, made, pointer, cmd, left, wasActive, commands>>
  BY DEF UnarchiveEntry, StreamInv, CommandsNamed
<1>2. /\ moving' \in [Sessions -> SUBSET Items] /\ moving'[p] = moving[p] \ {i}
      /\ \A q \in Sessions \ {p} : moving'[q] = moving[q]
  BY <1>1 DEF StreamInv, WorkstreamTypeOK
<1>3. CASE /\ s \in dirs /\ inDir' = [inDir EXCEPT ![s] = @ \cup {i}]
           /\ UNCHANGED <<moveFaults, harmed>>
  <2>1. /\ inDir' \in [Streams -> SUBSET Items] /\ inDir'[s] = inDir[s] \cup {i}
        /\ \A d \in Streams \ {s} : inDir'[d] = inDir[d]
    BY <1>1, <1>3 DEF StreamInv, WorkstreamTypeOK
  <2>2. WorkstreamTypeOK'
    <3>1. \A d \in Streams \ dirs' : inDir'[d] = {}
      BY <1>1, <1>3, <2>1 DEF StreamInv, WorkstreamTypeOK
    <3> QED BY <1>1, <1>2, <1>3, <2>1, <3>1 DEF StreamInv, WorkstreamTypeOK
  <2>3. CommandsNamed' /\ (harmed \/ (TargetsApart' /\ MovedSoFar'))
    BY <1>1, <1>2, <1>3, <2>1, <2>2, ArchiverMoves DEF Archiving
  <2>4. PlanningFilesKept'
    <3>1. ASSUME NEW x PROVE Kept(x) <=> Kept(x)'
      BY <1>1, <1>2, <1>3, <2>1 DEF Kept
    <3> QED BY <1>1, <1>3, <3>1, KeptEach DEF StreamInv
  <2> QED BY <1>3, <2>2, <2>3, <2>4 DEF StreamInv
<1>4. CASE /\ \/ s \notin dirs /\ UNCHANGED moveFaults
              \/ moveFaults < MaxMoveFaults /\ moveFaults' = moveFaults + 1
           /\ harmed' = TRUE /\ UNCHANGED inDir
  <2>1. moveFaults' \in 0 .. MaxMoveFaults
    BY <1>4, WorkstreamAssumption DEF StreamInv, WorkstreamTypeOK
  <2>2. WorkstreamTypeOK'
    BY <1>1, <1>2, <1>4, <2>1 DEF StreamInv, WorkstreamTypeOK
  <2>3. CommandsNamed'
    BY <1>1, <1>2 DEF StreamInv, CommandsNamed, Archiving
  <2> QED BY <1>4, <2>2, <2>3 DEF StreamInv, PlanningFilesKept
<1> QED
  BY <1>3, <1>4 DEF UnarchiveEntry

\* An archiving session that ends with nothing in hand.
LEMMA UnarchiveEndsStep ==
  ASSUME StreamInv, NEW p \in Sessions, UnarchiveEnds(p)
  PROVE  StreamInv'
<1>1. /\ cmd[p].step = "unarchive" /\ moving[p] = {} /\ cmd[p].stream \in Streams /\ End(p)
      /\ UNCHANGED <<root, inDir, archived, made, wasActive, commands, moveFaults, harmed>>
  BY DEF UnarchiveEnds, StreamInv, CommandsNamed
<1>2. /\ cmd' \in [Sessions -> [step : Steps, stream : Streams \cup {NoStream},
                                other : Streams \cup {NoStream}]]
      /\ cmd'[p].step = "free" /\ moving'[p] = {}
      /\ moving' \in [Sessions -> SUBSET Items] /\ left' \in [Sessions -> SUBSET Items]
      /\ \A q \in Sessions \ {p} : cmd'[q] = cmd[q] /\ moving'[q] = moving[q]
  BY <1>1, EndRests DEF StreamInv
<1>3. WorkstreamTypeOK'
  <2>1. /\ wsRoot' \in BOOLEAN /\ dirs' \subseteq Streams /\ dirs \subseteq dirs'
        /\ pointer' \in [Pointers -> Streams \cup {NoStream}]
    BY <1>1 DEF UnarchiveEnds, Activate, StreamInv, WorkstreamTypeOK
  <2> QED BY <1>1, <1>2, <2>1 DEF StreamInv, WorkstreamTypeOK
<1>4. CommandsNamed' /\ (harmed \/ (TargetsApart' /\ MovedSoFar'))
  BY <1>1, <1>2, <1>3, ArchiverMoves DEF Archiving
<1>5. PlanningFilesKept'
  <2>1. ASSUME NEW x PROVE Kept(x) <=> Kept(x)'
    BY <1>1, <1>2 DEF Kept
  <2> QED BY <1>1, <2>1, KeptEach DEF StreamInv
<1> QED
  BY <1>1, <1>3, <1>4, <1>5 DEF StreamInv

LEMMA CompleteEndsStep ==
  ASSUME StreamInv, NEW p \in Sessions, CompleteEnds(p)
  PROVE  StreamInv'
<1> DEFINE s == cmd[p].stream
<1>1. /\ cmd[p].step = "archive" /\ s \in Streams /\ End(p)
      /\ archived' = archived \cup moving[p]
      /\ UNCHANGED <<root, inDir, made, pointer, wasActive, commands, moveFaults, harmed>>
  BY DEF CompleteEnds, StreamInv, CommandsNamed
<1>2. /\ cmd' \in [Sessions -> [step : Steps, stream : Streams \cup {NoStream},
                                other : Streams \cup {NoStream}]]
      /\ cmd'[p].step = "free" /\ moving'[p] = {}
      /\ moving' \in [Sessions -> SUBSET Items] /\ left' \in [Sessions -> SUBSET Items]
      /\ \A q \in Sessions \ {p} : cmd'[q] = cmd[q] /\ moving'[q] = moving[q]
  BY <1>1, EndRests DEF StreamInv
<1>3. WorkstreamTypeOK'
  <2>1. /\ wsRoot' \in BOOLEAN /\ dirs' \subseteq Streams
        /\ \A d \in Streams \ dirs' : inDir'[d] = {}
    BY <1>1 DEF CompleteEnds, StreamInv, WorkstreamTypeOK
  <2>2. archived' \subseteq Items
    BY <1>1 DEF StreamInv, WorkstreamTypeOK
  <2> QED BY <1>1, <1>2, <2>1, <2>2 DEF StreamInv, WorkstreamTypeOK
<1>4. CommandsNamed' /\ (harmed \/ (TargetsApart' /\ MovedSoFar'))
  BY <1>1, <1>2, <1>3, ArchiverMoves DEF Archiving
<1>5. PlanningFilesKept'
  <2>1. ASSUME NEW x PROVE Kept(x) <=> Kept(x)'
    BY <1>1, <1>2 DEF Kept
  <2> QED BY <1>1, <2>1, KeptEach DEF StreamInv
<1> QED
  BY <1>1, <1>3, <1>4, <1>5 DEF StreamInv

LEMMA PointerSteps ==
  ASSUME StreamInv, NEW p \in Sessions,
         WritePointer(p) \/ ClearPointer(p) \/ GetActive(p) \/ \E s \in Streams : SetStream(p, s)
  PROVE  StreamInv'
<1>1. CASE WritePointer(p)
  <2>1. /\ cmd[p].step = "set" /\ moving[p] = {} /\ cmd[p].stream \in Streams /\ End(p)
        /\ UNCHANGED <<root, inDir, archived, made, wasActive, commands, moveFaults, harmed>>
    BY <1>1 DEF WritePointer, StreamInv, CommandsNamed, Migrating, Archiving
  <2>2. /\ cmd' \in [Sessions -> [step : Steps, stream : Streams \cup {NoStream},
                                  other : Streams \cup {NoStream}]]
        /\ cmd'[p].step = "free" /\ left' \in [Sessions -> SUBSET Items]
        /\ \A q \in Sessions \ {p} : cmd'[q] = cmd[q]
    BY <2>1, EndRests DEF StreamInv
  <2>3. moving' = moving
    BY <2>1 DEF End, StreamInv, WorkstreamTypeOK
  <2>4. WorkstreamTypeOK'
    <3>1. /\ wsRoot' \in BOOLEAN /\ dirs' \subseteq Streams /\ dirs \subseteq dirs'
          /\ pointer' \in [Pointers -> Streams \cup {NoStream}]
      BY <1>1, <2>1 DEF WritePointer, Activate, StreamInv, WorkstreamTypeOK
    <3> QED BY <2>1, <2>2, <2>3, <3>1 DEF StreamInv, WorkstreamTypeOK
  <2>5. CommandsNamed'
    BY <2>1, <2>2, <2>3 DEF StreamInv, CommandsNamed, Migrating, Archiving
  <2> QED BY <2>1, <2>2, <2>3, <2>4, <2>5, NothingMoves DEF Migrating, Archiving
<1>2. CASE ClearPointer(p) \/ GetActive(p)
  <2>1. UNCHANGED <<root, wsRoot, dirs, inDir, archived, made, cmd, moving, left, wasActive,
                    commands, moveFaults, harmed>>
    BY <1>2 DEF ClearPointer, GetActive
  <2>2. pointer' \in [Pointers -> Streams \cup {NoStream}]
    BY <1>2, CleanedTyped DEF ClearPointer, GetActive, StreamInv, WorkstreamTypeOK
  <2>3. WorkstreamTypeOK'
    BY <2>1, <2>2 DEF StreamInv, WorkstreamTypeOK
  <2> QED BY <2>1, <2>3 DEF StreamInv, CommandsNamed, TargetsApart, MovedSoFar, PlanningFilesKept, Target
<1>3. ASSUME NEW s \in Streams, SetStream(p, s) PROVE StreamInv'
  <2>1. /\ cmd[p].step = "free"
        /\ UNCHANGED <<root, wsRoot, dirs, inDir, archived, made, pointer, moving, left, wasActive,
                       moveFaults, harmed>>
    BY <1>3 DEF SetStream, Resting
  <2>2. /\ cmd' \in [Sessions -> [step : Steps, stream : Streams \cup {NoStream},
                                  other : Streams \cup {NoStream}]]
        /\ cmd'[p].step = "set" /\ cmd'[p].stream = s
        /\ \A q \in Sessions \ {p} : cmd'[q] = cmd[q]
        /\ commands' \in 0 .. MaxCommands
    BY <1>3, WorkstreamAssumption DEF SetStream, StreamInv, WorkstreamTypeOK, Steps
  <2>3. WorkstreamTypeOK'
    BY <2>1, <2>2 DEF StreamInv, WorkstreamTypeOK
  <2>4. CommandsNamed'
    BY <2>1, <2>2 DEF StreamInv, CommandsNamed, Migrating, Archiving
  <2> QED BY <2>1, <2>2, <2>3, <2>4, NothingMoves DEF Migrating, Archiving
<1> QED
  BY <1>1, <1>2, <1>3

LEMMA StreamStep == StreamInv /\ [StreamNext]_streamVars => StreamInv'
<1> SUFFICES ASSUME StreamInv, [StreamNext]_streamVars PROVE StreamInv'
  OBVIOUS
<1>1. CASE UNCHANGED streamVars
  BY <1>1 DEF streamVars, StreamInv, WorkstreamTypeOK, CommandsNamed, TargetsApart, MovedSoFar,
              PlanningFilesKept, Target
<1>2. ASSUME NEW p \in Sessions,
             \/ \E s, o \in Streams, m \in BOOLEAN : CreateStream(p, s, o, m)
             \/ MigrateCheck(p) \/ MigrateMkdir(p) \/ MigrateAbandon(p) \/ MakeStream(p)
      PROVE  StreamInv'
  BY <1>2, CreateStreamStep, MigrateCheckStep, MigrateMkdirStep, MigrateAbandonStep, MakeStreamStep
<1>3. ASSUME NEW p \in Sessions, NEW i \in Items,
             \/ MigrateLook(p, i) \/ MigrateMove(p, i) \/ MigrateUnmove(p, i)
             \/ ArchiveEntry(p, i) \/ UnarchiveEntry(p, i)
      PROVE  StreamInv'
  BY <1>3, MigrateLookStep, MigrateMoveStep, MigrateUnmoveStep, ArchiveEntryStep, UnarchiveEntryStep
<1>4. ASSUME NEW p \in Sessions,
             \/ \E s \in Streams : CompleteStream(p, s) \/ SetStream(p, s)
             \/ UnarchiveEnds(p) \/ CompleteEnds(p) \/ WritePointer(p) \/ ClearPointer(p) \/ GetActive(p)
      PROVE  StreamInv'
  BY <1>4, CompleteStreamStep, UnarchiveEndsStep, CompleteEndsStep, PointerSteps
<1> QED
  BY <1>1, <1>2, <1>3, <1>4 DEF StreamNext

\* For any number of sessions, workstreams, commands and failing renames, every entry of the
\* planning directory is kept by migrateToWorkstreams and cmdWorkstreamComplete.
THEOREM EntriesAreKept == StreamSpec => []PlanningFilesKept
<1>1. StreamInv => PlanningFilesKept
  BY DEF StreamInv
<1> QED
  BY <1>1, StreamStarts, StreamStep, PTL DEF StreamSpec

\* Entries are in directories of workstreams that exist; commands and pointers name workstreams.
THEOREM WorkstreamTyped == StreamSpec => []WorkstreamTypeOK
<1>1. StreamInv => WorkstreamTypeOK
  BY DEF StreamInv
<1> QED BY <1>1, StreamStarts, StreamStep, PTL DEF StreamSpec

----------------------------------------------------------------------------
(* OpenItems.                                                              *)

UatFiles == [status : UatStatuses, results : [Tests -> Answers \cup {"pending"}],
             gaps : SUBSET Tests, current : Tests \cup {Done}]
Reports == [status : ReportStatuses, rows : SUBSET Tests]

\* A session that is over waits on no test; one that is complete has none unfinished, and a
\* resolved one no gap.
SessionEnds == \A p \in AuditPhases : uat[p] # NoUat =>
  /\ uat[p].status \in {"complete", "diagnosed", "resolved"} => uat[p].current = Done
  /\ uat[p].status = "complete" => Unfinished(p) = {}
  /\ uat[p].status = "resolved" => uat[p].gaps = {}

\* There are as many files as were written, and a debug session has a status of the workflow.
ArtifactFacts ==
  /\ todos \in Nat /\ questions \subseteq AuditPhases
  /\ IsFiniteSet(DOMAIN debug) /\ IsFiniteSet(DOMAIN quick)
  /\ \A f \in DOMAIN debug : debug[f] # "complete"

OpenInv ==
  /\ uat \in [AuditPhases -> UatFiles \cup {NoUat}] /\ report \in [AuditPhases -> Reports]
  /\ SessionEnds /\ ArtifactFacts

LEMMA FirstPendingTyped ==
  ASSUME NEW results
  PROVE  FirstPending(results) \in Tests \cup {Done}
<1>1. CASE \E t \in Tests : results[t] = "pending"
  <2> DEFINE S == {t \in Tests : results[t] = "pending"}
  <2>1. PICK t \in S : \A u \in S : t <= u
    BY <1>1, SmallestExists, OpenAssumption
  <2>2. \E v \in Tests : /\ results[v] = "pending"
                         /\ \A u \in Tests : results[u] = "pending" => v <= u
    BY <2>1
  <2> QED BY <1>1, <2>2 DEF FirstPending
<1>2. CASE ~ \E t \in Tests : results[t] = "pending"
  BY <1>2 DEF FirstPending
<1> QED
  BY <1>1, <1>2

LEMMA NewSessionTyped ==
  /\ NewSession \in UatFiles /\ NewSession # NoUat
  /\ NewSession.status = "testing"
<1> DEFINE results == [t \in Tests |-> "pending"]
<1>1. results \in [Tests -> Answers \cup {"pending"}] /\ FirstPending(results) \in Tests \cup {Done}
  BY FirstPendingTyped
<1>2. NewSession = [status |-> "testing", results |-> results, gaps |-> {},
                    current |-> FirstPending(results)]
  BY DEF NewSession
<1> HIDE DEF results
<1>3. NewSession \in UatFiles /\ NewSession.status = "testing"
  BY <1>1, <1>2 DEF UatFiles, UatStatuses
<1>4. NewSession # NoUat
  <2>1. DOMAIN NewSession = {"status", "results", "gaps", "current"} /\ DOMAIN NoUat = {"is"}
    BY <1>2 DEF NoUat
  <2> QED BY <2>1
<1> QED
  BY <1>3, <1>4

LEMMA OpenStarts == OpenInit => OpenInv
<1> SUFFICES ASSUME OpenInit PROVE OpenInv
  OBVIOUS
<1>1. uat \in [AuditPhases -> UatFiles \cup {NoUat}] /\ SessionEnds
  BY DEF OpenInit, SessionEnds
<1>2. report \in [AuditPhases -> Reports]
  BY DEF OpenInit, NoReport, Reports, ReportStatuses
<1>3. ArtifactFacts
  <2>1. DOMAIN debug = {} /\ DOMAIN quick = {}
    BY DEF OpenInit
  <2>2. IsFiniteSet(DOMAIN debug) /\ IsFiniteSet(DOMAIN quick)
    BY <2>1, FS_EmptySet
  <2> QED BY <2>1, <2>2 DEF OpenInit, ArtifactFacts
<1> QED
  BY <1>1, <1>2, <1>3 DEF OpenInv

\* A step that changes the UAT file of one phase, and perhaps the debug sessions.
LEMMA UatMoves ==
  ASSUME OpenInv, NEW p \in AuditPhases, NEW file \in UatFiles,
         uat' = [uat EXCEPT ![p] = file], UNCHANGED report,
         /\ file.status \in {"complete", "diagnosed", "resolved"} => file.current = Done
         /\ file.status = "complete" =>
              {t \in Tests : file.results[t] \in {"pending", "blocked", "skipped"}} = {}
         /\ file.status = "resolved" => file.gaps = {},
         ArtifactFacts'
  PROVE  OpenInv'
<1>1. /\ uat' \in [AuditPhases -> UatFiles \cup {NoUat}] /\ uat'[p] = file
      /\ \A q \in AuditPhases \ {p} : uat'[q] = uat[q]
  BY DEF OpenInv
<1>2. SessionEnds'
  <2> SUFFICES ASSUME NEW q \in AuditPhases, uat'[q] # NoUat
               PROVE  /\ uat'[q].status \in {"complete", "diagnosed", "resolved"} => uat'[q].current = Done
                      /\ uat'[q].status = "complete" => Unfinished(q)' = {}
                      /\ uat'[q].status = "resolved" => uat'[q].gaps = {}
    BY DEF SessionEnds
  <2>1. Unfinished(q)' = {t \in Tests : uat'[q].results[t] \in {"pending", "blocked", "skipped"}}
    BY DEF Unfinished
  <2>2. CASE q = p
    BY <1>1, <2>1, <2>2
  <2>3. CASE q # p
    <3>1. uat[q] # NoUat /\ uat'[q] = uat[q]
      BY <1>1, <2>3
    <3>2. Unfinished(q) = {t \in Tests : uat'[q].results[t] \in {"pending", "blocked", "skipped"}}
      BY <3>1 DEF Unfinished
    <3> QED BY <2>1, <3>1, <3>2 DEF OpenInv, SessionEnds
  <2> QED BY <2>2, <2>3
<1> QED
  BY <1>1, <1>2 DEF OpenInv

LEMMA SameArtifacts ==
  ASSUME ArtifactFacts, UNCHANGED <<todos, questions, debug, quick>>
  PROVE  ArtifactFacts'
  BY DEF ArtifactFacts

LEMMA SameUat ==
  ASSUME OpenInv, UNCHANGED uat
  PROVE  uat' \in [AuditPhases -> UatFiles \cup {NoUat}] /\ SessionEnds'
<1>1. \A p \in AuditPhases : Unfinished(p)' = Unfinished(p)
  BY DEF Unfinished
<1> QED
  BY <1>1 DEF OpenInv, SessionEnds

LEMMA CreateUatFileStep ==
  ASSUME OpenInv, NEW p \in AuditPhases, CreateUatFile(p) \/ PersistHumanItems(p)
  PROVE  OpenInv'
<1>1. /\ uat' = [uat EXCEPT ![p] = NewSession] /\ UNCHANGED report
      /\ UNCHANGED <<todos, questions, debug, quick>>
  BY DEF CreateUatFile, PersistHumanItems, restVars
<1> QED
  BY <1>1, UatMoves, NewSessionTyped, SameArtifacts DEF OpenInv

LEMMA ProcessResponseStep ==
  ASSUME OpenInv, NEW p \in AuditPhases, NEW answer \in Answers, ProcessResponse(p, answer)
  PROVE  OpenInv'
<1>1. PICK t \in RenderCheckpoint(p) :
        LET results == [uat[p].results EXCEPT ![t] = answer]
        IN uat' = [uat EXCEPT ![p].results = results, ![p].current = FirstPending(results),
                              ![p].gaps = IF answer = "issue" THEN @ \cup {t} ELSE @]
  BY DEF ProcessResponse
<1>2. uat[p] # NoUat /\ uat[p].current # Done /\ t = uat[p].current /\ uat[p] \in UatFiles
  BY <1>1 DEF RenderCheckpoint, OpenInv
<1>3. t \in Tests
  BY <1>2 DEF UatFiles
<1> DEFINE results == [uat[p].results EXCEPT ![t] = answer]
           gaps == IF answer = "issue" THEN uat[p].gaps \cup {t} ELSE uat[p].gaps
           file == [uat[p] EXCEPT !.results = results, !.current = FirstPending(results), !.gaps = gaps]
<1>4. results \in [Tests -> Answers \cup {"pending"}] /\ gaps \in SUBSET Tests
  BY <1>2, <1>3 DEF UatFiles
<1>5. uat[p].status \in UatStatuses /\ FirstPending(results) \in Tests \cup {Done}
  BY <1>2, FirstPendingTyped DEF UatFiles
<1>6. uat' = [uat EXCEPT ![p] = file]
  BY <1>1 DEF OpenInv
<1> HIDE DEF results, gaps
<1>7. file \in UatFiles /\ file.status = uat[p].status
  BY <1>2, <1>4, <1>5 DEF UatFiles
<1>8. uat[p].status \notin {"complete", "diagnosed", "resolved"}
  BY <1>2 DEF OpenInv, SessionEnds
<1>9. UNCHANGED report /\ UNCHANGED <<todos, questions, debug, quick>>
  BY DEF ProcessResponse, restVars
<1> HIDE DEF file
<1> QED
  BY <1>6, <1>7, <1>8, <1>9, UatMoves, SameArtifacts DEF OpenInv

LEMMA CompleteSessionStep ==
  ASSUME OpenInv, NEW p \in AuditPhases, CompleteSession(p)
  PROVE  OpenInv'
<1> DEFINE status == IF \E t \in Tests : uat[p].results[t] \in {"pending", "blocked", "skipped"}
                     THEN "partial" ELSE "complete"
           file == [uat[p] EXCEPT !.current = Done, !.status = status]
<1>1. /\ uat' = [uat EXCEPT ![p].current = Done, ![p].status = status]
      /\ uat[p] \in UatFiles /\ UNCHANGED report /\ UNCHANGED <<todos, questions, debug, quick>>
  BY DEF CompleteSession, restVars, OpenInv
<1>2. status \in {"partial", "complete"}
      /\ (status = "complete" =>
            {t \in Tests : uat[p].results[t] \in {"pending", "blocked", "skipped"}} = {})
  OBVIOUS
<1> HIDE DEF status
<1>3. file \in UatFiles
  BY <1>1, <1>2 DEF UatFiles, UatStatuses
<1>4. uat' = [uat EXCEPT ![p] = file]
  BY <1>1 DEF OpenInv
<1>5. file.status = status /\ file.current = Done /\ file.results = uat[p].results
  BY <1>1 DEF UatFiles
<1>6. /\ file.status \in {"complete", "diagnosed", "resolved"} => file.current = Done
      /\ file.status = "complete" =>
           {t \in Tests : file.results[t] \in {"pending", "blocked", "skipped"}} = {}
      /\ file.status = "resolved" => file.gaps = {}
  BY <1>2, <1>5
<1> HIDE DEF file
<1> QED
  BY <1>1, <1>3, <1>4, <1>6, UatMoves, SameArtifacts DEF OpenInv

LEMMA ResumeFromFileStep ==
  ASSUME OpenInv, NEW p \in AuditPhases, ResumeFromFile(p)
  PROVE  OpenInv'
<1> DEFINE next == FirstPending(uat[p].results)
           file == [uat[p] EXCEPT !.current = next]
<1>1. /\ uat' = [uat EXCEPT ![p].current = next] /\ uat[p].status = "partial"
      /\ uat[p] \in UatFiles /\ UNCHANGED report /\ UNCHANGED <<todos, questions, debug, quick>>
  BY DEF ResumeFromFile, restVars, OpenInv
<1>2. next \in Tests \cup {Done}
  BY FirstPendingTyped
<1> HIDE DEF next
<1>3. file \in UatFiles /\ file.status = "partial"
  BY <1>1, <1>2 DEF UatFiles, UatStatuses
<1>4. uat' = [uat EXCEPT ![p] = file]
  BY <1>1 DEF OpenInv
<1> HIDE DEF file
<1> QED
  BY <1>1, <1>3, <1>4, UatMoves, SameArtifacts DEF OpenInv

\* A debug session is added.
LEMMA InvestigatingTyped ==
  ASSUME ArtifactFacts, NEW s,
         debug' = [f \in DOMAIN debug \cup {s} |-> IF f = s THEN "investigating" ELSE debug[f]],
         UNCHANGED <<todos, questions, quick>>
  PROVE  ArtifactFacts'
<1>1. DOMAIN debug' = DOMAIN debug \cup {s}
  OBVIOUS
<1>2. IsFiniteSet(DOMAIN debug')
  BY <1>1, FS_AddElement DEF ArtifactFacts
<1> QED
  BY <1>1, <1>2 DEF ArtifactFacts

LEMMA DiagnoseIssuesStep ==
  ASSUME OpenInv, NEW p \in AuditPhases, DiagnoseIssues(p)
  PROVE  OpenInv'
<1> DEFINE file == [uat[p] EXCEPT !.status = "diagnosed"]
<1>1. /\ uat' = [uat EXCEPT ![p].status = "diagnosed"] /\ uat[p].current = Done
      /\ uat[p] \in UatFiles /\ UNCHANGED report /\ UNCHANGED <<todos, questions, quick>>
  BY DEF DiagnoseIssues, restVars, OpenInv
<1>2. file \in UatFiles /\ file.status = "diagnosed" /\ file.current = Done
  BY <1>1 DEF UatFiles, UatStatuses
<1>3. uat' = [uat EXCEPT ![p] = file]
  BY <1>1 DEF OpenInv
<1>4. ArtifactFacts'
  BY <1>1, InvestigatingTyped DEF DiagnoseIssues, OpenInv
<1> HIDE DEF file
<1> QED
  BY <1>1, <1>2, <1>3, <1>4, UatMoves

LEMMA CloseParentArtifactsStep ==
  ASSUME OpenInv, NEW p \in AuditPhases, CloseParentArtifacts(p)
  PROVE  OpenInv'
<1> DEFINE file == [uat[p] EXCEPT !.status = "resolved", !.gaps = {}]
<1>1. /\ uat' = [uat EXCEPT ![p].status = "resolved", ![p].gaps = {}] /\ uat[p].status = "diagnosed"
      /\ uat[p] # NoUat
      /\ uat[p] \in UatFiles /\ UNCHANGED report /\ UNCHANGED <<todos, questions, quick>>
  BY DEF CloseParentArtifacts, restVars, OpenInv
<1>2. uat[p].current = Done
  BY <1>1 DEF OpenInv, SessionEnds
<1>3. file \in UatFiles /\ file.status = "resolved" /\ file.current = Done /\ file.gaps = {}
  BY <1>1, <1>2 DEF UatFiles, UatStatuses
<1>4. uat' = [uat EXCEPT ![p] = file]
  BY <1>1 DEF OpenInv
<1>5. ArtifactFacts'
  <2>1. PICK gone \in SUBSET (DOMAIN debug \ {KnowledgeBase}) :
          debug' = [f \in DOMAIN debug \ gone |-> debug[f]]
    BY DEF CloseParentArtifacts
  <2>2. DOMAIN debug' = DOMAIN debug \ gone /\ \A f \in DOMAIN debug' : debug'[f] = debug[f]
    BY <2>1
  <2>3. IsFiniteSet(DOMAIN debug')
    BY <2>2, FS_Subset DEF OpenInv, ArtifactFacts
  <2> QED BY <1>1, <2>2, <2>3 DEF OpenInv, ArtifactFacts
<1> HIDE DEF file
<1> QED
  BY <1>1, <1>3, <1>4, <1>5, UatMoves

LEMMA ReportStep ==
  ASSUME OpenInv, NEW p \in AuditPhases, Verify(p) \/ RowPasses(p)
  PROVE  OpenInv'
<1>1. UNCHANGED uat /\ UNCHANGED <<todos, questions, debug, quick>>
  BY DEF Verify, RowPasses, restVars
<1>2. report' \in [AuditPhases -> Reports]
  <2>1. CASE Verify(p)
    <3>1. PICK s \in ReportStatuses \ {"absent"} :
            report' = [report EXCEPT ![p] = [status |-> s, rows |-> IF s = "human_needed" THEN Tests ELSE {}]]
      BY <2>1 DEF Verify
    <3>2. [status |-> s, rows |-> IF s = "human_needed" THEN Tests ELSE {}] \in Reports
      BY DEF Reports
    <3> QED BY <3>1, <3>2 DEF OpenInv
  <2>2. CASE RowPasses(p)
    <3>1. PICK t : report' = [report EXCEPT ![p].rows = @ \ {t}]
      BY <2>2 DEF RowPasses
    <3> QED BY <3>1 DEF OpenInv, Reports
  <2> QED BY <2>1, <2>2
<1> QED
  BY <1>1, <1>2, SameUat, SameArtifacts DEF OpenInv

LEMMA DebugStep == ASSUME OpenInv, Debug PROVE ArtifactFacts'
<1>1. PICK s \in Slugs :
       \/ /\ s \notin DOMAIN debug
          /\ debug' = [f \in DOMAIN debug \cup {s} |-> IF f = s THEN "investigating" ELSE debug[f]]
       \/ /\ s \in DOMAIN debug /\ debug[s] = "investigating"
          /\ debug' = [debug EXCEPT ![s] = "awaiting_human_verify"]
       \/ /\ s \in DOMAIN debug /\ debug[s] = "awaiting_human_verify"
          /\ debug' = [debug EXCEPT ![s] = "resolved"]
       \/ /\ s \in DOMAIN debug /\ debug[s] = "resolved"
          /\ debug' = [f \in (DOMAIN debug \ {s}) \cup {KnowledgeBase} |->
                         IF f = KnowledgeBase THEN "unknown" ELSE debug[f]]
  BY DEF Debug
<1>2. UNCHANGED <<todos, questions, quick>>
  BY DEF Debug
<1>3. CASE debug' = [f \in DOMAIN debug \cup {s} |-> IF f = s THEN "investigating" ELSE debug[f]]
  BY <1>2, <1>3, InvestigatingTyped DEF OpenInv
<1>4. ASSUME NEW status \in {"awaiting_human_verify", "resolved"}, debug' = [debug EXCEPT ![s] = status]
      PROVE  ArtifactFacts'
  BY <1>2, <1>4 DEF OpenInv, ArtifactFacts
<1>5. CASE debug' = [f \in (DOMAIN debug \ {s}) \cup {KnowledgeBase} |->
                       IF f = KnowledgeBase THEN "unknown" ELSE debug[f]]
  <2>1. DOMAIN debug' = (DOMAIN debug \ {s}) \cup {KnowledgeBase}
    BY <1>5
  <2>2. IsFiniteSet(DOMAIN debug')
    <3>1. IsFiniteSet(DOMAIN debug \ {s})
      BY FS_RemoveElement DEF OpenInv, ArtifactFacts
    <3> QED BY <2>1, <3>1, FS_AddElement
  <2>3. \A f \in DOMAIN debug' : debug'[f] # "complete"
    BY <1>5, <2>1 DEF OpenInv, ArtifactFacts
  <2> QED BY <1>2, <2>2, <2>3 DEF OpenInv, ArtifactFacts
<1> QED
  BY <1>1, <1>3, <1>4, <1>5

LEMMA QuickStep == ASSUME OpenInv, Quick PROVE ArtifactFacts'
<1>1. PICK s \in Slugs, status \in {"unknown", "complete"} :
        quick' = IF s \in DOMAIN quick THEN [quick EXCEPT ![s] = status]
                 ELSE [d \in DOMAIN quick \cup {s} |-> IF d = s THEN "missing" ELSE quick[d]]
  BY DEF Quick
<1>2. DOMAIN quick' = DOMAIN quick \cup {s}
  BY <1>1
<1>3. IsFiniteSet(DOMAIN quick')
  BY <1>2, FS_AddElement DEF OpenInv, ArtifactFacts
<1> QED
  BY <1>3 DEF Quick, OpenInv, ArtifactFacts

LEMMA OpenStepInv == OpenInv /\ [OpenNext]_openVars => OpenInv'
<1> SUFFICES ASSUME OpenInv, [OpenNext]_openVars PROVE OpenInv'
  OBVIOUS
<1>1. CASE UNCHANGED openVars
  BY <1>1, SameUat, SameArtifacts DEF openVars, OpenInv
<1>2. ASSUME NEW p \in AuditPhases,
             \/ CreateUatFile(p) \/ CompleteSession(p) \/ ResumeFromFile(p) \/ DiagnoseIssues(p)
             \/ CloseParentArtifacts(p) \/ Verify(p) \/ PersistHumanItems(p) \/ RowPasses(p)
             \/ \E answer \in Answers : ProcessResponse(p, answer)
      PROVE  OpenInv'
  BY <1>2, CreateUatFileStep, CompleteSessionStep, ResumeFromFileStep, DiagnoseIssuesStep,
     CloseParentArtifactsStep, ReportStep, ProcessResponseStep
<1>3. CASE Debug
  <2>1. UNCHANGED <<uat, report>>
    BY <1>3 DEF Debug
  <2> QED BY <1>3, <2>1, DebugStep, SameUat DEF OpenInv
<1>4. CASE Quick
  <2>1. UNCHANGED <<uat, report>>
    BY <1>4 DEF Quick
  <2> QED BY <1>4, <2>1, QuickStep, SameUat DEF OpenInv
<1>5. CASE Thread \/ Seed \/ Unreadable
  <2>1. UNCHANGED <<uat, report>> /\ UNCHANGED <<todos, questions, debug, quick>>
    BY <1>5 DEF Thread, Seed, Unreadable
  <2> QED BY <2>1, SameUat, SameArtifacts DEF OpenInv
<1>6. CASE TodoOrQuestion
  <2>1. UNCHANGED <<uat, report, debug, quick>>
    BY <1>6 DEF TodoOrQuestion
  <2>2. todos' \in Nat /\ questions' \subseteq AuditPhases
    BY <1>6, OpenAssumption DEF TodoOrQuestion, OpenInv, ArtifactFacts
  <2> QED BY <2>1, <2>2, SameUat DEF OpenInv, ArtifactFacts
<1> QED
  BY <1>1, <1>2, <1>3, <1>4, <1>5, <1>6 DEF OpenNext

\* What is unfinished or failed is shown.
LEMMA TestsAreShown ==
  ASSUME OpenInv, NEW p \in AuditPhases, NEW t \in Tests
  PROVE  /\ t \in Unfinished(p) =>
              \/ ~Readable("phases") \/ ~FileReadable("uat", p) \/ p \in ScanUatGaps
              \/ uat[p].status = "resolved" /\ (p \in milestone => AuditUatFails \/
                   \E item \in AuditUat : item.phase = p /\ item.test = t /\ item.category # "unknown")
         /\ uat[p] # NoUat /\ t \in uat[p].gaps =>
              \/ ~Readable("phases") \/ ~FileReadable("uat", p) \/ p \in ScanUatGaps
              \/ uat[p].status = "complete"
<1>1. ASSUME t \in Unfinished(p), Readable("phases"), FileReadable("uat", p), p \notin ScanUatGaps
      PROVE  uat[p].status = "resolved" /\ (p \in milestone => AuditUatFails \/
               \E item \in AuditUat : item.phase = p /\ item.test = t /\ item.category # "unknown")
  <2>1. uat[p] # NoUat /\ uat[p].results[t] \in {"pending", "blocked", "skipped"}
    BY <1>1 DEF Unfinished
  <2>2. uat[p].status \in {"complete", "resolved"}
    BY <1>1, <2>1 DEF ScanUatGaps, TerminalUatStatuses
  <2>3. uat[p].status = "resolved"
    BY <1>1, <2>1, <2>2 DEF OpenInv, SessionEnds
  <2>4. ASSUME p \in milestone, ~AuditUatFails
        PROVE  \E item \in AuditUat : item.phase = p /\ item.test = t /\ item.category # "unknown"
    <3> DEFINE item == [phase |-> p, test |-> t, category |-> CategorizeItem(uat[p].results[t])]
    <3>1. t \in ParseUatItems(p)
      BY <2>1 DEF ParseUatItems, Answers
    <3>2. item \in {[phase |-> p, test |-> u, category |-> CategorizeItem(uat[p].results[u])] :
                      u \in ParseUatItems(p)}
      BY <3>1
    <3>3. item \in AuditUat
      BY <2>4, <3>2 DEF AuditUat
    <3>4. item.category # "unknown"
      BY <2>1 DEF CategorizeItem
    <3> QED BY <3>3, <3>4
  <2> QED BY <2>3, <2>4
<1>2. ASSUME uat[p] # NoUat, t \in uat[p].gaps, Readable("phases"), FileReadable("uat", p),
             p \notin ScanUatGaps
      PROVE  uat[p].status = "complete"
  BY <1>2 DEF ScanUatGaps, TerminalUatStatuses, OpenInv, SessionEnds
<1> QED
  BY <1>1, <1>2

\* A finite set of which none are counted is empty.
LEMMA NoneCounted == ASSUME NEW S, IsFiniteSet(S), ~ (Cardinality(S) > 0) PROVE S = {}
  BY FS_CardinalityType, FS_EmptySet

\* Some todos are counted if there are any.
LEMMA TodosCounted ==
  ASSUME todos \in Nat, Readable("todos"), unreadableFiles["todos"] = {}, ~ (ScanTodos > 0)
  PROVE  todos = 0
<1> DEFINE shown == {n \in 1 .. todos : n <= ShownTodos /\ FileReadable("todos", n)}
<1>1. ScanTodos = Cardinality(shown)
  BY DEF ScanTodos
<1>2. IsFiniteSet(shown)
  <2>1. IsFiniteSet(1 .. todos)
    <3>1. 1 \in Int /\ todos \in Int
      OBVIOUS
    <3> HIDE DEF shown
    <3>2. QED
      BY <3>1, FS_Interval
  <2>2. shown \subseteq 1 .. todos
    OBVIOUS
  <2>3. QED
    BY <2>1, <2>2, FS_Subset
<1>3. shown = {}
  BY <1>1, <1>2, NoneCounted
<1>4. todos # 0 => 1 \in shown
  BY OpenAssumption DEF FileReadable
<1> QED
  BY <1>3, <1>4

LEMMA ClearIsSettled ==
  ASSUME OpenInv, unreadable = {}, \A kind \in DOMAIN FilesOf : unreadableFiles[kind] = {},
         FormatAuditReport = {"all clear"}
  PROVE  /\ todos = 0 /\ questions = {}
         /\ \A f \in DOMAIN debug : debug[f] = "resolved"
         /\ \A d \in DOMAIN quick : quick[d] = "complete"
         /\ \A p \in AuditPhases : NextCommand(p) # "plan-phase --gaps"
<1>1. DOMAIN Counts = {"debug", "quick", "threads", "todos", "seeds", "uat", "verification", "questions"}
  BY DEF Counts
<1>2. ~ HasOpenItems
  <2> SUFFICES ASSUME HasOpenItems PROVE FALSE
    OBVIOUS
  <2>1. {kind \in DOMAIN Counts : Counts[kind] > 0} = {"all clear"}
    BY DEF FormatAuditReport
  <2> QED BY <1>1, <2>1
<1>3. /\ ~ (Counts["debug"] > 0) /\ ~ (Counts["quick"] > 0) /\ ~ (Counts["todos"] > 0)
      /\ ~ (Counts["verification"] > 0) /\ ~ (Counts["questions"] > 0)
  BY <1>1, <1>2 DEF HasOpenItems
<1>4. /\ ~ (Cardinality(ScanDebugSessions) > 0) /\ ~ (Cardinality(ScanQuickTasks) > 0)
      /\ ~ (ScanTodos > 0) /\ ~ (Cardinality(ScanVerificationGaps) > 0)
      /\ ~ (Cardinality(ScanContextQuestions) > 0)
  BY <1>3 DEF Counts
<1>5. /\ IsFiniteSet(ScanDebugSessions) /\ IsFiniteSet(ScanQuickTasks)
      /\ IsFiniteSet(ScanVerificationGaps) /\ IsFiniteSet(ScanContextQuestions)
  <2>1. ScanDebugSessions \subseteq DOMAIN debug /\ ScanQuickTasks \subseteq DOMAIN quick
        /\ ScanVerificationGaps \subseteq AuditPhases /\ ScanContextQuestions \subseteq AuditPhases
    BY DEF ScanDebugSessions, ScanQuickTasks, ScanVerificationGaps, ScanContextQuestions,
           OpenInv, ArtifactFacts
  <2>2. IsFiniteSet(DOMAIN debug) /\ IsFiniteSet(DOMAIN quick) /\ IsFiniteSet(AuditPhases)
    BY OpenAssumption DEF OpenInv, ArtifactFacts
  <2> QED BY <2>1, <2>2, FS_Subset
<1>6. /\ ScanDebugSessions = {} /\ ScanQuickTasks = {}
      /\ ScanVerificationGaps = {} /\ ScanContextQuestions = {}
  BY <1>4, <1>5, NoneCounted
<1>7. /\ \A kind : Readable(kind)
      /\ \A kind \in {"debug", "todos", "report", "questions"} :
           unreadableFiles[kind] = {} /\ \A name : FileReadable(kind, name)
  BY DEF Readable, FileReadable, FilesOf
<1>8. todos = 0
  <2>1. todos \in Nat
    BY DEF OpenInv, ArtifactFacts
  <2>2. ~ (ScanTodos > 0)
    BY <1>4
  <2> QED BY <1>7, <2>1, <2>2, TodosCounted
<1>9. questions = {}
  BY <1>6, <1>7 DEF ScanContextQuestions
<1>10. \A f \in DOMAIN debug : debug[f] = "resolved"
  BY <1>6, <1>7 DEF ScanDebugSessions, OpenInv, ArtifactFacts
<1>11. \A d \in DOMAIN quick : quick[d] = "complete"
  BY <1>6, <1>7 DEF ScanQuickTasks
<1>12. \A p \in AuditPhases : NextCommand(p) # "plan-phase --gaps"
  <2> SUFFICES ASSUME NEW p \in AuditPhases PROVE NextCommand(p) # "plan-phase --gaps"
    OBVIOUS
  <2>1. report[p].status # "gaps_found"
    BY <1>6, <1>7 DEF ScanVerificationGaps
  <2>2. ReadVerificationStatus(p) # "gaps_found"
    BY <2>1 DEF ReadVerificationStatus, OpenInv
  <2> QED BY <2>2 DEF NextCommand
<1> QED
  BY <1>8, <1>9, <1>10, <1>11, <1>12

\* For every set of phases, tests and files, and every order of the agents' steps: what is
\* open is shown by audit-open or audit-uat, and a clear report means settled artifacts.
THEOREM OpenItemsAreShown == OpenSpec => []NothingIsHidden
<1>1. OpenInv => NothingIsHidden
  BY TestsAreShown, ClearIsSettled DEF NothingIsHidden
<1> QED
  BY <1>1, OpenStarts, OpenStepInv, PTL DEF OpenSpec

\* What OpenInv does not say of the types: the counts and the names of the debug sessions.
OpenCounts ==
  /\ milestone \subseteq AuditPhases /\ todos \in 0 .. ShownTodos + 1
  /\ unreadable \subseteq ArtifactDirs /\ DOMAIN debug \subseteq Slugs \cup {KnowledgeBase}
  /\ unreadableFiles \in [DOMAIN FilesOf -> SUBSET UNION {FilesOf[kind] : kind \in DOMAIN FilesOf}]
  /\ \A kind \in DOMAIN FilesOf : unreadableFiles[kind] \subseteq FilesOf[kind]
  /\ openSteps \in 0 .. MaxOpenSteps

LEMMA OpenCountsStep == OpenCounts /\ [OpenNext]_openVars => OpenCounts'
<1> SUFFICES ASSUME OpenCounts, [OpenNext]_openVars PROVE OpenCounts'
  OBVIOUS
<1>1. OpenStep => openSteps' \in 0 .. MaxOpenSteps
  BY OpenAssumption DEF OpenStep, OpenCounts
<1>2. ASSUME OpenStep, UNCHANGED <<milestone, todos, unreadable, unreadableFiles>>,
             DOMAIN debug' \subseteq Slugs \cup {KnowledgeBase}
      PROVE  OpenCounts'
  BY <1>1, <1>2 DEF OpenCounts
<1>3. DOMAIN debug \subseteq Slugs \cup {KnowledgeBase}
  BY DEF OpenCounts
<1>4. CASE UNCHANGED openVars
  BY <1>4 DEF openVars, OpenCounts
<1>5. ASSUME NEW p \in AuditPhases,
             \/ CreateUatFile(p) \/ CompleteSession(p) \/ ResumeFromFile(p)
             \/ Verify(p) \/ PersistHumanItems(p) \/ RowPasses(p)
             \/ \E answer \in Answers : ProcessResponse(p, answer)
      PROVE  OpenCounts'
  <2>1. OpenStep /\ UNCHANGED restVars
    BY <1>5 DEF CreateUatFile, CompleteSession, ResumeFromFile, Verify, PersistHumanItems,
                RowPasses, ProcessResponse, restVars
  <2>2. QED
    BY <1>2, <1>3, <2>1 DEF restVars
<1>6. ASSUME NEW p \in AuditPhases, DiagnoseIssues(p) PROVE OpenCounts'
  BY <1>2, <1>3, <1>6 DEF DiagnoseIssues
<1>7. ASSUME NEW p \in AuditPhases, CloseParentArtifacts(p) PROVE OpenCounts'
  <2>1. DOMAIN debug' \subseteq DOMAIN debug
    BY <1>7 DEF CloseParentArtifacts
  <2>2. QED
    BY <1>2, <1>3, <1>7, <2>1 DEF CloseParentArtifacts
<1>8. CASE Debug
  <2>1. OpenStep /\ UNCHANGED <<milestone, todos, unreadable, unreadableFiles>>
    BY <1>8 DEF Debug
  <2>2. PICK s \in Slugs :
          \/ debug' = [f \in DOMAIN debug \cup {s} |-> IF f = s THEN "investigating" ELSE debug[f]]
          \/ debug' = [debug EXCEPT ![s] = "awaiting_human_verify"]
          \/ debug' = [debug EXCEPT ![s] = "resolved"]
          \/ debug' = [f \in (DOMAIN debug \ {s}) \cup {KnowledgeBase} |->
                         IF f = KnowledgeBase THEN "unknown" ELSE debug[f]]
    BY <1>8 DEF Debug
  <2>3. DOMAIN debug' \subseteq DOMAIN debug \cup {s, KnowledgeBase}
    BY <2>2
  <2>4. QED
    BY <1>2, <1>3, <2>1, <2>3
<1>9. CASE Quick \/ Thread \/ Seed
  BY <1>2, <1>3, <1>9 DEF Quick, Thread, Seed
<1>10. CASE TodoOrQuestion
  BY <1>1, <1>10 DEF TodoOrQuestion, OpenCounts
<1>11. CASE Unreadable
  <2>1. CASE UNCHANGED unreadableFiles
    BY <1>1, <1>11, <2>1 DEF Unreadable, OpenCounts
  <2>2. ASSUME NEW kind \in DOMAIN FilesOf, NEW name \in FilesOf[kind],
               unreadableFiles' = [unreadableFiles EXCEPT ![kind] = @ \cup {name}], UNCHANGED unreadable
        PROVE  OpenCounts'
    <3>1. \A k \in DOMAIN FilesOf : unreadableFiles'[k] = unreadableFiles[k] \cup (IF k = kind THEN {name} ELSE {})
      BY <2>2 DEF OpenCounts
    <3>2. \A k \in DOMAIN FilesOf : unreadableFiles'[k] \subseteq FilesOf[k]
      BY <3>1 DEF OpenCounts
    <3>3. unreadableFiles' \in [DOMAIN FilesOf -> SUBSET UNION {FilesOf[k] : k \in DOMAIN FilesOf}]
      BY <2>2 DEF OpenCounts
    <3>4. QED
      BY <1>1, <1>11, <2>2, <3>2, <3>3 DEF Unreadable, OpenCounts
  <2>3. QED
    BY <1>11, <2>1, <2>2 DEF Unreadable
<1>12. QED
  BY <1>4, <1>5, <1>6, <1>7, <1>8, <1>9, <1>10, <1>11 DEF OpenNext

\* The artifacts have the fields and the statuses their templates give them.
THEOREM OpenTyped == OpenSpec => []OpenTypeOK
<1>1. OpenInit => OpenCounts
  BY OpenAssumption DEF OpenInit, OpenCounts
<1>2. OpenInv /\ OpenCounts => OpenTypeOK
  <2> SUFFICES ASSUME OpenInv, OpenCounts PROVE OpenTypeOK
    OBVIOUS
  <2>1. \A p \in AuditPhases : uat[p] = NoUat \/
       /\ uat[p].status \in UatStatuses /\ uat[p].current \in Tests \cup {Done}
       /\ uat[p].results \in [Tests -> Answers \cup {"pending"}] /\ uat[p].gaps \subseteq Tests
    BY DEF OpenInv, UatFiles
  <2>2. \A p \in AuditPhases : report[p].status \in ReportStatuses /\ report[p].rows \subseteq Tests
    BY DEF OpenInv, Reports
  <2>3. QED
    BY <2>1, <2>2 DEF OpenInv, OpenCounts, ArtifactFacts, OpenTypeOK
<1>3. QED
  BY <1>1, <1>2, OpenStarts, OpenStepInv, OpenCountsStep, PTL DEF OpenSpec

----------------------------------------------------------------------------
(* Context monitor.                                                        *)

\* The hooks under way, those that have read the sentinel, and of them those that warn.
Flight == {u \in Uses : use[u] # Waiting}
Acting(u) == use[u].pc \in {"open", "write", "end"}
Warner(u) == Acting(u) /\ use[u].warns

CountRecords == [is : {"sentinel"}, calls : 0 .. Debounce - 1, last : {"warning", "critical"},
                 recorded : BOOLEAN]
HookStates ==
  {Waiting} \cup [pc : {"metrics"}, level : {"warning", "critical"}]
    \cup [pc : {"open", "write", "end"}, warns : BOOLEAN, level : {"warning", "critical"},
          data : CountRecords]

\* A hook that warns starts the count anew, one that keeps silent has counted itself.
HooksTyped ==
  /\ context \in Levels /\ (bridge.is = "metrics" => bridge.level \in Levels)
  /\ use \in [Uses -> HookStates] /\ IsFiniteSet(Flight)
  /\ sentinel \in {Absent, Torn} \cup CountRecords
  /\ silent \in Nat /\ beside \in Nat /\ records \in 0 .. 2 /\ killings \in Nat
  /\ \A u \in Uses : Acting(u) =>
       /\ use[u].warns => use[u].data.calls = 0
       /\ ~ use[u].warns => use[u].data.calls # 0

\* What the file lets hooks count on; the silent uses that overlaps and kills account for.
CountOf == IF sentinel.is = "sentinel" THEN sentinel.calls ELSE Debounce - 1
Credit == Debounce * (beside + killings)
ZeroCounted == sentinel.is = "sentinel" /\ sentinel.calls = 0
Room(u) == IF use[u].pc = "metrics" THEN CountOf
           ELSE IF use[u].warns THEN Debounce - 1 ELSE use[u].data.calls - 1

\* A hook that has run alone so far.
SingleHook(u) ==
  /\ Flight = {u} /\ silent <= Credit + Room(u)
  /\ use[u].pc = "end" /\ ~ use[u].warns => sentinel = use[u].data

\* Without hooks the count in the file and the credit cover the silent uses. Of hooks that
\* overlap each one's silence is covered, too; the last of them may need the count that it
\* leaves, which is zero only while a hook that will warn is under way.
Covered ==
  \/ Flight = {} /\ silent <= Credit + CountOf
  \/ Flight # {} /\ silent + Cardinality(Flight) <= Credit
  \/ /\ Flight # {} /\ silent + Cardinality(Flight) <= Credit + 1
     /\ ZeroCounted => \E u \in Uses : Warner(u)
  \/ \E u \in Uses : SingleHook(u)
SilentFacts ==
  /\ Debounce = 1 => silent = 0 /\ \A u \in Uses : Acting(u) => use[u].warns
  /\ Debounce # 1 => Covered

\* Whoever knows of the critical level has told the agent, or is about to; what is marked
\* as recorded is recorded.
CriticalKnown ==
  \/ seen
  \/ sentinel.is = "sentinel" /\ sentinel.last = "critical"
  \/ \E u \in Uses : /\ Acting(u)
                     /\ use[u].data.last = "critical" \/ (~ use[u].warns /\ use[u].level = "critical")
ToldFacts ==
  /\ CriticalKnown => told \/ AboutToTell \/ killings > 0
  /\ sentinel.is = "sentinel" /\ sentinel.recorded => records > 0
  /\ \A u \in Uses : Acting(u) =>
       /\ use[u].data.recorded => records > 0
       /\ use[u].pc = "end" /\ use[u].warns /\ use[u].level = "critical" /\ tracked => records > 0
  /\ told /\ tracked => records > 0

\* Hooks that run one by one see that the session is recorded.
RecordSeen == sentinel.is = "sentinel" /\ sentinel.recorded
OnceFacts ==
  ~ everBeside /\ killings = 0 =>
    /\ records <= 1
    /\ \A u, v \in Flight : u = v
    /\ records > 0 =>
         /\ Flight = {} \/ (\E u \in Uses : use[u].pc = "metrics") => RecordSeen
         /\ \A u \in Uses : Acting(u) =>
              use[u].data.recorded /\ (use[u].pc = "end" => sentinel = use[u].data)

MonInv == HooksTyped /\ SilentFacts /\ ToldFacts /\ OnceFacts

LEMMA MonitorStarts == MonitorInit => MonInv
<1> SUFFICES ASSUME MonitorInit PROVE MonInv
  OBVIOUS
<1>1. /\ \A u \in Uses : use[u] = Waiting /\ ~ Acting(u)
      /\ sentinel = Absent /\ sentinel.is # "sentinel"
  BY DEF MonitorInit, Waiting, Absent, Acting
<1>2. Flight = {}
  BY <1>1 DEF Flight
<1>3. HooksTyped
  BY <1>1, <1>2, FS_EmptySet DEF HooksTyped, MonitorInit, HookStates, Levels, Absent
<1>4. SilentFacts
  BY <1>1, <1>2, MonitorAssumption DEF SilentFacts, MonitorInit, Covered, Credit, CountOf, MonitorAssumption
<1>5. ToldFacts /\ OnceFacts
  BY <1>1, <1>2 DEF ToldFacts, OnceFacts, CriticalKnown, MonitorInit
<1> QED
  BY <1>3, <1>4, <1>5 DEF MonInv

\* The shapes of a hook.
LEMMA HookShapes ==
  ASSUME HooksTyped, NEW u \in Uses
  PROVE  /\ u \in Flight <=> use[u] # Waiting
         /\ use[u].pc \in {"waiting", "metrics", "open", "write", "end"}
         /\ u \in Flight <=> use[u].pc # "waiting"
         /\ Acting(u) => u \in Flight /\ use[u].warns \in BOOLEAN /\ use[u].level \in {"warning", "critical"}
                         /\ use[u].data \in CountRecords
         /\ u \in Flight => use[u].level \in {"warning", "critical"}
BY DEF HooksTyped, HookStates, Flight, Acting, Waiting

\* One hook joins, changes or leaves; the others are as they were.
LEMMA HookChanges ==
  ASSUME HooksTyped, NEW u \in Uses, NEW h \in HookStates, use' = [use EXCEPT ![u] = h]
  PROVE  /\ use' \in [Uses -> HookStates] /\ use'[u] = h
         /\ \A v \in Uses \ {u} : use'[v] = use[v]
         /\ Flight' = IF h = Waiting THEN Flight \ {u} ELSE Flight \cup {u}
         /\ IsFiniteSet(Flight')
         /\ \A v \in Uses \ {u} : Acting(v)' = Acting(v)
<1>1. /\ use' \in [Uses -> HookStates] /\ use'[u] = h
      /\ \A v \in Uses \ {u} : use'[v] = use[v]
  BY DEF HooksTyped
<1>2. Flight' = IF h = Waiting THEN Flight \ {u} ELSE Flight \cup {u}
  BY <1>1 DEF Flight
<1>3. IsFiniteSet(Flight')
  BY <1>2, FS_AddElement, FS_RemoveElement DEF HooksTyped
<1> QED
  BY <1>1, <1>2, <1>3 DEF Acting

\* How many hooks are under way.
LEMMA FlightCounts ==
  ASSUME HooksTyped, NEW u \in Uses
  PROVE  /\ Cardinality(Flight) \in Nat /\ Others(u) = Flight \ {u}
         /\ u \in Flight => Cardinality(Others(u)) = Cardinality(Flight) - 1
         /\ u \notin Flight => Cardinality(Flight \cup {u}) = Cardinality(Flight) + 1
         /\ Flight = {} <=> Cardinality(Flight) = 0
<1>1. Others(u) = Flight \ {u}
  BY DEF Others, Flight
<1> QED
  BY <1>1, FS_CardinalityType, FS_AddElement, FS_RemoveElement, FS_EmptySet DEF HooksTyped

\* An overlap or a kill gives credit for Debounce silent uses.
LEMMA CreditGrows ==
  ASSUME HooksTyped
  PROVE  /\ Credit \in Nat
         /\ beside' = beside /\ killings' = killings => Credit' = Credit
         /\ beside' = beside + 1 /\ killings' = killings => Credit' = Credit + Debounce
         /\ beside' = beside /\ killings' = killings + 1 => Credit' = Credit + Debounce
<1>1. Debounce \in Nat /\ beside \in Nat /\ killings \in Nat
  BY MonitorAssumption DEF HooksTyped, MonitorAssumption
<1>2. \A d, n \in Nat : d * n \in Nat /\ d * (n + 1) = d * n + d
  OBVIOUS
<1>3. Credit \in Nat /\ Debounce * ((beside + killings) + 1) = Credit + Debounce
  BY <1>1, <1>2 DEF Credit
<1>4. beside + 1 + killings = (beside + killings) + 1 /\ beside + (killings + 1) = (beside + killings) + 1
  BY <1>1
<1> QED
  BY <1>3, <1>4 DEF Credit

LEMMA CreditCovers ==
  ASSUME NEW n \in Nat, beside' = n, killings' \in Nat
  PROVE  n <= Credit' /\ Credit' \in Nat
<1>1. Debounce \in Nat /\ Debounce >= 1
  BY MonitorAssumption DEF MonitorAssumption
<1>2. \A d, m \in Nat : d >= 1 => m <= d * m /\ d * m \in Nat
  <2> SUFFICES ASSUME NEW d \in Nat, NEW m \in Nat, d >= 1 PROVE m <= d * m /\ d * m \in Nat
    OBVIOUS
  <2>1. PICK e \in Nat : d = e + 1
    OBVIOUS
  <2>2. \A x, y \in Nat : x * y \in Nat /\ (x + 1) * y = x * y + y
    OBVIOUS
  <2>3. e * m \in Nat /\ d * m = e * m + m
    BY <2>1, <2>2
  <2> QED BY <2>3
<1>3. n + killings' \in Nat /\ n <= n + killings'
  <2>1. \A x, y \in Nat : x + y \in Nat /\ x <= x + y
    OBVIOUS
  <2> QED BY <2>1
<1>4. PICK m \in Nat : m = n + killings'
  BY <1>3
<1>5. m <= Debounce * m /\ Debounce * m \in Nat
  BY <1>1, <1>2
<1> QED
  BY <1>3, <1>4, <1>5 DEF Credit

\* What each operation of a hook does.
LEMMA ReadMetricsDoes ==
  ASSUME MonInv, NEW u \in Uses, ReadMetrics(u)
  PROVE  /\ u \notin Flight /\ Flight' = Flight \cup {u} /\ HooksTyped'
         /\ use'[u].pc = "metrics" /\ \A v \in Uses \ {u} : use'[v] = use[v]
         /\ UNCHANGED <<tracked, sentinel, records, told, seen, silent, killings>>
         /\ IF Flight = {} THEN beside' = beside ELSE beside' = beside + 1
         /\ Flight # {} => everBeside'
         /\ everBeside => everBeside'
<1>1. HooksTyped
  BY DEF MonInv
<1>2. use[u] = Waiting /\ u \notin Flight /\ Others(u) = Flight
  BY <1>1, FlightCounts DEF ReadMetrics, Flight
<1>3. PICK h \in HookStates : h.pc = "metrics" /\ h # Waiting /\ use' = [use EXCEPT ![u] = h]
  <2>1. bridge.level \in {"warning", "critical"}
    BY <1>1 DEF ReadMetrics, HooksTyped, Levels
  <2>2. [pc |-> "metrics", level |-> bridge.level] \in HookStates
    BY <2>1 DEF HookStates
  <2> QED BY <2>2 DEF ReadMetrics, Waiting
<1>4. /\ use' \in [Uses -> HookStates] /\ use'[u] = h /\ \A v \in Uses \ {u} : use'[v] = use[v]
      /\ Flight' = Flight \cup {u} /\ IsFiniteSet(Flight')
      /\ \A v \in Uses \ {u} : Acting(v)' = Acting(v)
  BY <1>1, <1>3, HookChanges
<1>5. beside' = (IF Flight = {} THEN beside ELSE beside + 1) /\ everBeside' = (everBeside \/ Flight # {})
      /\ UNCHANGED <<tracked, context, bridge, sentinel, records, told, seen, silent, killings>>
  BY <1>2 DEF ReadMetrics, bridgeVars
<1>6. ~ Acting(u)'
  BY <1>3, <1>4 DEF Acting
<1>7. HooksTyped'
  BY <1>1, <1>4, <1>5, <1>6 DEF HooksTyped
<1> QED
  BY <1>2, <1>3, <1>4, <1>5, <1>7

LEMMA ReadSentinelDoes ==
  ASSUME MonInv, NEW u \in Uses, ReadSentinel(u)
  PROVE  /\ u \in Flight /\ use[u].pc = "metrics" /\ Flight' = Flight /\ HooksTyped'
         /\ use'[u].pc = "open" /\ \A v \in Uses \ {u} : use'[v] = use[v]
         /\ use'[u].data.recorded = Recorded
         /\ use'[u].data.last = (IF use'[u].warns THEN use'[u].level ELSE LastLevel)
         /\ ~ use'[u].warns => /\ sentinel.is = "sentinel" /\ use'[u].data.calls = sentinel.calls + 1
                               /\ sentinel.calls + 1 < Debounce
                               /\ use'[u].level = "critical" => LastLevel # "warning"
         /\ UNCHANGED <<tracked, sentinel, records, told, seen, silent, beside, everBeside, killings>>
<1>1. HooksTyped /\ u \in Flight /\ use[u].pc = "metrics" /\ use[u].level \in {"warning", "critical"}
  BY HookShapes DEF MonInv, ReadSentinel
<1>2. Debounce \in Nat /\ Debounce >= 1
  BY MonitorAssumption DEF MonitorAssumption
<1>3. UNCHANGED <<tracked, context, bridge, sentinel, records, told, seen, silent, beside, everBeside, killings>>
  BY DEF ReadSentinel, bridgeVars, ghosts
<1>4. CASE StaysSilent(use[u].level)
  <2> DEFINE d == Sentinel(CallCount, LastLevel, Recorded)
             h == [pc |-> "open", warns |-> FALSE, level |-> use[u].level, data |-> d]
  <2>1. sentinel.is = "sentinel" /\ sentinel \in CountRecords /\ CallCount = sentinel.calls + 1 /\ CallCount < Debounce
        /\ LastLevel = sentinel.last
    BY <1>1, <1>4 DEF StaysSilent, HooksTyped, Absent, Torn, CallCount, LastLevel
  <2>2. sentinel.calls \in 0 .. Debounce - 1 /\ CallCount \in 0 .. Debounce - 1 /\ CallCount # 0
    BY <1>2, <2>1 DEF CountRecords
  <2>3. LastLevel \in {"warning", "critical"} /\ Recorded \in BOOLEAN
    BY <1>1, <2>1 DEF HooksTyped, Recorded, CountRecords, Absent, Torn
  <2>4. d \in CountRecords /\ d.calls = CallCount /\ d.last = LastLevel /\ d.recorded = Recorded
    BY <2>2, <2>3 DEF CountRecords, Sentinel
  <2>5. use' = [use EXCEPT ![u] = h]
    BY <1>4 DEF ReadSentinel
  <2> HIDE DEF d
  <2>6. h \in HookStates /\ h # Waiting
    BY <1>1, <2>4 DEF HookStates, Waiting
  <2>7. h.pc = "open" /\ ~ h.warns /\ h.level = use[u].level /\ h.data = d
    OBVIOUS
  <2> HIDE DEF h
  <2>8. /\ use' \in [Uses -> HookStates] /\ use'[u] = h /\ \A v \in Uses \ {u} : use'[v] = use[v]
        /\ Flight' = Flight \cup {u} /\ IsFiniteSet(Flight')
        /\ \A v \in Uses \ {u} : Acting(v)' = Acting(v)
    BY <1>1, <2>5, <2>6, HookChanges
  <2>9. HooksTyped'
    BY <1>1, <1>3, <2>2, <2>4, <2>7, <2>8 DEF HooksTyped
  <2>10. use[u].level = "critical" => LastLevel # "warning"
    BY <1>4 DEF StaysSilent, SeverityEscalated
  <2> QED BY <1>1, <1>3, <2>1, <2>4, <2>7, <2>8, <2>9, <2>10
<1>5. CASE ~ StaysSilent(use[u].level)
  <2> DEFINE d == Sentinel(0, use[u].level, Recorded)
             h == [pc |-> "open", warns |-> TRUE, level |-> use[u].level, data |-> d]
  <2>1. Recorded \in BOOLEAN
    BY <1>1 DEF HooksTyped, Recorded, CountRecords, Absent, Torn
  <2>2. 0 \in 0 .. Debounce - 1
    BY <1>2
  <2>4. d \in CountRecords /\ d.calls = 0 /\ d.last = use[u].level /\ d.recorded = Recorded
    BY <1>1, <2>1, <2>2 DEF CountRecords, Sentinel
  <2>5. use' = [use EXCEPT ![u] = h]
    BY <1>5 DEF ReadSentinel
  <2> HIDE DEF d
  <2>6. h \in HookStates /\ h # Waiting
    BY <1>1, <2>4 DEF HookStates, Waiting
  <2>7. h.pc = "open" /\ h.warns /\ h.level = use[u].level /\ h.data = d
    OBVIOUS
  <2> HIDE DEF h
  <2>8. /\ use' \in [Uses -> HookStates] /\ use'[u] = h /\ \A v \in Uses \ {u} : use'[v] = use[v]
        /\ Flight' = Flight \cup {u} /\ IsFiniteSet(Flight')
        /\ \A v \in Uses \ {u} : Acting(v)' = Acting(v)
    BY <1>1, <2>5, <2>6, HookChanges
  <2>9. HooksTyped'
    BY <1>1, <1>3, <2>4, <2>7, <2>8 DEF HooksTyped
  <2> QED BY <1>1, <1>3, <2>4, <2>7, <2>8, <2>9
<1> QED
  BY <1>4, <1>5

LEMMA OpenSentinelDoes ==
  ASSUME MonInv, NEW u \in Uses, OpenSentinel(u)
  PROVE  /\ u \in Flight /\ use[u].pc = "open" /\ Flight' = Flight /\ HooksTyped'
         /\ use'[u].pc = "write" /\ use'[u].data = use[u].data /\ use'[u].level = use[u].level
         /\ use'[u].warns = use[u].warns /\ \A v \in Uses \ {u} : use'[v] = use[v]
         /\ sentinel'.is = "torn"
         /\ UNCHANGED <<tracked, records, told, seen, silent, beside, everBeside, killings>>
<1>1. /\ HooksTyped /\ u \in Flight /\ use[u].pc = "open" /\ use[u].level \in {"warning", "critical"}
      /\ use[u].warns \in BOOLEAN /\ use[u].data \in CountRecords /\ Acting(u)
  BY HookShapes DEF MonInv, OpenSentinel, Acting
<1>2. UNCHANGED <<tracked, context, bridge, records, told, seen, silent, beside, everBeside, killings>>
      /\ sentinel' = Torn
  BY DEF OpenSentinel, ghosts
<1>3. use[u] \in [pc : {"open", "write", "end"}, warns : BOOLEAN, level : {"warning", "critical"},
                  data : CountRecords]
  BY <1>1 DEF HooksTyped, HookStates, Waiting
<1>4. PICK h : h = [use[u] EXCEPT !.pc = "write"]
  OBVIOUS
<1>5. /\ h \in HookStates /\ h.pc = "write" /\ h.data = use[u].data /\ h.level = use[u].level
      /\ h.warns = use[u].warns /\ h # Waiting
  BY <1>3, <1>4 DEF HookStates, Waiting
<1>6. use' = [use EXCEPT ![u] = h]
  BY <1>4 DEF OpenSentinel
<1>7. /\ use' \in [Uses -> HookStates] /\ use'[u] = h /\ \A v \in Uses \ {u} : use'[v] = use[v]
      /\ Flight' = Flight \cup {u} /\ IsFiniteSet(Flight')
      /\ \A v \in Uses \ {u} : Acting(v)' = Acting(v)
  BY <1>1, <1>5, <1>6, HookChanges
<1>8. HooksTyped'
  BY <1>1, <1>2, <1>5, <1>7 DEF HooksTyped
<1> QED
  BY <1>1, <1>2, <1>5, <1>7, <1>8 DEF Torn

LEMMA WriteSentinelDoes ==
  ASSUME MonInv, NEW u \in Uses, WriteSentinel(u)
  PROVE  /\ u \in Flight /\ use[u].pc = "write" /\ Flight' = Flight /\ HooksTyped'
         /\ sentinel' = use[u].data /\ sentinel'.is = "sentinel" /\ use'[u].level = use[u].level
         /\ use'[u].warns = use[u].warns /\ \A v \in Uses \ {u} : use'[v] = use[v]
         /\ use'[u].data.calls = use[u].data.calls /\ use'[u].data.last = use[u].data.last
         /\ \/ /\ use[u].warns /\ use[u].level = "critical" /\ tracked /\ ~ use[u].data.recorded
               /\ use'[u].pc = "open" /\ use'[u].data.recorded
               /\ records' = IF records < 2 THEN records + 1 ELSE records
            \/ /\ ~ (use[u].warns /\ use[u].level = "critical" /\ tracked /\ ~ use[u].data.recorded)
               /\ use'[u].pc = "end" /\ use'[u].data = use[u].data /\ records' = records
         /\ UNCHANGED <<tracked, told, seen, silent, beside, everBeside, killings>>
<1>1. /\ HooksTyped /\ u \in Flight /\ use[u].pc = "write" /\ use[u].level \in {"warning", "critical"}
      /\ use[u].warns \in BOOLEAN /\ use[u].data \in CountRecords /\ Acting(u)
  BY HookShapes DEF MonInv, WriteSentinel, Acting
<1>2. UNCHANGED <<tracked, context, bridge, told, seen, silent, beside, everBeside, killings>>
      /\ sentinel' = use[u].data
  BY DEF WriteSentinel
<1>3. use[u] \in [pc : {"open", "write", "end"}, warns : BOOLEAN, level : {"warning", "critical"},
                  data : CountRecords]
  BY <1>1 DEF HooksTyped, HookStates, Waiting
<1>4. sentinel' \in CountRecords /\ sentinel'.is = "sentinel"
  BY <1>1, <1>2 DEF CountRecords
<1>5. CASE use[u].warns /\ use[u].level = "critical" /\ tracked /\ ~ use[u].data.recorded
  <2>1. PICK h : h = [use[u] EXCEPT !.pc = "open", !.data.recorded = TRUE]
    OBVIOUS
  <2>2. h.data = [use[u].data EXCEPT !.recorded = TRUE] /\ h.pc = "open"
        /\ h.level = use[u].level /\ h.warns = use[u].warns
    BY <1>3, <2>1
  <2>3. h.data \in CountRecords /\ h.data.recorded /\ h.data.calls = use[u].data.calls /\ h.data.last = use[u].data.last
    BY <1>1, <2>2 DEF CountRecords
  <2>4. h \in HookStates /\ h # Waiting
    BY <1>3, <2>1, <2>3, <2>2 DEF HookStates, Waiting
  <2>5. use' = [use EXCEPT ![u] = h] /\ records' = (IF records < 2 THEN records + 1 ELSE records)
    BY <1>5, <2>1 DEF WriteSentinel
  <2>6. /\ use' \in [Uses -> HookStates] /\ use'[u] = h /\ \A v \in Uses \ {u} : use'[v] = use[v]
        /\ Flight' = Flight \cup {u} /\ IsFiniteSet(Flight')
        /\ \A v \in Uses \ {u} : Acting(v)' = Acting(v)
    BY <1>1, <2>4, <2>5, HookChanges
  <2>7. records' \in 0 .. 2
    BY <1>1, <2>5 DEF HooksTyped
  <2>9. use'[u].warns /\ use'[u].data.calls = 0
    BY <1>1, <1>5, <2>2, <2>3, <2>6 DEF HooksTyped
  <2>10. \A v \in Uses : Acting(v)' =>
           /\ use'[v].warns => use'[v].data.calls = 0
           /\ ~ use'[v].warns => use'[v].data.calls # 0
    BY <1>1, <2>6, <2>9 DEF HooksTyped
  <2>8. HooksTyped'
    BY <1>1, <1>2, <1>4, <2>6, <2>7, <2>10 DEF HooksTyped
  <2> QED BY <1>1, <1>2, <1>4, <1>5, <2>2, <2>3, <2>5, <2>6, <2>8
<1>6. CASE ~ (use[u].warns /\ use[u].level = "critical" /\ tracked /\ ~ use[u].data.recorded)
  <2>1. PICK h : h = [use[u] EXCEPT !.pc = "end"]
    OBVIOUS
  <2>2. h.data = use[u].data /\ h.pc = "end" /\ h.level = use[u].level /\ h.warns = use[u].warns
    BY <1>3, <2>1
  <2>4. h \in HookStates /\ h # Waiting
    BY <1>3, <2>1, <2>2 DEF HookStates, Waiting
  <2>5. use' = [use EXCEPT ![u] = h] /\ records' = records
    BY <1>6, <2>1 DEF WriteSentinel
  <2>6. /\ use' \in [Uses -> HookStates] /\ use'[u] = h /\ \A v \in Uses \ {u} : use'[v] = use[v]
        /\ Flight' = Flight \cup {u} /\ IsFiniteSet(Flight')
        /\ \A v \in Uses \ {u} : Acting(v)' = Acting(v)
    BY <1>1, <2>4, <2>5, HookChanges
  <2>8. HooksTyped'
    BY <1>1, <1>2, <1>4, <2>2, <2>5, <2>6 DEF HooksTyped
  <2> QED BY <1>1, <1>2, <1>4, <1>6, <2>2, <2>5, <2>6, <2>8
<1> QED
  BY <1>5, <1>6

LEMMA EndHookDoes ==
  ASSUME MonInv, NEW u \in Uses, EndHook(u)
  PROVE  /\ u \in Flight /\ use[u].pc = "end" /\ Flight' = Flight \ {u} /\ HooksTyped'
         /\ use'[u] = Waiting /\ \A v \in Uses \ {u} : use'[v] = use[v]
         /\ seen' = (seen \/ use[u].level = "critical")
         /\ IF use[u].warns
            THEN silent' = 0 /\ beside' = Cardinality(Flight') /\ told' = (told \/ use[u].level = "critical")
            ELSE silent' = silent + 1 /\ UNCHANGED <<beside, told>>
         /\ UNCHANGED <<tracked, sentinel, records, everBeside, killings>>
<1>1. HooksTyped /\ u \in Flight /\ use[u].pc = "end"
  BY HookShapes DEF MonInv, EndHook
<1>2. UNCHANGED <<tracked, context, bridge, sentinel, records, everBeside, killings>>
      /\ use' = [use EXCEPT ![u] = Waiting] /\ seen' = (seen \/ use[u].level = "critical")
  BY DEF EndHook, bridgeVars
<1>3. Waiting \in HookStates
  BY DEF HookStates
<1>4. /\ use' \in [Uses -> HookStates] /\ use'[u] = Waiting /\ \A v \in Uses \ {u} : use'[v] = use[v]
      /\ Flight' = Flight \ {u} /\ IsFiniteSet(Flight')
      /\ \A v \in Uses \ {u} : Acting(v)' = Acting(v)
  BY <1>1, <1>2, <1>3, HookChanges
<1>5. IF use[u].warns
      THEN silent' = 0 /\ beside' = Cardinality(Flight') /\ told' = (told \/ use[u].level = "critical")
      ELSE silent' = silent + 1 /\ UNCHANGED <<beside, told>>
  BY <1>1, <1>4, FlightCounts DEF EndHook
<1>6. silent' \in Nat /\ beside' \in Nat
  BY <1>1, <1>4, <1>5, FS_CardinalityType DEF HooksTyped
<1>7. ~ Acting(u)'
  BY <1>4 DEF Acting, Waiting
<1>8. HooksTyped'
  BY <1>1, <1>2, <1>4, <1>6, <1>7 DEF HooksTyped
<1> QED
  BY <1>1, <1>2, <1>4, <1>5, <1>8

LEMMA KillHookDoes ==
  ASSUME MonInv, NEW u \in Uses, KillHook(u)
  PROVE  /\ u \in Flight /\ Flight' = Flight \ {u} /\ HooksTyped'
         /\ use'[u] = Waiting /\ \A v \in Uses \ {u} : use'[v] = use[v]
         /\ killings' = killings + 1
         /\ UNCHANGED <<tracked, sentinel, records, told, seen, silent, beside, everBeside>>
<1>1. HooksTyped /\ u \in Flight
  BY DEF MonInv, KillHook, Flight
<1>2. UNCHANGED <<tracked, context, bridge, sentinel, records, told, seen, silent, beside, everBeside>>
      /\ use' = [use EXCEPT ![u] = Waiting] /\ killings' = killings + 1
  BY DEF KillHook, bridgeVars, ghosts
<1>3. Waiting \in HookStates
  BY DEF HookStates
<1>4. /\ use' \in [Uses -> HookStates] /\ use'[u] = Waiting /\ \A v \in Uses \ {u} : use'[v] = use[v]
      /\ Flight' = Flight \ {u} /\ IsFiniteSet(Flight')
      /\ \A v \in Uses \ {u} : Acting(v)' = Acting(v)
  BY <1>1, <1>2, <1>3, HookChanges
<1>5. ~ Acting(u)'
  BY <1>4 DEF Acting, Waiting
<1>6. HooksTyped'
  BY <1>1, <1>2, <1>4, <1>5 DEF HooksTyped
<1> QED
  BY <1>1, <1>2, <1>4, <1>6

\* What the file lets hooks count on is less than Debounce.
LEMMA CountsInRange ==
  ASSUME HooksTyped
  PROVE  Debounce \in Nat /\ Debounce >= 1 /\ CountOf \in 0 .. Debounce - 1 /\ CountOf \in Nat
         /\ CountOf <= Debounce - 1
<1>1. Debounce \in Nat /\ Debounce >= 1
  BY MonitorAssumption DEF MonitorAssumption
<1>2. sentinel.is = "sentinel" => sentinel \in CountRecords
  BY DEF HooksTyped, Absent, Torn
<1>3. sentinel.is = "sentinel" => sentinel.calls \in 0 .. Debounce - 1
  BY <1>2 DEF CountRecords
<1>4. Debounce - 1 \in 0 .. Debounce - 1
  BY <1>1
<1>5. CountOf \in 0 .. Debounce - 1
  BY <1>3, <1>4 DEF CountOf
<1> QED
  BY <1>1, <1>5

\* The silent uses stay covered, operation by operation.
LEMMA CoveredByRead ==
  ASSUME MonInv, NEW u \in Uses, ReadMetrics(u), Debounce # 1
  PROVE  Covered'
<1>1. /\ u \notin Flight /\ Flight' = Flight \cup {u} /\ use'[u].pc = "metrics"
      /\ \A v \in Uses \ {u} : use'[v] = use[v]
      /\ UNCHANGED <<sentinel, silent, killings>>
      /\ IF Flight = {} THEN beside' = beside ELSE beside' = beside + 1
  BY ReadMetricsDoes
<1>2. HooksTyped /\ Covered
  BY DEF MonInv, SilentFacts
<1>3. Debounce \in Nat /\ Debounce >= 2 /\ silent \in Nat /\ CountOf \in 0 .. Debounce - 1 /\ CountOf' = CountOf
  <2>1. Debounce \in Nat /\ Debounce >= 1 /\ CountOf \in 0 .. Debounce - 1
    BY <1>2, CountsInRange
  <2>2. CountOf' = CountOf
    BY <1>1 DEF CountOf
  <2> QED BY <1>2, <2>1, <2>2 DEF HooksTyped
<1>4. Credit \in Nat
  BY <1>2, CreditGrows
<1>5. CASE Flight = {}
  <2>1. Credit' = Credit /\ Flight' = {u}
    BY <1>1, <1>2, <1>5, CreditGrows
  <2>2. silent <= Credit + CountOf
    <3>1. ~ \E v \in Uses : SingleHook(v)
      BY <1>5 DEF SingleHook
    <3> QED BY <1>2, <1>5, <3>1 DEF Covered
  <2>3. Room(u)' = CountOf
    BY <1>1, <1>3 DEF Room
  <2>4. SingleHook(u)'
    BY <1>1, <2>1, <2>2, <2>3 DEF SingleHook
  <2> QED BY <2>4 DEF Covered
<1>6. CASE Flight # {}
  <2>1. Credit' = Credit + Debounce
    BY <1>1, <1>2, <1>6, CreditGrows
  <2> DEFINE k == Cardinality(Flight)
  <2>2. k \in Nat /\ Cardinality(Flight') = k + 1 /\ Flight' # {}
    <3>1. k \in Nat /\ Cardinality(Flight \cup {u}) = k + 1
      BY <1>1, <1>2, FlightCounts
    <3> QED BY <1>1, <3>1
  <2> HIDE DEF k
  <2>3. ZeroCounted' = ZeroCounted /\ \A v \in Uses : Warner(v) => Warner(v)'
    <3>1. \A v \in Uses : Warner(v) => v \in Flight
      BY <1>2, HookShapes DEF Warner
    <3>2. \A v \in Uses \ {u} : Warner(v) => Warner(v)'
      BY <1>1 DEF Warner, Acting
    <3> QED BY <1>1, <3>1, <3>2 DEF ZeroCounted
  <2>4. CASE silent + k <= Credit
    <3>1. silent + (k + 1) <= Credit + Debounce
      BY <1>3, <1>4, <2>2, <2>4
    <3> QED BY <1>1, <2>1, <2>2, <3>1 DEF Covered
  <2>5. CASE silent + k <= Credit + 1 /\ (ZeroCounted => \E v \in Uses : Warner(v))
    <3>1. silent + (k + 1) <= (Credit + Debounce) + 1
      BY <1>3, <1>4, <2>2, <2>5
    <3> QED BY <1>1, <2>1, <2>2, <2>3, <2>5, <3>1 DEF Covered
  <2>6. ASSUME NEW v \in Uses, SingleHook(v) PROVE Covered'
    <3>1. k = 1 /\ silent <= Credit + Room(v) /\ v \in Flight
      BY <2>6, FS_Singleton DEF SingleHook, k
    <3>2. CASE Warner(v)
      <4>1. Room(v) = Debounce - 1
        BY <3>2 DEF Room, Warner, Acting
      <4>2. silent + (k + 1) <= (Credit + Debounce) + 1
        BY <1>3, <1>4, <3>1, <4>1
      <4> QED BY <1>1, <2>1, <2>2, <2>3, <3>2, <4>2 DEF Covered
    <3>3. CASE Acting(v) /\ ~ use[v].warns
      <4>1. Room(v) = use[v].data.calls - 1 /\ use[v].data.calls \in 0 .. Debounce - 1
        BY <1>2, <3>3, HookShapes DEF Room, Acting, CountRecords
      <4>2. silent + (k + 1) <= Credit + Debounce
        <5>1. PICK n : n = use[v].data.calls
          OBVIOUS
        <5>2. n \in 0 .. Debounce - 1 /\ silent <= Credit + (n - 1)
          BY <3>1, <4>1, <5>1
        <5> QED BY <1>3, <1>4, <3>1, <5>2
      <4> QED BY <1>1, <2>1, <2>2, <4>2 DEF Covered
    <3>4. CASE use[v].pc = "metrics"
      <4>1. Room(v) = CountOf
        BY <3>4 DEF Room
      <4>2. CASE ZeroCounted
        <5>1. CountOf = 0
          BY <4>2 DEF ZeroCounted, CountOf
        <5>2. silent + (k + 1) <= Credit + Debounce
          BY <1>3, <1>4, <3>1, <4>1, <5>1
        <5> QED BY <1>1, <2>1, <2>2, <5>2 DEF Covered
      <4>3. CASE ~ ZeroCounted
        <5>1. silent + (k + 1) <= (Credit + Debounce) + 1
          BY <1>3, <1>4, <3>1, <4>1
        <5> QED BY <1>1, <2>1, <2>2, <2>3, <4>3, <5>1 DEF Covered
      <4> QED BY <4>2, <4>3
    <3> QED BY <1>2, <3>1, <3>2, <3>3, <3>4, HookShapes DEF Warner, Acting
  <2> QED BY <1>2, <1>6, <2>4, <2>5, <2>6 DEF Covered, k
<1> QED
  BY <1>5, <1>6

\* Reading, opening and writing the sentinel: nobody joins, nobody leaves.
LEMMA CoveredByFile ==
  ASSUME MonInv, NEW u \in Uses, ReadSentinel(u) \/ OpenSentinel(u) \/ WriteSentinel(u), Debounce # 1
  PROVE  Covered'
<1>1. /\ u \in Flight /\ Flight' = Flight /\ \A v \in Uses \ {u} : use'[v] = use[v]
      /\ UNCHANGED <<silent, beside, killings>>
  BY ReadSentinelDoes, OpenSentinelDoes, WriteSentinelDoes
<1>2. HooksTyped /\ Covered
  BY DEF MonInv, SilentFacts
<1>3. Credit' = Credit /\ Credit \in Nat
  BY <1>1, <1>2, CreditGrows
<1>4. \A v \in Uses : Warner(v) => Warner(v)'
  <2>1. Warner(u) => Warner(u)'
    BY ReadSentinelDoes, OpenSentinelDoes, WriteSentinelDoes DEF Warner, Acting
  <2> QED BY <1>1, <2>1 DEF Warner, Acting
<1>5. ZeroCounted' => ZeroCounted \/ Warner(u)'
  <2>1. CASE ReadSentinel(u)
    BY <2>1, ReadSentinelDoes DEF ZeroCounted
  <2>2. CASE OpenSentinel(u)
    BY <2>2, OpenSentinelDoes DEF ZeroCounted
  <2>3. CASE WriteSentinel(u)
    <3>1. sentinel' = use[u].data /\ Acting(u) /\ Acting(u)' /\ use'[u].warns = use[u].warns
      BY <2>3, WriteSentinelDoes DEF Acting
    <3>2. ~ use[u].warns => use[u].data.calls # 0
      BY <1>2, <3>1 DEF HooksTyped
    <3> QED BY <3>1, <3>2 DEF ZeroCounted, Warner
  <2> QED BY <2>1, <2>2, <2>3
<1>6. ASSUME NEW v \in Uses, SingleHook(v) PROVE SingleHook(u)'
  <2>1. v = u /\ Flight' = {u} /\ silent <= Credit + Room(u)
    BY <1>1, <1>6 DEF SingleHook
  <2>2. CASE ReadSentinel(u)
    <3>1. Room(u) = CountOf /\ use'[u].pc = "open"
      BY <2>2, ReadSentinelDoes DEF Room
    <3>2. CASE use'[u].warns
      <4>1. Room(u)' = Debounce - 1
        BY <3>1, <3>2 DEF Room
      <4>2. CountOf <= Debounce - 1 /\ CountOf \in Nat /\ Debounce \in Nat
        BY <1>2, CountsInRange
      <4>3. silent <= Credit + (Debounce - 1)
        BY <1>2, <1>3, <2>1, <3>1, <4>2 DEF HooksTyped
      <4> QED BY <1>1, <1>3, <2>1, <3>1, <4>1, <4>3 DEF SingleHook
    <3>3. CASE ~ use'[u].warns
      <4>1. use'[u].data.calls = CountOf + 1 /\ sentinel.calls = CountOf
        BY <2>2, <3>3, ReadSentinelDoes DEF CountOf
      <4>2. Room(u)' = (CountOf + 1) - 1
        BY <3>1, <3>3, <4>1 DEF Room
      <4>3. CountOf \in Nat
        BY <1>2, CountsInRange
      <4>4. Room(u)' = CountOf
        BY <4>2, <4>3
      <4> QED BY <1>1, <1>3, <2>1, <3>1, <4>4 DEF SingleHook
    <3> QED BY <3>2, <3>3
  <2>3. CASE OpenSentinel(u)
    <3>1. Room(u)' = Room(u) /\ use'[u].pc = "write"
      BY <2>3, OpenSentinelDoes DEF Room
    <3> QED BY <1>1, <1>3, <2>1, <3>1 DEF SingleHook
  <2>4. CASE WriteSentinel(u)
    <3>1. Room(u)' = Room(u)
      BY <2>4, WriteSentinelDoes DEF Room
    <3>2. use'[u].pc = "end" => sentinel' = use'[u].data
      BY <2>4, WriteSentinelDoes
    <3> QED BY <1>1, <1>3, <2>1, <3>1, <3>2 DEF SingleHook
  <2> QED BY <2>2, <2>3, <2>4
<1>7. CASE Flight # {} /\ silent + Cardinality(Flight) <= Credit
  BY <1>1, <1>3, <1>7 DEF Covered
<1>8. CASE /\ Flight # {} /\ silent + Cardinality(Flight) <= Credit + 1
           /\ ZeroCounted => \E v \in Uses : Warner(v)
  <2>1. ZeroCounted' => \E v \in Uses : Warner(v)'
    BY <1>4, <1>5, <1>8
  <2> QED BY <1>1, <1>3, <1>8, <2>1 DEF Covered
<1> QED
  BY <1>1, <1>2, <1>6, <1>7, <1>8 DEF Covered

\* A hook ends, or is killed.
LEMMA CoveredByEnd ==
  ASSUME MonInv, NEW u \in Uses, EndHook(u), Debounce # 1
  PROVE  Covered'
<1>1. /\ u \in Flight /\ use[u].pc = "end" /\ Flight' = Flight \ {u} /\ HooksTyped'
      /\ \A v \in Uses \ {u} : use'[v] = use[v]
      /\ IF use[u].warns THEN silent' = 0 /\ beside' = Cardinality(Flight')
         ELSE silent' = silent + 1 /\ beside' = beside
      /\ UNCHANGED <<sentinel, killings>>
  BY EndHookDoes
<1>2. HooksTyped /\ Covered
  BY DEF MonInv, SilentFacts
<1>3. Debounce \in Nat /\ Debounce >= 2 /\ silent \in Nat /\ CountOf \in 0 .. Debounce - 1 /\ CountOf' = CountOf
  <2>1. Debounce \in Nat /\ Debounce >= 1 /\ CountOf \in 0 .. Debounce - 1
    BY <1>2, CountsInRange
  <2>2. CountOf' = CountOf
    BY <1>1 DEF CountOf
  <2> QED BY <1>2, <2>1, <2>2 DEF HooksTyped
<1>4. Credit \in Nat
  BY <1>2, CreditGrows
<1> DEFINE k == Cardinality(Flight)
<1>5. k \in Nat /\ Cardinality(Flight') = k - 1 /\ k # 0 /\ (Flight' = {} <=> k = 1)
  <2>1. k \in Nat /\ Cardinality(Flight \ {u}) = k - 1 /\ k # 0
    BY <1>1, <1>2, FlightCounts
  <2>2. Flight' = {} <=> Cardinality(Flight') = 0
    BY <1>1, FS_EmptySet DEF HooksTyped
  <2> QED BY <1>1, <2>1, <2>2
<1> HIDE DEF k
<1>6. CASE use[u].warns
  <2>1. silent' = 0 /\ beside' = k - 1 /\ k - 1 \in Nat /\ killings' \in Nat
    BY <1>1, <1>2, <1>5, <1>6 DEF HooksTyped
  <2>2. PICK n \in Nat : n = k - 1 /\ beside' = n
    BY <2>1
  <2>3. n <= Credit' /\ Credit' \in Nat
    BY <2>1, <2>2, CreditCovers
  <2>4. silent' + Cardinality(Flight') <= Credit'
    BY <1>5, <2>1, <2>2, <2>3
  <2>5. silent' <= Credit' + CountOf'
    <3>1. CountOf' \in Nat /\ Credit' \in Nat
      BY <1>3, <2>3
    <3>2. \A x, y \in Nat : 0 <= x + y
      OBVIOUS
    <3> QED BY <2>1, <3>1, <3>2
  <2> QED BY <2>4, <2>5 DEF Covered
<1>7. CASE ~ use[u].warns
  <2>1. silent' = silent + 1 /\ Credit' = Credit
    BY <1>1, <1>2, <1>7, CreditGrows
  <2>2. CASE silent + k <= Credit
    <3>1. CASE Flight' = {}
      <4>1. silent' <= Credit' + CountOf'
        BY <1>3, <1>4, <1>5, <2>1, <2>2, <3>1
      <4> QED BY <3>1, <4>1 DEF Covered
    <3>2. CASE Flight' # {}
      <4>1. silent' + Cardinality(Flight') <= Credit'
        BY <1>3, <1>4, <1>5, <2>1, <2>2
      <4> QED BY <3>2, <4>1 DEF Covered
    <3> QED BY <3>1, <3>2
  <2>3. CASE silent + k <= Credit + 1 /\ (ZeroCounted => \E v \in Uses : Warner(v))
    <3>1. CASE Flight' = {}
      <4>1. ~ \E v \in Uses : Warner(v)
        <5>1. \A v \in Uses : Warner(v) => v \in Flight
          BY <1>2, HookShapes DEF Warner
        <5> QED BY <1>1, <1>7, <3>1, <5>1 DEF Warner
      <4>2. CountOf # 0
        BY <1>3, <2>3, <4>1 DEF ZeroCounted, CountOf
      <4>3. silent' <= Credit' + CountOf'
        BY <1>3, <1>4, <1>5, <2>1, <2>3, <3>1, <4>2
      <4> QED BY <3>1, <4>3 DEF Covered
    <3>2. CASE Flight' # {}
      <4>1. silent' + Cardinality(Flight') <= Credit' + 1
        BY <1>3, <1>4, <1>5, <2>1, <2>3
      <4>2. ZeroCounted' => \E v \in Uses : Warner(v)'
        <5> SUFFICES ASSUME ZeroCounted' PROVE \E v \in Uses : Warner(v)'
          OBVIOUS
        <5>1. ZeroCounted
          BY <1>1 DEF ZeroCounted
        <5>2. PICK v \in Uses : Warner(v)
          BY <2>3, <5>1
        <5>3. v # u
          BY <1>7, <5>2 DEF Warner
        <5> QED BY <1>1, <5>2, <5>3 DEF Warner, Acting
      <4> QED BY <3>2, <4>1, <4>2 DEF Covered
    <3> QED BY <3>1, <3>2
  <2>4. ASSUME NEW v \in Uses, SingleHook(v) PROVE Covered'
    <3>1. v = u /\ Flight' = {} /\ silent <= Credit + Room(u) /\ sentinel = use[u].data
      BY <1>1, <1>7, <2>4 DEF SingleHook
    <3>2. Room(u) = CountOf - 1
      <4>1. use[u].data \in CountRecords
        BY <1>1, <1>2, HookShapes DEF Acting
      <4> QED BY <1>1, <1>7, <3>1, <4>1 DEF Room, CountOf, CountRecords
    <3>3. silent' <= Credit' + CountOf'
      BY <1>3, <1>4, <2>1, <3>1, <3>2
    <3> QED BY <3>1, <3>3 DEF Covered
  <2> QED BY <1>1, <1>2, <2>2, <2>3, <2>4 DEF Covered, k
<1> QED
  BY <1>6, <1>7

LEMMA CoveredByKill ==
  ASSUME MonInv, NEW u \in Uses, KillHook(u), Debounce # 1
  PROVE  Covered'
<1>1. /\ u \in Flight /\ Flight' = Flight \ {u} /\ HooksTyped'
      /\ killings' = killings + 1 /\ UNCHANGED <<sentinel, silent, beside>>
  BY KillHookDoes
<1>2. HooksTyped /\ Covered
  BY DEF MonInv, SilentFacts
<1>3. Debounce \in Nat /\ Debounce >= 2 /\ silent \in Nat /\ CountOf \in 0 .. Debounce - 1 /\ CountOf' = CountOf
  <2>1. Debounce \in Nat /\ Debounce >= 1 /\ CountOf \in 0 .. Debounce - 1
    BY <1>2, CountsInRange
  <2>2. CountOf' = CountOf
    BY <1>1 DEF CountOf
  <2> QED BY <1>2, <2>1, <2>2 DEF HooksTyped
<1>4. Credit \in Nat /\ Credit' = Credit + Debounce
  BY <1>1, <1>2, CreditGrows
<1> DEFINE k == Cardinality(Flight)
<1>5. k \in Nat /\ Cardinality(Flight') = k - 1 /\ k # 0
  BY <1>1, <1>2, FlightCounts
<1> HIDE DEF k
<1>6. CASE silent + k <= Credit + 1
  <2>1. silent' + Cardinality(Flight') <= Credit' /\ silent' <= Credit' + CountOf'
    BY <1>1, <1>3, <1>4, <1>5, <1>6
  <2> QED BY <2>1 DEF Covered
<1>7. ASSUME NEW v \in Uses, SingleHook(v) PROVE Covered'
  <2>1. v = u /\ Flight' = {} /\ silent <= Credit + Room(u)
    BY <1>1, <1>7 DEF SingleHook
  <2>2. CASE use[u].pc = "metrics"
    <3>1. Room(u) = CountOf
      BY <2>2 DEF Room
    <3>2. silent' <= Credit' + CountOf'
      BY <1>1, <1>3, <1>4, <2>1, <3>1
    <3> QED BY <2>1, <3>2 DEF Covered
  <2>3. CASE use[u].pc # "metrics" /\ use[u].warns
    <3>1. Room(u) = Debounce - 1
      BY <2>3 DEF Room
    <3>2. silent' <= Credit' + CountOf'
      BY <1>1, <1>3, <1>4, <2>1, <3>1
    <3> QED BY <2>1, <3>2 DEF Covered
  <2>4. CASE use[u].pc # "metrics" /\ ~ use[u].warns
    <3>1. Acting(u)
      BY <1>1, <1>2, <2>4, HookShapes DEF Acting
    <3>2. use[u].data.calls \in 0 .. Debounce - 1
      BY <1>2, <3>1, HookShapes DEF CountRecords
    <3>3. PICK n : n = use[u].data.calls
      OBVIOUS
    <3>4. Room(u) = n - 1 /\ n \in 0 .. Debounce - 1
      BY <2>4, <3>2, <3>3 DEF Room
    <3>5. silent' <= Credit' + CountOf'
      BY <1>1, <1>3, <1>4, <2>1, <3>4
    <3> QED BY <2>1, <3>5 DEF Covered
  <2> QED BY <2>2, <2>3, <2>4
<1>8. CASE silent + k <= Credit
  <2>1. silent + k <= Credit + 1
    BY <1>3, <1>4, <1>5, <1>8
  <2> QED BY <1>6, <2>1
<1> QED
  BY <1>1, <1>2, <1>6, <1>7, <1>8 DEF Covered, k

LEMMA SilentUsesAreCovered ==
  ASSUME MonInv, NEW u \in Uses,
         \/ ReadMetrics(u) \/ ReadSentinel(u) \/ OpenSentinel(u) \/ WriteSentinel(u)
         \/ EndHook(u) \/ KillHook(u)
  PROVE  SilentFacts'
<1>1. Debounce # 1 => Covered'
  BY CoveredByRead, CoveredByFile, CoveredByEnd, CoveredByKill
<1>2. ASSUME Debounce = 1
      PROVE  silent' = 0 /\ \A v \in Uses : Acting(v)' => use'[v].warns
  <2>1. silent = 0 /\ \A v \in Uses : Acting(v) => use[v].warns
    BY <1>2 DEF MonInv, SilentFacts
  <2>2. CASE ReadMetrics(u)
    BY <2>1, <2>2, ReadMetricsDoes DEF Acting
  <2>3. CASE ReadSentinel(u)
    <3>1. ~ use'[u].warns => FALSE
      <4> SUFFICES ASSUME ~ use'[u].warns PROVE FALSE
        OBVIOUS
      <4>1. sentinel.is = "sentinel" /\ sentinel.calls + 1 < 1
        BY <1>2, <2>3, ReadSentinelDoes
      <4>2. CountOf = sentinel.calls /\ CountOf \in Nat
        BY <4>1, CountsInRange DEF CountOf, MonInv
      <4> QED BY <4>1, <4>2
    <3> QED BY <2>1, <2>3, <3>1, ReadSentinelDoes DEF Acting
  <2>4. CASE OpenSentinel(u)
    BY <2>1, <2>4, OpenSentinelDoes DEF Acting
  <2>5. CASE WriteSentinel(u)
    BY <2>1, <2>5, WriteSentinelDoes DEF Acting
  <2>6. CASE EndHook(u)
    BY <2>1, <2>6, EndHookDoes DEF Acting, Waiting
  <2>7. CASE KillHook(u)
    BY <2>1, <2>7, KillHookDoes DEF Acting, Waiting
  <2> QED BY <2>2, <2>3, <2>4, <2>5, <2>6, <2>7
<1> QED
  BY <1>1, <1>2 DEF SilentFacts

\* Who knows of the critical level, and who has told.
LEMMA TellingStays ==
  ASSUME MonInv, NEW u \in Uses,
         \/ ReadMetrics(u) \/ ReadSentinel(u) \/ OpenSentinel(u) \/ WriteSentinel(u)
         \/ EndHook(u) \/ KillHook(u)
  PROVE  ToldFacts'
<1>0. HooksTyped /\ ToldFacts
  BY DEF MonInv
<1>1. CASE ReadMetrics(u)
  <2>1. /\ use'[u].pc = "metrics" /\ use[u].pc = "waiting" /\ \A v \in Uses \ {u} : use'[v] = use[v]
        /\ UNCHANGED <<tracked, sentinel, records, told, seen, killings>>
    BY <1>0, <1>1, ReadMetricsDoes, HookShapes
  <2>2. \A v \in Uses : (Acting(v)' => Acting(v) /\ use'[v] = use[v]) /\ (Acting(v) => Acting(v)' /\ use'[v] = use[v])
    BY <2>1 DEF Acting
  <2>3. (CriticalKnown' => CriticalKnown) /\ (AboutToTell => AboutToTell')
    BY <2>1, <2>2 DEF CriticalKnown, AboutToTell, Acting
  <2> QED BY <1>0, <2>1, <2>2, <2>3 DEF ToldFacts
<1>2. CASE ReadSentinel(u)
  <2>1. /\ use'[u].pc = "open" /\ use[u].pc = "metrics" /\ \A v \in Uses \ {u} : use'[v] = use[v]
        /\ use'[u].data.recorded = Recorded
        /\ use'[u].data.last = (IF use'[u].warns THEN use'[u].level ELSE LastLevel)
        /\ ~ use'[u].warns => sentinel.is = "sentinel" /\ (use'[u].level = "critical" => LastLevel # "warning")
        /\ UNCHANGED <<tracked, sentinel, records, told, seen, killings>>
    BY <1>2, ReadSentinelDoes
  <2>2. \A v \in Uses \ {u} : Acting(v)' = Acting(v) /\ use'[v] = use[v]
    BY <2>1 DEF Acting
  <2>3. AboutToTell => AboutToTell'
    BY <2>1 DEF AboutToTell
  <2>4. ~ Acting(u) /\ Acting(u)'
    BY <2>1 DEF Acting
  <2>5. CriticalKnown' => CriticalKnown \/ AboutToTell'
    <3> SUFFICES ASSUME CriticalKnown', ~ CriticalKnown PROVE AboutToTell'
      OBVIOUS
    <3>1. use'[u].data.last = "critical" \/ (~ use'[u].warns /\ use'[u].level = "critical")
      BY <2>1, <2>2, <2>4 DEF CriticalKnown
    <3>2. use'[u].warns
      <4> SUFFICES ASSUME ~ use'[u].warns PROVE FALSE
        OBVIOUS
      <4>1. sentinel.is = "sentinel" /\ LastLevel = sentinel.last
        BY <2>1 DEF LastLevel
      <4>2. sentinel.last \in {"warning", "critical"}
        BY <1>0, <4>1 DEF HooksTyped, Absent, Torn, CountRecords
      <4>3. sentinel.last = "critical"
        BY <2>1, <3>1, <4>1, <4>2
      <4> QED BY <4>1, <4>3 DEF CriticalKnown
    <3> QED BY <2>1, <3>1, <3>2 DEF AboutToTell
  <2>6. use'[u].data.recorded => records > 0
    BY <1>0, <2>1 DEF ToldFacts, Recorded
  <2>7. \A v \in Uses : Acting(v)' =>
          /\ use'[v].data.recorded => records > 0
          /\ use'[v].pc = "end" /\ use'[v].warns /\ use'[v].level = "critical" /\ tracked => records > 0
    BY <1>0, <2>1, <2>2, <2>6 DEF ToldFacts
  <2> QED BY <1>0, <2>1, <2>3, <2>5, <2>7 DEF ToldFacts
<1>3. CASE OpenSentinel(u)
  <2>1. /\ use[u].pc = "open" /\ use'[u].pc = "write" /\ use'[u].data = use[u].data /\ use'[u].level = use[u].level
        /\ use'[u].warns = use[u].warns /\ \A v \in Uses \ {u} : use'[v] = use[v]
        /\ sentinel'.is = "torn" /\ UNCHANGED <<tracked, records, told, seen, killings>>
    BY <1>3, OpenSentinelDoes
  <2>2. \A v \in Uses : Acting(v)' = Acting(v)
    BY <2>1 DEF Acting
  <2>3. (CriticalKnown' => CriticalKnown) /\ (AboutToTell => AboutToTell')
    BY <2>1, <2>2 DEF CriticalKnown, AboutToTell, Acting
  <2>4. \A v \in Uses : Acting(v)' =>
          /\ use'[v].data.recorded => records > 0
          /\ use'[v].pc = "end" /\ use'[v].warns /\ use'[v].level = "critical" /\ tracked => records > 0
    BY <1>0, <2>1, <2>2 DEF ToldFacts
  <2> QED BY <1>0, <2>1, <2>3, <2>4 DEF ToldFacts
<1>4. CASE WriteSentinel(u)
  <2>1. /\ use[u].pc = "write" /\ sentinel' = use[u].data /\ sentinel'.is = "sentinel"
        /\ use'[u].level = use[u].level /\ use'[u].warns = use[u].warns
        /\ use'[u].data.last = use[u].data.last /\ \A v \in Uses \ {u} : use'[v] = use[v]
        /\ UNCHANGED <<tracked, told, seen, killings>>
    BY <1>4, WriteSentinelDoes
  <2>2. /\ use'[u].pc \in {"open", "end"}
        /\ records' = records \/ records' = (IF records < 2 THEN records + 1 ELSE records)
        /\ use'[u].data.recorded => use[u].data.recorded \/ records' = (IF records < 2 THEN records + 1 ELSE records)
        /\ use'[u].pc = "end" =>
             ~ (use[u].warns /\ use[u].level = "critical" /\ tracked /\ ~ use[u].data.recorded)
    BY <1>4, WriteSentinelDoes
  <2>3. \A v \in Uses : Acting(v)' = Acting(v)
    BY <2>1, <2>2 DEF Acting
  <2>4. AboutToTell => AboutToTell'
    BY <2>1, <2>2 DEF AboutToTell
  <2>5. Acting(u)
    BY <2>1 DEF Acting
  <2>6. CriticalKnown' => CriticalKnown
    BY <2>1, <2>3, <2>5 DEF CriticalKnown
  <2>7. (records > 0 => records' > 0) /\ (records' = (IF records < 2 THEN records + 1 ELSE records) => records' > 0)
    BY <1>0, <2>2 DEF HooksTyped
  <2>8. use[u].data.recorded => records > 0
    BY <1>0, <2>5 DEF ToldFacts
  <2>9. use'[u].data.recorded => records' > 0
    BY <2>2, <2>7, <2>8
  <2>10. use'[u].pc = "end" /\ use'[u].warns /\ use'[u].level = "critical" /\ tracked => records' > 0
    BY <2>1, <2>2, <2>7, <2>8
  <2>11. \A v \in Uses : Acting(v)' =>
           /\ use'[v].data.recorded => records' > 0
           /\ use'[v].pc = "end" /\ use'[v].warns /\ use'[v].level = "critical" /\ tracked => records' > 0
    BY <1>0, <2>1, <2>3, <2>7, <2>9, <2>10 DEF ToldFacts
  <2> QED BY <1>0, <2>1, <2>4, <2>6, <2>7, <2>8, <2>11 DEF ToldFacts
<1>5. CASE EndHook(u)
  <2>1. /\ use[u].pc = "end" /\ use'[u].pc = "waiting" /\ \A v \in Uses \ {u} : use'[v] = use[v]
        /\ seen' = (seen \/ use[u].level = "critical")
        /\ told' <=> (told \/ (use[u].warns /\ use[u].level = "critical"))
        /\ UNCHANGED <<tracked, sentinel, records, killings>>
    <3>1. told' <=> (told \/ (use[u].warns /\ use[u].level = "critical"))
      BY <1>5, EndHookDoes
    <3> QED BY <1>5, <3>1, EndHookDoes DEF Waiting
  <2>2. Acting(u) /\ ~ Acting(u)' /\ \A v \in Uses \ {u} : Acting(v)' = Acting(v) /\ use'[v] = use[v]
    BY <2>1 DEF Acting
  <2>3. told \/ AboutToTell => told' \/ AboutToTell'
    BY <2>1 DEF AboutToTell
  <2>4. CriticalKnown' => told' \/ AboutToTell' \/ killings' > 0
    <3>1. CASE use[u].level = "critical" /\ use[u].warns
      BY <2>1, <3>1
    <3>2. CASE use[u].level = "critical" /\ ~ use[u].warns
      <4>1. CriticalKnown
        BY <2>2, <3>2 DEF CriticalKnown
      <4> QED BY <1>0, <2>1, <2>3, <4>1 DEF ToldFacts
    <3>3. CASE use[u].level # "critical"
      <4>1. CriticalKnown' => CriticalKnown
        BY <2>1, <2>2, <3>3 DEF CriticalKnown
      <4> QED BY <1>0, <2>1, <2>3, <4>1 DEF ToldFacts
    <3> QED BY <3>1, <3>2, <3>3
  <2>5. told' /\ tracked' => records' > 0
    BY <1>0, <2>1, <2>2 DEF ToldFacts
  <2> QED BY <1>0, <2>1, <2>2, <2>4, <2>5 DEF ToldFacts
<1>6. CASE KillHook(u)
  <2>1. /\ use'[u].pc = "waiting" /\ killings' = killings + 1 /\ \A v \in Uses \ {u} : use'[v] = use[v]
        /\ UNCHANGED <<tracked, sentinel, records, told, seen>>
    BY <1>6, KillHookDoes DEF Waiting
  <2>2. killings' > 0
    BY <1>0, <2>1 DEF HooksTyped
  <2>3. ~ Acting(u)' /\ \A v \in Uses \ {u} : Acting(v)' = Acting(v) /\ use'[v] = use[v]
    BY <2>1 DEF Acting
  <2> QED BY <1>0, <2>1, <2>2, <2>3 DEF ToldFacts
<1> QED
  BY <1>1, <1>2, <1>3, <1>4, <1>5, <1>6

\* Hooks that run one by one record the session once.
LEMMA OnceStays ==
  ASSUME MonInv, NEW u \in Uses,
         \/ ReadMetrics(u) \/ ReadSentinel(u) \/ OpenSentinel(u) \/ WriteSentinel(u)
         \/ EndHook(u) \/ KillHook(u)
  PROVE  OnceFacts'
<1>0. HooksTyped /\ OnceFacts
  BY DEF MonInv
<1> SUFFICES ASSUME ~ everBeside', killings' = 0 PROVE OnceFacts'
  BY DEF OnceFacts
<1>1. ~ everBeside /\ killings = 0 /\ ~ KillHook(u)
  <2>1. ~ everBeside
    BY ReadMetricsDoes, ReadSentinelDoes, OpenSentinelDoes, WriteSentinelDoes, EndHookDoes, KillHookDoes
  <2>2. ~ KillHook(u)
    <3> SUFFICES ASSUME KillHook(u) PROVE FALSE
      OBVIOUS
    <3>1. killings' = killings + 1
      BY KillHookDoes
    <3> QED BY <1>0, <3>1 DEF HooksTyped
  <2>3. killings = 0
    BY <2>2, ReadMetricsDoes, ReadSentinelDoes, OpenSentinelDoes, WriteSentinelDoes, EndHookDoes
  <2> QED BY <2>1, <2>2, <2>3
<1>2. /\ records <= 1 /\ \A v, w \in Flight : v = w
      /\ records > 0 =>
           /\ Flight = {} \/ (\E v \in Uses : use[v].pc = "metrics") => RecordSeen
           /\ \A v \in Uses : Acting(v) =>
                use[v].data.recorded /\ (use[v].pc = "end" => sentinel = use[v].data)
  BY <1>0, <1>1 DEF OnceFacts
<1>3. \A v \in Uses : (Acting(v) \/ use[v].pc = "metrics") => v \in Flight
  BY <1>0, HookShapes
<1>4. CASE ReadMetrics(u)
  <2>1. Flight = {} /\ Flight' = {u} /\ use'[u].pc = "metrics" /\ UNCHANGED <<sentinel, records>>
        /\ \A v \in Uses \ {u} : use'[v] = use[v]
    BY <1>4, ReadMetricsDoes
  <2>2. \A v \in Uses : ~ Acting(v)'
    BY <1>3, <2>1 DEF Acting
  <2> QED BY <1>2, <2>1, <2>2 DEF OnceFacts, RecordSeen
<1>5. ASSUME u \in Flight, Flight' = Flight, \A v \in Uses \ {u} : use'[v] = use[v], Acting(u)', records' <= 1,
             records' > 0 => use'[u].data.recorded /\ (use'[u].pc = "end" => sentinel' = use'[u].data)
      PROVE  OnceFacts'
  <2>1. \A v \in Uses : (Acting(v)' \/ use'[v].pc = "metrics") => v = u
    BY <1>2, <1>3, <1>5 DEF Acting
  <2>2. ~ \E v \in Uses : use'[v].pc = "metrics"
    BY <1>5, <2>1 DEF Acting
  <2> QED BY <1>2, <1>5, <2>1, <2>2 DEF OnceFacts
<1>6. CASE ReadSentinel(u)
  <2>1. u \in Flight /\ Flight' = Flight /\ use[u].pc = "metrics" /\ use'[u].pc = "open"
        /\ use'[u].data.recorded = Recorded /\ UNCHANGED <<sentinel, records>>
        /\ \A v \in Uses \ {u} : use'[v] = use[v]
    BY <1>6, ReadSentinelDoes
  <2>2. records > 0 => use'[u].data.recorded
    BY <1>2, <2>1 DEF RecordSeen, Recorded
  <2> QED BY <1>2, <1>5, <2>1, <2>2 DEF Acting
<1>7. CASE OpenSentinel(u)
  <2>1. u \in Flight /\ Flight' = Flight /\ use[u].pc = "open" /\ use'[u].pc = "write"
        /\ use'[u].data = use[u].data /\ records' = records
        /\ \A v \in Uses \ {u} : use'[v] = use[v]
    BY <1>7, OpenSentinelDoes
  <2> QED BY <1>2, <1>5, <2>1 DEF Acting
<1>8. CASE WriteSentinel(u)
  <2>1. u \in Flight /\ Flight' = Flight /\ use[u].pc = "write" /\ sentinel' = use[u].data
        /\ \A v \in Uses \ {u} : use'[v] = use[v]
    BY <1>8, WriteSentinelDoes
  <2>2. CASE use'[u].pc = "open"
    <3>1. use'[u].data.recorded /\ ~ use[u].data.recorded /\ records' = (IF records < 2 THEN records + 1 ELSE records)
      BY <1>8, <2>2, WriteSentinelDoes
    <3>2. ~ (records > 0)
      BY <1>2, <2>1, <3>1 DEF Acting
    <3>3. records' <= 1
      BY <1>0, <3>1, <3>2 DEF HooksTyped
    <3> QED BY <1>5, <2>1, <2>2, <3>1, <3>3 DEF Acting
  <2>3. CASE use'[u].pc # "open"
    <3>1. use'[u].pc = "end" /\ use'[u].data = use[u].data /\ records' = records
      BY <1>8, <2>3, WriteSentinelDoes
    <3> QED BY <1>2, <1>5, <2>1, <3>1 DEF Acting
  <2> QED BY <2>2, <2>3
<1>9. CASE EndHook(u)
  <2>1. u \in Flight /\ Flight' = Flight \ {u} /\ use[u].pc = "end" /\ UNCHANGED <<sentinel, records>>
        /\ use'[u].pc = "waiting" /\ \A v \in Uses \ {u} : use'[v] = use[v]
    BY <1>9, EndHookDoes DEF Waiting
  <2>2. Flight' = {}
    BY <1>2, <2>1
  <2>3. \A v \in Uses : ~ Acting(v)' /\ use'[v].pc # "metrics"
    BY <1>2, <1>3, <2>1 DEF Acting
  <2>4. records > 0 => RecordSeen'
    <3>1. Acting(u) /\ use[u].data \in CountRecords
      BY <1>0, <2>1, HookShapes DEF Acting
    <3>2. records > 0 => sentinel = use[u].data /\ use[u].data.recorded
      BY <1>2, <2>1, <3>1
    <3> QED BY <2>1, <3>1, <3>2 DEF RecordSeen, CountRecords
  <2> QED BY <1>2, <2>1, <2>2, <2>3, <2>4 DEF OnceFacts
<1> QED
  BY <1>1, <1>4, <1>6, <1>7, <1>8, <1>9

LEMMA MonitorStepInv == MonInv /\ [MonitorNext]_monitorVars => MonInv'
<1> SUFFICES ASSUME MonInv, [MonitorNext]_monitorVars PROVE MonInv'
  OBVIOUS
<1>1. ASSUME UNCHANGED <<tracked, sentinel, use, records, told, seen, silent, beside, everBeside, killings>>,
             context' \in Levels, bridge'.is = "metrics" => bridge'.level \in Levels
      PROVE  MonInv'
  <2>1. /\ Flight' = Flight /\ Credit' = Credit /\ CountOf' = CountOf /\ ZeroCounted' = ZeroCounted
        /\ \A v \in Uses : /\ Acting(v)' = Acting(v) /\ Warner(v)' = Warner(v)
                           /\ SingleHook(v)' = SingleHook(v)
    BY <1>1 DEF Flight, Credit, CountOf, ZeroCounted, Acting, Warner, SingleHook, Room
  <2>2. HooksTyped'
    BY <1>1, <2>1 DEF MonInv, HooksTyped
  <2>3. SilentFacts'
    BY <1>1, <2>1 DEF MonInv, SilentFacts, Covered
  <2>4. CriticalKnown' = CriticalKnown /\ AboutToTell' = AboutToTell
    BY <1>1 DEF CriticalKnown, AboutToTell, Acting
  <2>5. ToldFacts' /\ OnceFacts'
    BY <1>1, <2>1, <2>4 DEF MonInv, ToldFacts, OnceFacts, RecordSeen
  <2> QED BY <2>2, <2>3, <2>5 DEF MonInv
<1>2. context \in Levels /\ (bridge.is = "metrics" => bridge.level \in Levels)
  BY DEF MonInv, HooksTyped
<1>3. CASE UNCHANGED monitorVars
  BY <1>1, <1>2, <1>3 DEF monitorVars, bridgeVars, ghosts
<1>4. CASE Consume \/ Compact
  BY <1>1, <1>2, <1>4 DEF Consume, Compact, bridgeVars, ghosts, Levels
<1>5. CASE OpenBridge \/ WriteBridge \/ MinutePasses
  BY <1>1, <1>2, <1>5 DEF OpenBridge, WriteBridge, MinutePasses, ghosts, Torn, Old, Metrics
<1>6. ASSUME NEW u \in Uses,
             \/ ReadMetrics(u) \/ ReadSentinel(u) \/ OpenSentinel(u) \/ WriteSentinel(u)
             \/ EndHook(u) \/ KillHook(u)
      PROVE  MonInv'
  <2>1. HooksTyped'
    BY <1>6, ReadMetricsDoes, ReadSentinelDoes, OpenSentinelDoes, WriteSentinelDoes, EndHookDoes, KillHookDoes
  <2> QED BY <1>6, <2>1, SilentUsesAreCovered, TellingStays, OnceStays DEF MonInv
<1> QED
  BY <1>3, <1>4, <1>5, <1>6 DEF MonitorNext

\* What is covered is less than the bound.
LEMMA CoveredIsBounded ==
  ASSUME MonInv PROVE silent < Debounce * (1 + beside + killings)
<1>1. HooksTyped /\ Debounce \in Nat /\ Debounce >= 1 /\ CountOf \in Nat /\ CountOf <= Debounce - 1
      /\ Credit \in Nat /\ silent \in Nat
  BY CountsInRange, CreditGrows DEF MonInv, HooksTyped
<1>2. Debounce * (1 + beside + killings) = Credit + Debounce
  <2>1. \A x, y \in Nat : x * (y + 1) = x * y + x
    OBVIOUS
  <2>2. beside + killings \in Nat /\ 1 + beside + killings = (beside + killings) + 1
    BY <1>1 DEF HooksTyped
  <2> QED BY <1>1, <2>1, <2>2 DEF Credit
<1>3. SUFFICES silent < Credit + Debounce
  BY <1>2
<1>4. CASE Debounce = 1
  <2>1. silent = 0
    BY <1>4 DEF MonInv, SilentFacts
  <2> QED BY <1>1, <2>1
<1>5. CASE Debounce # 1
  <2>1. Covered
    BY <1>5 DEF MonInv, SilentFacts
  <2>2. CASE silent <= Credit + CountOf
    BY <1>1, <2>2
  <2>3. CASE Flight # {} /\ silent + Cardinality(Flight) <= Credit + 1
    <3>1. Cardinality(Flight) \in Nat
      BY <1>1, FS_CardinalityType DEF HooksTyped
    <3> QED BY <1>1, <1>5, <2>3, <3>1
  <2>4. CASE Flight # {} /\ silent + Cardinality(Flight) <= Credit
    <3>1. Cardinality(Flight) \in Nat
      BY <1>1, FS_CardinalityType DEF HooksTyped
    <3> QED BY <1>1, <1>5, <2>4, <3>1
  <2>5. ASSUME NEW u \in Uses, SingleHook(u) PROVE silent < Credit + Debounce
    <3>1. PICK n : n = Room(u)
      OBVIOUS
    <3>2. n <= Debounce - 1 /\ n \in Int
      <4>1. u \in Flight
        BY <2>5 DEF SingleHook
      <4>2. CASE use[u].pc = "metrics"
        BY <1>1, <3>1, <4>2 DEF Room
      <4>3. CASE use[u].pc # "metrics" /\ use[u].warns
        BY <1>1, <3>1, <4>3 DEF Room
      <4>4. CASE use[u].pc # "metrics" /\ ~ use[u].warns
        <5>1. use[u].data.calls \in 0 .. Debounce - 1
          BY <1>1, <4>1, <4>4, HookShapes DEF Acting, CountRecords
        <5>2. PICK m : m = use[u].data.calls
          OBVIOUS
        <5>3. n = m - 1 /\ m \in 0 .. Debounce - 1
          BY <3>1, <4>4, <5>1, <5>2 DEF Room
        <5> QED BY <1>1, <5>3
      <4> QED BY <4>2, <4>3, <4>4
    <3>3. silent <= Credit + n
      BY <2>5, <3>1 DEF SingleHook
    <3> QED BY <1>1, <3>2, <3>3
  <2> QED BY <2>1, <2>2, <2>3, <2>4, <2>5 DEF Covered
<1> QED
  BY <1>4, <1>5

\* For every number of hooks at a time and every Debounce, and whatever happens to the two
\* files: the agent is told as AgentIsWarned says.
THEOREM AgentsAreWarned == MonitorSpec => []AgentIsWarned
<1>1. MonInv => AgentIsWarned
  <2> SUFFICES ASSUME MonInv PROVE AgentIsWarned
    OBVIOUS
  <2>1. seen /\ killings = 0 => told \/ AboutToTell
    BY DEF MonInv, ToldFacts, CriticalKnown
  <2>2. told /\ tracked => records > 0
    BY DEF MonInv, ToldFacts
  <2>3. records > 1 => everBeside \/ killings > 0
    BY DEF MonInv, OnceFacts, HooksTyped
  <2> QED BY <2>1, <2>2, <2>3, CoveredIsBounded DEF AgentIsWarned
<1> QED
  BY <1>1, MonitorStarts, MonitorStepInv, PTL DEF MonitorSpec

\* What MonInv does not say of the types: no more hooks are killed than the bound lets.
MishapsBounded == killings \in Nat /\ compactions \in Nat /\ killings <= MaxMishaps

LEMMA MishapsStep == MishapsBounded /\ [MonitorNext]_monitorVars => MishapsBounded'
<1> SUFFICES ASSUME MishapsBounded, [MonitorNext]_monitorVars PROVE MishapsBounded'
  OBVIOUS
<1>1. CASE UNCHANGED <<killings, compactions>>
  BY <1>1 DEF MishapsBounded
<1>2. CASE UNCHANGED monitorVars \/ Consume \/ OpenBridge \/ WriteBridge \/ MinutePasses
  BY <1>1, <1>2 DEF monitorVars, Consume, OpenBridge, WriteBridge, MinutePasses
<1>3. CASE Compact
  BY <1>3 DEF Compact, MishapsBounded
<1>4. ASSUME NEW u \in Uses, \/ ReadMetrics(u) \/ ReadSentinel(u) \/ OpenSentinel(u)
                             \/ WriteSentinel(u) \/ EndHook(u)
      PROVE  MishapsBounded'
  BY <1>1, <1>4 DEF ReadMetrics, ReadSentinel, OpenSentinel, WriteSentinel, EndHook
<1>5. ASSUME NEW u \in Uses, KillHook(u) PROVE MishapsBounded'
  BY <1>5, MonitorAssumption DEF KillHook, MishapsBounded
<1> QED BY <1>2, <1>3, <1>4, <1>5 DEF MonitorNext

\* The sentinel counts fewer uses than Debounce, and a hook at work saw little context.
THEOREM MonitorTyped == MonitorSpec => []MonitorTypeOK
<1>1. MonitorInit => MishapsBounded
  BY MonitorAssumption DEF MonitorInit, MishapsBounded
<1>2. MonInv /\ MishapsBounded => MonitorTypeOK
  <2> SUFFICES ASSUME MonInv, MishapsBounded PROVE MonitorTypeOK
    OBVIOUS
  <2>1. sentinel.is = "sentinel" => sentinel \in CountRecords
    BY DEF MonInv, HooksTyped, Absent, Torn
  <2>2. sentinel.is = "sentinel" => sentinel.calls \in 0 .. Debounce - 1 /\ sentinel.last \in Levels \cup {"none"}
    BY <2>1 DEF CountRecords, Levels
  <2>3. \A u \in Uses : use[u] # Waiting => use[u].level \in Levels \ {"fine"}
    BY DEF MonInv, HooksTyped, HookStates, Levels
  <2>4. records \in 0 .. 2 /\ killings \in 0 .. MaxMishaps
    BY MonitorAssumption DEF MonInv, HooksTyped, MishapsBounded
  <2> QED BY <2>2, <2>3, <2>4 DEF MonitorTypeOK
<1> QED BY <1>1, <1>2, MonitorStarts, MonitorStepInv, MishapsStep, PTL DEF MonitorSpec

----------------------------------------------------------------------------
(* SkillSurface.  What is shown is what is listed, for every manifest,     *)
(* every profile and every runtime.                                        *)

Layout == ResolveRuntimeArtifactLayout(runtime)
Wanted == ResolveSurface(TRUE)

\* What of a kind an apply that reads the manifest stages.
Staged(kind) == IF kind = "agents" THEN StageAgents(Wanted, TRUE) ELSE StageSkills(Wanted)

\* All of it is there, and no more of what could be removed.
Complete(kind) ==
  /\ Staged(kind) \subseteq installed[kind]
  /\ installed[kind] \cap Prunable(kind, TRUE) \subseteq Staged(kind)

Working == [step : {"copy", "prune"}, kind : Kinds3, left : SUBSET Names,
            staged : SUBSET (Skills \cup AgentFiles), kinds : {<<>>, <<"agents">>},
            resolved : SUBSET Skills, known : BOOLEAN]

\* Where in its layout an apply is.
Where ==
  \/ apply.kind = "commands" /\ apply.kinds = <<"agents">> /\ Layout = <<"commands", "agents">>
  \/ apply.kind = "agents" /\ apply.kinds = <<>> /\ Layout = <<"commands", "agents">>
  \/ apply.kind = "commands" /\ apply.kinds = <<>> /\ Layout = <<"commands">>
  \/ apply.kind = "skills" /\ apply.kinds = <<>> /\ Layout = <<"skills">>

SurfTyped ==
  /\ source \subseteq Skills /\ profile \subseteq {"core", "standard", Full}
  /\ surface \in Surfaces \cup {NoSurface, BrokenSurface}
  /\ installed \in [Kinds3 -> SUBSET Names] /\ fresh \in BOOLEAN
  /\ apply \in {NoApply, [step |-> "resolve"]} \cup Working
  /\ apply \in Working => Where

\* What the user keeps is there, and nothing of it is about to be removed.
UserKept ==
  /\ UserNames \subseteq installed["skills"]
  /\ UserNames \ UserPrefixed \subseteq installed["agents"]
  /\ apply \in Working /\ apply.step = "prune" =>
       apply.left \subseteq Prunable(apply.kind, apply.known)

\* An apply that read the manifest and lost nothing: what is copied is what is wanted, what
\* is to be removed is the rest, and the kind before this one is complete.
ApplyExact ==
  apply \in Working /\ fresh =>
    /\ apply.known = TRUE /\ apply.resolved = Wanted /\ apply.staged = Staged(apply.kind)
    /\ apply.step = "copy" => apply.staged \subseteq installed[apply.kind] \cup apply.left
    /\ apply.step = "prune" =>
         /\ apply.staged \subseteq installed[apply.kind] /\ apply.left \cap apply.staged = {}
         /\ installed[apply.kind] \cap Prunable(apply.kind, TRUE) \subseteq apply.staged \cup apply.left
    /\ apply.kind = "agents" => Complete("commands")

AllShown == apply = NoApply /\ fresh => \A i \in DOMAIN Layout : Complete(Layout[i])

SurfInv ==
  /\ SurfTyped /\ UserKept /\ ApplyExact /\ AllShown
  /\ apply.step = "resolve" => ~ fresh

\* The layouts there are.
LEMMA Layouts == Layout \in {<<"commands", "agents">>, <<"commands">>, <<>>, <<"skills">>}
  BY DEF Layout, ResolveRuntimeArtifactLayout

\* What is resolved are skills.
LEMMA ClosureFacts ==
  ASSUME SurfTyped, NEW base \in SUBSET Skills, NEW known \in BOOLEAN
  PROVE  /\ ComputeClosure(base, known) \subseteq Skills
         /\ base \subseteq ComputeClosure(base, known)
         /\ \A t \in ComputeClosure(base, known) :
              Deps(known, t) \subseteq ComputeClosure(base, known)
<1>1. \A t \in Skills : Deps(known, t) \subseteq Skills
  BY SurfaceAssumption DEF SurfaceAssumption, Deps
<1> QED BY <1>1 DEF ComputeClosure

\* So with the profiles, whose skills are closed under what of the manifest they require.
LEMMA ProfileFacts ==
  ASSUME SurfTyped, NEW names \in SUBSET {"core", "standard", Full}, NEW known \in BOOLEAN
  PROVE  /\ ResolveProfile(names, known) \subseteq Skills
         /\ \A t \in ResolveProfile(names, known) :
              Deps(known, t) \cap LoadSkillsManifest(known) \subseteq ResolveProfile(names, known)
<1>1. LoadSkillsManifest(known) \subseteq Skills
  BY DEF LoadSkillsManifest, SurfTyped
<1>2. \A p \in {"core", "standard"} : Profiles[p] \in SUBSET Skills
  BY SurfaceAssumption DEF SurfaceAssumption
<1>3. \A p \in {"core", "standard"} :
        /\ ComputeClosure(Profiles[p], known) \subseteq Skills
        /\ \A t \in ComputeClosure(Profiles[p], known) :
             Deps(known, t) \subseteq ComputeClosure(Profiles[p], known)
  BY <1>2, ClosureFacts
<1>4. CASE Full \in names \/ names \cap {"core", "standard"} = {}
  BY <1>1, <1>4 DEF ResolveProfile
<1>5. CASE ~ (Full \in names \/ names \cap {"core", "standard"} = {})
  <2>1. ResolveProfile(names, known) =
          UNION {ComputeClosure(Profiles[p], known) : p \in names \cap {"core", "standard"}}
    BY <1>5 DEF ResolveProfile
  <2> QED BY <1>3, <2>1
<1> QED BY <1>4, <1>5

\* What is listed are skills; where nothing is disabled or removed, it is closed under what
\* its skills require.
LEMMA ResolvedFacts ==
  ASSUME SurfTyped, NEW known \in BOOLEAN
  PROVE  /\ ResolveSurface(known) \subseteq Skills
         /\ ReadSurface = NoSurface \/ (surface.disabled = {} /\ surface.removes = {}) =>
              \A t \in ResolveSurface(known) :
                Deps(known, t) \cap LoadSkillsManifest(known) \subseteq ResolveSurface(known)
<1>1. ReadActiveProfile \in SUBSET {"core", "standard", Full}
  BY DEF ReadActiveProfile, SurfTyped
<1>2. CASE ReadSurface = NoSurface
  BY <1>1, <1>2, ProfileFacts DEF ResolveSurface
<1>3. CASE ReadSurface # NoSurface
  <2>1. surface \in Surfaces
    BY <1>3 DEF ReadSurface, SurfTyped, BrokenSurface, NoSurface
  <2> DEFINE base == IF surface.base = {} THEN ReadActiveProfile ELSE surface.base
             remaining == ResolveProfile(base, known) \ ClustersToSkills(surface.disabled)
             added == ComputeClosure(surface.adds, known)
  <2>2. ResolveSurface(known) = (remaining \cup added) \ surface.removes
    BY <1>3 DEF ResolveSurface
  <2>3. base \in SUBSET {"core", "standard", Full} /\ surface.adds \in SUBSET Skills
    BY <1>1, <2>1 DEF Surfaces
  <2>4. /\ ResolveProfile(base, known) \subseteq Skills
        /\ \A t \in ResolveProfile(base, known) :
             Deps(known, t) \cap LoadSkillsManifest(known) \subseteq ResolveProfile(base, known)
    BY <2>3, ProfileFacts
  <2>5. added \subseteq Skills /\ \A t \in added : Deps(known, t) \subseteq added
    BY <2>3, ClosureFacts
  <2>6. surface.disabled = {} => ClustersToSkills(surface.disabled) = {}
    BY DEF ClustersToSkills
  <2> HIDE DEF base, added
  <2> QED BY <1>3, <2>2, <2>4, <2>5, <2>6
<1> QED BY <1>2, <1>3

\* The property, in a state that is settled.
LEMMA AllShownIsListed == ASSUME SurfInv PROVE ShownIsListed
<1>1. ASSUME apply = NoApply, fresh, NEW k, LaidOut(k) PROVE Complete(k)
  BY <1>1 DEF SurfInv, AllShown, LaidOut, Layout
<1>2. Wanted \subseteq Skills /\ ListSurface.enabled = source \cap Wanted
  BY ResolvedFacts DEF Wanted, SurfInv, ListSurface
<1>3. Staged("skills") = ListSurface.enabled /\ Staged("commands") = ListSurface.enabled
  BY <1>2 DEF Staged, StageSkills
<1>4. Staged("agents") = AgentsOf(ListSurface.enabled, TRUE)
  <2>1. AgentsOf(ListSurface.enabled, TRUE) = AgentsOf(Wanted, TRUE)
    BY <1>2 DEF AgentsOf, LoadSkillsManifest
  <2>2. AgentsOf(Wanted, TRUE) \subseteq AgentFiles
    BY <1>2, SurfaceAssumption DEF AgentsOf, SurfaceAssumption
  <2> QED BY <2>1, <2>2 DEF Staged, StageAgents
<1>5. ASSUME apply = NoApply, fresh
      PROVE  /\ LaidOut("skills") => installed["skills"] \cap source = ListSurface.enabled
             /\ LaidOut("commands") => installed["commands"] = ListSurface.enabled
             /\ LaidOut("agents") =>
                  installed["agents"] \cap AgentFiles = AgentsOf(ListSurface.enabled, TRUE)
  <2>1. LaidOut("skills") => installed["skills"] \cap source = ListSurface.enabled
    BY <1>1, <1>2, <1>3, <1>5 DEF Complete, Prunable, LoadSkillsManifest
  <2>2. LaidOut("commands") => installed["commands"] = ListSurface.enabled
    <3>1. installed["commands"] \subseteq Names
      BY DEF SurfInv, SurfTyped, Kinds3
    <3> QED BY <1>1, <1>3, <1>5, <3>1 DEF Complete, Prunable
  <2>3. LaidOut("agents") =>
          installed["agents"] \cap AgentFiles = AgentsOf(ListSurface.enabled, TRUE)
    <3>1. Staged("agents") \subseteq AgentFiles
      BY DEF Staged, StageAgents
    <3> QED BY <1>1, <1>4, <1>5, <3>1 DEF Complete, Prunable
  <2> QED BY <2>1, <2>2, <2>3
<1>6. ASSUME ReadSurface = NoSurface \/ (surface.disabled = {} /\ surface.removes = {}),
             NEW s \in ListSurface.enabled
      PROVE  Requires[s] \cap source \subseteq ListSurface.enabled
  <2>1. Deps(TRUE, s) \cap LoadSkillsManifest(TRUE) \subseteq Wanted
    BY <1>2, <1>6, ResolvedFacts DEF SurfInv, Wanted
  <2> QED BY <1>2, <2>1, <1>6 DEF Deps, LoadSkillsManifest
<1> QED BY <1>5, <1>6 DEF ShownIsListed, SurfInv, UserKept

\* The first state: no command has been given.
LEMMA SurfInitInv == SurfaceInit => SurfInv
<1> SUFFICES ASSUME SurfaceInit PROVE SurfInv
  OBVIOUS
<1>1. /\ source \subseteq Skills /\ profile \subseteq {"core", "standard", Full}
      /\ surface \in Surfaces \cup {NoSurface, BrokenSurface}
  BY SurfaceAssumption DEF SurfaceInit, SurfaceAssumption
<1>2. ResolveProfile(ReadActiveProfile, TRUE) \subseteq Skills
  <2>1. ReadActiveProfile \in SUBSET {"core", "standard", Full}
    BY <1>1 DEF ReadActiveProfile
  <2>2. LoadSkillsManifest(TRUE) \subseteq Skills
    BY <1>1 DEF LoadSkillsManifest
  <2> QED BY <2>1, <2>2 DEF ResolveProfile, ComputeClosure
<1>3. installed \in [Kinds3 -> SUBSET Names]
  BY <1>2 DEF SurfaceInit, Names
<1>4. UserNames \subseteq installed["skills"] /\ UserNames \subseteq installed["agents"]
  BY DEF SurfaceInit, Kinds3
<1>5. apply = NoApply /\ fresh = FALSE /\ apply \notin Working /\ apply.step = "idle"
  BY DEF SurfaceInit, NoApply, Working
<1> QED BY <1>1, <1>3, <1>4, <1>5 DEF SurfInv, SurfTyped, UserKept, ApplyExact, AllShown

\* An apply that is no longer under way, or has not begun, promises nothing while it is not
\* fresh.
LEMMA NotFresh ==
  ASSUME SurfInv, SurfTyped', fresh' = FALSE, installed' = installed, apply' \notin Working
  PROVE  SurfInv'
  BY DEF SurfInv, UserKept, ApplyExact, AllShown

\* A command writes the surface file.
LEMMA CommandInv ==
  ASSUME SurfInv, NEW file \in Surfaces \cup {NoSurface}, Command(file)
  PROVE  SurfInv'
<1>1. /\ surface' = file /\ apply' = [step |-> "resolve"] /\ fresh' = FALSE
      /\ UNCHANGED <<runtime, source, profile, installed>>
  BY DEF Command
<1>2. apply' \notin Working
  BY <1>1 DEF Working
<1>3. SurfTyped'
  BY <1>1, <1>2 DEF SurfInv, SurfTyped
<1> QED BY <1>1, <1>2, <1>3, NotFresh

\* The file that a command writes.
LEMMA Commands ==
  ASSUME SurfInv,
         \/ \E names \in SUBSET {"core", "standard", Full} : SetProfile(names)
         \/ \E c \in DOMAIN Clusters : Disable(c) \/ Enable(c)
         \/ Reset
  PROVE  SurfInv'
<1>1. surface \in Surfaces \cup {NoSurface, BrokenSurface} /\ profile \subseteq {"core", "standard", Full}
  BY DEF SurfInv, SurfTyped
<1>2. ReadSurface # NoSurface => surface \in Surfaces
  BY <1>1 DEF ReadSurface, NoSurface, BrokenSurface
<1>3. Seeded \in Surfaces
  <2>1. ReadActiveProfile \in SUBSET {"core", "standard", Full}
    BY <1>1 DEF ReadActiveProfile
  <2> QED BY <1>2, <2>1 DEF Seeded, SurfaceOf, Surfaces
<1>4. ASSUME NEW names \in SUBSET {"core", "standard", Full}, SetProfile(names) PROVE SurfInv'
  <2>1. [Seeded EXCEPT !.base = names] \in Surfaces
    BY <1>3 DEF Surfaces
  <2> QED BY <1>4, <2>1, CommandInv DEF SetProfile
<1>5. ASSUME NEW c \in DOMAIN Clusters, Disable(c) PROVE SurfInv'
  <2>1. [Seeded EXCEPT !.disabled = @ \cup {c}] \in Surfaces
    BY <1>3 DEF Surfaces
  <2> QED BY <1>5, <2>1, CommandInv DEF Disable
<1>6. ASSUME NEW c \in DOMAIN Clusters, Enable(c) PROVE SurfInv'
  <2>1. [surface EXCEPT !.disabled = @ \ {c}] \in Surfaces
    BY <1>2, <1>6 DEF Surfaces, Enable
  <2> QED BY <1>6, <2>1, CommandInv DEF Enable
<1>7. ASSUME Reset PROVE SurfInv'
  BY <1>7, CommandInv DEF Reset
<1> QED BY <1>4, <1>5, <1>6, <1>7

\* The next kind begins with all its entries to be copied.
LEMMA NextKindFacts ==
  ASSUME NEW k \in Kinds3, NEW kinds, NEW rest, NEW resolved \in SUBSET Skills, NEW known \in BOOLEAN,
         SurfTyped,
         \/ kinds = <<k>> /\ rest = <<>>
         \/ k = "commands" /\ kinds = <<k, "agents">> /\ rest = <<"agents">>
  PROVE  LET next == NextKind(kinds, resolved, known)
             staged == IF k = "agents" THEN StageAgents(resolved, known) ELSE StageSkills(resolved)
         IN /\ next \in Working /\ next # NoApply /\ staged \in SUBSET (Skills \cup AgentFiles)
            /\ next = [step |-> "copy", kind |-> k, left |-> staged, staged |-> staged, kinds |-> rest,
                       resolved |-> resolved, known |-> known]
<1> DEFINE staged == IF k = "agents" THEN StageAgents(resolved, known) ELSE StageSkills(resolved)
<1>1. staged \in SUBSET (Skills \cup AgentFiles) /\ staged \in SUBSET Names
  BY DEF StageAgents, StageSkills, Names
<1>2. kinds # <<>> /\ kinds[1] = k /\ (IF Len(kinds) = 1 THEN <<>> ELSE Tail(kinds)) = rest
  <2>1. CASE kinds = <<k>> /\ rest = <<>>
    BY <2>1
  <2>2. CASE kinds = <<k, "agents">> /\ rest = <<"agents">>
    <3>1. Tail(<<k, "agents">>) = <<"agents">>
      OBVIOUS
    <3> QED BY <2>2, <3>1
  <2> QED BY <2>1, <2>2
<1>3. NextKind(kinds, resolved, known) =
        [step |-> "copy", kind |-> k, left |-> staged, staged |-> staged, kinds |-> rest,
         resolved |-> resolved, known |-> known]
  BY <1>2 DEF NextKind
<1>4. rest \in {<<>>, <<"agents">>}
  OBVIOUS
<1> HIDE DEF staged
<1>5. NextKind(kinds, resolved, known) \in Working
  BY <1>1, <1>3, <1>4 DEF Working
<1>6. NextKind(kinds, resolved, known) # NoApply
  BY <1>3 DEF NoApply
<1> QED BY <1>1, <1>3, <1>5, <1>6 DEF staged

\* The kinds of the layout, from the first on.
LEMMA ApplyInv == ASSUME SurfInv, NEW known \in BOOLEAN, ApplySurface(known) PROVE SurfInv'
<1>1. /\ apply' = NextKind(Layout, ResolveSurface(known), known) /\ fresh' = known
      /\ UNCHANGED <<runtime, source, surface, profile, installed>>
  BY DEF ApplySurface, Layout
<1>2. ResolveSurface(known) \in SUBSET Skills
  BY ResolvedFacts DEF SurfInv
<1>3. Layout' = Layout /\ Wanted' = Wanted /\ \A k : Staged(k)' = Staged(k)
  BY <1>1 DEF Layout, Wanted, Staged, StageAgents, StageSkills, AgentsOf, LoadSkillsManifest,
              ResolveSurface, ReadSurface, ReadActiveProfile, ResolveProfile, ComputeClosure, Deps
<1>4. CASE Layout = <<>>
  <2>1. apply' = NoApply
    BY <1>1, <1>4 DEF NextKind
  <2>2. apply' \notin Working /\ apply'.step = "idle"
    BY <2>1 DEF NoApply, Working
  <2>3. SurfTyped'
    BY <1>1, <2>1, <2>2 DEF SurfInv, SurfTyped
  <2>4. DOMAIN Layout' = {}
    BY <1>3, <1>4
  <2> QED BY <1>1, <2>2, <2>3, <2>4 DEF SurfInv, UserKept, ApplyExact, AllShown
<1>5. ASSUME NEW k \in {"commands", "skills"}, NEW rest,
             \/ Layout = <<k>> /\ rest = <<>>
             \/ k = "commands" /\ Layout = <<k, "agents">> /\ rest = <<"agents">>
      PROVE  SurfInv'
  <2>1. k \in Kinds3 /\ k # "agents" /\ SurfTyped
    BY DEF Kinds3, SurfInv
  <2>2. /\ apply' \in Working /\ apply' # NoApply
        /\ apply' = [step |-> "copy", kind |-> k, left |-> StageSkills(ResolveSurface(known)),
                     staged |-> StageSkills(ResolveSurface(known)), kinds |-> rest,
                     resolved |-> ResolveSurface(known), known |-> known]
    BY <1>1, <1>2, <1>5, <2>1, NextKindFacts
  <2>3. Where'
    BY <1>3, <1>5, <2>2 DEF Where
  <2>4. SurfTyped'
    BY <1>1, <2>2, <2>3 DEF SurfInv, SurfTyped
  <2>5. UserKept' /\ AllShown'
    BY <1>1, <2>2 DEF SurfInv, UserKept, AllShown
  <2>6. ApplyExact'
    <3>1. fresh' => known = TRUE /\ Staged(k) = StageSkills(ResolveSurface(known))
                    /\ Wanted = ResolveSurface(known)
      BY <1>1, <2>1 DEF Wanted, Staged
    <3> QED BY <1>3, <2>1, <2>2, <3>1 DEF ApplyExact
  <2>7. apply'.step = "copy"
    BY <2>2
  <2> QED BY <2>4, <2>5, <2>6, <2>7 DEF SurfInv
<1> QED BY <1>4, <1>5, Layouts

\* While an apply is at work the sources of what is wanted stay as they are.
LEMMA WantedStays ==
  ASSUME UNCHANGED <<runtime, source, surface, profile>>
  PROVE  /\ Layout' = Layout /\ Wanted' = Wanted
         /\ \A k : Staged(k)' = Staged(k)
         /\ \A k, known : Prunable(k, known)' = Prunable(k, known)
  BY DEF Layout, Wanted, Staged, StageAgents, StageSkills, AgentsOf, LoadSkillsManifest,
         ResolveSurface, ReadSurface, ReadActiveProfile, ResolveProfile, ComputeClosure, Deps, Prunable

\* What the user keeps could not be removed.
LEMMA UserNotPrunable ==
  ASSUME SurfTyped, NEW known \in BOOLEAN
  PROVE  /\ UserNames \cap Prunable("skills", known) = {}
         /\ (UserNames \ UserPrefixed) \cap Prunable("agents", known) = {}
<1>1. UserNames \cap Skills = {} /\ UserNames \cap AgentFiles = {}
  BY SurfaceAssumption DEF SurfaceAssumption
<1> QED BY <1>1 DEF Prunable, LoadSkillsManifest, SurfTyped

\* An entry is copied.
LEMMA CopyInv == ASSUME SurfInv, NEW n \in Names, CopyEntry(n) PROVE SurfInv'
<1>1. /\ apply.step = "copy" /\ n \in apply.left
      /\ installed' = [installed EXCEPT ![apply.kind] = @ \cup {n}]
      /\ apply' = [apply EXCEPT !.left = @ \ {n}]
      /\ UNCHANGED <<runtime, source, surface, profile, fresh>>
  BY DEF CopyEntry
<1>2. apply \in Working /\ Where
  BY <1>1 DEF SurfInv, SurfTyped, NoApply
<1>3. PICK kind \in Kinds3 : kind = apply.kind
  BY <1>2 DEF Working
<1>4. /\ apply' \in Working /\ apply' # NoApply /\ apply'.step = "copy" /\ apply'.kind = kind
      /\ apply'.left = apply.left \ {n} /\ apply'.staged = apply.staged /\ apply'.kinds = apply.kinds
      /\ apply'.resolved = apply.resolved /\ apply'.known = apply.known
  BY <1>1, <1>2, <1>3 DEF Working, NoApply
<1>5. /\ installed' \in [Kinds3 -> SUBSET Names] /\ installed'[kind] = installed[kind] \cup {n}
      /\ \A k \in Kinds3 : k # kind => installed'[k] = installed[k]
      /\ \A k \in Kinds3 : installed[k] \subseteq installed'[k]
  BY <1>1, <1>3 DEF SurfInv, SurfTyped
<1>6. /\ Layout' = Layout /\ Wanted' = Wanted
      /\ \A k : Staged(k)' = Staged(k)
      /\ \A k, known : Prunable(k, known)' = Prunable(k, known)
  BY <1>1, WantedStays
<1>7. SurfTyped'
  <2>1. Where'
    BY <1>2, <1>3, <1>4, <1>6 DEF Where
  <2> QED BY <1>1, <1>4, <1>5, <2>1 DEF SurfInv, SurfTyped
<1>8. UserKept' /\ AllShown'
  BY <1>4, <1>5 DEF SurfInv, UserKept, AllShown, Kinds3
<1>9. ApplyExact'
  <2>1. SUFFICES ASSUME fresh PROVE ApplyExact'
    BY <1>1 DEF ApplyExact
  <2>2. /\ apply.known = TRUE /\ apply.resolved = Wanted /\ apply.staged = Staged(kind)
        /\ apply.staged \subseteq installed[kind] \cup apply.left
        /\ kind = "agents" => Complete("commands")
    BY <1>1, <1>2, <1>3, <2>1 DEF SurfInv, ApplyExact
  <2>3. apply'.staged \subseteq installed'[kind] \cup apply'.left
    BY <1>4, <1>5, <2>2
  <2>4. kind = "agents" => Complete("commands")'
    BY <1>5, <1>6, <2>2 DEF Complete, Kinds3
  <2> QED BY <1>3, <1>4, <1>6, <2>2, <2>3, <2>4 DEF ApplyExact
<1> QED BY <1>4, <1>7, <1>8, <1>9 DEF SurfInv

\* All is copied: what could be removed and is not staged is to be removed.
LEMMA CopyDoneInv == ASSUME SurfInv, CopyDone PROVE SurfInv'
<1>1. /\ apply.step = "copy" /\ apply.left = {}
      /\ apply' = [apply EXCEPT !.step = "prune",
           !.left = (installed[apply.kind] \cap Prunable(apply.kind, apply.known)) \ apply.staged]
      /\ UNCHANGED <<runtime, source, surface, profile, installed, fresh>>
  BY DEF CopyDone
<1>2. apply \in Working /\ Where
  BY <1>1 DEF SurfInv, SurfTyped, NoApply
<1>3. PICK kind \in Kinds3 : kind = apply.kind
  BY <1>2 DEF Working
<1>4. installed[kind] \subseteq Names
  BY DEF SurfInv, SurfTyped
<1>5. /\ apply' \in Working /\ apply' # NoApply /\ apply'.step = "prune" /\ apply'.kind = kind
      /\ apply'.left = (installed[kind] \cap Prunable(kind, apply.known)) \ apply.staged
      /\ apply'.staged = apply.staged /\ apply'.kinds = apply.kinds
      /\ apply'.resolved = apply.resolved /\ apply'.known = apply.known
  BY <1>1, <1>2, <1>3, <1>4 DEF Working, NoApply
<1>6. /\ Layout' = Layout /\ Wanted' = Wanted
      /\ \A k : Staged(k)' = Staged(k)
      /\ \A k, known : Prunable(k, known)' = Prunable(k, known)
  BY <1>1, WantedStays
<1>7. SurfTyped'
  <2>1. Where'
    BY <1>2, <1>3, <1>5, <1>6 DEF Where
  <2> QED BY <1>1, <1>5, <2>1 DEF SurfInv, SurfTyped
<1>8. UserKept' /\ AllShown'
  <2>1. apply'.left \subseteq Prunable(kind, apply.known)'
    BY <1>5, <1>6
  <2> QED BY <1>1, <1>5, <1>6 DEF SurfInv, UserKept, AllShown
<1>9. ApplyExact'
  <2>1. SUFFICES ASSUME fresh PROVE ApplyExact'
    BY <1>1 DEF ApplyExact
  <2>2. /\ apply.known = TRUE /\ apply.resolved = Wanted /\ apply.staged = Staged(kind)
        /\ apply.staged \subseteq installed[kind]
        /\ kind = "agents" => Complete("commands")
    BY <1>1, <1>2, <1>3, <2>1 DEF SurfInv, ApplyExact
  <2>3. kind = "agents" => Complete("commands")'
    BY <1>1, <1>6, <2>2 DEF Complete
  <2>4. installed[kind] \cap Prunable(kind, TRUE) \subseteq apply'.staged \cup apply'.left
    BY <1>5, <2>2
  <2> QED BY <1>1, <1>3, <1>5, <1>6, <2>2, <2>3, <2>4 DEF ApplyExact
<1> QED BY <1>5, <1>7, <1>8, <1>9 DEF SurfInv

\* An entry is removed, or its removal fails.
LEMMA PruneInv ==
  ASSUME SurfInv, NEW n \in Names, NEW fails \in BOOLEAN, PruneEntry(n, fails) PROVE SurfInv'
<1>1. /\ apply.step = "prune" /\ n \in apply.left
      /\ installed' = IF fails THEN installed ELSE [installed EXCEPT ![apply.kind] = @ \ {n}]
      /\ apply' = [apply EXCEPT !.left = @ \ {n}] /\ (fresh' <=> fresh /\ ~ fails)
      /\ UNCHANGED <<runtime, source, surface, profile>>
  BY DEF PruneEntry
<1>2. apply \in Working /\ Where
  BY <1>1 DEF SurfInv, SurfTyped, NoApply
<1>3. PICK kind \in Kinds3 : kind = apply.kind
  BY <1>2 DEF Working
<1>4. /\ apply' \in Working /\ apply' # NoApply /\ apply'.step = "prune" /\ apply'.kind = kind
      /\ apply'.left = apply.left \ {n} /\ apply'.staged = apply.staged /\ apply'.kinds = apply.kinds
      /\ apply'.resolved = apply.resolved /\ apply'.known = apply.known
  BY <1>1, <1>2, <1>3 DEF Working, NoApply
<1>5. /\ installed' \in [Kinds3 -> SUBSET Names]
      /\ installed'[kind] = IF fails THEN installed[kind] ELSE installed[kind] \ {n}
      /\ \A k \in Kinds3 : k # kind => installed'[k] = installed[k]
  BY <1>1, <1>3 DEF SurfInv, SurfTyped
<1>6. /\ Layout' = Layout /\ Wanted' = Wanted
      /\ \A k : Staged(k)' = Staged(k)
      /\ \A k, known : Prunable(k, known)' = Prunable(k, known)
  BY <1>1, WantedStays
<1>7. fresh' \in BOOLEAN
  BY DEF PruneEntry, SurfInv, SurfTyped
<1>8. SurfTyped'
  <2>1. Where'
    BY <1>2, <1>3, <1>4, <1>6 DEF Where
  <2> QED BY <1>1, <1>4, <1>5, <1>7, <2>1 DEF SurfInv, SurfTyped
<1>9. UserKept' /\ AllShown'
  <2>1. n \in Prunable(kind, apply.known) /\ apply.left \subseteq Prunable(kind, apply.known)
    BY <1>1, <1>2, <1>3 DEF SurfInv, UserKept
  <2>2. (kind = "skills" => n \notin UserNames) /\ (kind = "agents" => n \notin UserNames \ UserPrefixed)
    <3>1. apply.known \in BOOLEAN
      BY <1>2 DEF Working
    <3> QED BY <2>1, <3>1, UserNotPrunable DEF SurfInv
  <2>3. UserNames \subseteq installed'["skills"] /\ UserNames \ UserPrefixed \subseteq installed'["agents"]
    BY <1>5, <2>2 DEF SurfInv, UserKept, Kinds3
  <2> QED BY <1>4, <1>6, <2>1, <2>3 DEF UserKept, AllShown
<1>10. ApplyExact'
  <2>1. SUFFICES ASSUME fresh, ~ fails PROVE ApplyExact'
    BY <1>1 DEF ApplyExact
  <2>2. /\ apply.known = TRUE /\ apply.resolved = Wanted /\ apply.staged = Staged(kind)
        /\ apply.staged \subseteq installed[kind] /\ apply.left \cap apply.staged = {}
        /\ installed[kind] \cap Prunable(kind, TRUE) \subseteq apply.staged \cup apply.left
        /\ kind = "agents" => Complete("commands")
    BY <1>1, <1>2, <1>3, <2>1 DEF SurfInv, ApplyExact
  <2>3. kind = "agents" => Complete("commands")'
    BY <1>5, <1>6, <2>2 DEF Complete, Kinds3
  <2>4. installed'[kind] = installed[kind] \ {n} /\ n \in apply.left
    BY <1>1, <1>5, <2>1
  <2>5. apply'.staged \subseteq installed'[kind] /\ apply'.left \cap apply'.staged = {}
    BY <1>4, <2>2, <2>4
  <2>6. installed'[kind] \cap Prunable(kind, TRUE) \subseteq apply'.staged \cup apply'.left
    BY <1>4, <2>2, <2>4
  <2> QED BY <1>3, <1>4, <1>6, <2>2, <2>3, <2>5, <2>6 DEF ApplyExact
<1> QED BY <1>4, <1>8, <1>9, <1>10 DEF SurfInv

\* All is removed: the kind is complete, and it is the turn of the next, or the end.
LEMMA PruneDoneInv == ASSUME SurfInv, PruneDone PROVE SurfInv'
<1>1. /\ apply.step = "prune" /\ apply.left = {}
      /\ apply' = NextKind(apply.kinds, apply.resolved, apply.known)
      /\ UNCHANGED <<runtime, source, surface, profile, installed, fresh>>
  BY DEF PruneDone
<1>2. apply \in Working /\ Where
  BY <1>1 DEF SurfInv, SurfTyped, NoApply
<1>3. apply.kind \in Kinds3 /\ apply.resolved \in SUBSET Skills /\ apply.known \in BOOLEAN
  BY <1>2 DEF Working
<1>4. /\ Layout' = Layout /\ Wanted' = Wanted
      /\ \A k : Staged(k)' = Staged(k)
      /\ \A k, known : Prunable(k, known)' = Prunable(k, known)
  BY <1>1, WantedStays
<1>5. ASSUME fresh
      PROVE  /\ apply.known = TRUE /\ apply.resolved = Wanted
             /\ Complete(apply.kind) /\ (apply.kind = "agents" => Complete("commands"))
  BY <1>1, <1>2, <1>5 DEF SurfInv, ApplyExact, Complete
<1>6. \A k : Complete(k)' <=> Complete(k)
  BY <1>1, <1>4 DEF Complete
<1>7. CASE apply.kinds = <<>>
  <2>1. apply' = NoApply
    BY <1>1, <1>7 DEF NextKind
  <2>2. apply' \notin Working /\ apply'.step = "idle"
    BY <2>1 DEF NoApply, Working
  <2>3. SurfTyped'
    BY <1>1, <2>1, <2>2 DEF SurfInv, SurfTyped
  <2>4. fresh => \A i \in DOMAIN Layout : Complete(Layout[i])
    <3>1. SUFFICES ASSUME fresh, NEW i \in DOMAIN Layout PROVE Complete(Layout[i])
      OBVIOUS
    <3>2. \/ apply.kind = "agents" /\ Layout = <<"commands", "agents">>
          \/ apply.kind = "commands" /\ Layout = <<"commands">>
          \/ apply.kind = "skills" /\ Layout = <<"skills">>
      BY <1>2, <1>7 DEF Where
    <3>3. Layout[i] \in {apply.kind} \cup (IF apply.kind = "agents" THEN {"commands"} ELSE {})
      BY <3>1, <3>2
    <3> QED BY <1>5, <3>1, <3>3
  <2>5. AllShown'
    BY <1>1, <1>4, <1>6, <2>4 DEF AllShown
  <2> QED BY <1>1, <2>2, <2>3, <2>5 DEF SurfInv, UserKept, ApplyExact
<1>8. CASE apply.kinds # <<>>
  <2>1. apply.kind = "commands" /\ apply.kinds = <<"agents">> /\ Layout = <<"commands", "agents">>
    BY <1>2, <1>8 DEF Where
  <2>2. "agents" \in Kinds3 /\ SurfTyped
    BY DEF Kinds3, SurfInv
  <2>3. /\ apply' \in Working /\ apply' # NoApply
        /\ apply' = [step |-> "copy", kind |-> "agents", left |-> StageAgents(apply.resolved, apply.known),
                     staged |-> StageAgents(apply.resolved, apply.known), kinds |-> <<>>,
                     resolved |-> apply.resolved, known |-> apply.known]
    <3>1. PICK resolved \in SUBSET Skills, known \in BOOLEAN :
            resolved = apply.resolved /\ known = apply.known
      BY <1>3
    <3>2. /\ NextKind(<<"agents">>, resolved, known) \in Working
          /\ NextKind(<<"agents">>, resolved, known) # NoApply
          /\ NextKind(<<"agents">>, resolved, known) =
               [step |-> "copy", kind |-> "agents", left |-> StageAgents(resolved, known),
                staged |-> StageAgents(resolved, known), kinds |-> <<>>,
                resolved |-> resolved, known |-> known]
      BY <2>2, NextKindFacts
    <3> QED BY <1>1, <2>1, <3>1, <3>2
  <2>4. Where'
    BY <1>4, <2>1, <2>3 DEF Where
  <2>5. SurfTyped'
    BY <1>1, <2>3, <2>4 DEF SurfInv, SurfTyped
  <2>6. UserKept' /\ AllShown'
    BY <1>1, <2>3 DEF SurfInv, UserKept, AllShown
  <2>7. ApplyExact'
    <3>1. fresh => Staged("agents") = StageAgents(apply.resolved, apply.known)
      BY <1>5 DEF Staged
    <3>2. fresh => Complete("commands")'
      BY <1>5, <1>6, <2>1
    <3>3. /\ apply'.step = "copy" /\ apply'.kind = "agents" /\ apply'.left = apply'.staged
          /\ apply'.staged = StageAgents(apply.resolved, apply.known)
          /\ apply'.resolved = apply.resolved /\ apply'.known = apply.known
      BY <2>3
    <3>4. fresh => /\ apply'.known = TRUE /\ apply'.resolved = Wanted' /\ apply'.staged = Staged("agents")'
      BY <1>4, <1>5, <3>1, <3>3
    <3>5. apply'.staged \subseteq installed'["agents"] \cup apply'.left
      BY <3>3
    <3> QED BY <1>1, <3>2, <3>3, <3>4, <3>5 DEF ApplyExact
  <2>8. apply'.step = "copy"
    BY <2>3
  <2> QED BY <2>5, <2>6, <2>7, <2>8 DEF SurfInv
<1> QED BY <1>7, <1>8

\* Every step keeps the invariant.
LEMMA SurfStep == SurfInv /\ [SurfaceNext]_surfaceVars => SurfInv'
<1> SUFFICES ASSUME SurfInv, [SurfaceNext]_surfaceVars PROVE SurfInv'
  OBVIOUS
<1>1. ASSUME Stop PROVE SurfInv'
  <2>1. /\ apply' = NoApply /\ fresh' = FALSE
        /\ UNCHANGED <<runtime, source, surface, profile, installed>>
    BY <1>1 DEF Stop
  <2>2. apply' \notin Working
    BY <2>1 DEF NoApply, Working
  <2>3. SurfTyped'
    BY <2>1, <2>2 DEF SurfInv, SurfTyped
  <2> QED BY <2>1, <2>2, <2>3, NotFresh
<1>2. ASSUME NEW s \in Skills, SourceChanges(s) PROVE SurfInv'
  <2>1. /\ apply = NoApply /\ fresh' = FALSE /\ source' \subseteq Skills
        /\ UNCHANGED <<runtime, surface, profile, installed, apply>>
    BY <1>2 DEF SourceChanges, SurfInv, SurfTyped
  <2>2. apply' \notin Working
    BY <2>1 DEF NoApply, Working
  <2>3. SurfTyped'
    BY <2>1, <2>2 DEF SurfInv, SurfTyped
  <2> QED BY <2>1, <2>2, <2>3, NotFresh
<1>3. ASSUME UNCHANGED surfaceVars PROVE SurfInv'
  <2>1. UNCHANGED <<runtime, source, surface, profile, installed, apply, fresh>>
    BY <1>3 DEF surfaceVars
  <2>2. /\ Layout' = Layout /\ Wanted' = Wanted
        /\ \A k : Staged(k)' = Staged(k)
        /\ \A k, known : Prunable(k, known)' = Prunable(k, known)
    BY <2>1, WantedStays
  <2>3. SurfTyped' /\ UserKept'
    BY <2>1, <2>2 DEF SurfInv, SurfTyped, UserKept, Where
  <2>4. \A k : Complete(k)' <=> Complete(k)
    BY <2>1, <2>2 DEF Complete
  <2>5. ApplyExact' /\ AllShown'
    BY <2>1, <2>2, <2>4 DEF SurfInv, ApplyExact, AllShown
  <2> QED BY <2>1, <2>3, <2>5 DEF SurfInv
<1>4. ASSUME NEW names \in {{"core"}, {"standard"}, {"core", "standard"}, {Full}}, SetProfile(names)
      PROVE  SurfInv'
  BY <1>4, Commands
<1> QED BY <1>1, <1>2, <1>3, <1>4, Commands, ApplyInv, CopyInv, CopyDoneInv, PruneInv, PruneDoneInv
        DEF SurfaceNext

\* After an apply that went through, the runtime shows what /gsd-surface lists, with what it
\* needs, and nothing of the user's is lost on the way, for every manifest and every layout.
THEOREM ListedIsShown == SurfaceSpec => []ShownIsListed
<1>1. SurfInv => ShownIsListed
  BY AllShownIsListed
<1> QED BY <1>1, SurfInitInv, SurfStep, PTL DEF SurfaceSpec

\* What SurfInv does not say of the types: the runtime and the bounds.
StepsBounded ==
  /\ runtime \in Runtimes
  /\ surfaceSteps \in 0 .. MaxSurfaceSteps /\ surfaceFaults \in 0 .. MaxSurfaceFaults

LEMMA StepsBoundedStep == StepsBounded /\ [SurfaceNext]_surfaceVars => StepsBounded'
<1> SUFFICES ASSUME StepsBounded, [SurfaceNext]_surfaceVars PROVE StepsBounded'
  OBVIOUS
<1>1. MaxSurfaceSteps \in Nat /\ MaxSurfaceFaults \in Nat
  BY SurfaceAssumption
<1>2. ASSUME NEW file, Command(file) PROVE StepsBounded'
  BY <1>1, <1>2 DEF Command, StepsBounded
<1>3. CASE \/ \E names \in {{"core"}, {"standard"}, {"core", "standard"}, {Full}} : SetProfile(names)
           \/ \E c \in DOMAIN Clusters : Disable(c) \/ Enable(c)
           \/ Reset
  BY <1>2, <1>3 DEF SetProfile, Disable, Enable, Reset
<1>4. ASSUME NEW known \in BOOLEAN, ApplySurface(known) PROVE StepsBounded'
  BY <1>4 DEF ApplySurface, StepsBounded
<1>5. ASSUME NEW n \in Names, CopyEntry(n) PROVE StepsBounded'
  BY <1>5 DEF CopyEntry, StepsBounded
<1>6. ASSUME NEW n \in Names, NEW fails \in BOOLEAN, PruneEntry(n, fails) PROVE StepsBounded'
  BY <1>1, <1>6 DEF PruneEntry, StepsBounded
<1>7. CASE CopyDone
  BY <1>7 DEF CopyDone, StepsBounded
<1>8. CASE PruneDone
  BY <1>8 DEF PruneDone, StepsBounded
<1>9. ASSUME Stop PROVE StepsBounded'
  BY <1>1, <1>9 DEF Stop, StepsBounded
<1>10. ASSUME NEW s \in Skills, SourceChanges(s) PROVE StepsBounded'
  BY <1>1, <1>10 DEF SourceChanges, StepsBounded
<1>11. CASE UNCHANGED surfaceVars
  BY <1>11 DEF surfaceVars, StepsBounded
<1> QED BY <1>3, <1>4, <1>5, <1>6, <1>7, <1>8, <1>9, <1>10, <1>11 DEF SurfaceNext

\* The surface is a file of its shape, absent or broken, and an apply works through the
\* kinds there are with names that are known.
THEOREM SurfaceTyped == SurfaceSpec => []SurfaceTypeOK
<1>1. SurfaceInit => StepsBounded
  <2>1. SurfaceInit => runtime \in Runtimes /\ surfaceSteps = 0 /\ surfaceFaults = 0
    BY DEF SurfaceInit
  <2>2. 0 \in 0 .. MaxSurfaceSteps /\ 0 \in 0 .. MaxSurfaceFaults
    BY SurfaceAssumption
  <2> QED BY <2>1, <2>2, Zenon DEF StepsBounded
<1>2. SurfInv /\ StepsBounded => SurfaceTypeOK
  BY DEF SurfInv, SurfTyped, StepsBounded, SurfaceTypeOK, NoApply, Working
<1> QED BY <1>1, <1>2, SurfInitInv, SurfStep, StepsBoundedStep, PTL DEF SurfaceSpec

----------------------------------------------------------------------------
(* MCTooling.                                                              *)

\* A step of the composition is one of each component, or leaves it as it is.
LEMMA ToolingStep ==
  [ToolingNext]_toolingVars =>
    /\ part' = part
    /\ [WorktreeNext]_wtVars
    /\ [InstallerNext]_installVars
    /\ [StreamNext]_streamVars
    /\ [SurfaceNext]_surfaceVars
    /\ [OpenNext]_openVars
    /\ [DriftNext]_driftVars
    /\ [MonitorNext]_monitorVars
    /\ [UpdateNext]_updateVars
<1>1. CASE UNCHANGED toolingVars
  BY <1>1 DEF toolingVars
<1>2. CASE ToolingNext
  BY <1>2 DEF ToolingNext, Rest
<1> QED BY <1>1, <1>2

\* A behaviour of the composition is one of each of its components: whatever is proved
\* of a component, for every value of its constants, holds of the composition TLC checks.
THEOREM PartsAreTools ==
  ToolingSpec =>
    /\ WorktreeSpec
    /\ InstallerSpec
    /\ StreamSpec
    /\ SurfaceSpec
    /\ OpenSpec
    /\ DriftSpec
    /\ MonitorSpec
    /\ UpdateSpec
<1>1. ToolingInit =>
        /\ WorktreeInit
        /\ InstallerInit
        /\ StreamInit
        /\ SurfaceInit
        /\ OpenInit
        /\ DriftInit
        /\ MonitorInit
        /\ UpdateInit
  BY DEF ToolingInit
<1>2. ToolingSpec => WorktreeSpec
  BY <1>1, ToolingStep, PTL DEF ToolingSpec, WorktreeSpec
<1>3. ToolingSpec => InstallerSpec
  BY <1>1, ToolingStep, PTL DEF ToolingSpec, InstallerSpec
<1>4. ToolingSpec => StreamSpec
  BY <1>1, ToolingStep, PTL DEF ToolingSpec, StreamSpec
<1>5. ToolingSpec => SurfaceSpec
  BY <1>1, ToolingStep, PTL DEF ToolingSpec, SurfaceSpec
<1>6. ToolingSpec => OpenSpec
  BY <1>1, ToolingStep, PTL DEF ToolingSpec, OpenSpec
<1>7. ToolingSpec => DriftSpec
  BY <1>1, ToolingStep, PTL DEF ToolingSpec, DriftSpec
<1>8. ToolingSpec => MonitorSpec
  BY <1>1, ToolingStep, PTL DEF ToolingSpec, MonitorSpec
<1>9. ToolingSpec => UpdateSpec
  BY <1>1, ToolingStep, PTL DEF ToolingSpec, UpdateSpec
<1> QED BY <1>2, <1>3, <1>4, <1>5, <1>6, <1>7, <1>8, <1>9

\* Whichever tool is at work, its variables have their types.
THEOREM ToolingTyped == ToolingSpec => []ToolingTypeOK
<1>1. ToolingInit => part \in Parts
  BY DEF ToolingInit
<1>2. part \in Parts /\ [ToolingNext]_toolingVars => (part \in Parts)'
  BY ToolingStep
<1>3. /\ part \in Parts
      /\ WorktreeTypeOK
      /\ InstallerTypeOK
      /\ WorkstreamTypeOK
      /\ SurfaceTypeOK
      /\ OpenTypeOK
      /\ DriftTypeOK
      /\ MonitorTypeOK
      /\ UpdateTypeOK
      => ToolingTypeOK
  BY DEF ToolingTypeOK
<1> QED
  BY <1>1, <1>2, <1>3, PartsAreTools,
     WorktreeTyped, InstallersTyped, WorkstreamTyped, SurfaceTyped, OpenTyped, DriftTyped, MonitorTyped, UpdateTyped, PTL DEF ToolingSpec

\* All that the run of the composition checks of the tools, for every value of the constants:
\* a property of a tool holds while it works as while it rests.
THEOREM ToolsKeepTheirWord ==
  ToolingSpec =>
    /\ []WorkIsKept /\ []UserContentKept /\ FailedRunLeavesNoTrace
    /\ []PlanningFilesKept /\ []ShownIsListed /\ []NothingIsHidden
    /\ []UnmappedIsReported /\ []AgentIsWarned /\ []BannerIsTrue
  BY PartsAreTools, WorkIsSafe, UserContentIsKept, FailedRunsLeaveNoTrace,
     EntriesAreKept, ListedIsShown, OpenItemsAreShown, DriftIsReported, AgentsAreWarned,
     BannerTellsTheTruth, PTL
=============================================================================
