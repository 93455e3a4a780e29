----------------------------- MODULE Worktrees -----------------------------
(***************************************************************************)
(* A wave of executor agents, each in a linked git worktree on a branch of *)
(* its own: the agents, the clean-up of the wave by its manifest           *)
(* (`worktree cleanup-wave`), which may start while an agent is still at   *)
(* work, and the reaper of orphans (`worktree reap-orphans`), which        *)
(* another session may run at the same time.  Commits of a branch are      *)
(* counted from its base.                                                  *)
(***************************************************************************)
EXTENDS Naturals, Sequences

CONSTANTS
  Agents,
  RawManifest,  \* the wave's manifest: entries [agent, valid], in its order
  Strays,       \* agents whose worktree may be on another branch than their own
  Origins,      \* what origin may be like, of those below
  MaxCommits,   \* bound: commits of each agent
  MaxWaves,     \* bound: times the clean-up is started
  MaxGitFaults  \* bound: git commands that fail or time out

OriginStates == [known : BOOLEAN, ahead : BOOLEAN, fork : BOOLEAN]

ASSUME WorktreeAssumption ==
  /\ RawManifest \in Seq([agent : Agents, valid : BOOLEAN])
  /\ Origins \subseteq OriginStates /\ Strays \subseteq Agents
  /\ MaxCommits \in [Agents -> Nat] /\ MaxWaves \in Nat /\ MaxGitFaults \in Nat

\* normalizeCleanupManifest: the places of the entries that are kept; one without the
\* three fields or with a foreign branch name is dropped, and so is a repetition.
ManifestEntries ==
  {i \in 1 .. Len(RawManifest) :
     /\ RawManifest[i].valid
     /\ \A j \in 1 .. i - 1 : RawManifest[j].valid => RawManifest[j].agent # RawManifest[i].agent}

FirstOf(i, places) == i \in places /\ \A j \in places : i <= j

Idle == [at |-> 0, step |-> "idle", rescued |-> FALSE]

VARIABLES
  origin,    \* [known: origin/HEAD resolves, ahead: HEAD was ahead of it at dispatch,
             \*  fork: the harness starts worktrees at origin/HEAD, else at HEAD]
  wt,        \* [state, locked, attached, onHead]: the linked worktree of an agent
  branch,    \* its branch exists
  commits, merged, pushed,  \* on the branch, in HEAD, in origin's default branch
  dirty,     \* uncommitted: "summary" and "code"
  saved,     \* the uncommitted summary has a copy in the main tree
  agent,     \* "unborn", "running", "dead"
  wave,      \* the clean-up: manifest position, step, result of the rescue
  waves, midMerge,
  reaper,    \* [at: the worktree it is about to remove, tip: the tip it compares with, todo]
  lost,      \* history: uncommitted work that the clean-up removed with a worktree
  late,      \* history: agents that wrote between the rescue of their summary and the removal
  gitFaults

wtVars == <<origin, wt, branch, commits, merged, pushed,
            dirty, saved, agent, wave, waves, midMerge, reaper, lost, late, gitFaults>>

WorktreeTypeOK ==
  /\ origin \in OriginStates
  /\ wt \in [Agents -> [state : {"none", "present", "removed"},
                        locked : BOOLEAN, attached : BOOLEAN, onHead : BOOLEAN]]
  /\ branch \in [Agents -> BOOLEAN]
  /\ commits \in [Agents -> Nat] /\ merged \in [Agents -> Nat] /\ pushed \in [Agents -> Nat]
  /\ \A a \in Agents : pushed[a] <= merged[a] /\ merged[a] <= commits[a]
  /\ dirty \in [Agents -> SUBSET {"summary", "code"}]
  /\ saved \in [Agents -> BOOLEAN]
  /\ agent \in [Agents -> {"unborn", "running", "dead"}]
  /\ wave \in [at : ManifestEntries \cup {0}, rescued : BOOLEAN,
               step : {"idle", "check", "rescue", "status", "merge", "remove", "branch"}]
  /\ waves \in 0 .. MaxWaves /\ midMerge \in BOOLEAN
  /\ reaper \in [at : Agents \cup {0}, todo : SUBSET Agents, tip : [Agents -> Nat]]
  /\ lost \in [Agents -> SUBSET {"summary", "code"}] /\ late \subseteq Agents
  /\ gitFaults \in 0 .. MaxGitFaults

Asleep == [at |-> 0, todo |-> {}, tip |-> [a \in Agents |-> 0]]

WorktreeInit ==
  /\ origin \in Origins
  /\ wt = [a \in Agents |-> [state |-> "none", locked |-> FALSE, attached |-> TRUE, onHead |-> TRUE]]
  /\ branch = [a \in Agents |-> FALSE]
  /\ commits = [a \in Agents |-> 0] /\ merged = [a \in Agents |-> 0]
  /\ pushed = [a \in Agents |-> 0]
  /\ dirty = [a \in Agents |-> {}] /\ saved = [a \in Agents |-> FALSE]
  /\ agent = [a \in Agents |-> "unborn"]
  /\ wave = Idle /\ waves = 0 /\ midMerge = FALSE /\ reaper = Asleep
  /\ lost = [a \in Agents |-> {}] /\ late = {} /\ gitFaults = 0

----------------------------------------------------------------------------
(* The agents and the user.                                                *)

\* The harness creates the worktree and locks it with the agent's pid.
Spawn(a) ==
  /\ agent[a] = "unborn" /\ waves = 0
  /\ \E attached \in {TRUE, a \notin Strays} :
       wt' = [wt EXCEPT ![a] = [state |-> "present", locked |-> TRUE, attached |-> attached,
                                onHead |-> ~ origin.fork \/ ~ origin.ahead]]
  /\ branch' = [branch EXCEPT ![a] = TRUE]
  /\ agent' = [agent EXCEPT ![a] = "running"]
  /\ UNCHANGED <<origin, commits, merged, pushed, dirty,
                 saved, wave, waves, midMerge, reaper, lost, late, gitFaults>>

\* gsd-worktree-path-guard: inside a linked worktree, Edit, Write and MultiEdit
\* take an absolute path only when its nearest existing directory has the
\* worktree's own git root; a guard that cannot ask git lets the call through.
GuardAllows(path, gitFails) == path \in {"relative", "inside"} \/ gitFails

\* The clean-up is past the rescue of a's summary and has not removed its worktree.
CleaningUp(a) == wave.step \in {"status", "merge", "remove"} /\ RawManifest[wave.at].agent = a

\* The agent edits a file of its worktree, or one whose path it took from the
\* main tree, which leaves the worktree as it is.
Edit(a) ==
  /\ agent[a] = "running" /\ wt[a].state = "present"
  /\ late' = late \cup {b \in {a} : CleaningUp(b)}
  /\ \E path \in {"relative", "inside", "outside"}, gitFails \in BOOLEAN :
       /\ gitFails => gitFaults < MaxGitFaults
       /\ gitFaults' = IF gitFails THEN gitFaults + 1 ELSE gitFaults
       /\ GuardAllows(path, gitFails)
       /\ dirty' = IF path = "outside" THEN dirty
                   ELSE [dirty EXCEPT ![a] = @ \cup {"code"}]
  /\ UNCHANGED <<origin, wt, branch, commits, merged, pushed, saved,
                 agent, wave, waves, midMerge, reaper, lost>>

\* It commits what it has changed, and leaves a summary uncommitted.
Work(a) ==
  /\ agent[a] = "running" /\ wt[a].state = "present"
  /\ late' = late \cup {b \in {a} : CleaningUp(b)}
  /\ \/ /\ "code" \in dirty[a] /\ commits[a] < MaxCommits[a]
        /\ dirty' = [dirty EXCEPT ![a] = @ \ {"code"}]
        /\ commits' = [commits EXCEPT ![a] = @ + 1]
     \/ dirty' = [dirty EXCEPT ![a] = @ \cup {"summary"}] /\ UNCHANGED commits
  /\ UNCHANGED <<origin, wt, branch, merged, pushed, saved, agent,
                 wave, waves, midMerge, reaper, lost, gitFaults>>

\* The agent's process ends, by itself or not.
Die(a) ==
  /\ agent[a] = "running"
  /\ agent' = [agent EXCEPT ![a] = "dead"]
  /\ UNCHANGED <<origin, wt, branch, commits, merged, pushed,
                 dirty, saved, wave, waves, midMerge, reaper, lost, late, gitFaults>>

\* Somebody pushes the main branch, or resolves a merge that was left open.
Operator ==
  /\ \/ pushed' = merged /\ pushed # merged /\ UNCHANGED midMerge
     \/ midMerge /\ midMerge' = FALSE /\ UNCHANGED pushed
  /\ UNCHANGED <<origin, wt, branch, commits, merged, dirty,
                 saved, agent, wave, waves, reaper, lost, late, gitFaults>>

----------------------------------------------------------------------------
(* executeWorktreeWaveCleanupPlan, one git command after the other.        *)

Entry == RawManifest[wave.at].agent

\* The agent has returned; or no signal has come, but a summary and a commit are found
\* and it counts as completed, whether its process has ended or not.
Finished(a) == agent[a] = "dead" \/ (agent[a] = "running" /\ commits[a] > 0)

\* The orchestrator starts the clean-up when the agents are taken to have finished.
WaveStart ==
  /\ wave = Idle /\ waves < MaxWaves
  /\ \A i \in ManifestEntries : Finished(RawManifest[i].agent)
  /\ late' = {a \in late : wt[a].state # "present"}
  /\ \E i \in ManifestEntries :
       FirstOf(i, ManifestEntries) /\ wave' = [at |-> i, step |-> "check", rescued |-> FALSE]
  /\ waves' = waves + 1
  /\ UNCHANGED <<origin, wt, branch, commits, merged, pushed,
                 dirty, saved, agent, midMerge, reaper, lost, gitFaults>>

\* The entry is blocked and the rest of the manifest is left pending.
Block == wave' = Idle

Proceed(step) == wave' = [wave EXCEPT !.step = step]

\* merge-base of HEAD and the branch is the base the manifest expects: the
\* branch starts there and none of its commits has been merged yet.
BaseMatches(a) == branch[a] /\ wt[a].onHead /\ merged[a] = 0

\* The branch that is checked out and the merge base; the commits of the branch may
\* delete files, which blocks it too.
WaveCheck ==
  /\ wave.step = "check"
  /\ \/ /\ wt[Entry].state = "present" /\ wt[Entry].attached /\ BaseMatches(Entry)
        /\ Proceed("rescue")
     \/ /\ \/ ~ (wt[Entry].state = "present" /\ wt[Entry].attached)
           \/ ~ BaseMatches(Entry) \/ commits[Entry] > 0
        /\ Block
  /\ UNCHANGED <<origin, wt, branch, commits, merged, pushed, dirty, saved, agent,
                 waves, midMerge, reaper, lost, late, gitFaults>>

\* defaultFindSummaryFiles, where there is a difference to the main tree.
SummaryFound(a) == wt[a].state = "present" /\ "summary" \in dirty[a]

\* rescueSummaryArtifacts: an uncommitted summary is copied into the main
\* tree; a copy that fails blocks the entry.
WaveRescue ==
  /\ wave.step = "rescue"
  /\ \/ /\ SummaryFound(Entry)
        /\ saved' = [saved EXCEPT ![Entry] = TRUE]
        /\ wave' = [wave EXCEPT !.step = "status", !.rescued = TRUE]
        /\ UNCHANGED gitFaults
     \/ /\ SummaryFound(Entry)
        /\ gitFaults < MaxGitFaults /\ gitFaults' = gitFaults + 1
        /\ Block /\ UNCHANGED saved
     \/ /\ ~ SummaryFound(Entry)
        /\ Proceed("status") /\ UNCHANGED <<saved, gitFaults>>
  /\ UNCHANGED <<origin, wt, branch, commits, merged, pushed,
                 dirty, agent, waves, midMerge, reaper, lost, late>>

\* Mutant of Unsaved: after a rescue the status is not looked at.
UnsavedUnlessRescued(a) == IF wave.rescued THEN {} ELSE dirty[a]

\* What git status reports beyond the rescued summary.
Unsaved(a) == dirty[a] \ (IF wave.rescued THEN {"summary"} ELSE {})

WaveStatus ==
  /\ wave.step = "status"
  /\ IF wt[Entry].state = "present" /\ Unsaved(Entry) = {}
     THEN Proceed("merge") ELSE Block
  /\ UNCHANGED <<origin, wt, branch, commits, merged, pushed,
                 dirty, saved, agent, waves, midMerge, reaper, lost, late, gitFaults>>

\* A merge that stops on a conflict is left open in the main tree.
WaveMerge ==
  /\ wave.step = "merge"
  /\ \/ /\ ~ midMerge
        /\ merged' = [merged EXCEPT ![Entry] = commits[Entry]]
        /\ Proceed("remove") /\ UNCHANGED midMerge
     \/ /\ commits[Entry] > 0 \/ midMerge
        /\ midMerge' = TRUE /\ Block /\ UNCHANGED merged
  /\ UNCHANGED <<origin, wt, branch, commits, pushed, dirty,
                 saved, agent, waves, reaper, lost, late, gitFaults>>

\* git worktree remove --force, and once more after an unlock.
WaveRemove ==
  /\ wave.step = "remove"
  /\ \/ /\ wt[Entry].state = "present"
        /\ wt' = [wt EXCEPT ![Entry].state = "removed"]
        /\ lost' = [lost EXCEPT ![Entry] =
                      dirty[Entry] \ (IF saved[Entry] THEN {"summary"} ELSE {})]
        /\ dirty' = [dirty EXCEPT ![Entry] = {}]
        /\ Proceed("branch") /\ UNCHANGED gitFaults
     \/ /\ \/ wt[Entry].state # "present" /\ UNCHANGED gitFaults
           \/ gitFaults < MaxGitFaults /\ gitFaults' = gitFaults + 1
        /\ wt' = [wt EXCEPT ![Entry].locked = FALSE]
        /\ Block /\ UNCHANGED <<lost, dirty>>
  /\ UNCHANGED <<origin, branch, commits, merged, pushed, saved,
                 agent, waves, midMerge, reaper, late>>

\* git branch -D; a failure is a warning and the loop goes on.
WaveBranch ==
  /\ wave.step = "branch"
  /\ \/ branch' = [branch EXCEPT ![Entry] = FALSE] /\ UNCHANGED gitFaults
     \/ gitFaults < MaxGitFaults /\ gitFaults' = gitFaults + 1 /\ UNCHANGED branch
  /\ LET rest == {i \in ManifestEntries : i > wave.at}
     IN \/ rest = {} /\ wave' = Idle
        \/ \E i \in rest : FirstOf(i, rest) /\ wave' = [at |-> i, step |-> "check", rescued |-> FALSE]
  /\ UNCHANGED <<origin, wt, commits, merged, pushed, dirty,
                 saved, agent, waves, midMerge, reaper, lost, late>>

\* A git command of the checks fails or times out, which blocks the entry as well.
WaveGitFails ==
  /\ wave.step \in {"check", "status", "merge"} /\ gitFaults < MaxGitFaults
  /\ gitFaults' = gitFaults + 1
  /\ Block
  /\ UNCHANGED <<origin, wt, branch, commits, merged, pushed,
                 dirty, saved, agent, waves, midMerge, reaper, lost, late>>

----------------------------------------------------------------------------
(* reapOrphanWorktrees.                                                    *)

\* The tip of the default branch: origin's when there is one, the local one otherwise;
\* when it is ambiguous nothing is reaped.
MainTip == IF origin.known THEN pushed ELSE merged

\* `worktree reap-orphans`: the tip and the entries are read once.
ReapStart ==
  /\ reaper = Asleep
  /\ reaper' = [at |-> 0, todo |-> {a \in Agents : wt[a].state = "present"},
                tip |-> MainTip]
  /\ reaper'.todo # {}
  /\ UNCHANGED <<origin, wt, branch, commits, merged, pushed,
                 dirty, saved, agent, wave, waves, midMerge, lost, late, gitFaults>>

\* The commits of the worktree's HEAD are ancestors of the tip; without any,
\* its HEAD is the base, which origin has when the worktree started there.
Reachable(a) == /\ reaper.tip[a] = commits[a]
                /\ \/ ~ origin.known \/ ~ origin.ahead \/ ~ wt[a].onHead
                   \/ \E b \in Agents : reaper.tip[b] > 0

\* defaultIsPidAlive: kill(pid, 0) says that there is no such process.
OwnerDead(a) == agent[a] = "dead"

\* One admin entry: the age of its lock, which may be below the guard of five
\* minutes or not, its owner, and its ancestry.
ReapDecide(a) ==
  /\ reaper.at = 0 /\ a \in reaper.todo
  /\ \E old \in BOOLEAN :
     LET orphan == /\ wt[a].state = "present" /\ wt[a].locked /\ old
                   /\ OwnerDead(a) /\ Reachable(a)
     IN reaper' = IF orphan THEN [reaper EXCEPT !.at = a]
                  ELSE IF reaper.todo = {a} THEN Asleep
                  ELSE [reaper EXCEPT !.todo = @ \ {a}]
  /\ UNCHANGED <<origin, wt, branch, commits, merged, pushed,
                 dirty, saved, agent, wave, waves, midMerge, lost, late, gitFaults>>

\* git worktree unlock and remove --force, which may fail; the branch stays.
ReapRemove ==
  /\ reaper.at # 0
  /\ LET a == reaper.at IN
       /\ \/ /\ wt' = [wt EXCEPT ![a].state = "removed", ![a].locked = FALSE]
             /\ dirty' = [dirty EXCEPT ![a] = {}] /\ UNCHANGED gitFaults
          \/ /\ gitFaults < MaxGitFaults /\ gitFaults' = gitFaults + 1
             /\ wt' = [wt EXCEPT ![a].locked = FALSE] /\ UNCHANGED dirty
       /\ reaper' = IF reaper.todo = {a} THEN Asleep
                    ELSE [reaper EXCEPT !.at = 0, !.todo = @ \ {a}]
  /\ UNCHANGED <<origin, branch, commits, merged, pushed, saved,
                 agent, wave, waves, midMerge, lost, late>>

WorktreeNext ==
  \/ Operator
  \/ \E a \in Agents : Spawn(a) \/ Edit(a) \/ Work(a) \/ Die(a) \/ ReapDecide(a)
  \/ WaveStart \/ WaveCheck \/ WaveRescue \/ WaveStatus \/ WaveMerge \/ WaveRemove
  \/ WaveBranch \/ WaveGitFails
  \/ ReapStart \/ ReapRemove

WorktreeSpec == WorktreeInit /\ [][WorktreeNext]_wtVars

----------------------------------------------------------------------------
\* Whatever the clean-up, the reaper, the agents and failing git commands do
\* in whatever order, and although the clean-up may start while an agent
\* runs: of an agent that writes nothing between the rescue of its summary
\* and the removal of its worktree, every commit is in HEAD, in origin, on
\* its branch or in a worktree that still exists, and the clean-up removes
\* nothing uncommitted but a summary of which the main tree has a copy
\* (executeWorktreeWaveCleanupPlan, reapOrphanWorktrees).
WorkIsKept ==
  \A a \in Agents \ late :
    /\ commits[a] > merged[a] =>
         wt[a].state = "present" \/ (wt[a].attached /\ branch[a])
    /\ lost[a] = {}
=============================================================================
