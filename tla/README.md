# Placement Sentinel: a TLA+ model of the placement-mail bot and its agent tooling

Placement Sentinel (PlacementHelperBot) watches students' Gmail accounts for
placement e-mails. Gmail announces new mail through Google Pub/Sub to a FastAPI
endpoint; the endpoint queues a Celery task; a worker fetches the mail, looks for
the student in it, asks Gemini to classify it, alerts the student on Telegram
and stores deadlines, of which a periodic task reminds the student.

The repository also carries, under `.agent/`, the tooling its developers work
with: a command line (`gsd-core/bin`) that keeps the planning files, hooks of an
agent runtime, and an installer. It is the larger part of the code, it is where
several processes, agents and sessions share files, and this project models it too.

This directory holds TLA+ modules translated from that code, the TLC
configurations that check them on small instances, and proofs checked by TLAPS.
Locations of the service are relative to `src/src/`, those of the tooling to
`src/.agent/gsd-core/bin/lib/` or, for hooks, to `src/.agent/`, unless they begin
with `.planning/` or `tests/`.

## 1. Inventory

### The service

| component | code | state it keeps | operations | talks to |
|---|---|---|---|---|
| Push endpoint | `api/endpoints/webhook.py`, `verify_pubsub_jwt` | Redis keys `msg:<id>`, `history:<mail>:<id>` with a life of 24 h | one handler: verify, two look-ups, decode, two SETs, queue, answer | Pub/Sub (at least once), Redis, Celery |
| E-mail task | `tasks/email_tasks.py:97-496` | Celery message and retry count; rows in `audit_logs`, `reminders`, `dead_letter_queue` | one attempt of the pipeline, retry with backoff, dead-letter write | PostgreSQL, Google, Gemini, Telegram |
| AI gateway | `core/ai_gateway.py` | Redis bucket `ai_gateway:rate_limit`; rows in `ai_usage_logs` | rate-limit check (Lua), classify (4 attempts), vision scan (4 attempts) | Redis, Gemini, PostgreSQL |
| Reminder engine | `tasks/email_tasks.py:629-734` | `reminders` rows: status and three marks | a run every 5 minutes: select, visit, one commit | PostgreSQL, Telegram |
| Account linking | `api/endpoints/auth.py` | `users` rows | login, callback (insert or overwrite) | Google OAuth |
| Watch renewal | `tasks/email_tasks.py:498-602` | `users.watch_*` | daily fan-out, renewal with 3 retries, expiry warning | Google, Telegram |
| Gmail access, matching, deadlines | `core/gmail.py`, `core/pre_check.py`, `core/attachment_parser.py`, `email_tasks.py:29-94` | none | message, attachments, texts, identifiers, formats of dates | Google, libraries |
| Telegram, audit, health | `core/telegram_dispatcher.py`, `core/audit.py`, `api/endpoints/monitoring.py` | `audit_logs` | send (reports, never raises), log (swallows errors), prune, read-only end points | Telegram, PostgreSQL |
| Start-up, schema | `main.py`, `core/config.py`, `core/database.py`, `models/user.py` | none | wiring | none |

Pub/Sub pushes to the endpoint, which only queues; the task reads the `users` row
that linking and renewal write; it inserts the `reminders` row that the reminder
engine works off; task, engine and renewal send on Telegram; task and vision scan
share the bucket.

### The agent tooling

| component | code | state it keeps | operations |
|---|---|---|---|
| Locks and file writes | `planning-workspace.cjs`, `state.cjs`, `shell-command-projection.cjs` | `.lock`, `STATE.md.lock` | take, steal, write a set of files with roll-back, release |
| STATE.md | `state.cjs`, `state-document.cjs`, `roadmap.cjs` | body and frontmatter of STATE.md | the `state` commands, `phase complete`, sync |
| Phases, roadmap, milestones | `phase.cjs`, `milestone.cjs`, `roadmap.cjs` | headings and boxes of ROADMAP.md, `phases/` | add, insert, remove, complete, archive, index of waves |
| Configuration | `config.cjs`, `configuration.cjs`, `core.cjs` | `config.json` of the project and of a workstream | load with migrations, set, migrate, create |
| Models and effort | `core.cjs`, `model-catalog.cjs` | none | what an agent is spawned with, and again |
| Health | `verify.cjs`, `validate.cjs` | none of its own | check, repairs, back-fill |
| Gates of a phase | `check-command-router.cjs`, `decisions.cjs`, `gap-checker.cjs`, `verify.cjs` | none of its own | decision gates before and after, gaps, schema, verification |
| Manager, init bundles | `init.cjs` | none: it looks at the files | statuses and recommendations; agents in the background |
| Audits | `audit.cjs`, `uat.cjs`, `verification.cjs` | files of tests, sessions, tasks, todos | audit-open, audit-uat, verification status |
| Drift of the codebase map | `drift.cjs`, `verify.cjs` | STRUCTURE.md and its stamp | gate, mapper, stamp |
| Worktrees | `worktree-safety.cjs`, a hook | git worktrees and branches, the manifest of a wave | clean-up of a wave, reaper; the check of the base (`worktree-base-ref.cjs`) is not modelled |
| Workstreams | `workstream.cjs`, `active-workstream-store.cjs` | directories, pointers to the active one | create with migration, archive, choose |
| Installer migrations | `installer-migrations.cjs` and four migrations | lock with owner, install state, journal with rollback copies | plan, apply, roll back |
| Skills and their surface | `surface.cjs`, `install-profiles.cjs` | profile, surface file, installed skills | resolve, apply, disable, reset |
| Context monitor | `hooks/gsd-context-monitor.js`, `hooks/gsd-statusline.js` | metrics and sentinel of a session | hook after each use of a tool |
| Update check | `hooks/gsd-check-update*.js`, `gsd-update-banner.js` | one cache per user | worker, banner |
| Command line, guards, knowledge stores, profiles and documents, imports | `gsd-tools.cjs`, routers, other hooks, `intel.cjs`, `profile-output.cjs`, ... | none another component branches on | not modelled, see section 6 |

### What is hard here

* *Interleaving.* Every `await` of the API and every worker process is a point at
  which others move: two pushes between look-up and SET, two reminder runs
  between select and commit, two callbacks of one user, a renewal that works on a
  copy of a row. In the tooling, agents in parallel run commands on the same
  files; some are locked, some read before they lock, some take no lock.
* *Delivery.* Pub/Sub delivers at least once and republishes under new ids;
  Celery acknowledges a task when it starts, so a crash loses it.
* *Partial failure.* Each external call may raise after it took effect; audit
  writes fail silently; alerts are sent before the marks that record them are
  committed. Sets of files are written, moved, copied, renamed and pruned one by one,
  and what undoes them may fail too.
* *Crashes.* Hooks, agents, installers and commands are killed between any two
  operations; locks, journals and half-made directories outlive them.
* *Retries.* A retry repeats the whole pipeline, whose effects (Telegram
  messages) cannot be taken back; a failed agent is spawned again.
* *Time and staleness.* A run works with the clock it captured; three stages with
  catch-up windows meet at their boundaries; locks are judged by their age; caches
  and stamps name versions and commits that are gone.

### What makes each component correct

* Push endpoint: whatever was acknowledged or remembered is accounted for, and
  redelivery gets events to the queue.
* E-mail task: retries never repeat an alert; silence is deliberate; alerts reach
  an owner of the mailbox; audit rows tell what happened; an event is given up only
  after its last retry; every event settles.
* Reminder engine: stages in order, repeats bounded by overlaps and failures, each
  stage exactly once where runs come regularly, every reminder ends.
* Rate limiter: grants are bounded by bucket and refill under any clocks.
* Linking and renewal: the row tells the truth about mailbox, token and watch, and
  a user whose grant is good is watched again after any failures.
* Planning files: reports agree with files; a sync settles; numbers are fresh and
  directories follow headings; plans run after what they depend on; what was set
  is read back; repairs settle; what a gate accepted, the next one honors; the
  manager keeps related agents apart and never gets stuck.
* Around them: no commit of an agent, no file of a project and nothing a user wrote
  is lost; a failed run leaves no trace; what is shown is what is installed; what
  is open or unmapped is reported; agents are warned; banners are true.

## 2. Modules

| module | models | kind |
|---|---|---|
| `EmailOutcome` | what is promised of one event: settled once, given up only after the last retry | abstract specification |
| `EmailTask` | `process_email_event` and its pipeline | implements `EmailOutcome` |
| `WebhookIngest` | the push endpoint between Pub/Sub and Celery | specification |
| `ReminderEngine` | the reminder task with overlapping runs | specification |
| `TokenBucket` | `RATE_LIMIT_LUA` and `check_rate_limit` | specification |
| `WatchRenewal` | OAuth callbacks, the daily beat and the renewals | specification |
| `PlanningLocks` | processes that run programs of locked and unlocked transactions | specification |
| `PlanningState`, `PlanningPhases`, `PlanWaves`, `Configuration`, `PlanningHealth`, `PhaseGates`, `ModelRouting`, `PhaseManager` | the commands that keep the planning files | specifications, composed in `MCPlanning` |
| `Worktrees`, `InstallerMigrations`, `Workstreams`, `SkillSurface`, `OpenItems`, `CodebaseDrift`, `ContextMonitor`, `UpdateCheck` | what runs around them | specifications, composed in `MCTooling` |
| `MC*` | instances for TLC | model checking |
| `*Proofs` | theorems, in one module per component or composition; the installer, part of `MCTooling`, has its own, `InstallerProofs` | proofs |

In each specification a definition whose name describes a fault
(`RetryUnlimited`, `SyncByPlans`, ...) and whose comment begins
with "Mutant of" is a plausible bug in place of the definition it names; no
specification uses it. `PROJECT.json` says which property each of them breaks, and
for every other definition which lines it stands for.

### EmailTask

`phase[t]` is where the task is; one action per phase:

| action | code | what may happen |
|---|---|---|
| `Enqueue` | `webhook.py:92-95` | the event is queued |
| `Start` | `email_tasks.py:465-477` | a worker takes it; nothing is remembered of earlier attempts |
| `LoadUser` | 142-161 | a row of the mailbox, or failure (no row, database, decryption) |
| `FetchMessage` | 163-168 | success or failure |
| `Scan` | 170-273 | matched, not matched, or failure |
| `Classify` | 275-284 | any verdict, leading to alert or silence; or an exception, leading to the fallback |
| `Alert` | 285-321 | sent or not delivered; audited or the audit write fails |
| `Remind` | 323-354 | no reminder wanted; saved; or an exception, before or after the commit took effect, leading to the fallback |
| `Fallback` | 353-406 | as `Alert` |
| `Finish`, `Failing` | 408-413, 415-424 | audit, then done or retry |
| `Retry` | 479-489 | next attempt, refusal by the broker, or exhaustion |
| `DeadLetter` | 97-122, 489-496 | the row is written and audited, or the write raises |
| `Callback` | `auth.py:124-149` | an account is linked to a mailbox |
| `Crash` | Celery's early acknowledgement | the attempt and its event are gone |

A verdict is reduced to what the pipeline branches on: whether it is a placement
mail, its category, and the parsed deadline compared with the clock. `owners` is
a history variable: who was linked to the mailbox since the attempt began.

`RetryRaises` is what Celery may raise when `retry(exc=...)` is called with no retries
left. The code and its tests expect `MaxRetriesExceededError`; Celery re-raises the
given exception, the `"cause"`. The proofs leave the set open; `email_task` explores both,
so that the dead-letter handler is exercised and everything it checks holds whichever
is raised, and `email_task_dlq` takes what Celery does, under which the handler is never
reached (section 4).

### WebhookIngest

A handler's `pc` names the await it will do next. `Fault` ends a handler without a
2xx at any point. A key is the time at which it expires, so the same state says
whether it is alive and whether it was ever set. `abandoned` and `knownUntil`
are history variables: the events a fault dropped once a key was set, and the
expiry of the event's key when the push arrived.

### ReminderEngine

A run (`StartRun`, `Visit` once per row, `Commit` or `Abort`) has its own copies:
`captured` is the clock, `loadedAs` the marks it read, `newly` and `outcome` the
columns it changed, which are all that its commit writes. A worker is busy with at
most one run, several workers overlap. `Tick` is time; with `MaxGap` it does not
pass beyond the moment by which a deployment that keeps up completes a run.

### TokenBucket

The three fields of the Lua script in integer units; `ReadClock` and `Evaluate`
are separate because the caller reads its clock before the script runs. `Observe`
restarts the counting at any moment, so a bound on `taken` is a bound for every
interval.

### WatchRenewal

`CallbackSelect` and `CallbackCommit` are the two halves of the OAuth callback; like
a renewal it writes only the columns that differ from the row it read, which is
what SQLAlchemy does. `MidnightPasses` is the beat: it ages every watch and queues a
renewal for every user. A renewal goes through `LoadUser`, `AskGoogle`,
`CommitWatch`, `RetryRenewal` and `GiveUp`; `RenewalDies` is a worker that is
killed, `Revoke` the user who takes the grant back. Google's side is `watch`, the
days it will still publish, and `grant`, the grant in force. `RetryRaises` leaves
open, as in `EmailTask`, what Celery raises when the retries are exhausted.

### PlanningLocks

A process runs a program, a sequence of transactions; each takes its locks, reads
its files, writes them in a fixed order, undoes what it has written when a write
fails, and releases. The programs are those of the commands: `StateCommand`,
`StateSync` (which computes before it locks), `RoadmapCommand`, `PhaseComplete` (two locks,
three files), `PhaseRemove` and `StatePrune` (two transactions each), and
`RequirementsMarkComplete` (no lock).

`Tick` ages the lock files. A waiter that finds one too old decides so (`SeeStale`) and
removes it (`Steal`) in two steps, as the code does, so that it may remove the file of a
process that came in between; after its own timeout a waiter for the planning lock removes
whatever is there (`Expire`, `ForceCreate`). `Refuse` and `Relent` are a file system that, for a
while or for ever, refuses to open or to remove a lock file: the errors the code takes for
transient (`state.cjs:1027`), after which it tries again without a look at its budget, and
an unlink that fails (`state.cjs:1035-1046`). `CreateFails` is any other error, perhaps after
the file was made, and `Crash` a process that dies holding its locks.

A file is the set of processes whose update it contains. `CarriedOut` says which files a
command has written in transactions that went through: a command of two transactions that
fails in the second has carried out the first, although it reports an error, and has not
carried out the second. `usurped` remembers the locks that were taken from a living holder,
`damaged` the files a failing write has truncated, `unrolled` the processes whose roll-back
failed, and `overdue` the locks a waiter was entitled to take.
`MixAssumption` says what holds of every command of the source: a transaction of
several files is one of `writePlanningFileSet`, which undoes.

### The planning files

* `PlanningState`: one action per `state` command and for `phase complete`, with the
  planner and the executor that change the files on disk between them. The body
  comes in the bold and in the plain style, in which some writes go astray (`Put`);
  `StateSync` writes when it has found a change, or only for the date (`SyncWrites`).
* `PlanningPhases`: a phase is a key, its number changes. `RemoveDirs` and
  `RemoveRoadmap` are the two halves of `phase remove`, of which only the second is
  locked; other commands and `RemoveDies` come in between. `skew` remembers which of
  five causes may have parted a directory from its heading.
* `PlanWaves`: `Visit` is one turn of the loop of the plan index (its queue is a
  set, so every order is covered), `Indexed` its end. What follows is `execute-phase.md`,
  one run after another: `StartRun` selects plans by its arguments (`--gaps-only`, `--wave`),
  `Delegate` hands plans to another AI before all waves, `Offer` is the interactive mode,
  which knows no waves (lines 229-242), and `Dispatch` gives a plan of the first wave that is
  not over to an executor. One may `Fail`, be tried again (`RetryFailed`), or be left behind when
  the user chooses to go on (`GoOn`, "Continue with remaining waves?", lines 924 and 965).
* `Configuration`: loads rewrite legacy files without the lock (`LoadOwn`, `Rewrite`,
  `RewriteFails`), `SetConfigValue` and `SetConfigDone` are the locked write.
  `promised` is what the commands have reported.
* `PlanningHealth`: `Check` finds the issues and fills the queue of repairs, which
  are done one by one (`WriteConfig`, `ReadForKey` and `WriteKey`, `RegenerateState`, the
  backfill, which reads the registry and writes it in two steps as well), while `ConfigSets`, `Damages` and others come in between.
* `PhaseGates`: agents discuss (which adds, removes, tags and rewords decisions: `wording` is
  the text as it reads now, `quoted` what a plan has taken over), plan, execute and revise;
  `MarkPlanned` is the
  blocking gate, `DecisionCoverageVerify` the one after execution, `RunGapAnalysis`
  and `VerifyPhase` the others.
* `ModelRouting`: `ResolveExecution` as an operator, `Retry` the next attempt.
* `PhaseManager`: `Continue` dispatches what `FilteredActions` recommends to agents in
  the background (`Plan`, `Summarize`, `FinishPlanning`, ...), `Spawn` and `UserActs`
  are the user, `Silence` five minutes without a write.

### Around the planning files

* `Worktrees`: agents that edit, commit and die, the clean-up of a wave in its six steps
  per entry (`WaveCheck`, `WaveRescue`, `WaveStatus`, `WaveMerge`, `WaveRemove`,
  `WaveBranch`), any of which may fail, and the reaper, which decides and removes in two
  steps. The clean-up starts when the agents have returned or, by the fallback of
  `execute-phase.md:705-733`, when a commit of theirs is found while they may still run
  (`Finished`); `late` remembers who wrote between the rescue of the summary and the removal.
* `InstallerMigrations`: the lock file is created and signed in two steps and
  reclaimed from dead owners; a plan is a function over the catalog of the four
  migrations; each action copies, backs up and touches its file in separate steps;
  `RestoreFile` undoes them one by one; `Kill` may come anywhere. `ReleaseLock` may fail to
  remove the lock file: a run that was carried out then throws, and its outcome is
  "unreleased".
* `Workstreams`: sessions move entries one by one (`MigrateMove`, `ArchiveEntry`) and
  back when a move fails (`MigrateUnmove`, `UnarchiveEntry`).
* `SkillSurface`: `ApplySurface` resolves, `CopyEntry` and `PruneEntry` change what is
  installed entry by entry, `Stop` is a failure or a kill, `SourceChanges` an update.
* `OpenItems`: one action per step of the workflows that write the artifacts; the
  audits are operators over them. A directory or a single file may be unreadable: the
  scans pass over the one and the other, and `audit-uat` fails.
* `CodebaseDrift`: commits, squashes and lost objects on one side, a mapper that reads,
  writes and stamps in steps on the other; stamps may be garbled or those of another
  commit. The gate is an operator, which also skips (`GateOutcomes`): no repository, no diff,
  an unreadable map, an exception.
* `ContextMonitor`: each hook reads the metrics, reads the sentinel, truncates it and
  writes it in separate steps; `Consume` and `Compact` are the context.
* `UpdateCheck`: a worker reads the version, asks the registry, truncates the cache
  and writes it in separate steps; `Install` and `ClearCache` are an update. A hook may have
  no version header, or still the placeholder of the source.

## 3. Runs

`MCPlanning`, `MCTooling` and `MCServices` compose components that share no state: the
variable `part` says which one a behaviour is of, the others rest in one initial
state. Each component is thereby explored as in a run of its own.

| run | instance | shows |
|---|---|---|
| `email_task` | 1 event, 2 users, 2 mailboxes, 2 retries, 2 callbacks, 4 verdicts | six invariants, `EventSettles`, and that the pipeline implements `EmailOutcome` including its liveness |
| `webhook_ingest` | 2 handlers, 3 messages (two of one event, one unreadable), 1 fault, keys that live 2 ticks | nothing forgotten, redelivery reaches the queue |
| `reminder_overlap` | 2 workers, 1 reminder, 1 failed run, time may stand still or jump | order of marks, bounded repeats, every reminder ends |
| `reminder_timely` | 1 worker, 2 reminders, 24/6/1 h leads and 2 h window in half-hours, a run at least each hour | every stage exactly once, reminders completed |
| `external_services` | bucket: 2 callers, skew 1, 1 failing call; watches: 1 user, 2 mailboxes, 2 renewals and 2 callbacks at a time, a life of 2 days, 1 retry, 1 revocation, 1 mishap | `RateBound`; `RecordIsTrue`, `WatchComesBack` |
| `planning_locks` | 2 processes, 3 pairs of programs, 1 crash and 2 faults (failing writes, creations, refusals), 2 of both together | `FilesMatchTransactions`, `CommandsEnd` |
| `planning` | 2 phases and 6 commands on STATE.md; 3 to 5 phases and 4 commands; 4 plans of which 1 closes a gap, with no dependency, a chain, a chain with a short cut, a plan that needs itself and a cycle with a plan behind it; 6 initial configurations and 3 commands; 3 phases and 2 disturbances for the repairs; 2 plans, 2 decisions, 3 wordings and 3 steps for the gates; the catalog's two kinds of agents in some two thousand configurations; 3 phases and 2 agents for the manager | one property per component, two of the phases |
| `tooling` | 2 agents, 2 waves, 1 git fault; 2 installers, 2 failures, 1 kill; 2 sessions, 3 commands, 1 failing move; 3 skills; 1 phase with 2 tests; 3 files and 3 commits; 2 hooks, Debounce 3; 2 workers, 2 runtimes | one property per component, two of worktrees and of installers |
| `email_task_dlq`, `webhook_duplicates`, `reminder_duplicates`, `parallel_writes` | the smallest that show it | findings 1 to 4 |

### Why the bounds are enough

* Tasks share nothing but the accounts, and act only on their own row of every
  variable (lemma `OthersStay`, proved), so one event with two users shows what
  several would. Two retries give a first, a middle and a last attempt. Two callbacks
  relink an account away and back.
* Two handlers and two messages of one event are the least with which look-up and SET
  overlap and with which the second key matters; a life of 2 ticks with a clock of 2
  lets keys expire during a handler.
* Two overlapping runs are the least with a stale copy. The leads 5/3/1 with a window
  of 1 keep the order of the source's windows, as `EngineAssumption` asks; `MaxTime`
  passes all stages and the deadline.
* The bucket of two and a half requests is drained and refilled several times.
* Users share nothing but mailboxes, and a mailbox's row is written by its own user
  only, so one user with two mailboxes shows what several do. A watch must outlive the
  renewals that overlap, or none could be recorded truthfully: a life of 2 with two
  renewals is the least. Two callbacks overlap once, from a new user or a linked one.
* Two processes contend for each lock; crash, failing write and failing roll-back
  combine within `MaxTroubles`. The three pairs are two locks and a roll-back beside one
  lock, two commands of two transactions, and a file that is written without a lock. The
  times of thirty seconds are two ticks: longer than the other thresholds, as in the code.
* A chain with a short cut is the least graph in which a level is raised twice, and its
  last plan waits for two others; a run that is stopped, retried and restarted in any mode
  needs no more plans to leave a gap behind.
* The tooling's components have two of whatever acts at the same time and at least
  one of every fault. A third key in `PlanningPhases` gives a phase with neighbours on both
  sides; `MaxKeys` below 999 is not for TLC but because that number is the backlog's.
  `Debounce` 3 (5 in the code) leaves room for a count that is skipped and one that is not;
  3 hooks, two overlaps and a mishap were explored once by hand (3.8 million states).
* Where a theorem states the property (section 5), the instance only guards against a
  slip in the model; the theorem is about all of them.

`CHECK_DEADLOCK FALSE` is set because the bounded systems stop: all events settled,
all messages handled and faults used up, all commands given, the clock at its bound.

### Fairness

* `EmailTask`: weak fairness of a worker's next step for each task. Celery
  delivers what is queued or due, every HTTP client has a timeout, and exceptions
  are outcomes of the steps. Crashes, refusals and callbacks are not fair.
* `WebhookIngest`: weak fairness of each handler's next step; strong fairness of
  pushing a message that is not acknowledged, because Pub/Sub redelivers until it
  reads a 2xx, while both handlers may be busy in between.
* `ReminderEngine`: weak fairness of time and of each worker's run, as beat queues a
  run every five minutes. `reminder_timely` is safety only.
* `WatchRenewal`: weak fairness of midnight and of each renewal's steps. Callbacks,
  revocations and mishaps are not fair.
* `PlanningLocks`: weak fairness of time and of each process that is not dead; waiters
  poll with a sleep, and an operating system runs them. Nothing says that a file system
  relents: `CommandsEnd` therefore has the premise that the state lock is not refused for
  ever, because `acquireStateLock` tries again without a look at its budget (a finding,
  `state.cjs:1027`). Of the planning lock no premise is needed.
* Everything else is safety only.

## 4. Findings

`PROJECT.json` lists 55, each with the line of the code and the sentence of a comment,
test or document it disagrees with. Four are counterexamples of a run:

1. `email_tasks.py:488` (`email_task_dlq`): dead-letter routing depends on an exception
   that Celery does not raise for `retry(exc=...)`; the mock in
   `tests/test_webhook.py:135-148` does. The same holds of the renewal that gives up
   (`email_tasks.py:549`).
2. `webhook.py:80-90` (`webhook_duplicates`): look-up and SET are not atomic.
3. `email_tasks.py:632-729` (`reminder_duplicates`): overlapping reminder runs repeat
   alerts, against `.planning/v1.0-MILESTONE-AUDIT.md:56`.
4. `state.cjs:1085` (`parallel_writes`): the text of STATE.md is computed before the lock
   is taken, although the comment says that parallel agents do not overwrite each other.

The others were met while modelling. Where a property holds but for such a case, the
property states the exception and the finding names it, with the sentence it contradicts:

* a file system that refuses the state lock keeps `acquireStateLock` trying for ever, beside
  its budget of thirty seconds (`state.cjs:1027`);
* commands of two transactions that fail between them: `phase remove` (`phase.cjs:956`) and
  `state prune`, which then has dropped what it meant to archive (`state.cjs:1854`);
* an agent that writes after the clean-up has rescued its summary may lose that work to a
  removal by force (`worktree-safety.cjs:584`);
* an installer that was carried out, could not remove its lock and reports an error
  (`installer-migrations.cjs:800`);
* plans that `--gaps-only`, the delegation, the interactive mode or the user's word run before
  what they need, against "Do not let Wave 2+ execute while prerequisite earlier-wave plans
  remain incomplete" (`execute-phase.md:326`, finding at `:229`);
* decisions reworded after planning (`check-command-router.cjs:290`) and phrases that a
  comment interrupts (`check-command-router.cjs:113`);
* removals that part directories from headings (`phase.cjs:863`, `:912`, `:943`);
* scans that fail and count as clear (`audit.cjs:607`), and files that cannot be read
  (`audit.cjs:63`), although the report says "All artifact types clear. Safe to proceed.";
* callbacks that overlap (`auth.py:139`), phases whose executor stopped half way
  (`init.cjs:1164`), hooks that run in parallel or are killed (`gsd-context-monitor.js:130`,
  `:140`), caches of another install (`gsd-check-update-worker.js:38`), a configuration
  repair that needs a second pass (`verify.cjs:1084`), and a backfill that writes over what
  another command has added (`verify.cjs:1184`).

The rest concern the reminder handler that answers a database error with "AI unavailable"
(`email_tasks.py:353`), the callback that registers no watch (`auth.py:142`), documented
behaviour without a caller (`core.cjs:1424`, `drift.cjs:335`, `worktree-base-ref.cjs:96`), and
gates, statuses and reports that say something else than their documentation.

## 5. Proofs

TLAPS proves the following for every value of the constants, from the assumptions named
in the modules and nothing else. Almost no property is inductive; the text says what had
to be added. Each proof has one lemma per action, or per group of actions that leave the
same variables alone.

### E-mail task (`EmailTaskProofs`)

`TypeCorrect`; `RetriesNeverRepeatAlerts`, `RemindersFollowAlerts`,
`SilenceMeansIrrelevant`, `AlertsReachOwners`, `AuditIsTruthful`, `AtMostOneExtraAlert`: the
invariants of `email_task`, whatever Celery raises; and `OutcomesAreKept`, the safety half of the refinement of `EmailOutcome`.

`IInv` is the type invariant and, per task, five parts: what has been sent and saved
(`History`: nothing, the alert, the fallback, or both in this order), which histories
each phase allows (`PhaseInv`), what a silent success means (`SilenceInv`), what audit
rows may say (`AuditInv`) and when a dead-letter row may exist (`DlqInv`).
`OthersStay` and `SameKeepsTaskInv` do all tasks but the one that moves, `CallbackStep`
the relinking, which only adds owners. The step from attempt to attempt goes through
phases in which nothing was sent (`Unsent`), which is why a retry cannot repeat an alert.

### Push endpoint (`WebhookIngestProofs`)

`TypeCorrect`, `PromisesAreKept` (`NothingForgotten`) and
`RememberedEventsAreNotRequeued`. A handler acknowledges, or remembers a message as a
duplicate, because of a key somebody else stored: `Promised` says what such a handler
relies on, and `AccountStays` that somebody stays answerable for an event whatever step
is taken. The second property compares a key with what the handler saw when it started;
`Remembered` (keys only move forward, at most one life ahead of the clock) and `Unknown`
(a handler past the look-up saw no living key) carry it.

### Reminder engine (`ReminderEngineProofs`)

* `TypeCorrect`, `StagesAreOrdered`, `MarksStay`: the order of the marks survives commits
  in any order because each run extends a former state of the row, closed under the
  order, by all that is due (`CopiesInv`, `DueIsClosed`).
* `RepeatsAreBounded` is a counting argument (`CountInv`). While a stage is not marked,
  every alert belongs to a run that holds its uncommitted mark or to one that came to
  nothing. Once it is marked, alerts and the runs that may still send it together are at
  most the workers and the runs that came to nothing. A commit takes the account from the
  one form to the other because no run is of both kinds.
* `SingleWorkerNeverRepeats` is the other side of finding 3.
* `EveryStageIsSentOnce`: under `KeepsUp` (one worker, no run that comes to nothing, gaps
  no longer than the lead of the last stage) every stage that lay ahead when the row was
  inserted is sent exactly once and the row is completed. `PunctualInv` relates clock,
  captured clock, last completed run and marks: no stage that is due is older than the
  last completed run, so its window cannot have passed. With a gap longer than the lead
  of the last stage a reminder could expire between two runs.

### Rate limiter, linking and renewal (`ServicesProofs`)

Rate limiter: `TypeCorrect`, `RateIsBounded`, `TimeIsMonotone` and `RefusalCostsNothing`. `BucketInv`
adds to the bound that a reading lies at most the skew ahead; the arithmetic is in
`RefillLemma` and `ScriptLemma`.

Linking and renewal: `WatchTyped` and `RecordTrue` (`RecordIsTrue`). A renewal commits what it learned from a
row it read before several awaits: `TaskFacts` says what its copy is still worth, which is
that Google watches the mailbox of its token for the days it is about to record, unless
that grant is no more; `CallbackFacts` says what an unfinished callback knows of the row
when no other has overtaken it; `RowFacts` is the property with the token's own mailbox.

`PartsAreServices` and `ServicesKeepTheirWord` carry both over to the composition, see below.

### Locks (`PlanningLocksProofs`)

`LocksTyped` and `FilesMatch` (`FilesMatchTransactions`), for any programs that meet
`MixAssumption`, any number of crashes and faults, and a file system that refuses what it
likes. In two layers: `LocksInv` is about the locks alone (a waiter takes away only what is
overdue, `StealInv`; a lock that was not taken from a living holder is held by whoever
believes to hold it, `HeldInv`, and two holders exclude each other, `Exclusion`; a process
writes with all its locks, `WroteInv`). On it rests `FilesInv`, per file whose writers all use
a lock that was not so taken: nobody has written the file since a process that is about to
write or undo has read it (`CopyInv`), and it holds exactly what the transactions that went
through have put there (`ReportInv`), which `CarriedOutIsSaid` turns into the property.

### The planning files (`PlanningProofs`)

* `WavesInOrder` (`DependenciesFirst`), `WavesTyped`: a plan waits for what it needs and has
  not been visited, and its level is above that of what it needs and was (`Levels`). When all
  are visited, the levels order them, whatever the order of the queue. Of every run
  (`RunsInOrder`): what a plan of the run needs has a summary, is in the run as well, or is one
  of the two exceptions; and what is dispatched is of the first wave that is not over.
* `AcceptedIsHonored` (`PlannedIsHonored`): what the gate has accepted is still in a
  section that counts (`StillPlanned`), since a plan that is rewritten voids the acceptance,
  and a plan mentions a decision in one way (`OneWay`). A phrase is found again as long as the
  decision reads as it did when the plan took it over.
* `ConfigIsKept` (`ConfigReadsBack`): what was promised is in the file and in every text
  about to be written over it (`PromisesHeld`); `Keeps` says what a migration leaves alone,
  and is shown of each migration and composed.
* `NumbersAreFresh` (`NewPhaseIsFresh`): a new integer is above those of headings and
  directories, a new decimal above those of its base (`NextIntegerAbove`,
  `NextDecimalAbove`). This needs `MaxKeys < 999`: the code looks for the highest number
  below the backlog's, so a roadmap of 999 phases would meet it.
* `DirsAreFound` (`DirsFollowHeadings`): between the halves of a removal the directories
  bear the numbers that their headings will have (`HalfRenumbered`), unless one of the
  five causes has left its trace in `skew`.
* `SyncIsIdempotent` (`SyncSettles`): a sync leaves the files alone, so that it wants of
  its own result what it wanted before.
* `ManagerLeads` (`ManagerGuides`): a summary is that of a plan, who plans has a directory
  and who executes has plans to execute (`ManagerSound`). With nothing to recommend, a phase
  that is neither complete nor blocked needs another such phase, and among finitely many
  that leads back to one that needs itself (`WaitingLoop`), which is blocked (`ItGoesOn`).
  That it keeps apart what is related (`ItKeepsApart`) rests on `Closure` being closed, and
  hence transitive, and the least such set.
* `RetriesKeepUp` (`RetryIsNotWeaker`): what is resolved is a function of configuration,
  agent and attempt (`RoutingInv`); the level rises with the attempt and stays past the cap
  (`HigherOrSame`), and what the runtimes make of it keeps the order (`ClampMonotone`).
* `RepairsSettle` (`RepairSettles`): what is wrong is still to be repaired (`ToBeRepaired`)
  and no repair is queued twice (`Once`); a key is added only to a configuration that is
  still the one that was read, and a configuration is written anew only where none can be
  read, so no setting is dropped.
* The types. `PhaseTyped`: no heading has the number 0 before its point, which a removal
  keeps because it takes one off only above another such number (`NumbersGiven`,
  `StaysAbove`); so the progress table is never taken for a phase, and `met` holds phases
  of the milestone only. Boxes, archive and position follow (`Notes`, `PhaseAfterIn`).
  `StateTyped`: what a command writes into STATE.md is again a body and a front matter
  (`Bodies`, `Fronts`), and the files of all phases are no more than there can be
  (`SumBounded`). `ConfigurationTyped`: migrations, merges and sets leave every key with one
  of its own values, where a value that moves comes from a key with the same ones
  (`KeyValues`, `ConfigKeyed`). `PlanningHealthTyped`: a check queues at most five repairs,
  each once (`FewRepairs`, `HealthCounted`). `GateTyped`, `RoutingTyped` and
  `PhaseManagerTyped` rest on `GateShape`, `ModelTyped` and `ManagerBounded`.

### Around the planning files (`ToolingProofs`, `InstallerProofs`)

* `WorkIsSafe` (`WorkIsKept`): when the clean-up removes the worktree of an agent that wrote
  nothing since its summary was rescued, all its commits are merged and it holds at most a
  summary that has its copy, although the agent may be running (`WorkFacts`, `WaveFacts`);
  the reaper takes worktrees of dead agents, whose commits the tip has (`ReaperFacts`).
* `EntriesAreKept` (`PlanningFilesKept`): no two sessions move entries of one directory
  (`TargetsApart`), and a directory being filled holds what was moved into it and nothing
  else (`MovedSoFar`), so that moving back loses nothing.
* `UserContentIsKept`, `FailedRunsLeaveNoTrace` (in `InstallerProofs`): a file has one content for ever apart from
  its absence and a pruned `hooks.json` (`OneContent`); a run that found it and whose file
  is gone holds a copy it is not about to delete (`HeldWhenGone`); while no lock was
  seized, a run under way owns the lock (`LockHeld`); and the files a run found are what is
  on disk with its copies put back (`Accounted`), from which the action property follows
  at the end of a roll-back. Of a run that was carried out and fails to remove its lock file
  nothing is promised: it ends in an error with its changes in place (a finding).
* `OpenItemsAreShown` (`NothingIsHidden`): a session that is over waits on no test, a
  complete one has none unfinished and a resolved one no gap (`SessionEnds`). What lies in a
  directory or a file that cannot be read is excepted.
* `DriftIsReported` (`UnmappedIsReported`): what was there at the commit of the stamp needs
  no report (`StampFacts`), and a mapper the gate asked for is given every place that holds
  something to report (`MapperFacts`). A gate that does not compare says so.
* `AgentsAreWarned` (`AgentIsWarned`): the count in the file and a credit of `Debounce` per
  overlap and kill cover the silent uses. Of hooks that overlap, each one's silence is
  covered as well, and only the last may need the count that it leaves (`Covered`).
* `ListedIsShown` (`ShownIsListed`): in an undisturbed apply what is staged is installed or
  left to copy, what is installed and prunable is staged or left to prune (`ApplyExact`), and
  the kind before is complete (`Complete`). What of the user's is there is never left to prune
  (`UserKept`). A closure is the least set closed under what its skills require, so it is
  closed.
* `BannerTellsTheTruth` (`BannerIsTrue`): a worker knows the version of its place and then
  the one published as long as neither has changed (`FoundOut`), and the cache is foreign
  or what some worker knew (`CacheFacts`).

* The types: `WorktreeTyped`, `InstallersTyped`, `WorkstreamTyped`, `SurfaceTyped`,
  `OpenTyped`, `DriftTyped`, `MonitorTyped` and `UpdateTyped`, from the invariants above and
  the bounds on what is counted.

### The compositions

TLC checks `ServicesSpec`, `PlanningSpec` and `ToolingSpec`, whereas the theorems above are
about the components. `PartsAreServices`, `PartsArePlanners` and `PartsAreTools` say that a
behaviour of a composition is one of each of its components: its initial states are theirs,
and a step is one of the component at work and leaves the others alone. Hence
`ServicesKeepTheirWord`, `PlannersKeepTheirWord` and `ToolsKeepTheirWord`, which state all
safety properties of these three runs of the specifications TLC checks, and `PlanningTyped`
and `ToolingTyped`, their type invariants. The routing has no initial state to rest in that
would do for every instance: it is a component while it is at work, and otherwise its
variables do not change, which is all that `RetryIsNotWeaker` and `PlanningTypeOK` need.

### Assumptions

The assumptions are those of the modules, and TLC evaluates each. Beside bounds they say
what the instances that are to be looked at are: initial configurations give a key one of
its own values or none (`KeyedTexts`; other values are the files that cannot be read),
agents of the catalog name tiers there are (`ModelTiers`), a planning directory has
snapshots and registry entries of versions there are, the trees of a repository consist of
its files, and programs of locks are of the kinds the source has (`MixAssumption`).

### Only model-checked

* Liveness, which is out of the prover's reach: `EventSettles`, `EventReachesQueue`,
  `ReminderEnds`, `WatchComesBack`, `CommandsEnd`, and the fairness of `ImplementsOutcome`.
* What a loop computes. `ComputeClosure` and `Closure` state what the source's loops
  return, the least closed set, and not the rounds in which they find it, and `Raise` the
  level that so many single steps lead to: that the loops end with it is an induction over
  data.

## 6. Abstractions and what is not modelled

* A phase of the pipeline is one step; it ends at an await. A crash is modelled
  between phases: one inside a phase leaves the same rows as a crash before it, or as
  one after it with the audit write failed.
* Which attachments match and what they contain is open in `Scan`; texts, links,
  company names and wording are left out.
* Celery's Redis transport redelivers a message that stays unacknowledged for its
  visibility timeout. Messages are acknowledged at the start, so this concerns
  retries with a countdown of more than an hour, which the source does not have.
* A run's SELECT and its reading of the clock, two lines apart, are one step. What
  happens between them (time, a commit of another run) is modelled as happening
  after both: a run may visit its rows arbitrarily late either way, and a stale
  snapshot is what the steps after `StartRun` are about.
* A reminder whose user row is gone is skipped by the source; users are never
  deleted by any code, so the branch has no state to happen in.
* In the tooling a file is the facts the commands read in it: fields, keys, numbers,
  statuses, a set of processes. Markdown, YAML and their wording are left out, except
  where the way a text is found is what goes wrong (`Put` of `PlanningState`, `OneWay` of
  `PhaseGates`, the two places of a key in `Configuration`).
* Git is its effect on commits, branches and worktrees.

* What `validate health` finds outside the planning directory (agents that are not installed,
  worktrees, a `git worktree list` that fails) is any of the combinations there are
  (`OutsideIssues`), since nothing repairs it and no other finding depends on it.
* The staging directories of the skills are private to one process; of them the model keeps
  the set of staged entries.

Not modelled: the check of the base of worktrees (`worktree-base-ref.cjs`), a command that
compares HEAD with origin once and prints advice: `execute-phase.md` takes the base of every
wave itself (line 551), HEAD advances with each (750), and nothing asks the command again;
the attempt loop of the AI gateway and its usage rows, which nothing reads;
the traversal of MIME parts, the extraction of text and the formats of dates, which are
functions of library data; health end points and metrics, which only read; of the tooling,
the dispatch of the command line, the guards that look at one use of a tool, the stores of
knowledge that agents read as text, the generation of documents and profiles, and imports
that run once. `PROJECT.json` gives the reason for each.

Hazards that no property covers: the Pub/Sub `messageId` used as the id of a Gmail message
(`webhook.py:93`; whether the numberings agree is decided elsewhere, `FetchMessage` may
always fail); a reminder whose delivery failed and that is marked as sent all the same
(`email_tasks.py:679`), a usage row written before the answer is parsed
(`ai_gateway.py:203`), a health state that flickers (`monitoring.py:101`) and dates that fit
two formats (`email_tasks.py:57`) are what one call does, which a unit test can reach; the
reaper's `remove --force` (`worktree-safety.cjs:832`) discards what a dead agent had not
committed: it asks whether the branch is merged and not whether the worktree is clean, so
`WorkIsKept` claims uncommitted work of the clean-up of a wave only.

## 7. What is left

1. A composition of push endpoint, task and reminders, from a push to an outcome.
2. The loops behind `Closure` and `Raise`, as machines of single rounds that end in what the
   operators state.
