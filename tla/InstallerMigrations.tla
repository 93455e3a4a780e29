------------------------ MODULE InstallerMigrations ------------------------
(***************************************************************************)
(* Installer migrations on one configuration directory: the lock with its  *)
(* reclamation of dead owners, planning from the manifest, the application *)
(* with a rollback copy of every file it touches, the roll-back of a failed*)
(* run, and the roll-back the caller may ask for after a successful one.   *)
(***************************************************************************)
EXTENDS Naturals, Sequences

CONSTANTS
  Installers,      \* processes, each running the migrations once
  MaxIoFaults,     \* bound: failing file operations
  MaxKills,        \* bound: killed processes
  NoOwner,
  InitialDisks     \* what an earlier install and the user may have left


\* A retired hook, a file of the renamed directory, Codex's hooks.json.
Artifacts == {"hook", "legacy", "hooksJson"}
Migrations == {"baseline", "orphans", "codex", "rename"}
Contents == {"absent", "pristine", "edited", "foreign", "registered", "pruned"}
ActionTypes == {"none", "record-baseline", "baseline-preserve-user", "prompt-user", "preserve-user",
                "remove-managed", "backup-and-remove", "rewrite-json"}

ASSUME InstallerAssumption ==
  /\ NoOwner \notin Installers /\ MaxIoFaults \in Nat /\ MaxKills \in Nat
  /\ InitialDisks \subseteq [Artifacts -> Contents \ {"pruned"}]

\* The migrations in the order of their file names, with the files they look at.
Catalog == << [id |-> "baseline", file |-> "hook"], [id |-> "baseline", file |-> "hooksJson"],
              [id |-> "orphans", file |-> "hook"], [id |-> "codex", file |-> "hooksJson"],
              [id |-> "rename", file |-> "legacy"] >>

NoPlan == [i \in DOMAIN Catalog |-> [id |-> Catalog[i].id, file |-> Catalog[i].file, type |-> "none"]]
NoCopies == [f \in Artifacts |-> "absent"]
Unlocked == [owner |-> NoOwner, signed |-> FALSE]

VARIABLES
  disk,       \* content of each file
  manifest,   \* files recorded in the manifest of the previous install
  applied,    \* ids in the install state
  mlock,      \* the lock file: its creator, and whether it holds a pid yet
  ipc, at,    \* where a process is, and in which action
  todo,       \* its plan
  pending,    \* the migrations it found pending
  copies, backups,   \* files of its rollback and backup directories
  before,     \* the install state it found
  undo,       \* files still to be restored
  kept,       \* a restore failed
  outcome,
  ioFaults, kills,
  found,      \* history: files and state when it planned
  seized,     \* history: a live process lost its lock, or a roll-back ran without one
              \* beside a run
  forfeited   \* history: files whose rollback copy was deleted unrestored

installVars == <<disk, manifest, applied, mlock, ipc, at, todo, pending, copies, backups,
                 before, undo, kept, outcome, ioFaults, kills, found, seized, forfeited>>

IpcAlive == {"wait", "sign", "reclaim", "plan", "mark", "journal", "act", "copied", "backed",
             "restore", "release", "unapply"}

InstallerTypeOK ==
  /\ disk \in [Artifacts -> Contents] /\ manifest \subseteq Artifacts
  /\ applied \subseteq Migrations
  /\ mlock \in [owner : Installers \cup {NoOwner}, signed : BOOLEAN]
  /\ ipc \in [Installers -> IpcAlive \cup {"done", "killed"}]
  /\ todo \in [Installers -> [DOMAIN Catalog ->
                  [id : Migrations, file : Artifacts, type : ActionTypes]]]
  /\ at \in [Installers -> 1 .. Len(Catalog) + 1]
  /\ pending \in [Installers -> SUBSET Migrations]
  /\ copies \in [Installers -> [Artifacts -> Contents]]
  /\ backups \in [Installers -> [Artifacts -> Contents]]
  /\ before \in [Installers -> SUBSET Migrations]
  /\ undo \in [Installers -> SUBSET Artifacts] /\ kept \in [Installers -> BOOLEAN]
  /\ outcome \in [Installers -> {"none", "applied", "marked", "blocked", "error",
                                 "incomplete", "locked", "rolledback", "unreleased"}]
  /\ ioFaults \in 0 .. MaxIoFaults /\ kills \in 0 .. MaxKills
  /\ found \in [Installers -> [made : BOOLEAN, files : [Artifacts -> Contents],
                           ids : SUBSET Migrations]]
  /\ seized \in BOOLEAN /\ forfeited \subseteq Artifacts

InstallerInit ==
  /\ disk \in InitialDisks
  /\ manifest = {f \in {"hook", "legacy"} : disk[f] \in {"pristine", "edited"}}
  /\ applied \in {{}, {"baseline", "codex"}}
  /\ mlock = Unlocked
  /\ ipc = [p \in Installers |-> "wait"] /\ at = [p \in Installers |-> 1]
  /\ todo = [p \in Installers |-> NoPlan] /\ pending = [p \in Installers |-> {}]
  /\ copies = [p \in Installers |-> NoCopies] /\ backups = [p \in Installers |-> NoCopies]
  /\ before = [p \in Installers |-> {}] /\ undo = [p \in Installers |-> {}]
  /\ kept = [p \in Installers |-> FALSE] /\ outcome = [p \in Installers |-> "none"]
  /\ ioFaults = 0 /\ kills = 0
  /\ found = [p \in Installers |-> [made |-> FALSE, files |-> NoCopies, ids |-> {}]]
  /\ seized = FALSE /\ forfeited = {}

----------------------------------------------------------------------------
(* The lock.                                                               *)

fileVars == <<disk, manifest, applied, at, todo, pending, copies, backups, before, undo,
              kept, found, forfeited>>

\* openSync "wx" creates an empty file ...
CreateLock(p) ==
  /\ ipc[p] = "wait" /\ mlock.owner = NoOwner
  /\ mlock' = [owner |-> p, signed |-> FALSE]
  /\ ipc' = [ipc EXCEPT ![p] = "sign"]
  /\ UNCHANGED <<fileVars, outcome, ioFaults, kills, seized>>

\* ... and the pid is written by a second call, by name; when that fails the
\* file is removed, if that can be done.
SignLock(p) ==
  /\ ipc[p] = "sign"
  /\ \/ mlock' = [owner |-> p, signed |-> TRUE] /\ ipc' = [ipc EXCEPT ![p] = "plan"]
        /\ UNCHANGED <<outcome, ioFaults>>
     \/ /\ ioFaults < MaxIoFaults /\ ioFaults' = ioFaults + 1
        /\ mlock' \in {Unlocked, mlock} /\ ipc' = [ipc EXCEPT ![p] = "done"]
        /\ outcome' = [outcome EXCEPT ![p] = "error"]
  /\ UNCHANGED <<fileVars, kills, seized>>

\* readLockFile, isPidAlive: a file without a pid yet is nobody's.
OwnerIsDead == mlock.signed /\ ipc[mlock.owner] \notin IpcAlive

\* EEXIST: the pid in the file belongs to no process ...
SeeDeadOwner(p) ==
  /\ ipc[p] = "wait" /\ mlock.owner # NoOwner /\ OwnerIsDead
  /\ ipc' = [ipc EXCEPT ![p] = "reclaim"]
  /\ UNCHANGED <<fileVars, mlock, outcome, ioFaults, kills, seized>>

\* ... and the file of that name is removed, if there still is one and it can be.
ReclaimLock(p) ==
  /\ ipc[p] = "reclaim" /\ ipc' = [ipc EXCEPT ![p] = "wait"]
  /\ \/ /\ mlock' = Unlocked /\ UNCHANGED ioFaults
        /\ seized' = (seized \/ (mlock.owner # NoOwner /\ ipc[mlock.owner] \in IpcAlive))
     \/ /\ ioFaults < MaxIoFaults /\ ioFaults' = ioFaults + 1
        /\ UNCHANGED <<mlock, seized>>
  /\ UNCHANGED <<fileVars, outcome, kills>>

\* The lock stays held, or unreadable, for the whole timeout.
LockTimeout(p) ==
  /\ ipc[p] = "wait" /\ mlock.owner # NoOwner
  /\ ipc' = [ipc EXCEPT ![p] = "done"] /\ outcome' = [outcome EXCEPT ![p] = "locked"]
  /\ UNCHANGED <<fileVars, mlock, ioFaults, kills, seized>>

\* The `finally` of the run.  A lock file that is gone or cannot be removed is the
\* error of a run that had none, also when it was carried out.
ReleaseLock(p) ==
  /\ ipc[p] = "release" /\ ipc' = [ipc EXCEPT ![p] = "done"]
  /\ \/ mlock.owner # NoOwner /\ mlock' = Unlocked /\ UNCHANGED <<outcome, ioFaults>>
     \/ /\ \/ mlock.owner = NoOwner /\ UNCHANGED ioFaults
           \/ ioFaults < MaxIoFaults /\ ioFaults' = ioFaults + 1
        /\ outcome' = IF outcome[p] \in {"error", "incomplete"} THEN outcome
                      ELSE [outcome EXCEPT ![p] = "unreleased"]
        /\ UNCHANGED mlock
  /\ seized' = (seized \/ mlock.owner # p)
  /\ UNCHANGED <<fileVars, kills>>

----------------------------------------------------------------------------
(* The plan.                                                               *)

\* classifyArtifact: the hash on disk against the one of the manifest.
Classification(f) ==
  CASE disk[f] = "absent" /\ f \in manifest -> "managed-missing"
    [] disk[f] = "absent" -> "missing"
    [] f \notin manifest -> "unknown"
    [] disk[f] = "pristine" -> "managed-pristine"
    [] OTHER -> "managed-modified"

Managed == {"managed-pristine", "managed-modified"}

\* isStaleGsdLookingPath: an unmanaged file with a name of the product.
StaleLooking(f) == f = "hook"

\* 000: every file of the install surfaces is recorded, preserved or asked
\* about, when the caller wants the scan.
BaselineAction(f, scan) ==
  IF ~ scan \/ disk[f] = "absent" THEN "none"
  ELSE IF Classification(f) \in Managed THEN "record-baseline"
  ELSE IF StaleLooking(f) THEN "prompt-user" ELSE "baseline-preserve-user"

\* 001: retired hooks that the manifest knows.
OrphanAction(f) ==
  CASE Classification(f) = "managed-pristine" -> "remove-managed"
    [] Classification(f) = "managed-modified" -> "backup-and-remove"
    [] OTHER -> "none"

\* 002: hooks.json with registrations of the product, other keys or not.
CodexAction(f) == IF disk[f] \in {"pristine", "registered"} THEN "rewrite-json" ELSE "none"

\* 003: files of the renamed directory; what the manifest does not know is
\* preserved.
RenameAction(f) ==
  IF Classification(f) = "unknown" THEN "baseline-preserve-user" ELSE OrphanAction(f)

RawAction(id, f, scan) ==
  CASE id = "baseline" -> BaselineAction(f, scan) [] id = "orphans" -> OrphanAction(f)
    [] id = "codex" -> CodexAction(f) [] id = "rename" -> RenameAction(f)

\* planInstallerMigrations never removes what the user has changed or made.
Protected(type, class) ==
  IF type = "remove-managed" /\ class = "managed-modified" THEN "backup-and-remove"
  ELSE IF type = "remove-managed" /\ class = "unknown" THEN "preserve-user" ELSE type

Blocks(a) ==
  \/ a.type = "prompt-user"
  \/ /\ Classification(a.file) = "unknown"
     /\ a.type \notin {"rewrite-json", "record-baseline", "baseline-preserve-user"}

\* What each migration plans for each of its files, in their order.
Planned(ids, scan) ==
  [i \in DOMAIN Catalog |->
     LET c == Catalog[i]
     IN [id |-> c.id, file |-> c.file,
         type |-> IF c.id \in ids
                  THEN Protected(RawAction(c.id, c.file, scan), Classification(c.file)) ELSE "none"]]
StepsOf(plan) == {a \in {plan[i] : i \in DOMAIN Catalog} : a.type # "none"}

\* A plan without actions is only recorded, and one that needs the user is not applied.
AfterPlanning(plan) ==
  IF StepsOf(plan) = {} THEN "mark"
  ELSE IF \E a \in StepsOf(plan) : Blocks(a) THEN "release" ELSE "journal"

\* The migrations of the runtime and scope that the install state lacks.
PlanRun(p) ==
  /\ ipc[p] = "plan"
  /\ \E scan, codex \in BOOLEAN :
     LET ids == (IF codex THEN Migrations ELSE Migrations \ {"codex"}) \ applied
         plan == Planned(ids, scan)
     IN /\ pending' = [pending EXCEPT ![p] = ids]
        /\ todo' = [todo EXCEPT ![p] = plan]
        /\ ipc' = [ipc EXCEPT ![p] = AfterPlanning(plan)]
        /\ outcome' = IF AfterPlanning(plan) = "release"
                      THEN [outcome EXCEPT ![p] = "blocked"] ELSE outcome
  /\ found' = [found EXCEPT ![p] = [made |-> TRUE, files |-> disk, ids |-> applied]]
  /\ seized' = (seized \/ \E q \in Installers : ipc[q] = "unapply")
  /\ UNCHANGED <<disk, manifest, applied, mlock, at, copies, backups, before, undo, kept,
                 ioFaults, kills, forfeited>>

\* Nothing to do: the pending ids are recorded all the same.
MarkApplied(p) ==
  /\ ipc[p] = "mark"
  /\ \/ /\ applied' = applied \cup pending[p]
        /\ outcome' = [outcome EXCEPT ![p] = "marked"] /\ UNCHANGED ioFaults
     \/ /\ ioFaults < MaxIoFaults /\ ioFaults' = ioFaults + 1
        /\ outcome' = [outcome EXCEPT ![p] = "error"] /\ UNCHANGED applied
  /\ ipc' = [ipc EXCEPT ![p] = "release"]
  /\ UNCHANGED <<disk, manifest, mlock, at, todo, pending, copies, backups, before, undo,
                 kept, kills, found, seized, forfeited>>

----------------------------------------------------------------------------
(* applyInstallerMigrationPlan.                                            *)

OpenJournal(p) ==
  /\ ipc[p] = "journal"
  /\ before' = [before EXCEPT ![p] = applied]
  /\ ipc' = [ipc EXCEPT ![p] = "act"]
  /\ UNCHANGED <<disk, manifest, applied, mlock, at, todo, pending, copies, backups, undo,
                 kept, outcome, ioFaults, kills, found, seized, forfeited>>

Current(p) == todo[p][at[p]]

\* A file that is not there, or an action that only records it.
SkipAction(p) ==
  /\ ipc[p] = "act" /\ at[p] <= Len(Catalog)
  /\ disk[Current(p).file] = "absent"
       \/ Current(p).type \in {"none", "record-baseline", "baseline-preserve-user"}
  /\ at' = [at EXCEPT ![p] = @ + 1]
  /\ UNCHANGED <<disk, manifest, applied, mlock, ipc, todo, pending, copies, backups, before,
                 undo, kept, outcome, ioFaults, kills, found, seized, forfeited>>

\* Mutant of CopyForRollback: a file that gets a backup gets no other copy.
CopyUnlessBackup(p) ==
  /\ ipc[p] = "act" /\ at[p] <= Len(Catalog)
  /\ LET a == Current(p) IN
       /\ disk[a.file] # "absent"
       /\ a.type \in {"remove-managed", "backup-and-remove", "rewrite-json"}
       /\ copies' = IF a.type = "backup-and-remove" THEN copies
                    ELSE [copies EXCEPT ![p][a.file] = disk[a.file]]
       /\ ipc' = [ipc EXCEPT ![p] = IF a.type = "backup-and-remove" THEN "copied" ELSE "backed"]
  /\ UNCHANGED <<disk, manifest, applied, mlock, at, todo, pending, backups, before, undo,
                 kept, outcome, ioFaults, kills, found, seized, forfeited>>


CopyForRollback(p) ==
  /\ ipc[p] = "act" /\ at[p] <= Len(Catalog)
  /\ LET a == Current(p) IN
       /\ disk[a.file] # "absent"
       /\ a.type \in {"remove-managed", "backup-and-remove", "rewrite-json"}
       /\ copies' = [copies EXCEPT ![p][a.file] = disk[a.file]]
       /\ ipc' = [ipc EXCEPT ![p] = IF a.type = "backup-and-remove" THEN "copied" ELSE "backed"]
  /\ UNCHANGED <<disk, manifest, applied, mlock, at, todo, pending, backups, before, undo,
                 kept, outcome, ioFaults, kills, found, seized, forfeited>>

CopyForUser(p) ==
  /\ ipc[p] = "copied"
  /\ backups' = [backups EXCEPT ![p][Current(p).file] = disk[Current(p).file]]
  /\ ipc' = [ipc EXCEPT ![p] = "backed"]
  /\ UNCHANGED <<disk, manifest, applied, mlock, at, todo, pending, copies, before, undo,
                 kept, outcome, ioFaults, kills, found, seized, forfeited>>

\* The rewritten hooks.json is deleted when nothing else was in it.
TouchFile(p) ==
  /\ ipc[p] = "backed"
  /\ disk' = [disk EXCEPT ![Current(p).file] =
                IF Current(p).type = "rewrite-json" /\ @ # "pristine" THEN "pruned" ELSE "absent"]
  /\ at' = [at EXCEPT ![p] = @ + 1] /\ ipc' = [ipc EXCEPT ![p] = "act"]
  /\ UNCHANGED <<manifest, applied, mlock, todo, pending, copies, backups, before, undo,
                 kept, outcome, ioFaults, kills, found, seized, forfeited>>

\* The journal is completed and the ids with actions enter the install state,
\* by one rename.
Commit(p) ==
  /\ ipc[p] = "act" /\ at[p] > Len(Catalog)
  /\ applied' = applied \cup {a.id : a \in StepsOf(todo[p])}
  /\ outcome' = [outcome EXCEPT ![p] = "applied"]
  /\ ipc' = [ipc EXCEPT ![p] = "release"]
  /\ UNCHANGED <<disk, manifest, mlock, at, todo, pending, copies, backups, before, undo,
                 kept, ioFaults, kills, found, seized, forfeited>>

\* Mutant of ApplyFails: only the file of the failing action is restored.
RestoreCurrent(p) ==
  /\ ipc[p] \in {"journal", "act", "copied", "backed"}
  /\ ioFaults < MaxIoFaults /\ ioFaults' = ioFaults + 1
  /\ undo' = [undo EXCEPT ![p] = {f \in Artifacts : copies[p][f] # "absent"
                                    /\ at[p] <= Len(Catalog) /\ f = Current(p).file}]
  /\ ipc' = [ipc EXCEPT ![p] = "restore"]
  /\ UNCHANGED <<disk, manifest, applied, mlock, at, todo, pending, copies, backups, before,
                 kept, outcome, kills, found, seized, forfeited>>

\* Any of these operations fails: the files copied so far are to be restored.
ApplyFails(p) ==
  /\ ipc[p] \in {"journal", "act", "copied", "backed"}
  /\ ioFaults < MaxIoFaults /\ ioFaults' = ioFaults + 1
  /\ undo' = [undo EXCEPT ![p] = {f \in Artifacts : copies[p][f] # "absent"}]
  /\ ipc' = [ipc EXCEPT ![p] = "restore"]
  /\ UNCHANGED <<disk, manifest, applied, mlock, at, todo, pending, copies, backups, before,
                 kept, outcome, kills, found, seized, forfeited>>

\* One file is copied back, or cannot be.
RestoreFile(p, f) ==
  /\ ipc[p] \in {"restore", "unapply"} /\ f \in undo[p]
  /\ \/ disk' = [disk EXCEPT ![f] = copies[p][f]] /\ UNCHANGED <<kept, ioFaults>>
     \/ /\ ioFaults < MaxIoFaults /\ ioFaults' = ioFaults + 1
        /\ kept' = [kept EXCEPT ![p] = TRUE] /\ UNCHANGED disk
  /\ undo' = [undo EXCEPT ![p] = @ \ {f}]
  /\ UNCHANGED <<manifest, applied, mlock, ipc, at, todo, pending, copies, backups, before,
                 outcome, kills, found, seized, forfeited>>

\* The journal and the copies go, unless a file could not be restored.
RestoreEnds(p) ==
  /\ ipc[p] = "restore" /\ undo[p] = {}
  /\ IF kept[p] THEN UNCHANGED <<copies, backups>>
     ELSE /\ copies' = [copies EXCEPT ![p] = NoCopies]
          /\ backups' = [backups EXCEPT ![p] = NoCopies]
  /\ outcome' = [outcome EXCEPT ![p] = IF kept[p] THEN "incomplete" ELSE "error"]
  /\ ipc' = [ipc EXCEPT ![p] = "release"]
  /\ UNCHANGED <<disk, manifest, applied, mlock, at, todo, pending, before, undo, kept,
                 ioFaults, kills, found, seized, forfeited>>

\* The caller rolls a successful run back, after the lock was released ...
RollbackResult(p) ==
  /\ ipc[p] = "done" /\ outcome[p] = "applied"
  /\ undo' = [undo EXCEPT ![p] = {f \in Artifacts : copies[p][f] # "absent"}]
  /\ ipc' = [ipc EXCEPT ![p] = "unapply"]
  /\ seized' = (seized \/ \E q \in Installers : ipc[q] \in IpcAlive \ {"wait", "reclaim", "sign"})
  /\ UNCHANGED <<disk, manifest, applied, mlock, at, todo, pending, copies, backups, before,
                 kept, outcome, ioFaults, kills, found, forfeited>>

\* ... and at the end the install state is put back, or is not, and the copies
\* go, restored or not.
RollbackEnds(p) ==
  /\ ipc[p] = "unapply" /\ undo[p] = {}
  /\ \/ applied' = before[p] /\ UNCHANGED <<kept, ioFaults>>
     \/ /\ ioFaults < MaxIoFaults /\ ioFaults' = ioFaults + 1
        /\ kept' = [kept EXCEPT ![p] = TRUE] /\ UNCHANGED applied
  /\ forfeited' = forfeited \cup
       (IF kept[p] THEN {f \in Artifacts : copies[p][f] # "absent"} ELSE {})
  /\ copies' = [copies EXCEPT ![p] = NoCopies]
  /\ backups' = [backups EXCEPT ![p] = NoCopies]
  /\ outcome' = [outcome EXCEPT ![p] = IF kept'[p] THEN "incomplete" ELSE "rolledback"]
  /\ ipc' = [ipc EXCEPT ![p] = "done"]
  /\ UNCHANGED <<disk, manifest, mlock, at, todo, pending, before, undo, kills, found, seized>>

Kill(p) ==
  /\ ipc[p] \in IpcAlive /\ kills < MaxKills
  /\ ipc' = [ipc EXCEPT ![p] = "killed"] /\ kills' = kills + 1
  /\ UNCHANGED <<fileVars, mlock, outcome, ioFaults, seized>>

InstallerNext == \E p \in Installers :
  \/ CreateLock(p) \/ SignLock(p) \/ SeeDeadOwner(p) \/ ReclaimLock(p) \/ LockTimeout(p)
  \/ ReleaseLock(p) \/ PlanRun(p) \/ MarkApplied(p) \/ OpenJournal(p) \/ SkipAction(p)
  \/ CopyForRollback(p) \/ CopyForUser(p) \/ TouchFile(p) \/ Commit(p) \/ ApplyFails(p)
  \/ RestoreEnds(p) \/ RollbackResult(p) \/ RollbackEnds(p) \/ Kill(p)
  \/ \E f \in Artifacts : RestoreFile(p, f)

InstallerSpec == InstallerInit /\ [][InstallerNext]_installVars

----------------------------------------------------------------------------
UserContents == {"edited", "foreign", "registered"}

\* What a user has made or changed is on disk, in a rollback copy or in a
\* backup, whenever and wherever a run is killed or an operation fails and
\* however runs overlap; the exception is a file whose restore failed in the
\* roll-back of a finished run, which deletes the copies nevertheless
\* (applyInstallerMigrationPlan, rollbackAppliedMigrationResult).
UserContentKept ==
  \A p \in Installers, f \in Artifacts :
    found[p].files[f] \in UserContents /\ f \notin forfeited =>
      \/ disk[f] \in {found[p].files[f], "pruned"}
      \/ \E q \in Installers : found[p].files[f] \in {copies[q][f], backups[q][f]}

\* A run that fails in its work, with an error which is not "rollback
\* incomplete", leaves files and install state as it found them, whatever
\* failed and whoever ran before, and so does one that was rolled back in full
\* if nobody ran after it; the exceptions are runs that lost their lock to
\* another process and roll-backs beside a run.  A run that was carried out and
\* fails to remove its lock file ("unreleased") has done its work and throws:
\* of that error nothing is promised (the error path of
\* applyInstallerMigrationPlan, rollbackAppliedMigrationResult, and the
\* `finally` of runInstallerMigrations).
FailedRunLeavesNoTrace ==
  [][\A p \in Installers :
       /\ ipc[p] # "done" /\ ipc'[p] = "done" /\ found[p].made
       /\ ~ seized' /\ ~ kept[p]
       /\ \/ outcome'[p] = "error"
          \/ outcome'[p] = "rolledback" /\ \A q \in Installers \ {p} : ~ found[q].made
       => disk' = found[p].files /\ applied' = found[p].ids]_installVars
=============================================================================
