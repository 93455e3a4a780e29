--------------------------- MODULE InstallerProofs ---------------------------
(***************************************************************************)
(* Proofs about the migrations of the installer, for every number of       *)
(* installers, failures and kills.                                         *)
(***************************************************************************)
EXTENDS InstallerMigrations, FiniteSetTheorems, TLAPS

Touching == {"remove-managed", "backup-and-remove", "rewrite-json"}

\* What is planned for a file: removal for the hook and the legacy file, a rewrite for
\* hooks.json; no file is touched by two steps.
PlansKnown ==
  \A p \in Installers : \A i \in 1 .. 5 :
    /\ todo[p][i].file = Catalog[i].file
    /\ todo[p][i].type \in {"remove-managed", "backup-and-remove"} => i \in {3, 5}
    /\ todo[p][i].type = "rewrite-json" => i = 4

\* The files of the touching steps that a run has come to.
Reached(p, f) ==
  \E i \in 3 .. 5 : f = Catalog[i].file /\ (i < at[p] \/ (i = at[p] /\ ipc[p] # "act"))

\* A file is copied before it is touched, and stays copied while it is to be restored.
CopyFacts(p) ==
  /\ ipc[p] \in {"copied", "backed"} =>
       at[p] \in 1 .. 5 /\ Current(p).type \in Touching /\ copies[p][Current(p).file] # "absent"
  /\ \A f \in undo[p] : copies[p][f] # "absent"
  /\ ipc[p] \in {"wait", "sign", "reclaim", "plan", "mark", "journal"} => copies[p] = NoCopies
  /\ ipc[p] \in {"act", "copied", "backed"} =>
       \A f \in Artifacts : copies[p][f] # "absent" => Reached(p, f)
CopiesMade == \A p \in Installers : CopyFacts(p)

\* Everything that was ever a file, on disk, in a copy or as a run found it.
Seen(f) ==
  {disk[f]} \cup UNION {{copies[q][f], backups[q][f], found[q].files[f]} : q \in Installers}

\* Apart from its absence and a pruned hooks.json, a file has one content for ever.
OneContent ==
  \A f \in Artifacts : \E c \in Contents : \A s \in Seen(f) :
    s \in {c, "absent"} \/ (s = "pruned" /\ f = "hooksJson")

\* A run has a copy of the file which it is not about to delete.
Holds(q, f) ==
  copies[q][f] # "absent" /\ (ipc[q] \in {"restore", "unapply"} => f \in undo[q] \/ kept[q])
HeldWhenGone ==
  \A f \in Artifacts :
    Seen(f) \cap UserContents # {} /\ disk[f] = "absent" /\ f \notin forfeited =>
      f # "hooksJson" /\ \E q \in Installers : Holds(q, f)

\* The states of a run that has made its plan and holds the lock.
Underway == {"mark", "journal", "act", "copied", "backed", "restore", "release"}

\* Unless a lock was seized, a run under way owns it, and a roll-back runs alone.
LockHeld ==
  ~ seized =>
    /\ \A p \in Installers : ipc[p] \in Underway \cup {"sign", "plan"} => mlock.owner = p
    /\ \A p \in Installers : ipc[p] = "unapply" =>
         \A q \in Installers : ipc[q] \notin Underway /\ (ipc[q] = "unapply" => q = p)

ProgressFacts(p) ==
  /\ ipc[p] \in Underway \cup {"unapply"} \/ outcome[p] = "applied" => found[p].made
  /\ ipc[p] \in {"wait", "sign", "reclaim", "plan"} => ~ found[p].made
  /\ ipc[p] \in (IpcAlive \ {"release", "unapply"}) => outcome[p] = "none"
  /\ ipc[p] = "unapply" => outcome[p] = "applied"
  /\ outcome[p] = "rolledback" => ipc[p] = "done"
RunProgress == \A p \in Installers : ProgressFacts(p)

\* The run is the only one that changes files and install state ...
AloneOnDisk(p) ==
  /\ ~ seized
  /\ \/ ipc[p] \in Underway
     \/ /\ outcome[p] = "applied" /\ ipc[p] \in {"done", "unapply"}
        /\ \A q \in Installers \ {p} : ~ found[q].made

\* ... and accounts for them: what it has not copied is as found, what it has copied is
\* in the copy, and what it has restored is back.
AccountOf(p) ==
  /\ \A f \in Artifacts : IF copies[p][f] = "absent" THEN disk[f] = found[p].files[f]
                          ELSE copies[p][f] = found[p].files[f]
  /\ ipc[p] \in {"restore", "unapply"} /\ ~ kept[p] =>
       \A f \in Artifacts \ undo[p] : disk[f] = found[p].files[f]
  /\ outcome[p] \notin {"applied", "marked"} => applied = found[p].ids
  /\ ipc[p] \in {"act", "copied", "backed"} \/ outcome[p] = "applied" => before[p] = found[p].ids
  /\ ipc[p] = "release" /\ outcome[p] = "error" /\ ~ kept[p] =>
       \A f \in Artifacts : disk[f] = found[p].files[f]
Accounted == \A p \in Installers : AloneOnDisk(p) => AccountOf(p)

InstInv == /\ InstallerTypeOK /\ PlansKnown /\ CopiesMade /\ OneContent /\ HeldWhenGone
           /\ LockHeld /\ RunProgress /\ Accounted

\* A step of one process.
InstallerStep(p) ==
  \/ CreateLock(p) \/ SignLock(p) \/ SeeDeadOwner(p) \/ ReclaimLock(p) \/ LockTimeout(p)
  \/ ReleaseLock(p) \/ PlanRun(p) \/ MarkApplied(p) \/ OpenJournal(p) \/ SkipAction(p)
  \/ CopyForRollback(p) \/ CopyForUser(p) \/ TouchFile(p) \/ Commit(p) \/ ApplyFails(p)
  \/ RestoreEnds(p) \/ RollbackResult(p) \/ RollbackEnds(p) \/ Kill(p)
  \/ \E f \in Artifacts : RestoreFile(p, f)

LEMMA CatalogFacts ==
  /\ Len(Catalog) = 5 /\ DOMAIN Catalog = 1 .. 5
  /\ Catalog[1].file = "hook" /\ Catalog[2].file = "hooksJson" /\ Catalog[3].file = "hook"
  /\ Catalog[4].file = "hooksJson" /\ Catalog[5].file = "legacy"
  /\ Catalog[1].id = "baseline" /\ Catalog[2].id = "baseline" /\ Catalog[3].id = "orphans"
  /\ Catalog[4].id = "codex" /\ Catalog[5].id = "rename"
BY DEF Catalog

LEMMA InstallerStarts == InstallerInit => InstInv
<1> SUFFICES ASSUME InstallerInit PROVE InstInv
  OBVIOUS
<1> USE InstallerAssumption DEF InstallerAssumption
<1>1. InstallerTypeOK
  <2>1. disk \in [Artifacts -> Contents] /\ manifest \subseteq Artifacts
    BY DEF InstallerInit, Artifacts
  <2>2. NoPlan \in [DOMAIN Catalog -> [id : Migrations, file : Artifacts, type : ActionTypes]]
    BY CatalogFacts DEF NoPlan, Migrations, Artifacts, ActionTypes
  <2>3. NoCopies \in [Artifacts -> Contents]
    BY DEF NoCopies, Contents
  <2>5. applied \subseteq Migrations /\ mlock \in [owner : Installers \cup {NoOwner}, signed : BOOLEAN]
    BY DEF InstallerInit, Migrations, Unlocked
  <2>6. ipc \in [Installers -> IpcAlive \cup {"done", "killed"}]
    BY DEF InstallerInit, IpcAlive
  <2>7. found \in [Installers -> [made : BOOLEAN, files : [Artifacts -> Contents], ids : SUBSET Migrations]]
    BY <2>3 DEF InstallerInit
  <2>8. 1 \in 1 .. Len(Catalog) + 1
    BY CatalogFacts
  <2>9. /\ todo \in [Installers -> [DOMAIN Catalog -> [id : Migrations, file : Artifacts, type : ActionTypes]]]
        /\ at \in [Installers -> 1 .. Len(Catalog) + 1]
    BY <2>2, <2>8 DEF InstallerInit
  <2>10. /\ copies \in [Installers -> [Artifacts -> Contents]]
         /\ backups \in [Installers -> [Artifacts -> Contents]]
    BY <2>3 DEF InstallerInit
  <2>11. /\ pending \in [Installers -> SUBSET Migrations] /\ before \in [Installers -> SUBSET Migrations]
         /\ undo \in [Installers -> SUBSET Artifacts] /\ kept \in [Installers -> BOOLEAN]
         /\ outcome \in [Installers -> {"none", "applied", "marked", "blocked", "error",
                                        "incomplete", "locked", "rolledback", "unreleased"}]
    BY DEF InstallerInit
  <2>12. /\ ioFaults \in 0 .. MaxIoFaults /\ kills \in 0 .. MaxKills
         /\ seized = FALSE /\ forfeited \subseteq Artifacts
    BY DEF InstallerInit
  <2> QED BY <2>1, <2>5, <2>6, <2>7, <2>9, <2>10, <2>11, <2>12 DEF InstallerTypeOK
<1>2. PlansKnown
  BY CatalogFacts DEF InstallerInit, PlansKnown, NoPlan
<1>3. \A p \in Installers : ipc[p] = "wait" /\ outcome[p] = "none" /\ undo[p] = {}
        /\ copies[p] = NoCopies /\ backups[p] = NoCopies
        /\ found[p] = [made |-> FALSE, files |-> NoCopies, ids |-> {}]
  BY DEF InstallerInit
<1>4. CopiesMade
  BY <1>3 DEF CopiesMade, CopyFacts
<1>5. ASSUME NEW f \in Artifacts PROVE Seen(f) \subseteq {disk[f], "absent"} /\ disk[f] \in Contents \ {"pruned"}
  <2>1. NoCopies[f] = "absent"
    BY DEF NoCopies
  <2> QED BY <1>3, <2>1 DEF Seen, InstallerInit
<1>6. OneContent
  <2> SUFFICES ASSUME NEW f \in Artifacts
               PROVE  \E c \in Contents : \A s \in Seen(f) :
                        s \in {c, "absent"} \/ (s = "pruned" /\ f = "hooksJson")
    BY DEF OneContent
  <2>1. disk[f] \in Contents /\ \A s \in Seen(f) : s \in {disk[f], "absent"}
    BY <1>5
  <2> QED BY <2>1
<1>7. HeldWhenGone
  BY <1>5 DEF HeldWhenGone, UserContents
<1>8. LockHeld /\ RunProgress /\ Accounted
  BY <1>3 DEF LockHeld, RunProgress, ProgressFacts, Accounted, AloneOnDisk, Underway
<1> QED
  BY <1>1, <1>2, <1>4, <1>6, <1>7, <1>8 DEF InstInv

\* The parts of the state that only a few operations change.
LEMMA InstallerFrames ==
  ASSUME NEW p \in Installers, InstallerStep(p)
  PROVE  /\ UNCHANGED todo \/ PlanRun(p)
         /\ \/ UNCHANGED <<disk, copies, backups, found>>
            \/ PlanRun(p) \/ CopyForRollback(p) \/ CopyForUser(p) \/ TouchFile(p)
            \/ (\E f \in Artifacts : RestoreFile(p, f)) \/ RestoreEnds(p) \/ RollbackEnds(p)
BY DEF InstallerStep, CreateLock, SignLock, SeeDeadOwner, ReclaimLock, LockTimeout, ReleaseLock,
       MarkApplied, OpenJournal, SkipAction, CopyForRollback, CopyForUser, TouchFile, Commit,
       ApplyFails, RestoreFile, RestoreEnds, RollbackResult, RollbackEnds, Kill, fileVars

\* What is planned for each step of the catalog.
LEMMA PlannedFacts ==
  ASSUME NEW ids, NEW scan \in BOOLEAN
  PROVE  /\ Planned(ids, scan) \in [DOMAIN Catalog -> [id : Migrations, file : Artifacts, type : ActionTypes]]
         /\ \A i \in 1 .. 5 :
              /\ Planned(ids, scan)[i].file = Catalog[i].file
              /\ Planned(ids, scan)[i].type \in {"remove-managed", "backup-and-remove"} => i \in {3, 5}
              /\ Planned(ids, scan)[i].type = "rewrite-json" => i = 4
<1> DEFINE Type(i) == IF Catalog[i].id \in ids
                      THEN Protected(RawAction(Catalog[i].id, Catalog[i].file, scan),
                                     Classification(Catalog[i].file)) ELSE "none"
<1>1. \A f : BaselineAction(f, scan) \in {"none", "record-baseline", "prompt-user", "baseline-preserve-user"}
  BY DEF BaselineAction
<1>2. \A f : OrphanAction(f) \in {"none", "remove-managed", "backup-and-remove"}
  BY DEF OrphanAction
<1>3. \A f : CodexAction(f) \in {"none", "rewrite-json"}
  BY DEF CodexAction
<1>4. \A f : RenameAction(f) \in {"none", "remove-managed", "backup-and-remove", "baseline-preserve-user"}
  BY <1>2 DEF RenameAction
<1>5. \A type, class : Protected(type, class) \in {type, "backup-and-remove", "preserve-user"}
        /\ (type # "remove-managed" => Protected(type, class) = type)
  BY DEF Protected
<1>6. /\ \A i \in {1, 2} : Type(i) \in {"none", "record-baseline", "prompt-user", "baseline-preserve-user"}
      /\ Type(4) \in {"none", "rewrite-json"}
  BY <1>1, <1>3, <1>5, CatalogFacts DEF RawAction
<1>7. \A i \in {3, 5} : Type(i) \in ActionTypes \ {"rewrite-json"}
  BY <1>2, <1>4, <1>5, CatalogFacts DEF RawAction, ActionTypes
<1>8. \A i \in 1 .. 5 : i \in {1, 2} \/ i = 4 \/ i \in {3, 5}
  OBVIOUS
<1>9. Planned(ids, scan) = [i \in DOMAIN Catalog |->
                              [id |-> Catalog[i].id, file |-> Catalog[i].file, type |-> Type(i)]]
  BY DEF Planned
<1> HIDE DEF Type
<1>10. \A i \in 1 .. 5 : Catalog[i].id \in Migrations /\ Catalog[i].file \in Artifacts /\ Type(i) \in ActionTypes
  BY <1>6, <1>7, <1>8, CatalogFacts DEF Migrations, Artifacts, ActionTypes
<1> QED
  BY <1>6, <1>7, <1>8, <1>9, <1>10, CatalogFacts

\* The bounds on failures and kills are kept.
LEMMA FaultsCounted ==
  ASSUME ioFaults \in 0 .. MaxIoFaults, kills \in 0 .. MaxKills, NEW p \in Installers, InstallerStep(p)
  PROVE  ioFaults' \in 0 .. MaxIoFaults /\ kills' \in 0 .. MaxKills
<1>1. ioFaults' = ioFaults \/ (ioFaults < MaxIoFaults /\ ioFaults' = ioFaults + 1)
  BY DEF InstallerStep, CreateLock, SignLock, SeeDeadOwner, ReclaimLock, LockTimeout, ReleaseLock,
         PlanRun, AfterPlanning, MarkApplied, OpenJournal, SkipAction, CopyForRollback, CopyForUser, TouchFile,
         Commit, ApplyFails, RestoreFile, RestoreEnds, RollbackResult, RollbackEnds, Kill
<1>2. kills' = kills \/ (kills < MaxKills /\ kills' = kills + 1)
  BY DEF InstallerStep, CreateLock, SignLock, SeeDeadOwner, ReclaimLock, LockTimeout, ReleaseLock,
         PlanRun, AfterPlanning, MarkApplied, OpenJournal, SkipAction, CopyForRollback, CopyForUser, TouchFile,
         Commit, ApplyFails, RestoreFile, RestoreEnds, RollbackResult, RollbackEnds, Kill
<1> QED
  BY <1>1, <1>2, InstallerAssumption DEF InstallerAssumption

\* Every operation keeps the types, given that a copied file belongs to a step.
LEMMA InstallerTyped ==
  ASSUME InstInv, NEW p \in Installers, InstallerStep(p)
  PROVE  InstallerTypeOK'
<1>a. /\ [owner |-> p, signed |-> TRUE] \in [owner : Installers \cup {NoOwner}, signed : BOOLEAN]
      /\ Unlocked \in [owner : Installers \cup {NoOwner}, signed : BOOLEAN]
  BY DEF Unlocked
<1> USE DEF InstInv, InstallerTypeOK, IpcAlive
<1>0. ioFaults' \in 0 .. MaxIoFaults /\ kills' \in 0 .. MaxKills
  BY FaultsCounted
<1>1. CASE CreateLock(p)
  <2>1. mlock' = [owner |-> p, signed |-> FALSE] /\ ipc' = [ipc EXCEPT ![p] = "sign"]
    BY <1>1 DEF CreateLock
  <2>2. mlock' \in [owner : Installers \cup {NoOwner}, signed : BOOLEAN]
    BY <2>1
  <2> QED BY <1>1, <2>1, <2>2 DEF CreateLock, fileVars
<1>2. CASE SignLock(p)
  <2>1. mlock' \in [owner : Installers \cup {NoOwner}, signed : BOOLEAN]
    <3>1. mlock' = [owner |-> p, signed |-> TRUE] \/ mlock' = Unlocked \/ mlock' = mlock
      BY <1>2 DEF SignLock
    <3> QED BY <1>a, <3>1
  <2>2. ipc' \in [Installers -> IpcAlive \cup {"done", "killed"}]
    <3>1. ipc' = [ipc EXCEPT ![p] = "plan"] \/ ipc' = [ipc EXCEPT ![p] = "done"]
      BY <1>2 DEF SignLock
    <3> QED BY <3>1
  <2>3. outcome' \in [Installers -> {"none", "applied", "marked", "blocked", "error",
                                     "incomplete", "locked", "rolledback", "unreleased"}]
    BY <1>2 DEF SignLock
  <2> QED BY <1>0, <1>2, <2>1, <2>2, <2>3 DEF SignLock, fileVars
<1>3. CASE SeeDeadOwner(p)
  BY <1>3 DEF SeeDeadOwner, fileVars
<1>4. CASE ReclaimLock(p)
  <2>1. mlock' \in [owner : Installers \cup {NoOwner}, signed : BOOLEAN]
    BY <1>a, <1>4 DEF ReclaimLock
  <2>2. ipc' \in [Installers -> IpcAlive \cup {"done", "killed"}]
    BY <1>4 DEF ReclaimLock
  <2>3. seized' \in BOOLEAN
    BY <1>4 DEF ReclaimLock
  <2> QED BY <1>0, <1>4, <2>1, <2>2, <2>3 DEF ReclaimLock, fileVars
<1>5. CASE LockTimeout(p)
  BY <1>5 DEF LockTimeout, fileVars
<1>6. CASE ReleaseLock(p)
  <2>1. mlock' \in [owner : Installers \cup {NoOwner}, signed : BOOLEAN]
    BY <1>a, <1>6 DEF ReleaseLock
  <2>2. ipc' \in [Installers -> IpcAlive \cup {"done", "killed"}]
    BY <1>6 DEF ReleaseLock
  <2>3. seized' \in BOOLEAN
    BY <1>6 DEF ReleaseLock
  <2>4. outcome' \in [Installers -> {"none", "applied", "marked", "blocked", "error",
                                     "incomplete", "locked", "rolledback", "unreleased"}]
    BY <1>6 DEF ReleaseLock
  <2> QED BY <1>0, <1>6, <2>1, <2>2, <2>3, <2>4 DEF ReleaseLock, fileVars
<1>7. CASE PlanRun(p)
  <2>2. PICK scan \in BOOLEAN, codex \in BOOLEAN :
          LET ids == (IF codex THEN Migrations ELSE Migrations \ {"codex"}) \ applied
          IN /\ pending' = [pending EXCEPT ![p] = ids]
             /\ todo' = [todo EXCEPT ![p] = Planned(ids, scan)]
    BY <1>7 DEF PlanRun, AfterPlanning
  <2> DEFINE ids == (IF codex THEN Migrations ELSE Migrations \ {"codex"}) \ applied
  <2>3. ids \subseteq Migrations /\ pending' = [pending EXCEPT ![p] = ids]
        /\ todo' = [todo EXCEPT ![p] = Planned(ids, scan)]
    BY <2>2
  <2> HIDE DEF ids
  <2>4. Planned(ids, scan) \in [DOMAIN Catalog -> [id : Migrations, file : Artifacts, type : ActionTypes]]
    BY PlannedFacts
  <2>5. pending' \in [Installers -> SUBSET Migrations]
    BY <2>3
  <2>6. found' \in [Installers -> [made : BOOLEAN, files : [Artifacts -> Contents], ids : SUBSET Migrations]]
    BY <1>7 DEF PlanRun, AfterPlanning
  <2>7. seized' \in BOOLEAN
    BY <1>7 DEF PlanRun, AfterPlanning
  <2>8. ipc' \in [Installers -> IpcAlive \cup {"done", "killed"}]
    BY <1>7 DEF PlanRun, AfterPlanning
  <2>9. outcome' \in [Installers -> {"none", "applied", "marked", "blocked", "error",
                                     "incomplete", "locked", "rolledback", "unreleased"}]
    BY <1>7 DEF PlanRun, AfterPlanning
  <2>10. todo' \in [Installers -> [DOMAIN Catalog ->
                       [id : Migrations, file : Artifacts, type : ActionTypes]]]
    BY <2>3, <2>4
  <2> QED BY <1>7, <2>5, <2>6, <2>7, <2>8, <2>9, <2>10 DEF PlanRun, AfterPlanning
<1>8. CASE MarkApplied(p)
  <2>1. applied' \subseteq Migrations
    BY <1>8 DEF MarkApplied
  <2>2. ipc' \in [Installers -> IpcAlive \cup {"done", "killed"}]
    BY <1>8 DEF MarkApplied
  <2>3. outcome' \in [Installers -> {"none", "applied", "marked", "blocked", "error",
                                     "incomplete", "locked", "rolledback", "unreleased"}]
    BY <1>8 DEF MarkApplied
  <2> QED BY <1>0, <1>8, <2>1, <2>2, <2>3 DEF MarkApplied
<1>9. CASE OpenJournal(p)
  BY <1>9 DEF OpenJournal
<1>10. CASE SkipAction(p)
  <2>1. at' \in [Installers -> 1 .. Len(Catalog) + 1]
    <3>1. at[p] \in 1 .. 6 /\ at[p] <= 5 /\ at' = [at EXCEPT ![p] = at[p] + 1] /\ Len(Catalog) = 5
      BY <1>10, CatalogFacts DEF SkipAction
    <3>2. at[p] + 1 \in 1 .. 6
      BY <3>1
    <3> QED BY <3>1, <3>2
  <2> QED BY <1>10, <2>1 DEF SkipAction
<1>11. CASE CopyForRollback(p)
  BY <1>11, CatalogFacts DEF CopyForRollback, Current
<1>12. CASE CopyForUser(p)
  BY <1>12, CatalogFacts DEF CopyForUser, Current, CopiesMade, CopyFacts
<1>13. CASE TouchFile(p)
  <2>1. at[p] \in 1 .. 5 /\ Current(p) = todo[p][at[p]]
    BY <1>13, CatalogFacts DEF TouchFile, CopiesMade, CopyFacts, Current
  <2>2. at' \in [Installers -> 1 .. Len(Catalog) + 1]
    BY <1>13, <2>1, CatalogFacts DEF TouchFile
  <2>3. disk' \in [Artifacts -> Contents]
    BY <1>13 DEF TouchFile, Contents
  <2>4. ipc' \in [Installers -> IpcAlive \cup {"done", "killed"}]
    BY <1>13 DEF TouchFile
  <2> QED BY <1>13, <2>2, <2>3, <2>4 DEF TouchFile
<1>14. CASE Commit(p)
  BY <1>14, CatalogFacts DEF Commit, StepsOf
<1>15. CASE ApplyFails(p)
  <2>2. undo' \in [Installers -> SUBSET Artifacts]
    BY <1>15 DEF ApplyFails
  <2>3. ipc' \in [Installers -> IpcAlive \cup {"done", "killed"}]
    BY <1>15 DEF ApplyFails
  <2> QED BY <1>0, <1>15, <2>2, <2>3 DEF ApplyFails
<1>16. CASE RestoreEnds(p)
  <2>1. NoCopies \in [Artifacts -> Contents]
    BY DEF NoCopies, Contents
  <2>2. copies' \in [Installers -> [Artifacts -> Contents]] /\ backups' \in [Installers -> [Artifacts -> Contents]]
    <3>1. CASE kept[p]
      BY <1>16, <3>1 DEF RestoreEnds
    <3>2. CASE ~ kept[p]
      <4>1. copies' = [copies EXCEPT ![p] = NoCopies] /\ backups' = [backups EXCEPT ![p] = NoCopies]
        BY <1>16, <3>2 DEF RestoreEnds
      <4> QED BY <2>1, <4>1
    <3> QED BY <3>1, <3>2
  <2>3. ipc' \in [Installers -> IpcAlive \cup {"done", "killed"}]
    BY <1>16 DEF RestoreEnds
  <2>4. outcome' \in [Installers -> {"none", "applied", "marked", "blocked", "error",
                                     "incomplete", "locked", "rolledback", "unreleased"}]
    BY <1>16 DEF RestoreEnds
  <2> QED BY <1>16, <2>2, <2>3, <2>4 DEF RestoreEnds
<1>17. CASE RollbackResult(p)
  BY <1>17 DEF RollbackResult
<1>18. CASE RollbackEnds(p)
  <2>1. NoCopies \in [Artifacts -> Contents]
    BY DEF NoCopies, Contents
  <2>2. copies' \in [Installers -> [Artifacts -> Contents]] /\ backups' \in [Installers -> [Artifacts -> Contents]]
    BY <1>18, <2>1 DEF RollbackEnds
  <2>3. ipc' \in [Installers -> IpcAlive \cup {"done", "killed"}]
    BY <1>18 DEF RollbackEnds
  <2>4. outcome' \in [Installers -> {"none", "applied", "marked", "blocked", "error",
                                     "incomplete", "locked", "rolledback", "unreleased"}]
    BY <1>18 DEF RollbackEnds
  <2>5. applied' \subseteq Migrations /\ forfeited' \subseteq Artifacts
    BY <1>18 DEF RollbackEnds
  <2>6. kept' \in [Installers -> BOOLEAN]
    BY <1>18 DEF RollbackEnds
  <2> QED BY <1>0, <1>18, <2>2, <2>3, <2>4, <2>5, <2>6 DEF RollbackEnds
<1>19. CASE Kill(p)
  BY <1>0, <1>19 DEF Kill, fileVars
<1>20. ASSUME NEW f \in Artifacts, RestoreFile(p, f) PROVE InstallerTypeOK'
  <2>0. copies[p][f] \in Contents
    OBVIOUS
  <2>1. disk' \in [Artifacts -> Contents]
    BY <1>20, <2>0 DEF RestoreFile
  <2>2. kept' \in [Installers -> BOOLEAN]
    BY <1>20 DEF RestoreFile
  <2>4. undo' \in [Installers -> SUBSET Artifacts]
    BY <1>20 DEF RestoreFile
  <2> QED BY <1>0, <1>20, <2>1, <2>2, <2>4 DEF RestoreFile
<1> QED
  BY <1>1, <1>2, <1>3, <1>4, <1>5, <1>6, <1>7, <1>8, <1>9, <1>10, <1>11, <1>12, <1>13, <1>14,
     <1>15, <1>16, <1>17, <1>18, <1>19, <1>20 DEF InstallerStep

\* What a step of one process leaves alone: the state of the others.
OthersKept(p) ==
  \A q \in Installers \ {p} :
    /\ ipc'[q] = ipc[q] /\ at'[q] = at[q] /\ todo'[q] = todo[q]
    /\ copies'[q] = copies[q] /\ before'[q] = before[q] /\ undo'[q] = undo[q]
    /\ kept'[q] = kept[q] /\ outcome'[q] = outcome[q] /\ found'[q] = found[q]

LEMMA OthersAreKept ==
  ASSUME InstallerTypeOK, NEW p \in Installers, InstallerStep(p) PROVE OthersKept(p)
<1> SUFFICES ASSUME NEW q \in Installers \ {p}
             PROVE  /\ ipc'[q] = ipc[q] /\ at'[q] = at[q] /\ todo'[q] = todo[q]
                    /\ copies'[q] = copies[q] /\ before'[q] = before[q] /\ undo'[q] = undo[q]
                    /\ kept'[q] = kept[q] /\ outcome'[q] = outcome[q] /\ found'[q] = found[q]
  BY DEF OthersKept
<1>1. /\ DOMAIN ipc = Installers /\ DOMAIN at = Installers /\ DOMAIN todo = Installers
      /\ DOMAIN copies = Installers /\ DOMAIN before = Installers /\ DOMAIN undo = Installers
      /\ DOMAIN kept = Installers /\ DOMAIN outcome = Installers /\ DOMAIN found = Installers
  BY DEF InstallerTypeOK
<1>2. CASE \/ CreateLock(p) \/ SignLock(p) \/ SeeDeadOwner(p) \/ ReclaimLock(p) \/ LockTimeout(p)
           \/ ReleaseLock(p) \/ Kill(p)
  BY <1>1, <1>2 DEF CreateLock, SignLock, SeeDeadOwner, ReclaimLock, LockTimeout, ReleaseLock, Kill, fileVars
<1>3. CASE MarkApplied(p) \/ OpenJournal(p) \/ SkipAction(p) \/ CopyForUser(p) \/ Commit(p)
  BY <1>1, <1>3 DEF MarkApplied, OpenJournal, SkipAction, CopyForUser, Commit
<1>4. CASE PlanRun(p)
  BY <1>1, <1>4 DEF PlanRun, AfterPlanning
<1>5. CASE CopyForRollback(p) \/ TouchFile(p)
  BY <1>1, <1>5 DEF CopyForRollback, TouchFile
<1>6. CASE ApplyFails(p) \/ RollbackResult(p)
  BY <1>1, <1>6 DEF ApplyFails, RollbackResult
<1>7. CASE RestoreEnds(p)
  BY <1>1, <1>7 DEF RestoreEnds
<1>8. CASE RollbackEnds(p)
  BY <1>1, <1>8 DEF RollbackEnds
<1>9. CASE \E f \in Artifacts : RestoreFile(p, f)
  BY <1>1, <1>9 DEF RestoreFile
<1> QED
  BY <1>2, <1>3, <1>4, <1>5, <1>6, <1>7, <1>8, <1>9 DEF InstallerStep

\* The plan of a run never changes after it was made.
LEMMA PlansStayKnown ==
  ASSUME InstInv, NEW p \in Installers, InstallerStep(p) PROVE PlansKnown'
<1>1. CASE UNCHANGED todo
  BY <1>1 DEF InstInv, PlansKnown
<1>2. CASE PlanRun(p)
  <2>0. PICK scan \in BOOLEAN, codex \in BOOLEAN :
          LET ids == (IF codex THEN Migrations ELSE Migrations \ {"codex"}) \ applied
          IN todo' = [todo EXCEPT ![p] = Planned(ids, scan)]
    BY <1>2 DEF PlanRun, AfterPlanning
  <2> DEFINE ids == (IF codex THEN Migrations ELSE Migrations \ {"codex"}) \ applied
  <2>1. todo' = [todo EXCEPT ![p] = Planned(ids, scan)]
    BY <2>0
  <2> HIDE DEF ids
  <2>2. DOMAIN todo = Installers
    BY DEF InstInv, InstallerTypeOK
  <2>3. \A q \in Installers : todo'[q] = IF q = p THEN Planned(ids, scan) ELSE todo[q]
    BY <2>1, <2>2
  <2> QED BY <2>3, PlannedFacts DEF InstInv, PlansKnown
<1> QED
  BY <1>1, <1>2, InstallerFrames

\* The current step of a run, as it was planned.
LEMMA CurrentStep ==
  ASSUME InstInv, NEW p \in Installers, at[p] \in 1 .. 5
  PROVE  /\ Current(p).file = Catalog[at[p]].file /\ Current(p).file \in Artifacts
         /\ Current(p).type \in Touching => at[p] \in 3 .. 5
         /\ Current(p).type \in {"remove-managed", "backup-and-remove"} => Current(p).file # "hooksJson"
         /\ Current(p).type = "rewrite-json" => Current(p).file = "hooksJson"
<1>1. Current(p) = todo[p][at[p]]
  BY DEF Current
<1>2. /\ Current(p).file = Catalog[at[p]].file
      /\ Current(p).type \in {"remove-managed", "backup-and-remove"} => at[p] \in {3, 5}
      /\ Current(p).type = "rewrite-json" => at[p] = 4
  BY <1>1 DEF InstInv, PlansKnown
<1> QED
  BY <1>2, CatalogFacts DEF Touching, Artifacts

\* A file is copied before it is touched.
LEMMA CopiesStayMade ==
  ASSUME InstInv, NEW p \in Installers, InstallerStep(p) PROVE CopiesMade'
<1>1. OthersKept(p)
  BY OthersAreKept DEF InstInv
<1>2. ASSUME NEW q \in Installers \ {p} PROVE CopyFacts(q)'
  BY <1>1, <1>2 DEF OthersKept, InstInv, CopiesMade, CopyFacts, Reached, Current
<1>3. CopyFacts(p)'
  <2> USE DEF InstInv, CopiesMade, CopyFacts
  <2>0. /\ DOMAIN ipc = Installers /\ DOMAIN at = Installers /\ DOMAIN copies = Installers
        /\ DOMAIN undo = Installers /\ DOMAIN copies[p] = Artifacts /\ at[p] \in 1 .. 6
        /\ \A f \in Artifacts : NoCopies[f] = "absent"
    BY CatalogFacts DEF InstallerTypeOK, NoCopies
  <2>1. CASE \/ CreateLock(p) \/ SignLock(p) \/ SeeDeadOwner(p) \/ ReclaimLock(p) \/ LockTimeout(p)
             \/ ReleaseLock(p) \/ Kill(p)
    <3>1. UNCHANGED <<copies, undo>> /\ ipc'[p] \in {"sign", "plan", "reclaim", "wait", "done", "killed"}
      BY <2>0, <2>1 DEF CreateLock, SignLock, SeeDeadOwner, ReclaimLock, LockTimeout, ReleaseLock, Kill, fileVars
    <3>2. ipc'[p] \in {"sign", "plan", "reclaim", "wait"} => ipc[p] \in {"wait", "sign", "reclaim"}
      BY <2>0, <2>1 DEF CreateLock, SignLock, SeeDeadOwner, ReclaimLock, LockTimeout, ReleaseLock, Kill
    <3> QED BY <3>1, <3>2
  <2>2. CASE PlanRun(p) \/ MarkApplied(p) \/ OpenJournal(p)
    <3>1. UNCHANGED <<copies, undo>> /\ ipc'[p] \in {"mark", "release", "journal", "act"} /\ copies[p] = NoCopies
      BY <2>0, <2>2 DEF PlanRun, AfterPlanning, MarkApplied, OpenJournal
    <3> QED BY <2>0, <3>1
  <2>3. CASE SkipAction(p)
    <3>1. UNCHANGED <<copies, undo, ipc>> /\ ipc[p] = "act" /\ at'[p] = at[p] + 1
      BY <2>0, <2>3 DEF SkipAction
    <3>2. \A f : Reached(p, f) => Reached(p, f)'
      BY <2>0, <3>1 DEF Reached
    <3> QED BY <3>1, <3>2
  <2>4. CASE CopyForRollback(p)
    <3>1. at[p] \in 1 .. 5 /\ ipc[p] = "act" /\ Current(p).type \in Touching
          /\ ipc'[p] \in {"copied", "backed"} /\ UNCHANGED <<at, todo, undo>>
      BY <2>0, <2>4, CatalogFacts DEF CopyForRollback, Touching
    <3>2. PICK f \in Artifacts : f = Current(p).file /\ f = Catalog[at[p]].file /\ at[p] \in 3 .. 5
      BY <3>1, CurrentStep
    <3>3. copies'[p] = [copies[p] EXCEPT ![f] = disk[f]] /\ disk[f] # "absent"
      BY <2>0, <2>4, <3>2 DEF CopyForRollback
    <3>4. Current(p)' = Current(p)
      BY <3>1 DEF Current
    <3>5. \A g : Reached(p, g) => Reached(p, g)'
      BY <3>1 DEF Reached
    <3>6. Reached(p, f)'
      BY <3>1, <3>2 DEF Reached
    <3>8. \A g \in Artifacts : copies'[p][g] = IF g = f THEN disk[f] ELSE copies[p][g]
      BY <2>0, <3>3
    <3>9. \A g \in undo'[p] : copies'[p][g] # "absent"
      <4>1. undo[p] \subseteq Artifacts
        BY DEF InstallerTypeOK
      <4> QED BY <3>1, <3>3, <3>8, <4>1
    <3>10. \A g \in Artifacts : copies'[p][g] # "absent" => Reached(p, g)'
      BY <3>1, <3>5, <3>6, <3>8
    <3> QED BY <3>1, <3>2, <3>3, <3>4, <3>8, <3>9, <3>10
  <2>5. CASE CopyForUser(p)
    <3>1. UNCHANGED <<copies, undo, at, todo>> /\ ipc[p] = "copied" /\ ipc'[p] = "backed"
      BY <2>0, <2>5 DEF CopyForUser
    <3>2. Current(p)' = Current(p) /\ \A g : Reached(p, g)' = Reached(p, g)
      BY <3>1 DEF Current, Reached
    <3> QED BY <3>1, <3>2
  <2>6. CASE TouchFile(p)
    <3>1. UNCHANGED <<copies, undo>> /\ ipc[p] = "backed" /\ ipc'[p] = "act" /\ at'[p] = at[p] + 1
      BY <2>0, <2>6 DEF TouchFile
    <3>2. \A g : Reached(p, g) => Reached(p, g)'
      BY <2>0, <3>1 DEF Reached
    <3> QED BY <3>1, <3>2
  <2>7. CASE ApplyFails(p) \/ RollbackResult(p)
    <3>1. UNCHANGED copies /\ ipc'[p] \in {"restore", "unapply"}
          /\ undo'[p] = {f \in Artifacts : copies[p][f] # "absent"}
      BY <2>0, <2>7 DEF ApplyFails, RollbackResult
    <3> QED BY <3>1
  <2>8. CASE \E f \in Artifacts : RestoreFile(p, f)
    <3>1. UNCHANGED <<copies, ipc>> /\ ipc[p] \in {"restore", "unapply"} /\ undo'[p] \subseteq undo[p]
      BY <2>0, <2>8 DEF RestoreFile
    <3> QED BY <3>1
  <2>9. CASE RestoreEnds(p) \/ RollbackEnds(p)
    <3>1. undo'[p] = {} /\ ipc'[p] \in {"release", "done"}
      BY <2>0, <2>9 DEF RestoreEnds, RollbackEnds
    <3> QED BY <3>1
  <2>10. CASE Commit(p)
    <3>1. UNCHANGED <<copies, undo>> /\ ipc'[p] = "release"
      BY <2>0, <2>10 DEF Commit
    <3> QED BY <3>1
  <2> QED
    BY <2>1, <2>2, <2>3, <2>4, <2>5, <2>6, <2>7, <2>8, <2>9, <2>10 DEF InstallerStep
<1> QED
  BY <1>2, <1>3 DEF CopiesMade

\* Nothing is ever seen of a file but its content, its absence, or a pruned hooks.json.
LEMMA SeenStays ==
  ASSUME InstInv, NEW p \in Installers, InstallerStep(p), NEW f \in Artifacts
  PROVE  Seen(f)' \subseteq Seen(f) \cup {"absent"} \cup {s \in {"pruned"} : f = "hooksJson"}
<1>0. InstallerTypeOK /\ \A g \in Artifacts : NoCopies[g] = "absent"
  BY DEF InstInv, NoCopies
<1>1. PICK new : new = Seen(f) \cup {"absent"} \cup {s \in {"pruned"} : f = "hooksJson"}
  OBVIOUS
<1> SUFFICES Seen(f)' \subseteq new
  BY <1>1
<1>2. /\ disk[f] \in new /\ "absent" \in new /\ (f = "hooksJson" => "pruned" \in new)
      /\ \A q \in Installers : copies[q][f] \in new /\ backups[q][f] \in new /\ found[q].files[f] \in new
  BY <1>1 DEF Seen
<1>3. ASSUME disk'[f] \in new,
             \A q \in Installers : copies'[q][f] \in new /\ backups'[q][f] \in new /\ found'[q].files[f] \in new
      PROVE  Seen(f)' \subseteq new
  BY <1>3 DEF Seen
<1>4. CASE UNCHANGED <<disk, copies, backups, found>>
  BY <1>2, <1>3, <1>4
<1>5. CASE PlanRun(p)
  <2>1. UNCHANGED <<disk, copies, backups>>
        /\ found' = [found EXCEPT ![p] = [made |-> TRUE, files |-> disk, ids |-> applied]]
    BY <1>5 DEF PlanRun, AfterPlanning
  <2>2. \A q \in Installers : found'[q] = IF q = p THEN [made |-> TRUE, files |-> disk, ids |-> applied] ELSE found[q]
    BY <1>0, <2>1 DEF InstallerTypeOK
  <2>3. \A q \in Installers : found'[q].files[f] \in new
    BY <1>2, <2>2
  <2> QED BY <1>2, <1>3, <2>1, <2>3
<1>6. CASE CopyForRollback(p)
  <2>1. UNCHANGED <<disk, backups, found>>
        /\ copies' = [copies EXCEPT ![p][Current(p).file] = disk[Current(p).file]]
    BY <1>6 DEF CopyForRollback
  <2>2. \A q \in Installers : copies'[q][f] \in {copies[q][f], disk[f]}
    BY <1>0, <2>1 DEF InstallerTypeOK
  <2> QED BY <1>2, <1>3, <2>1, <2>2
<1>7. CASE CopyForUser(p)
  <2>1. UNCHANGED <<disk, copies, found>>
        /\ backups' = [backups EXCEPT ![p][Current(p).file] = disk[Current(p).file]]
    BY <1>7 DEF CopyForUser
  <2>2. \A q \in Installers : backups'[q][f] \in {backups[q][f], disk[f]}
    BY <1>0, <2>1 DEF InstallerTypeOK
  <2> QED BY <1>2, <1>3, <2>1, <2>2
<1>8. CASE TouchFile(p)
  <2>1. at[p] \in 1 .. 5 /\ UNCHANGED <<copies, backups, found>>
    BY <1>8 DEF TouchFile, InstInv, CopiesMade, CopyFacts
  <2>2. disk'[f] \in {disk[f], "absent"} \/ (disk'[f] = "pruned" /\ f = "hooksJson")
    <3>1. Current(p).type \in Touching
      BY <1>8 DEF TouchFile, InstInv, CopiesMade, CopyFacts
    <3>2. Current(p).type = "rewrite-json" => Current(p).file = "hooksJson"
      BY <2>1, CurrentStep
    <3>3. disk' = [disk EXCEPT ![Current(p).file] =
                    IF Current(p).type = "rewrite-json" /\ @ # "pristine" THEN "pruned" ELSE "absent"]
      BY <1>8 DEF TouchFile
    <3> QED BY <1>0, <3>2, <3>3 DEF InstallerTypeOK
  <2> QED BY <1>2, <1>3, <2>1, <2>2
<1>9. ASSUME NEW g \in Artifacts, RestoreFile(p, g) PROVE Seen(f)' \subseteq new
  <2>1. UNCHANGED <<copies, backups, found>> /\ (disk' = [disk EXCEPT ![g] = copies[p][g]] \/ disk' = disk)
    BY <1>9 DEF RestoreFile
  <2>2. disk'[f] \in {disk[f], copies[p][f]}
    BY <1>0, <2>1 DEF InstallerTypeOK
  <2> QED BY <1>2, <1>3, <2>1, <2>2
<1>10. CASE RestoreEnds(p) \/ RollbackEnds(p)
  <2>1. /\ UNCHANGED <<disk, found>>
        /\ copies' = [copies EXCEPT ![p] = NoCopies] \/ copies' = copies
        /\ backups' = [backups EXCEPT ![p] = NoCopies] \/ backups' = backups
    BY <1>10 DEF RestoreEnds, RollbackEnds
  <2>2. \A q \in Installers : copies'[q][f] \in {copies[q][f], "absent"}
    BY <1>0, <2>1 DEF InstallerTypeOK
  <2>3. \A q \in Installers : backups'[q][f] \in {backups[q][f], "absent"}
    BY <1>0, <2>1 DEF InstallerTypeOK
  <2> QED BY <1>2, <1>3, <2>1, <2>2, <2>3
<1> QED
  BY <1>4, <1>5, <1>6, <1>7, <1>8, <1>9, <1>10, InstallerFrames

LEMMA ContentStaysOne ==
  ASSUME InstInv, NEW p \in Installers, InstallerStep(p) PROVE OneContent'
<1> SUFFICES ASSUME NEW f \in Artifacts
             PROVE  \E c \in Contents : \A s \in Seen(f)' :
                      s \in {c, "absent"} \/ (s = "pruned" /\ f = "hooksJson")
  BY DEF OneContent
<1>1. PICK c \in Contents : \A s \in Seen(f) : s \in {c, "absent"} \/ (s = "pruned" /\ f = "hooksJson")
  BY DEF InstInv, OneContent
<1> QED
  BY <1>1, SeenStays

\* Before a file goes, a copy of what the user has made of it is held.
LEMMA HeldStays ==
  ASSUME InstInv, NEW p \in Installers, InstallerStep(p) PROVE HeldWhenGone'
<1> SUFFICES ASSUME NEW f \in Artifacts, Seen(f)' \cap UserContents # {}, disk'[f] = "absent", f \notin forfeited'
             PROVE  f # "hooksJson" /\ \E q \in Installers : Holds(q, f)'
  BY DEF HeldWhenGone
<1>0. InstallerTypeOK /\ OthersKept(p) /\ \A g \in Artifacts : NoCopies[g] = "absent"
  BY OthersAreKept DEF InstInv, NoCopies
<1>1. Seen(f) \cap UserContents # {}
  BY SeenStays DEF UserContents
<1>2. f \notin forfeited
  BY DEF InstallerStep, CreateLock, SignLock, SeeDeadOwner, ReclaimLock, LockTimeout, ReleaseLock,
         PlanRun, AfterPlanning, MarkApplied, OpenJournal, SkipAction, CopyForRollback, CopyForUser, TouchFile,
         Commit, ApplyFails, RestoreFile, RestoreEnds, RollbackResult, RollbackEnds, Kill, fileVars
<1>3. ASSUME NEW q \in Installers \ {p} PROVE Holds(q, f)' = Holds(q, f)
  BY <1>0, <1>3 DEF OthersKept, Holds
<1>4. ASSUME disk[f] = "absent", Holds(p, f) => Holds(p, f)'
      PROVE  f # "hooksJson" /\ \E q \in Installers : Holds(q, f)'
  <2>1. PICK q \in Installers : f # "hooksJson" /\ Holds(q, f)
    BY <1>1, <1>2, <1>4 DEF InstInv, HeldWhenGone
  <2> QED BY <1>3, <1>4, <2>1
<1>d. /\ DOMAIN ipc = Installers /\ DOMAIN copies = Installers /\ DOMAIN undo = Installers
      /\ DOMAIN kept = Installers /\ DOMAIN disk = Artifacts /\ DOMAIN copies[p] = Artifacts
      /\ undo[p] \subseteq Artifacts
  BY <1>0 DEF InstallerTypeOK
<1>5. CASE \/ CreateLock(p) \/ SignLock(p) \/ SeeDeadOwner(p) \/ ReclaimLock(p) \/ LockTimeout(p)
           \/ ReleaseLock(p) \/ Kill(p)
  <2>1. UNCHANGED <<disk, copies>> /\ ipc'[p] \notin {"restore", "unapply"}
    BY <1>d, <1>5 DEF CreateLock, SignLock, SeeDeadOwner, ReclaimLock, LockTimeout, ReleaseLock, Kill, fileVars
  <2> QED BY <1>4, <2>1 DEF Holds
<1>6. CASE PlanRun(p) \/ MarkApplied(p) \/ OpenJournal(p) \/ CopyForUser(p) \/ Commit(p)
  <2>1. UNCHANGED <<disk, copies>> /\ ipc'[p] \notin {"restore", "unapply"}
    BY <1>d, <1>6 DEF PlanRun, AfterPlanning, MarkApplied, OpenJournal, CopyForUser, Commit
  <2> QED BY <1>4, <2>1 DEF Holds
<1>7. CASE SkipAction(p)
  <2>1. UNCHANGED <<disk, copies, ipc, undo, kept>>
    BY <1>7 DEF SkipAction
  <2> QED BY <1>4, <2>1 DEF Holds
<1>8. CASE CopyForRollback(p)
  <2>1. UNCHANGED disk /\ ipc'[p] \in {"copied", "backed"}
        /\ copies'[p] = [copies[p] EXCEPT ![Current(p).file] = disk[Current(p).file]]
        /\ disk[Current(p).file] # "absent"
    BY <1>d, <1>8 DEF CopyForRollback
  <2>2. copies[p][f] # "absent" => copies'[p][f] # "absent"
    BY <1>d, <2>1
  <2> QED BY <1>4, <2>1, <2>2 DEF Holds
<1>9. CASE TouchFile(p)
  <2>1. UNCHANGED copies /\ ipc'[p] = "act" /\ ipc[p] = "backed"
    BY <1>d, <1>9 DEF TouchFile
  <2>2. CASE disk[f] = "absent"
    BY <1>4, <2>1, <2>2 DEF Holds
  <2>3. CASE disk[f] # "absent"
    <3>1. at[p] \in 1 .. 5 /\ copies[p][Current(p).file] # "absent" /\ Current(p).type \in Touching
      BY <2>1 DEF InstInv, CopiesMade, CopyFacts
    <3>2. f = Current(p).file /\ ~ (Current(p).type = "rewrite-json" /\ disk[f] # "pristine")
      BY <1>d, <1>9, <2>3 DEF TouchFile
    <3>3. f # "hooksJson"
      <4> SUFFICES ASSUME f = "hooksJson" PROVE FALSE
        OBVIOUS
      <4>1. Current(p).type = "rewrite-json"
        BY <3>1, <3>2, CurrentStep DEF Touching
      <4>2. disk[f] = "pristine" /\ disk[f] \in Seen(f)
        BY <3>2, <4>1 DEF Seen
      <4>3. PICK c \in Contents : \A s \in Seen(f) : s \in {c, "absent"} \/ (s = "pruned" /\ f = "hooksJson")
        BY DEF InstInv, OneContent
      <4> QED BY <1>1, <4>2, <4>3 DEF UserContents
    <3> QED BY <2>1, <3>1, <3>2, <3>3 DEF Holds
  <2> QED BY <2>2, <2>3
<1>10. CASE ApplyFails(p) \/ RollbackResult(p)
  <2>1. UNCHANGED <<disk, copies>> /\ undo'[p] = {g \in Artifacts : copies[p][g] # "absent"}
    BY <1>d, <1>10 DEF ApplyFails, RollbackResult
  <2> QED BY <1>4, <2>1 DEF Holds
<1>11. ASSUME NEW g \in Artifacts, RestoreFile(p, g)
       PROVE  f # "hooksJson" /\ \E q \in Installers : Holds(q, f)'
  <2>1. UNCHANGED <<copies, ipc>> /\ g \in undo[p] /\ undo'[p] = undo[p] \ {g}
        /\ \/ disk' = [disk EXCEPT ![g] = copies[p][g]] /\ kept' = kept
           \/ disk' = disk /\ kept'[p] = TRUE
    BY <1>d, <1>11 DEF RestoreFile
  <2>2. copies[p][g] # "absent"
    BY <2>1 DEF InstInv, CopiesMade, CopyFacts
  <2>3. disk[f] = "absent"
    BY <1>d, <2>1, <2>2
  <2>4. Holds(p, f) => Holds(p, f)'
    <3>1. CASE kept'[p] = TRUE
      BY <2>1, <3>1 DEF Holds
    <3>2. CASE disk' = [disk EXCEPT ![g] = copies[p][g]] /\ kept' = kept
      <4>1. f # g
        BY <1>d, <2>2, <3>2
      <4> QED BY <2>1, <3>2, <4>1 DEF Holds
    <3> QED BY <2>1, <3>1, <3>2
  <2> QED BY <1>4, <2>3, <2>4
<1>12. CASE RestoreEnds(p)
  <2>1. UNCHANGED disk /\ ipc[p] = "restore" /\ undo[p] = {} /\ ipc'[p] = "release"
        /\ (kept[p] => copies' = copies)
    BY <1>d, <1>12 DEF RestoreEnds
  <2> QED BY <1>4, <2>1 DEF Holds
<1>13. CASE RollbackEnds(p)
  <2>1. UNCHANGED disk /\ ipc[p] = "unapply" /\ undo[p] = {}
        /\ (kept[p] => copies[p][f] = "absent")
    BY <1>d, <1>13 DEF RollbackEnds
  <2> QED BY <1>4, <2>1 DEF Holds
<1> QED
  BY <1>5, <1>6, <1>7, <1>8, <1>9, <1>10, <1>11, <1>12, <1>13 DEF InstallerStep

\* As long as no lock was seized, a run owns the lock and a roll-back is alone.
LEMMA LockStaysHeld ==
  ASSUME InstInv, NEW p \in Installers, InstallerStep(p) PROVE LockHeld'
<1> SUFFICES ASSUME ~ seized'
             PROVE  /\ \A q \in Installers : ipc'[q] \in Underway \cup {"sign", "plan"} => mlock'.owner = q
                    /\ \A q \in Installers : ipc'[q] = "unapply" =>
                         \A r \in Installers : ipc'[r] \notin Underway /\ (ipc'[r] = "unapply" => r = q)
  BY DEF LockHeld
<1>0. InstallerTypeOK /\ OthersKept(p)
  BY OthersAreKept DEF InstInv
<1>1. DOMAIN ipc = Installers /\ mlock.owner \in Installers \cup {NoOwner} /\ NoOwner \notin Installers
  BY <1>0, InstallerAssumption DEF InstallerTypeOK, InstallerAssumption
<1>2. ~ seized
  BY DEF InstallerStep, CreateLock, SignLock, SeeDeadOwner, ReclaimLock, LockTimeout, ReleaseLock,
         PlanRun, AfterPlanning, MarkApplied, OpenJournal, SkipAction, CopyForRollback, CopyForUser, TouchFile,
         Commit, ApplyFails, RestoreFile, RestoreEnds, RollbackResult, RollbackEnds, Kill
<1>3. /\ \A q \in Installers : ipc[q] \in Underway \cup {"sign", "plan"} => mlock.owner = q
      /\ \A q \in Installers : ipc[q] = "unapply" =>
           \A r \in Installers : ipc[r] \notin Underway /\ (ipc[r] = "unapply" => r = q)
  BY <1>2 DEF InstInv, LockHeld
<1>4. \A q \in Installers \ {p} : ipc'[q] = ipc[q]
  BY <1>0 DEF OthersKept
<1>5. CASE CreateLock(p)
  <2>1. mlock.owner = NoOwner /\ mlock'.owner = p /\ ipc'[p] = "sign"
    BY <1>1, <1>5 DEF CreateLock
  <2> QED BY <1>1, <1>3, <1>4, <2>1 DEF Underway
<1>6. CASE SignLock(p)
  <2>1. mlock.owner = p /\ (ipc'[p] = "done" \/ (ipc'[p] = "plan" /\ mlock'.owner = p))
    <3>1. mlock.owner = p
      BY <1>3, <1>6 DEF SignLock
    <3>2. ipc'[p] = "done" \/ (ipc'[p] = "plan" /\ mlock' = [owner |-> p, signed |-> TRUE])
      BY <1>1, <1>6 DEF SignLock
    <3> QED BY <3>1, <3>2
  <2> QED BY <1>3, <1>4, <2>1 DEF Underway
<1>7. CASE ReclaimLock(p)
  <2>1. ipc'[p] = "wait"
    BY <1>1, <1>7 DEF ReclaimLock
  <2>2. CASE ~ (mlock.owner # NoOwner /\ ipc[mlock.owner] \in IpcAlive)
    <3>1. \A q \in Installers : ipc[q] \notin Underway \cup {"sign", "plan"}
      BY <1>1, <1>3, <2>2 DEF Underway, IpcAlive
    <3> QED BY <1>3, <1>4, <2>1, <3>1 DEF Underway
  <2>3. CASE mlock' = mlock
    BY <1>3, <1>4, <2>1, <2>3 DEF Underway
  <2> QED BY <1>7, <2>2, <2>3 DEF ReclaimLock
<1>8. CASE ReleaseLock(p)
  <2>1. ipc'[p] = "done" /\ mlock.owner = p
    BY <1>1, <1>8 DEF ReleaseLock
  <2> QED BY <1>3, <1>4, <2>1 DEF Underway
<1>9. CASE PlanRun(p)
  <2>1. ipc[p] = "plan" /\ ipc'[p] \in {"mark", "release", "journal"} /\ mlock' = mlock
        /\ \A q \in Installers : ipc[q] # "unapply"
    BY <1>1, <1>9 DEF PlanRun, AfterPlanning
  <2> QED BY <1>3, <1>4, <2>1 DEF Underway
<1>10. CASE RollbackResult(p)
  <2>1. ipc'[p] = "unapply" /\ mlock' = mlock
        /\ \A q \in Installers : ipc[q] \notin Underway \cup {"plan", "unapply"}
    BY <1>1, <1>10 DEF RollbackResult, IpcAlive, Underway
  <2> QED BY <1>3, <1>4, <2>1 DEF Underway
<1>11. CASE SeeDeadOwner(p) \/ LockTimeout(p) \/ Kill(p) \/ RollbackEnds(p)
  <2>1. ipc'[p] \notin Underway \cup {"sign", "plan", "unapply"} /\ mlock' = mlock
    BY <1>1, <1>11 DEF SeeDeadOwner, LockTimeout, Kill, RollbackEnds, Underway
  <2> QED BY <1>3, <1>4, <2>1
<1>12. CASE \/ MarkApplied(p) \/ OpenJournal(p) \/ CopyForRollback(p) \/ CopyForUser(p) \/ TouchFile(p)
            \/ Commit(p) \/ ApplyFails(p) \/ RestoreEnds(p)
  <2>1. ipc[p] \in Underway /\ ipc'[p] \in Underway /\ ipc'[p] # "unapply" /\ mlock' = mlock
    BY <1>1, <1>12 DEF MarkApplied, OpenJournal, CopyForRollback, CopyForUser, TouchFile,
         Commit, ApplyFails, RestoreEnds, Underway
  <2> QED BY <1>3, <1>4, <2>1 DEF Underway
<1>13. CASE SkipAction(p) \/ \E f \in Artifacts : RestoreFile(p, f)
  <2>1. ipc' = ipc /\ mlock' = mlock
    BY <1>13 DEF SkipAction, RestoreFile
  <2> QED BY <1>3, <2>1
<1> QED
  BY <1>5, <1>6, <1>7, <1>8, <1>9, <1>10, <1>11, <1>12, <1>13 DEF InstallerStep

\* A run that was carried out has made its plan.
LEMMA ProgressStays ==
  ASSUME InstInv, NEW p \in Installers, InstallerStep(p) PROVE RunProgress'
<1>0. InstallerTypeOK /\ OthersKept(p) /\ ProgressFacts(p)
  BY OthersAreKept DEF InstInv, RunProgress
<1>1. \A q \in Installers \ {p} : ProgressFacts(q)'
  BY <1>0 DEF OthersKept, InstInv, RunProgress, ProgressFacts
<1>2. DOMAIN ipc = Installers /\ DOMAIN outcome = Installers /\ DOMAIN found = Installers
  BY <1>0 DEF InstallerTypeOK
<1>3. CASE \/ CreateLock(p) \/ SeeDeadOwner(p) \/ ReclaimLock(p) \/ SignLock(p) \/ LockTimeout(p)
  <2>1. found' = found /\ ipc[p] \in {"wait", "sign", "reclaim"}
        /\ \/ ipc'[p] \in {"sign", "reclaim", "wait", "plan"} /\ outcome' = outcome
           \/ ipc'[p] = "done" /\ outcome'[p] \in {"error", "locked"}
    BY <1>2, <1>3 DEF CreateLock, SeeDeadOwner, ReclaimLock, SignLock, LockTimeout, fileVars
  <2>2. ProgressFacts(p)'
    BY <1>0, <2>1 DEF ProgressFacts, Underway, IpcAlive
  <2> QED BY <1>1, <2>2 DEF RunProgress
<1>4. CASE ReleaseLock(p) \/ Kill(p)
  <2>1. found' = found /\ ipc'[p] \in {"done", "killed"} /\ outcome'[p] \in {"unreleased", outcome[p]}
        /\ ipc[p] # "done"
    BY <1>2, <1>4 DEF ReleaseLock, Kill, fileVars, IpcAlive
  <2>2. ProgressFacts(p)'
    BY <1>0, <2>1 DEF ProgressFacts, Underway, IpcAlive
  <2> QED BY <1>1, <2>2 DEF RunProgress
<1>5. CASE PlanRun(p)
  <2>1. found'[p].made /\ ipc[p] = "plan"
        /\ \/ ipc'[p] \in {"mark", "journal"} /\ outcome' = outcome
           \/ ipc'[p] = "release" /\ outcome'[p] = "blocked"
    <3>1. found'[p].made
      BY <1>2, <1>5 DEF PlanRun, AfterPlanning
    <3> QED BY <1>2, <1>5, <3>1 DEF PlanRun, AfterPlanning
  <2>2. ProgressFacts(p)'
    BY <1>0, <2>1 DEF ProgressFacts, Underway, IpcAlive
  <2> QED BY <1>1, <2>2 DEF RunProgress
<1>6. CASE \/ MarkApplied(p) \/ Commit(p) \/ RestoreEnds(p)
  <2>1. found' = found /\ ipc[p] \in Underway /\ ipc'[p] = "release" /\ outcome'[p] # "rolledback"
    BY <1>2, <1>6 DEF MarkApplied, Commit, RestoreEnds, Underway
  <2>2. ProgressFacts(p)'
    BY <1>0, <2>1 DEF ProgressFacts, Underway, IpcAlive
  <2> QED BY <1>1, <2>2 DEF RunProgress
<1>7. CASE OpenJournal(p) \/ SkipAction(p) \/ CopyForRollback(p) \/ CopyForUser(p) \/ TouchFile(p)
           \/ ApplyFails(p)
  <2>1. found' = found /\ outcome' = outcome /\ ipc[p] \in {"journal", "act", "copied", "backed"}
        /\ ipc'[p] \in {"act", "copied", "backed", "restore"}
    BY <1>2, <1>7 DEF OpenJournal, SkipAction, CopyForRollback, CopyForUser, TouchFile, ApplyFails
  <2>2. ProgressFacts(p)'
    BY <1>0, <2>1 DEF ProgressFacts, Underway, IpcAlive
  <2> QED BY <1>1, <2>2 DEF RunProgress
<1>8. CASE RollbackResult(p)
  <2>1. found' = found /\ outcome' = outcome /\ outcome[p] = "applied" /\ ipc'[p] = "unapply"
    BY <1>2, <1>8 DEF RollbackResult
  <2>2. ProgressFacts(p)'
    BY <1>0, <2>1 DEF ProgressFacts, Underway, IpcAlive
  <2> QED BY <1>1, <2>2 DEF RunProgress
<1>9. CASE RollbackEnds(p)
  <2>1. found' = found /\ ipc'[p] = "done" /\ outcome'[p] \in {"incomplete", "rolledback"}
    BY <1>2, <1>9 DEF RollbackEnds
  <2>2. ProgressFacts(p)'
    BY <1>0, <2>1 DEF ProgressFacts, Underway, IpcAlive
  <2> QED BY <1>1, <2>2 DEF RunProgress
<1>10. CASE \E f \in Artifacts : RestoreFile(p, f)
  <2>1. found' = found /\ ipc' = ipc /\ outcome' = outcome
    BY <1>10 DEF RestoreFile
  <2>2. ProgressFacts(p)'
    BY <1>0, <2>1 DEF ProgressFacts
  <2> QED BY <1>1, <2>2 DEF RunProgress
<1> QED
  BY <1>3, <1>4, <1>5, <1>6, <1>7, <1>8, <1>9, <1>10 DEF InstallerStep

\* While a run is alone on disk no other process changes a file or the install state.
LEMMA AloneIsUndisturbed ==
  ASSUME InstInv, NEW p \in Installers, NEW q \in Installers \ {p}, AloneOnDisk(q)
  PROVE  ipc[p] \notin {"mark", "act", "backed", "restore", "unapply"}
<1> SUFFICES ASSUME ipc[p] \in {"mark", "act", "backed", "restore", "unapply"} PROVE FALSE
  OBVIOUS
<1>1. found[p].made
  BY DEF InstInv, RunProgress, ProgressFacts, Underway
<1>2. ipc[q] \in Underway
  BY <1>1 DEF AloneOnDisk
<1>3. ~ seized /\ mlock.owner = q
  BY <1>2 DEF AloneOnDisk, InstInv, LockHeld
<1>4. ipc[p] = "unapply"
  BY <1>3 DEF InstInv, LockHeld, Underway
<1> QED
  BY <1>2, <1>3, <1>4 DEF InstInv, LockHeld

\* What another process does keeps the account of a run.
LEMMA OthersKeepAccount ==
  ASSUME InstInv, NEW p \in Installers, InstallerStep(p), NEW q \in Installers \ {p}, AloneOnDisk(q)'
  PROVE  AccountOf(q)'
<1>1. OthersKept(p) /\ InstallerTypeOK
  BY OthersAreKept DEF InstInv
<1>2. ~ seized
  BY DEF AloneOnDisk, InstallerStep, CreateLock, SignLock, SeeDeadOwner, ReclaimLock, LockTimeout,
         ReleaseLock, PlanRun, AfterPlanning, MarkApplied, OpenJournal, SkipAction, CopyForRollback, CopyForUser,
         TouchFile, Commit, ApplyFails, RestoreFile, RestoreEnds, RollbackResult, RollbackEnds, Kill
<1>3. found[p].made => found'[p].made
  <2>1. found' = found \/ found' = [found EXCEPT ![p] = [made |-> TRUE, files |-> disk, ids |-> applied]]
    BY InstallerFrames DEF PlanRun, AfterPlanning, CopyForRollback, CopyForUser, TouchFile, RestoreFile, RestoreEnds, RollbackEnds
  <2> QED BY <1>1, <2>1 DEF InstallerTypeOK
<1>4. AloneOnDisk(q)
  <2>1. ipc[q] = ipc'[q] /\ outcome'[q] = outcome[q]
    BY <1>1 DEF OthersKept
  <2>2. \A r \in Installers : found[r].made => found'[r].made
    BY <1>1, <1>3 DEF OthersKept
  <2> QED BY <1>2, <2>1, <2>2 DEF AloneOnDisk
<1>5. ipc[p] \notin {"mark", "act", "backed", "restore", "unapply"}
  BY <1>4, AloneIsUndisturbed
<1>6. UNCHANGED <<disk, applied>>
  BY <1>5 DEF InstallerStep, CreateLock, SignLock, SeeDeadOwner, ReclaimLock, LockTimeout,
         ReleaseLock, PlanRun, AfterPlanning, MarkApplied, OpenJournal, SkipAction, CopyForRollback, CopyForUser,
         TouchFile, Commit, ApplyFails, RestoreFile, RestoreEnds, RollbackResult, RollbackEnds, Kill, fileVars
<1>7. AccountOf(q)
  BY <1>4 DEF InstInv, Accounted
<1> QED
  BY <1>1, <1>6, <1>7 DEF OthersKept, AccountOf

\* A run that is alone keeps its account of what it changes.
LEMMA AccountIsKept ==
  ASSUME InstInv, NEW p \in Installers, InstallerStep(p), AloneOnDisk(p)'
  PROVE  AccountOf(p)'
<1>0. InstallerTypeOK /\ ProgressFacts(p) /\ CopyFacts(p) /\ OthersKept(p)
      /\ \A g \in Artifacts : NoCopies[g] = "absent"
  BY OthersAreKept DEF InstInv, RunProgress, CopiesMade, NoCopies
<1>d. /\ DOMAIN ipc = Installers /\ DOMAIN copies = Installers /\ DOMAIN undo = Installers
      /\ DOMAIN kept = Installers /\ DOMAIN disk = Artifacts /\ DOMAIN copies[p] = Artifacts
      /\ DOMAIN before = Installers /\ DOMAIN outcome = Installers /\ DOMAIN found = Installers
      /\ undo[p] \subseteq Artifacts
  BY <1>0 DEF InstallerTypeOK
<1>1. ~ seized
  BY DEF AloneOnDisk, InstallerStep, CreateLock, SignLock, SeeDeadOwner, ReclaimLock, LockTimeout,
         ReleaseLock, PlanRun, AfterPlanning, MarkApplied, OpenJournal, SkipAction, CopyForRollback, CopyForUser,
         TouchFile, Commit, ApplyFails, RestoreFile, RestoreEnds, RollbackResult, RollbackEnds, Kill
<1>2. ASSUME ipc[p] \in Underway PROVE AccountOf(p)
  BY <1>1, <1>2 DEF InstInv, Accounted, AloneOnDisk
<1>3. CASE PlanRun(p)
  <2>1. /\ ipc[p] = "plan" /\ UNCHANGED <<disk, applied, copies>>
        /\ found'[p] = [made |-> TRUE, files |-> disk, ids |-> applied]
        /\ ipc'[p] \in {"mark", "release", "journal"} /\ outcome'[p] \in {"blocked", outcome[p]}
    BY <1>d, <1>3 DEF PlanRun, AfterPlanning
  <2>2. found'[p].files = disk /\ found'[p].ids = applied /\ copies[p] = NoCopies /\ outcome[p] = "none"
    BY <1>0, <2>1 DEF CopyFacts, ProgressFacts, IpcAlive
  <2> QED BY <1>0, <2>1, <2>2 DEF AccountOf
<1>4. CASE MarkApplied(p)
  <2>1. /\ ipc[p] = "mark" /\ UNCHANGED <<disk, copies, found, before, kept, undo>> /\ ipc'[p] = "release"
        /\ outcome'[p] = "marked" \/ (outcome'[p] = "error" /\ applied' = applied)
    BY <1>d, <1>4 DEF MarkApplied
  <2>2. AccountOf(p) /\ copies[p] = NoCopies /\ outcome[p] = "none"
    BY <1>0, <1>2, <2>1 DEF CopyFacts, ProgressFacts, IpcAlive, Underway
  <2>3. \A f \in Artifacts : disk[f] = found[p].files[f]
    BY <1>0, <2>2 DEF AccountOf
  <2> QED BY <2>1, <2>2, <2>3 DEF AccountOf
<1>5. CASE OpenJournal(p)
  <2>1. /\ ipc[p] = "journal" /\ UNCHANGED <<disk, copies, found, applied, kept, undo, outcome>>
        /\ ipc'[p] = "act" /\ before'[p] = applied
    BY <1>d, <1>5 DEF OpenJournal
  <2>2. AccountOf(p) /\ outcome[p] = "none"
    BY <1>0, <1>2, <2>1 DEF ProgressFacts, IpcAlive, Underway
  <2> QED BY <2>1, <2>2 DEF AccountOf
<1>6. CASE SkipAction(p) \/ CopyForUser(p)
  <2>1. /\ ipc[p] \in {"act", "copied"} /\ UNCHANGED <<disk, copies, found, applied, kept, undo, outcome, before>>
        /\ ipc'[p] \in {"act", "backed"}
    BY <1>d, <1>6 DEF SkipAction, CopyForUser
  <2>2. AccountOf(p)
    BY <1>2, <2>1 DEF Underway
  <2> QED BY <2>1, <2>2 DEF AccountOf
<1>7. CASE CopyForRollback(p)
  <2>1. /\ ipc[p] = "act" /\ at[p] \in 1 .. 5 /\ Current(p).type \in Touching
        /\ UNCHANGED <<disk, found, applied, kept, undo, outcome, before>>
        /\ ipc'[p] \in {"copied", "backed"}
    BY <1>0, <1>d, <1>7, CatalogFacts DEF CopyForRollback, Touching, InstallerTypeOK
  <2>2. AccountOf(p)
    BY <1>2, <2>1 DEF Underway
  <2>3. PICK f \in Artifacts : f = Current(p).file /\ f = Catalog[at[p]].file /\ at[p] \in 3 .. 5
    BY <2>1, CurrentStep
  <2>4. copies'[p] = [copies[p] EXCEPT ![f] = disk[f]] /\ disk[f] # "absent"
    BY <1>d, <1>7, <2>3 DEF CopyForRollback
  <2>5. ~ Reached(p, f)
    BY <2>1, <2>3, CatalogFacts DEF Reached
  <2>6. copies[p][f] = "absent"
    BY <1>0, <2>1, <2>5 DEF CopyFacts
  <2>7. disk[f] = found[p].files[f]
    BY <2>2, <2>6 DEF AccountOf
  <2>8. \A g \in Artifacts : copies'[p][g] = IF g = f THEN found[p].files[f] ELSE copies[p][g]
    BY <1>d, <2>4, <2>7
  <2>9. found[p].files[f] # "absent"
    BY <2>4, <2>7
  <2> QED BY <2>1, <2>2, <2>8, <2>9 DEF AccountOf
<1>8. CASE TouchFile(p)
  <2>1. /\ ipc[p] = "backed" /\ UNCHANGED <<copies, found, applied, kept, undo, outcome, before>> /\ ipc'[p] = "act"
        /\ \A g \in Artifacts : g # Current(p).file => disk'[g] = disk[g]
    BY <1>d, <1>8 DEF TouchFile
  <2>2. AccountOf(p) /\ copies[p][Current(p).file] # "absent"
    BY <1>0, <1>2, <2>1 DEF CopyFacts, Underway
  <2> QED BY <2>1, <2>2 DEF AccountOf
<1>9. CASE Commit(p)
  <2>1. /\ ipc[p] = "act" /\ UNCHANGED <<disk, copies, found, kept, undo, before>>
        /\ ipc'[p] = "release" /\ outcome'[p] = "applied"
    BY <1>d, <1>9 DEF Commit
  <2>2. AccountOf(p)
    BY <1>2, <2>1 DEF Underway
  <2> QED BY <2>1, <2>2 DEF AccountOf
<1>10. CASE ApplyFails(p)
  <2>1. /\ ipc[p] \in {"journal", "act", "copied", "backed"}
        /\ UNCHANGED <<disk, copies, found, applied, kept, outcome, before>> /\ ipc'[p] = "restore"
        /\ undo'[p] = {f \in Artifacts : copies[p][f] # "absent"}
    BY <1>d, <1>10 DEF ApplyFails
  <2>2. AccountOf(p) /\ outcome[p] = "none"
    BY <1>0, <1>2, <2>1 DEF ProgressFacts, IpcAlive, Underway
  <2> QED BY <2>1, <2>2 DEF AccountOf
<1>11. CASE \E f \in Artifacts : RestoreFile(p, f)
  <2>1. PICK f \in Artifacts : RestoreFile(p, f)
    BY <1>11
  <2>2. /\ ipc[p] \in {"restore", "unapply"} /\ f \in undo[p] /\ undo'[p] = undo[p] \ {f}
        /\ UNCHANGED <<copies, found, applied, outcome, before, ipc>>
        /\ \/ (\A g \in Artifacts : disk'[g] = IF g = f THEN copies[p][f] ELSE disk[g]) /\ kept' = kept
           \/ disk' = disk /\ kept'[p]
    BY <1>d, <2>1 DEF RestoreFile
  <2>3. copies[p][f] # "absent"
    BY <1>0, <2>2 DEF CopyFacts
  <2>4. AccountOf(p)
    <3>1. AloneOnDisk(p)
      BY <1>1, <2>2 DEF AloneOnDisk
    <3> QED BY <3>1 DEF InstInv, Accounted
  <2>5. copies[p][f] = found[p].files[f]
    BY <2>3, <2>4 DEF AccountOf
  <2>6. CASE disk' = disk /\ kept'[p]
    BY <2>2, <2>4, <2>6 DEF AccountOf
  <2>7. CASE (\A g \in Artifacts : disk'[g] = IF g = f THEN copies[p][f] ELSE disk[g]) /\ kept' = kept
    BY <2>2, <2>3, <2>4, <2>5, <2>7 DEF AccountOf
  <2> QED BY <2>2, <2>6, <2>7
<1>12. CASE RestoreEnds(p)
  <2>1. /\ ipc[p] = "restore" /\ undo[p] = {} /\ UNCHANGED <<disk, found, applied, kept, undo, before>>
        /\ ipc'[p] = "release"
        /\ IF kept[p] THEN copies' = copies /\ outcome'[p] = "incomplete"
           ELSE copies'[p] = NoCopies /\ outcome'[p] = "error"
    BY <1>d, <1>12 DEF RestoreEnds
  <2>2. AccountOf(p) /\ outcome[p] = "none"
    BY <1>0, <1>2, <2>1 DEF ProgressFacts, IpcAlive, Underway
  <2> QED BY <1>0, <2>1, <2>2 DEF AccountOf
<1>13. CASE RollbackResult(p)
  <2>1. /\ ipc[p] = "done" /\ ipc'[p] = "unapply" /\ outcome[p] = "applied"
        /\ UNCHANGED <<disk, copies, found, applied, kept, outcome, before>>
        /\ undo'[p] = {f \in Artifacts : copies[p][f] # "absent"}
    BY <1>d, <1>13 DEF RollbackResult
  <2>2. AloneOnDisk(p)
    BY <1>1, <2>1 DEF AloneOnDisk, Underway
  <2>3. AccountOf(p)
    BY <2>2 DEF InstInv, Accounted
  <2> QED BY <2>1, <2>3 DEF AccountOf
<1>14. CASE ReleaseLock(p)
  <2>1. /\ ipc[p] = "release" /\ ipc'[p] = "done" /\ UNCHANGED <<disk, copies, found, applied, kept, undo, before>>
        /\ outcome'[p] \in {"unreleased", outcome[p]}
    BY <1>d, <1>14 DEF ReleaseLock, fileVars
  <2>2. AccountOf(p)
    BY <1>2, <2>1 DEF Underway
  <2>3. outcome[p] = "applied" /\ outcome'[p] = "applied"
    BY <2>1 DEF AloneOnDisk, Underway
  <2> QED BY <2>1, <2>2, <2>3 DEF AccountOf
<1>15. CASE \/ CreateLock(p) \/ SignLock(p) \/ SeeDeadOwner(p) \/ ReclaimLock(p) \/ LockTimeout(p)
            \/ Kill(p) \/ RollbackEnds(p)
  <2>1. \/ ipc'[p] \in {"sign", "plan", "reclaim", "wait", "killed"}
        \/ ipc'[p] = "done" /\ outcome'[p] # "applied"
    BY <1>d, <1>15 DEF CreateLock, SignLock, SeeDeadOwner, ReclaimLock, LockTimeout, Kill, RollbackEnds
  <2> QED BY <2>1 DEF AloneOnDisk, Underway
<1> QED
  BY <1>3, <1>4, <1>5, <1>6, <1>7, <1>8, <1>9, <1>10, <1>11, <1>12, <1>13, <1>14, <1>15 DEF InstallerStep

LEMMA InstallerStepInv == InstInv /\ [InstallerNext]_installVars => InstInv'
<1> SUFFICES ASSUME InstInv, [InstallerNext]_installVars PROVE InstInv'
  OBVIOUS
<1>1. CASE UNCHANGED installVars
  <2>1. InstallerTypeOK' /\ PlansKnown' /\ LockHeld' /\ RunProgress'
    BY <1>1 DEF installVars, InstInv, InstallerTypeOK, PlansKnown, LockHeld, RunProgress, ProgressFacts
  <2>2. CopiesMade'
    BY <1>1 DEF installVars, InstInv, CopiesMade, CopyFacts, Reached, Current
  <2>3. OneContent' /\ HeldWhenGone'
    <3>1. \A f : Seen(f)' = Seen(f) /\ \A q : Holds(q, f)' = Holds(q, f)
      BY <1>1 DEF installVars, Seen, Holds
    <3>2. disk' = disk /\ forfeited' = forfeited
      BY <1>1 DEF installVars
    <3> QED BY <3>1, <3>2 DEF InstInv, OneContent, HeldWhenGone
  <2>4. Accounted'
    BY <1>1 DEF installVars, InstInv, Accounted, AloneOnDisk, AccountOf
  <2> QED BY <2>1, <2>2, <2>3, <2>4 DEF InstInv
<1>2. ASSUME NEW p \in Installers, InstallerStep(p) PROVE InstInv'
  <2>1. Accounted'
    BY <1>2, AccountIsKept, OthersKeepAccount DEF Accounted
  <2> QED
    BY <1>2, <2>1, InstallerTyped, PlansStayKnown, CopiesStayMade, ContentStaysOne, HeldStays,
       LockStaysHeld, ProgressStays DEF InstInv
<1> QED
  BY <1>1, <1>2 DEF InstallerNext, InstallerStep

LEMMA InstallerInvariant == InstallerSpec => []InstInv
  BY InstallerStarts, InstallerStepInv, PTL DEF InstallerSpec

\* For every number of installers, failures and kills, and every disk an earlier install
\* has left: what a user has made or changed is on disk, in a rollback copy or in a backup,
\* unless the roll-back of a finished run deleted the copies it could not restore.
THEOREM UserContentIsKept == InstallerSpec => []UserContentKept
<1>1. ASSUME InstInv PROVE UserContentKept
  <2> SUFFICES ASSUME NEW p \in Installers, NEW f \in Artifacts,
                      found[p].files[f] \in UserContents, f \notin forfeited
               PROVE  \/ disk[f] \in {found[p].files[f], "pruned"}
                      \/ \E q \in Installers : found[p].files[f] \in {copies[q][f], backups[q][f]}
    BY DEF UserContentKept
  <2>1. /\ found[p].files[f] \in Seen(f) /\ disk[f] \in Seen(f)
        /\ \A q \in Installers : copies[q][f] \in Seen(f)
    BY DEF Seen
  <2>2. PICK c \in Contents : \A s \in Seen(f) : s \in {c, "absent"} \/ (s = "pruned" /\ f = "hooksJson")
    BY <1>1 DEF InstInv, OneContent
  <2>3. c = found[p].files[f]
    BY <2>1, <2>2 DEF UserContents
  <2>4. CASE disk[f] = "absent"
    <3>1. PICK q \in Installers : f # "hooksJson" /\ copies[q][f] # "absent"
      BY <1>1, <2>1, <2>4 DEF InstInv, HeldWhenGone, Holds
    <3>2. copies[q][f] = found[p].files[f]
      BY <2>1, <2>2, <2>3, <3>1
    <3> QED BY <3>2
  <2> QED BY <2>1, <2>2, <2>3, <2>4
<1> QED
  BY <1>1, InstallerInvariant, PTL

\* The step by which a run ends in an error, or completes a roll-back, leaves what it found.
LEMMA FailedStepLeavesNoTrace ==
  ASSUME InstInv, NEW q \in Installers, InstallerStep(q), NEW p \in Installers,
         ipc[p] # "done", ipc'[p] = "done", found[p].made, ~ seized', ~ kept[p],
         \/ outcome'[p] = "error"
         \/ outcome'[p] = "rolledback" /\ \A r \in Installers \ {p} : ~ found[r].made
  PROVE  disk' = found[p].files /\ applied' = found[p].ids
<1>0. InstallerTypeOK /\ OthersKept(q)
  BY OthersAreKept DEF InstInv
<1>1. p = q
  BY <1>0 DEF OthersKept
<1>d. /\ DOMAIN ipc = Installers /\ DOMAIN outcome = Installers
      /\ disk \in [Artifacts -> Contents] /\ found[p].files \in [Artifacts -> Contents]
  BY <1>0 DEF InstallerTypeOK
<1>2. ~ seized
  BY DEF InstallerStep, CreateLock, SignLock, SeeDeadOwner, ReclaimLock, LockTimeout, ReleaseLock,
         PlanRun, AfterPlanning, MarkApplied, OpenJournal, SkipAction, CopyForRollback, CopyForUser, TouchFile,
         Commit, ApplyFails, RestoreFile, RestoreEnds, RollbackResult, RollbackEnds, Kill
<1>3. ReleaseLock(p) \/ RollbackEnds(p)
  <2>1. ipc[p] \notin {"wait", "sign", "reclaim", "plan"}
    BY DEF InstInv, RunProgress, ProgressFacts
  <2> QED
    BY <1>1, <1>d, <2>1 DEF InstallerStep, CreateLock, SignLock, SeeDeadOwner, ReclaimLock, LockTimeout,
         PlanRun, AfterPlanning, MarkApplied, OpenJournal, SkipAction, CopyForRollback, CopyForUser, TouchFile,
         Commit, ApplyFails, RestoreFile, RestoreEnds, RollbackResult, Kill
<1>4. CASE ReleaseLock(p)
  <2>1. /\ ipc[p] = "release" /\ UNCHANGED <<disk, applied>> /\ mlock.owner = p
        /\ outcome'[p] = outcome[p]
    <3>1. ipc[p] = "release" /\ UNCHANGED <<disk, applied>> /\ mlock.owner = p
      BY <1>4 DEF ReleaseLock, fileVars
    <3>2. outcome'[p] \in {"unreleased", outcome[p]}
      BY <1>d, <1>4 DEF ReleaseLock
    <3> QED BY <3>1, <3>2
  <2>2. AloneOnDisk(p)
    BY <1>2, <2>1 DEF AloneOnDisk, Underway
  <2>3. AccountOf(p)
    BY <2>2 DEF InstInv, Accounted
  <2>4. outcome[p] # "rolledback"
    BY <2>1 DEF InstInv, RunProgress, ProgressFacts
  <2>5. \A f \in Artifacts : disk[f] = found[p].files[f]
    BY <2>1, <2>3, <2>4 DEF AccountOf
  <2>6. applied = found[p].ids
    BY <2>1, <2>3, <2>4 DEF AccountOf
  <2> QED BY <1>d, <2>1, <2>5, <2>6
<1>5. CASE RollbackEnds(p)
  <2>1. /\ ipc[p] = "unapply" /\ undo[p] = {} /\ disk' = disk
        /\ outcome'[p] = (IF kept'[p] THEN "incomplete" ELSE "rolledback")
        /\ applied' = before[p] \/ kept' = [kept EXCEPT ![p] = TRUE]
    BY <1>d, <1>5 DEF RollbackEnds
  <2>2. outcome'[p] = "rolledback" /\ applied' = before[p]
    BY <1>0, <2>1 DEF InstallerTypeOK
  <2>3. outcome[p] = "applied"
    BY <2>1 DEF InstInv, RunProgress, ProgressFacts
  <2>4. AloneOnDisk(p)
    BY <1>2, <2>1, <2>2, <2>3 DEF AloneOnDisk
  <2>5. AccountOf(p)
    BY <2>4 DEF InstInv, Accounted
  <2> QED BY <1>d, <2>1, <2>2, <2>3, <2>5 DEF AccountOf
<1> QED
  BY <1>3, <1>4, <1>5

\* For every number of installers, failures and kills: a run that failed, or was rolled back
\* in full, leaves files and install state as it found them, unless a lock was seized.
THEOREM FailedRunsLeaveNoTrace == InstallerSpec => FailedRunLeavesNoTrace
<1> DEFINE Trace ==
      \A p \in Installers :
        /\ ipc[p] # "done" /\ ipc'[p] = "done" /\ found[p].made
        /\ ~ seized' /\ ~ kept[p]
        /\ \/ outcome'[p] = "error"
           \/ outcome'[p] = "rolledback" /\ \A q \in Installers \ {p} : ~ found[q].made
        => disk' = found[p].files /\ applied' = found[p].ids
<1>1. InstInv /\ [InstallerNext]_installVars => [Trace]_installVars
  <2> SUFFICES ASSUME InstInv, NEW q \in Installers, InstallerStep(q) PROVE Trace
    BY DEF InstallerNext, InstallerStep
  <2> QED BY FailedStepLeavesNoTrace
<1>2. InstallerSpec => [][Trace]_installVars
  BY <1>1, InstallerInvariant, PTL DEF InstallerSpec
<1> QED
  BY <1>2 DEF FailedRunLeavesNoTrace

\* The files, the journal, the copies and the lock of every run have their types.
THEOREM InstallersTyped == InstallerSpec => []InstallerTypeOK
<1>1. InstInv => InstallerTypeOK
  BY DEF InstInv
<1> QED BY <1>1, InstallerStarts, InstallerStepInv, PTL DEF InstallerSpec
=============================================================================
