--------------------------- MODULE PlanningLocks ---------------------------
(***************************************************************************)
(* Concurrent invocations of the planning tool (gsd-tools) on one          *)
(* .planning directory.  Two lock files protect it: `.lock`, taken by      *)
(* withPlanningLock around ROADMAP.md and config.json, and `STATE.md.lock`,*)
(* taken by acquireStateLock around STATE.md.  A process is a sequence of  *)
(* transactions; each takes its locks, reads its files, writes them in a   *)
(* fixed order and releases.  A file is the set of processes whose update  *)
(* it contains.  The content of a lock file is never read by anybody, so   *)
(* who created it is known to the model and not to the program.            *)
(* Opening or removing a lock file may be refused for a while, by a virus  *)
(* scanner or a network file system.  Time passes in ticks of ten seconds. *)
(***************************************************************************)
EXTENDS Naturals, Sequences

CONSTANTS
  Procs,          \* processes
  PlanTimeout,    \* withPlanningLock: lockTimeout, in ticks
  Stale,          \* age in ticks beyond which a waiter removes a lock file
  StateWait,      \* acquireStateLock: maxWaitMs, in ticks
  MaxCrashes,     \* bound: processes killed without running their handlers
  MaxFaults,      \* bound: failing writes, creations and refusals
  MaxTroubles,    \* bound: both together
  Free,           \* no lock file
  Mixes           \* assignments of programs to the processes to be explored

Locks == {"plan", "state"}
Files == {"ROADMAP", "REQUIREMENTS", "STATE", "ARCHIVE"}
Rank == [f \in Files |-> CASE f = "ROADMAP" -> 1 [] f = "REQUIREMENTS" -> 2
                           [] f = "STATE" -> 3 [] f = "ARCHIVE" -> 4]

\* What may be refused: the exclusive creation, the removal.
Accesses == {"open", "unlink"}

\* A transaction: the locks it needs, whether it reads before it takes them,
\* the files it writes, and whether a failing write undoes the earlier ones.
Transaction == [needs : SUBSET Locks, early : BOOLEAN,
                files : SUBSET Files, undoes : BOOLEAN]

\* The end of the life of a process.
Ended == {"done", "failed", "crashed"}

Step == {"idle", "acquire", "steal", "forced", "write", "undo", "leave", "bail"}

ASSUME LockAssumption ==
  /\ Free \notin Procs
  /\ PlanTimeout \in Nat \ {0} /\ StateWait \in Nat \ {0}
  /\ Stale \in [Locks -> Nat]
  /\ MaxCrashes \in Nat /\ MaxFaults \in Nat /\ MaxTroubles \in Nat
  /\ Mixes \subseteq [Procs -> Seq(Transaction) \ {<<>>}]

\* A transaction of several files goes through writePlanningFileSet, which undoes.
ASSUME MixAssumption ==
  \A m \in Mixes, p \in Procs : \A i \in 1 .. Len(m[p]) :
    m[p][i].undoes \/ \A f, g \in m[p][i].files : f = g

----------------------------------------------------------------------------
(* The transactions of the commands.                                       *)

\* readModifyWriteStateMd: the read, the transformation and the write are
\* all under the state lock.
StateCommand == << [needs |-> {"state"}, early |-> FALSE,
                    files |-> {"STATE"}, undoes |-> FALSE] >>

\* writeStateMd: the content was computed before the lock is taken.
StateSync == << [needs |-> {"state"}, early |-> TRUE,
                 files |-> {"STATE"}, undoes |-> FALSE] >>

\* phase add, add-batch and insert, roadmap update-plan-progress and
\* annotate-dependencies: ROADMAP.md under the planning lock.
RoadmapCommand == << [needs |-> {"plan"}, early |-> FALSE,
                      files |-> {"ROADMAP"}, undoes |-> FALSE] >>

\* phase complete: both locks, three files, and writePlanningFileSet.
PhaseComplete == << [needs |-> {"plan", "state"}, early |-> FALSE,
                     files |-> {"ROADMAP", "REQUIREMENTS", "STATE"},
                     undoes |-> TRUE] >>

\* phase remove: ROADMAP.md under one lock, then STATE.md under the other.
PhaseRemove == RoadmapCommand \o StateCommand

\* requirements mark-complete: no lock at all.
RequirementsMarkComplete == << [needs |-> {}, early |-> FALSE,
                                files |-> {"REQUIREMENTS"}, undoes |-> FALSE] >>

\* state prune: the entries leave STATE.md under the lock and are appended
\* to STATE-ARCHIVE.md after it is released.
StatePrune == StateCommand \o << [needs |-> {}, early |-> FALSE,
                                  files |-> {"ARCHIVE"}, undoes |-> FALSE] >>

----------------------------------------------------------------------------
VARIABLES
  prog,     \* the program of each process
  lock,     \* lock file: its creator, or Free
  age,      \* ticks since the lock file was created
  file,     \* what each file contains
  pc, turn, waited,
  held,     \* the locks a process believes it holds
  copy,     \* what it read
  wrote,    \* the files it has written and not undone
  crashes, faults,
  refuses,  \* what the file system refuses at present of each lock file
  overdue,  \* history: locks a waiter may have judged abandoned
  usurped,  \* history: locks a waiter removed while their holder lived
  damaged,  \* history: files left empty by a failing write
  unrolled  \* history: processes whose roll-back failed

lockVars == <<prog, lock, age, file, pc, turn, waited, held, copy, wrote,
              crashes, faults, refuses, overdue, usurped, damaged, unrolled>>

\* The files of the transactions of a process that went through.  A command
\* whose second transaction fails reports a failure, with the first in place.
CarriedOut(p) == UNION {prog[p][i].files : i \in
                 {j \in 1 .. Len(prog[p]) : j < turn[p] \/ pc[p] = "done"}}

\* Every transaction that writes f holds l while it reads and writes.
Guards(l, f) == \A p \in Procs : \A i \in 1 .. Len(prog[p]) :
  f \in prog[p][i].files => l \in prog[p][i].needs /\ ~ prog[p][i].early

LockTypeOK ==
  /\ lock \in [Locks -> Procs \cup {Free}]
  /\ age \in [Locks -> Nat]
  /\ file \in [Files -> SUBSET Procs]
  /\ pc \in [Procs -> Step \cup Ended]
  /\ \A p \in Procs : turn[p] \in 1 .. Len(prog[p])
  /\ waited \in [Procs -> Nat]
  /\ held \in [Procs -> SUBSET Locks]
  /\ copy \in [Procs -> [Files -> SUBSET Procs]]
  /\ wrote \in [Procs -> SUBSET Files]
  /\ crashes \in 0 .. MaxCrashes /\ faults \in 0 .. MaxFaults
  /\ refuses \in [Locks -> SUBSET Accesses]
  /\ overdue \in SUBSET Locks /\ usurped \in SUBSET Locks
  /\ damaged \in SUBSET Files
  /\ unrolled \in SUBSET Procs

\* Nothing has been read.
Nothing == [f \in Files |-> {}]

LockInit ==
  /\ prog \in Mixes
  /\ lock = [l \in Locks |-> Free] /\ age = [l \in Locks |-> 0]
  /\ file = [f \in Files |-> {}]
  /\ pc = [p \in Procs |-> "idle"] /\ turn = [p \in Procs |-> 1]
  /\ waited = [p \in Procs |-> 0]
  /\ held = [p \in Procs |-> {}]
  /\ copy = [p \in Procs |-> Nothing]
  /\ wrote = [p \in Procs |-> {}]
  /\ crashes = 0 /\ faults = 0
  /\ refuses = [l \in Locks |-> {}]
  /\ overdue = {} /\ usurped = {} /\ damaged = {}
  /\ unrolled = {}

Now(p) == prog[p][turn[p]]
Wanted(p) == Now(p).needs \ held[p]
Todo(p) == Now(p).files \ wrote[p]

\* A transaction reads the files it is going to write.
Snapshot(p) == [f \in Files |-> IF f \in Now(p).files THEN file[f] ELSE {}]

\* The planning lock is always taken before the state lock.
NextLock(p, l) == l \in Wanted(p) /\ (l = "state" => "plan" \notin Wanted(p))

\* Another access to a file may fail.
Fault == faults < MaxFaults /\ crashes + faults < MaxTroubles

\* A lock file is removed by its name, whoever has created it.
Unlink(l) == lock' = [lock EXCEPT ![l] = Free] /\ age' = [age EXCEPT ![l] = 0]

\* The process that created the lock file works under it.
Occupied(l) == \E q \in Procs : lock[l] = q /\ l \in held[q] /\ pc[q] # "crashed"

\* A waiter unlinks the file; that this fails is caught and ignored.
TakeAway(l) ==
  \/ /\ "unlink" \in refuses[l]
     /\ UNCHANGED <<lock, age, usurped>>
  \/ /\ "unlink" \notin refuses[l]
     /\ Unlink(l)
     /\ usurped' = usurped \cup {k \in {l} : Occupied(k)}

Begin(p) ==
  /\ pc[p] = "idle"
  /\ copy' = IF Now(p).early THEN [copy EXCEPT ![p] = Snapshot(p)] ELSE copy
  /\ pc' = [pc EXCEPT ![p] = "acquire"]
  /\ waited' = [waited EXCEPT ![p] = 0]
  /\ UNCHANGED <<prog, lock, age, file, turn, held, wrote, crashes, faults,
                 refuses, overdue, usurped,
                 damaged, unrolled>>

\* The open reaches the file system.  Otherwise it fails with one of the errors
\* that count as transient and is tried again: for the planning lock until
\* lockTimeout, for the state lock at once and without a look at the budget.
Opens(p, l) ==
  /\ pc[p] = "acquire" /\ NextLock(p, l) /\ "open" \notin refuses[l]
  /\ l = "plan" => waited[p] < PlanTimeout

\* The exclusive creation of a lock file succeeds.
Create(p, l) ==
  /\ Opens(p, l)
  /\ lock[l] = Free
  /\ lock' = [lock EXCEPT ![l] = p] /\ age' = [age EXCEPT ![l] = 0]
  /\ held' = [held EXCEPT ![p] = @ \cup {l}]
  /\ waited' = [waited EXCEPT ![p] = 0]
  /\ UNCHANGED <<prog, file, pc, turn, copy, wrote, crashes, faults, refuses,
                 overdue, usurped, damaged, unrolled>>

\* It fails for another reason, perhaps after the file was there: the process
\* throws, or tries again if its own errno counts as transient.
CreateFails(p, l) ==
  /\ Opens(p, l) /\ Fault
  /\ lock[l] = Free
  /\ \/ UNCHANGED <<lock, age>>
     \/ lock' = [lock EXCEPT ![l] = p] /\ age' = [age EXCEPT ![l] = 0]
  /\ \/ pc' = [pc EXCEPT ![p] = "bail"]
     \/ UNCHANGED pc
  /\ faults' = faults + 1
  /\ UNCHANGED <<prog, file, turn, waited, held, copy, wrote, crashes, refuses,
                 overdue, usurped, damaged, unrolled>>

\* EEXIST, and the stat finds a file older than the threshold.
SeeStale(p, l) ==
  /\ Opens(p, l)
  /\ lock[l] # Free /\ age[l] > Stale[l]
  /\ pc' = [pc EXCEPT ![p] = "steal"]
  /\ UNCHANGED <<prog, lock, age, file, turn, waited, held, copy, wrote,
                 crashes, faults, refuses, overdue, usurped, damaged, unrolled>>

\* The unlink that follows: it removes whatever file is there by now, or fails,
\* and the process tries again without a look at the budget of the state lock.
Steal(p, l) ==
  /\ pc[p] = "steal" /\ NextLock(p, l)
  /\ TakeAway(l)
  /\ pc' = [pc EXCEPT ![p] = "acquire"]
  /\ UNCHANGED <<prog, file, turn, waited, held, copy, wrote, crashes,
                 faults, refuses, overdue, damaged, unrolled>>

\* Mutant of Expire: a lock file is removed only when it is not stale, which
\* the other path was to handle.
ExpireFresh(p) ==
  /\ pc[p] = "acquire" /\ NextLock(p, "plan") /\ waited[p] >= PlanTimeout
  /\ age["plan"] <= Stale["plan"] /\ lock["plan"] # Free
  /\ TakeAway("plan")
  /\ pc' = [pc EXCEPT ![p] = "forced"]
  /\ UNCHANGED <<prog, file, turn, waited, held, copy, wrote, crashes,
                 faults, refuses, overdue, damaged, unrolled>>

\* withPlanningLock after lockTimeout: the file is removed whatever its age...
Expire(p) ==
  /\ pc[p] = "acquire" /\ NextLock(p, "plan") /\ waited[p] >= PlanTimeout
  /\ TakeAway("plan")
  /\ pc' = [pc EXCEPT ![p] = "forced"]
  /\ UNCHANGED <<prog, file, turn, waited, held, copy, wrote, crashes,
                 faults, refuses, overdue, damaged, unrolled>>

\* ... and created; somebody may have been faster or the open be refused, and
\* then the error is thrown.
ForceCreate(p) ==
  /\ pc[p] = "forced"
  /\ \/ /\ lock["plan"] = Free /\ "open" \notin refuses["plan"]
        /\ lock' = [lock EXCEPT !["plan"] = p]
        /\ age' = [age EXCEPT !["plan"] = 0]
        /\ held' = [held EXCEPT ![p] = @ \cup {"plan"}]
        /\ waited' = [waited EXCEPT ![p] = 0]
        /\ pc' = [pc EXCEPT ![p] = "acquire"]
     \/ /\ lock["plan"] # Free \/ "open" \in refuses["plan"]
        /\ pc' = [pc EXCEPT ![p] = "bail"]
        /\ UNCHANGED <<lock, age, held, waited>>
  /\ UNCHANGED <<prog, file, turn, copy, wrote, crashes, faults, refuses,
                 overdue, usurped, damaged, unrolled>>

\* acquireStateLock: held by a live process for the whole budget.
GiveUp(p) ==
  /\ Opens(p, "state")
  /\ lock["state"] # Free /\ age["state"] <= Stale["state"]
  /\ waited[p] >= StateWait
  /\ pc' = [pc EXCEPT ![p] = "bail"]
  /\ UNCHANGED <<prog, lock, age, file, turn, waited, held, copy, wrote,
                 crashes, faults, refuses, overdue, usurped,
                 damaged, unrolled>>

\* All locks are there: the files are read, unless that was done before.
Enter(p) ==
  /\ pc[p] = "acquire" /\ Wanted(p) = {}
  /\ copy' = IF Now(p).early THEN copy ELSE [copy EXCEPT ![p] = Snapshot(p)]
  /\ pc' = [pc EXCEPT ![p] = "write"]
  /\ UNCHANGED <<prog, lock, age, file, turn, waited, held, wrote, crashes,
                 faults, refuses, overdue, usurped,
                 damaged, unrolled>>

\* platformWriteSync: a temporary file, renamed into place.
Write(p, f) ==
  /\ pc[p] = "write" /\ f \in Todo(p)
  /\ \A g \in Todo(p) : Rank[f] <= Rank[g]
  /\ file' = [file EXCEPT ![f] = copy[p][f] \cup {p}]
  /\ wrote' = [wrote EXCEPT ![p] = @ \cup {f}]
  /\ UNCHANGED <<prog, lock, age, pc, turn, waited, held, copy, crashes, faults,
                 refuses, overdue, usurped,
                 damaged, unrolled>>

\* The rename fails and so does the direct write that follows, which may
\* have truncated the file by then.  writePlanningFileSet restores the files
\* it has written; the file of the failing write is not among them.
WriteFails(p, f) ==
  /\ pc[p] = "write" /\ f \in Todo(p) /\ Fault
  /\ \A g \in Todo(p) : Rank[f] <= Rank[g]
  /\ \/ UNCHANGED <<file, damaged>>
     \/ file' = [file EXCEPT ![f] = {}] /\ damaged' = damaged \cup {f}
  /\ pc' = [pc EXCEPT ![p] = IF Now(p).undoes THEN "undo" ELSE "bail"]
  /\ faults' = faults + 1
  /\ UNCHANGED <<prog, lock, age, turn, waited, held, copy, wrote, crashes,
                 refuses, overdue, usurped, unrolled>>

\* Mutant of Undo: the file of a write that succeeded is not restored.
UndoForgets(p, f) ==
  /\ pc[p] = "undo" /\ f \in wrote[p]
  /\ wrote' = [wrote EXCEPT ![p] = @ \ {f}]
  /\ UNCHANGED <<prog, lock, age, file, pc, turn, waited, held, copy, crashes, faults,
                 refuses, overdue, usurped,
                 damaged, unrolled>>

\* writePlanningFileSet: the last write that succeeded is taken back.
Undo(p, f) ==
  /\ pc[p] = "undo" /\ f \in wrote[p]
  /\ \A g \in wrote[p] : Rank[g] <= Rank[f]
  /\ file' = [file EXCEPT ![f] = copy[p][f]]
  /\ wrote' = [wrote EXCEPT ![p] = @ \ {f}]
  /\ UNCHANGED <<prog, lock, age, pc, turn, waited, held, copy, crashes, faults,
                 refuses, overdue, usurped,
                 damaged, unrolled>>

\* A write of the roll-back fails: the others are not tried.
UndoFails(p, f) ==
  /\ pc[p] = "undo" /\ f \in wrote[p] /\ Fault
  /\ \A g \in wrote[p] : Rank[g] <= Rank[f]
  /\ \/ UNCHANGED <<file, damaged>>
     \/ file' = [file EXCEPT ![f] = {}] /\ damaged' = damaged \cup {f}
  /\ unrolled' = unrolled \cup {p}
  /\ pc' = [pc EXCEPT ![p] = "bail"]
  /\ faults' = faults + 1
  /\ UNCHANGED <<prog, lock, age, turn, waited, held, copy, wrote, crashes,
                 refuses, overdue, usurped>>

\* Nothing is left to write, or to take back.
Finish(p) ==
  /\ \/ /\ pc[p] = "write" /\ Todo(p) = {}
        /\ pc' = [pc EXCEPT ![p] = "leave"]
     \/ /\ pc[p] = "undo" /\ wrote[p] = {}
        /\ pc' = [pc EXCEPT ![p] = "bail"]
  /\ UNCHANGED <<prog, lock, age, file, turn, waited, held, copy, wrote,
                 crashes, faults, refuses, overdue, usurped,
                 damaged, unrolled>>

\* The `finally` blocks, the state lock first: each unlinks the file by its
\* name, and ignores that this fails.
Release(p, l) ==
  /\ pc[p] \in {"leave", "bail"} /\ l \in held[p]
  /\ l = "plan" => "state" \notin held[p]
  /\ held' = [held EXCEPT ![p] = @ \ {l}]
  /\ IF "unlink" \in refuses[l] THEN UNCHANGED <<lock, age>> ELSE Unlink(l)
  /\ UNCHANGED <<prog, file, pc, turn, waited, copy, wrote, crashes, faults,
                 refuses, overdue, usurped, damaged, unrolled>>

\* The transaction is over.
Return(p) ==
  /\ held[p] = {}
  /\ \/ /\ pc[p] = "leave" /\ turn[p] < Len(prog[p])
        /\ turn' = [turn EXCEPT ![p] = @ + 1]
        /\ pc' = [pc EXCEPT ![p] = "idle"]
     \/ /\ pc[p] = "leave" /\ turn[p] = Len(prog[p])
        /\ pc' = [pc EXCEPT ![p] = "done"] /\ UNCHANGED turn
     \/ /\ pc[p] = "bail"
        /\ pc' = [pc EXCEPT ![p] = "failed"] /\ UNCHANGED turn
  /\ copy' = [copy EXCEPT ![p] = Nothing]
  /\ waited' = [waited EXCEPT ![p] = 0] /\ wrote' = [wrote EXCEPT ![p] = {}]
  /\ UNCHANGED <<prog, lock, age, file, held, crashes, faults, refuses, overdue, usurped,
                 damaged, unrolled>>

\* Killed without the exit handlers: the lock files stay.
Crash(p) ==
  /\ pc[p] \notin Ended /\ crashes < MaxCrashes /\ crashes + faults < MaxTroubles
  /\ pc' = [pc EXCEPT ![p] = "crashed"] /\ crashes' = crashes + 1
  /\ copy' = [copy EXCEPT ![p] = Nothing] /\ waited' = [waited EXCEPT ![p] = 0]
  /\ UNCHANGED <<prog, lock, age, file, turn, held, wrote, faults, refuses, overdue, usurped,
                 damaged, unrolled>>

\* Ten seconds pass for everybody.  What is older than every threshold
\* does not get older.
Tick ==
  /\ age' = [l \in Locks |-> IF lock[l] # Free /\ age[l] <= Stale[l]
                             THEN age[l] + 1 ELSE age[l]]
  /\ waited' = [p \in Procs |-> IF pc[p] \in {"acquire", "steal"} /\ Wanted(p) # {}
                                   /\ waited[p] < StateWait + PlanTimeout
                                THEN waited[p] + 1 ELSE waited[p]]
  /\ overdue' = overdue
       \cup {l \in Locks : lock[l] # Free /\ age'[l] > Stale[l]}
       \cup {l \in {"plan"} : \E p \in Procs : pc[p] = "acquire"
                               /\ NextLock(p, l) /\ waited'[p] >= PlanTimeout}
  /\ UNCHANGED <<prog, lock, file, pc, turn, held, copy, wrote, crashes, faults,
                 refuses, usurped, damaged, unrolled>>

\* Somebody is about to create the lock file, or to remove it.
Attempted(l, a) == \E p \in Procs :
  \/ a = "open" /\ pc[p] = "acquire" /\ NextLock(p, l)
  \/ a = "unlink" /\ pc[p] = "steal" /\ NextLock(p, l)
  \/ a = "unlink" /\ pc[p] \in {"leave", "bail"} /\ l \in held[p]
  \/ a = "unlink" /\ pc[p] = "acquire" /\ NextLock(p, "plan") /\ l = "plan"
        /\ waited[p] >= PlanTimeout

\* The file system begins to refuse an access to a lock file (before anybody
\* tries it there is nothing to see), and ends to.
Refuse(l, a) ==
  /\ Fault /\ a \notin refuses[l] /\ Attempted(l, a)
  /\ refuses' = [refuses EXCEPT ![l] = @ \cup {a}] /\ faults' = faults + 1
  /\ UNCHANGED <<prog, lock, age, file, pc, turn, waited, held, copy, wrote,
                 crashes, overdue, usurped, damaged, unrolled>>

Relent(l, a) ==
  /\ a \in refuses[l]
  /\ refuses' = [refuses EXCEPT ![l] = @ \ {a}]
  /\ UNCHANGED <<prog, lock, age, file, pc, turn, waited, held, copy, wrote,
                 crashes, faults, overdue, usurped, damaged, unrolled>>

Running(p) ==
  \/ Begin(p) \/ Expire(p) \/ ForceCreate(p) \/ GiveUp(p) \/ Enter(p)
  \/ Finish(p) \/ Return(p)
  \/ \E l \in Locks : Create(p, l) \/ CreateFails(p, l) \/ SeeStale(p, l) \/ Steal(p, l) \/ Release(p, l)
  \/ \E f \in Files : Write(p, f) \/ WriteFails(p, f) \/ Undo(p, f) \/ UndoFails(p, f)

LockNext ==
  \/ Tick
  \/ \E l \in Locks, a \in Accesses : Refuse(l, a) \/ Relent(l, a)
  \/ \E p \in Procs : Running(p) \/ Crash(p)

LockFairness == WF_lockVars(Tick) /\ \A p \in Procs : WF_lockVars(Running(p))
LockSpec == LockInit /\ [][LockNext]_lockVars /\ LockFairness

----------------------------------------------------------------------------
(* What the locks are for.                                                 *)

\* A process that has ended has its update in exactly the files of the
\* transactions that went through, whatever the others do, also when a holder
\* died or could not remove its lock file and a waiter took it over: for a file
\* all of whose writers use a lock, unless that lock was taken from a living
\* holder, a failing write has truncated the file, or the roll-back failed.
\* And no living holder loses a lock that has not outlived its threshold, nor
\* the planning lock before somebody has waited ten seconds
\* (readModifyWriteStateMd, withPlanningLock, writePlanningFileSet).
FilesMatchTransactions ==
  /\ usurped \subseteq overdue
  /\ \A f \in Files, l \in Locks : Guards(l, f) /\ l \notin usurped /\ f \notin damaged =>
       \A p \in Procs \ unrolled : pc[p] \in {"done", "failed"} =>
         (p \in file[f] <=> f \in CarriedOut(p))

\* Nobody waits for a lock for ever: a command ends, in success or in an
\* error, also when a holder was killed and left its lock file behind, or the
\* file system refuses to open or remove the planning lock for ever; of the
\* state lock it must not, because the retries of acquireStateLock pass by its
\* budget (acquireStateLock and withPlanningLock).
CommandsEnd ==
  <>[](refuses["state"] = {}) => \A p \in Procs : <>(pc[p] \in Ended)

\* What the comment on writeStateMd says of its lock: parallel agents do not
\* overwrite each other's changes.
ParallelWritesKept == \A p \in Procs :
  pc[p] = "done" /\ "STATE" \in CarriedOut(p) => p \in file["STATE"]
=============================================================================
