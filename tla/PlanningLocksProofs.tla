------------------------ MODULE PlanningLocksProofs ------------------------
(***************************************************************************)
(* What the lock files of the planning directory give: for every number of *)
(* processes and every program, a file whose writers share a lock holds    *)
(* exactly what went through, as long as the lock was not taken from a     *)
(* living holder and no failing write has truncated the file.              *)
(***************************************************************************)
EXTENDS PlanningLocks, SequenceTheorems, TLAPS

\* The programs, and where each process is in its own.
ProgInv ==
  /\ prog \in Mixes
  /\ turn \in [Procs -> Nat]

\* A lock is removed by somebody else only when it is overdue ...
StealInv ==
  /\ \A l \in Locks : lock[l] # Free /\ age[l] > Stale[l] => l \in overdue
  /\ \A p \in Procs, l \in Locks : pc[p] = "steal" /\ NextLock(p, l) => l \in overdue
  /\ \A p \in Procs : pc[p] = "acquire" /\ NextLock(p, "plan") /\ waited[p] >= PlanTimeout
       => "plan" \in overdue
  /\ \A p \in Procs : pc[p] = "forced" => "plan" \in overdue
  /\ usurped \subseteq overdue

\* ... and a living process that believes to hold a lock does, unless the lock was
\* taken from such a one.  A lock file may be there for nobody: its creator died, could
\* not remove it, or failed right after creating it.
HeldInv == \A l \in Locks \ usurped, p \in Procs :
  l \in held[p] /\ pc[p] # "crashed" => lock[l] = p

\* A process writes with all its locks, and has written nothing before.
WroteInv == \A p \in Procs :
  /\ pc[p] \in {"write", "undo"} => Now(p).needs \subseteq held[p]
  /\ wrote[p] \subseteq Now(p).files
  /\ pc[p] \in {"idle", "acquire", "steal", "forced"} => wrote[p] = {}

LocksInv == LockTypeOK /\ ProgInv /\ StealInv /\ HeldInv /\ WroteInv

\* A file of which the lock l keeps the report true.
Kept(l, f) == Guards(l, f) /\ l \notin usurped /\ f \notin damaged

\* A transaction that writes f has been carried out.
Says(p, f) == \E j \in 1 .. Len(prog[p]) :
  (j < turn[p] \/ pc[p] = "done") /\ f \in prog[p][j].files

\* Nobody has written the file since a process that is about to write or undo read it.
CopyInv(p, f) ==
  pc[p] \in {"write", "undo"} /\ f \in Now(p).files =>
    file[f] = IF f \in wrote[p] THEN copy[p][f] \cup {p} ELSE copy[p][f]

\* The update of a process is in the file when a transaction was carried out or is about
\* to be reported; while it writes, in its copy when an earlier one was.
ReportInv(p, f) ==
  /\ pc[p] \in {"idle", "acquire", "steal", "forced", "bail", "done", "failed"} =>
       (p \in file[f] <=> Says(p, f))
  /\ pc[p] \in {"write", "undo"} =>
       (p \in (IF f \in Now(p).files THEN copy[p][f] ELSE file[f]) <=> Says(p, f))
  /\ pc[p] = "leave" => (p \in file[f] <=> Says(p, f) \/ f \in Now(p).files)

FilesInv == \A l \in Locks, f \in Files : Kept(l, f) =>
  \A p \in Procs : CopyInv(p, f) /\ (p \notin unrolled => ReportInv(p, f))

LockInv == LocksInv /\ FilesInv

----------------------------------------------------------------------------
(* The programs.                                                           *)

\* A process is in a transaction of its program.
LEMMA NowType ==
    ASSUME LockTypeOK, ProgInv, NEW p \in Procs
    PROVE  /\ prog[p] \in Seq(Transaction) /\ Len(prog[p]) \in Nat
           /\ turn[p] \in 1 .. Len(prog[p])
           /\ \A i \in 1 .. Len(prog[p]) : prog[p][i] \in Transaction
           /\ Now(p) \in Transaction
           /\ Now(p).needs \subseteq Locks /\ Now(p).files \subseteq Files
<1>1. prog[p] \in Seq(Transaction) /\ turn[p] \in 1 .. Len(prog[p])
  BY LockAssumption DEF ProgInv, LockTypeOK
<1>2. \A i \in 1 .. Len(prog[p]) : prog[p][i] \in Transaction
  BY <1>1
<1>3. Now(p) \in Transaction
  BY <1>1, <1>2 DEF Now
<1> QED BY <1>1, <1>2, <1>3 DEF Transaction

\* A step leaves the transaction of a process, its locks to come and its report alone,
\* when it leaves the place in the program alone.
LEMMA NowStays ==
    ASSUME NEW p \in Procs, prog' = prog, turn'[p] = turn[p]
    PROVE  /\ Now(p)' = Now(p)
           /\ held'[p] = held[p] => \A l : NextLock(p, l)' <=> NextLock(p, l)
           /\ (pc'[p] = "done" <=> pc[p] = "done") => \A f : Says(p, f)' <=> Says(p, f)
<1>1. Now(p)' = Now(p)
  BY DEF Now
<1> QED BY <1>1 DEF NextLock, Wanted, Says

\* The end of a transaction concerns nobody else.
LEMMA ReturnOthers ==
    ASSUME LockTypeOK, ProgInv, NEW p \in Procs, Return(p), NEW q \in Procs \ {p}
    PROVE  /\ pc'[q] = pc[q] /\ turn'[q] = turn[q] /\ prog'[q] = prog[q] /\ held'[q] = held[q]
           /\ waited'[q] = waited[q] /\ wrote'[q] = wrote[q] /\ copy'[q] = copy[q]
<1>1. \/ pc' = [pc EXCEPT ![p] = "idle"]
      \/ pc' = [pc EXCEPT ![p] = "done"]
      \/ pc' = [pc EXCEPT ![p] = "failed"]
  BY DEF Return
<1>2. turn' = turn \/ turn' = [turn EXCEPT ![p] = @ + 1]
  BY DEF Return
<1>3. pc'[q] = pc[q]
  BY <1>1 DEF LockTypeOK
<1>4. turn'[q] = turn[q]
  BY <1>2 DEF ProgInv
<1>5. held' = held /\ prog' = prog
  BY DEF Return
<1>6. waited' = [waited EXCEPT ![p] = 0] /\ wrote' = [wrote EXCEPT ![p] = {}]
      /\ copy' = [copy EXCEPT ![p] = Nothing]
  BY DEF Return
<1>7. waited'[q] = waited[q] /\ wrote'[q] = wrote[q] /\ copy'[q] = copy[q]
  BY <1>6 DEF LockTypeOK
<1> QED BY <1>3, <1>4, <1>5, <1>7

\* A waiter removes one lock file or none, and from a living holder with a trace.
LEMMA TakeAwayLocks ==
    ASSUME LockTypeOK, NEW l \in Locks, TakeAway(l)
    PROVE  /\ lock' \in [Locks -> Procs \cup {Free}] /\ age' \in [Locks -> Nat]
           /\ usurped' \in SUBSET Locks /\ usurped \subseteq usurped' /\ usurped' \subseteq usurped \cup {l}
           /\ \A k \in Locks : \/ /\ lock'[k] = lock[k] /\ age'[k] = age[k]
                              \/ /\ k = l /\ lock'[k] = Free
                                 /\ Occupied(k) => k \in usurped'
<1>1. CASE "unlink" \in refuses[l]
  <2>1. UNCHANGED <<lock, age, usurped>>
    BY <1>1 DEF TakeAway
  <2> QED BY <2>1 DEF LockTypeOK
<1>2. CASE "unlink" \notin refuses[l]
  <2>1. /\ lock' = [lock EXCEPT ![l] = Free] /\ age' = [age EXCEPT ![l] = 0]
        /\ usurped' = usurped \cup {k \in {l} : Occupied(k)}
    BY <1>2 DEF TakeAway, Unlink
  <2> HIDE DEF Occupied
  <2>2. lock' \in [Locks -> Procs \cup {Free}] /\ age' \in [Locks -> Nat] /\ usurped' \in SUBSET Locks
    BY <2>1 DEF LockTypeOK
  <2>3. \A k \in Locks : \/ /\ lock'[k] = lock[k] /\ age'[k] = age[k]
                         \/ /\ k = l /\ lock'[k] = Free
                            /\ Occupied(k) => k \in usurped'
    BY <2>1 DEF LockTypeOK
  <2> QED BY <2>1, <2>2, <2>3
<1> QED BY <1>1, <1>2

\* The initial states.
LEMMA LockInitInv == LockInit => LockInv
<1> SUFFICES ASSUME LockInit PROVE LockInv
  OBVIOUS
<1>1. \A p \in Procs : prog[p] \in Seq(Transaction) /\ prog[p] # <<>>
  BY LockAssumption DEF LockInit
<1>2. ASSUME NEW p \in Procs PROVE Len(prog[p]) \in Nat /\ 1 \in 1 .. Len(prog[p])
  <2>1. Len(prog[p]) \in Nat
    BY <1>1
  <2>2. Len(prog[p]) # 0
    BY <1>1, EmptySeq
  <2> QED BY <2>1, <2>2
<1>3. LockTypeOK /\ ProgInv
  BY <1>2, LockAssumption DEF LockInit, LockTypeOK, ProgInv, Nothing, Step
<1>4. StealInv /\ HeldInv /\ WroteInv
  BY LockAssumption DEF LockInit, StealInv, HeldInv, WroteInv
<1>5. \A p \in Procs, f \in Files : CopyInv(p, f) /\ ReportInv(p, f)
  BY <1>2 DEF LockInit, CopyInv, ReportInv, Says
<1> QED BY <1>3, <1>4, <1>5 DEF LockInv, LocksInv, FilesInv

----------------------------------------------------------------------------
(* The types.                                                              *)

LEMMA TypeStep ==
    ASSUME LockTypeOK, ProgInv, [LockNext]_lockVars
    PROVE  LockTypeOK' /\ ProgInv'
<1> USE DEF LockTypeOK, ProgInv, Step, Ended
<1>1. CASE Tick
  <2>1. age' \in [Locks -> Nat] /\ waited' \in [Procs -> Nat]
    BY <1>1 DEF Tick
  <2>2. overdue' \in SUBSET Locks
    BY <1>1 DEF Tick, Locks
  <2> QED BY <1>1, <2>1, <2>2 DEF Tick
<1>2. ASSUME NEW p \in Procs, Begin(p) PROVE LockTypeOK' /\ ProgInv'
  BY <1>2 DEF Begin, Snapshot
<1>3. ASSUME NEW p \in Procs, Expire(p) PROVE LockTypeOK' /\ ProgInv'
  <2>1. TakeAway("plan") /\ "plan" \in Locks
    BY <1>3 DEF Expire, Locks
  <2> HIDE DEF LockTypeOK
  <2>2. /\ lock' \in [Locks -> Procs \cup {Free}] /\ age' \in [Locks -> Nat]
        /\ usurped' \in SUBSET Locks
    BY <2>1, TakeAwayLocks
  <2> USE DEF LockTypeOK
  <2> QED BY <1>3, <2>2 DEF Expire
<1>4. ASSUME NEW p \in Procs, ForceCreate(p) PROVE LockTypeOK' /\ ProgInv'
  <2>1. "plan" \in Locks
    BY DEF Locks
  <2>2. CASE lock["plan"] = Free /\ "open" \notin refuses["plan"]
    <3>1. /\ lock' = [lock EXCEPT !["plan"] = p] /\ age' = [age EXCEPT !["plan"] = 0]
          /\ held' = [held EXCEPT ![p] = @ \cup {"plan"}] /\ waited' = [waited EXCEPT ![p] = 0]
          /\ pc' = [pc EXCEPT ![p] = "acquire"]
      BY <1>4, <2>2 DEF ForceCreate
    <3>2. held' \in [Procs -> SUBSET Locks] /\ lock' \in [Locks -> Procs \cup {Free}]
      BY <2>1, <3>1
    <3>3. age' \in [Locks -> Nat] /\ waited' \in [Procs -> Nat] /\ pc' \in [Procs -> Step \cup Ended]
      BY <3>1
    <3> QED BY <1>4, <3>2, <3>3 DEF ForceCreate
  <2>3. CASE ~ (lock["plan"] = Free /\ "open" \notin refuses["plan"])
    <3>1. pc' = [pc EXCEPT ![p] = "bail"] /\ UNCHANGED <<lock, age, held, waited>>
      BY <1>4, <2>3 DEF ForceCreate
    <3> QED BY <1>4, <3>1 DEF ForceCreate
  <2> QED BY <2>2, <2>3
<1>5. ASSUME NEW p \in Procs, GiveUp(p) PROVE LockTypeOK' /\ ProgInv'
  BY <1>5 DEF GiveUp, Opens
<1>6. ASSUME NEW p \in Procs, Enter(p) PROVE LockTypeOK' /\ ProgInv'
  BY <1>6 DEF Enter, Snapshot
<1>7. ASSUME NEW p \in Procs, Finish(p) PROVE LockTypeOK' /\ ProgInv'
  BY <1>7 DEF Finish
<1>8. ASSUME NEW p \in Procs, Return(p) PROVE LockTypeOK' /\ ProgInv'
  <2>1. turn' \in [Procs -> Nat] /\ \A q \in Procs : turn'[q] \in 1 .. Len(prog[q])
    <3>1. turn[p] \in 1 .. Len(prog[p]) /\ Len(prog[p]) \in Nat
      BY NowType
    <3>2. turn' = turn \/ (turn' = [turn EXCEPT ![p] = @ + 1] /\ turn[p] < Len(prog[p]))
      BY <1>8 DEF Return
    <3>3. CASE turn' = turn
      BY <3>3
    <3>4. CASE turn' = [turn EXCEPT ![p] = @ + 1] /\ turn[p] < Len(prog[p])
      <4>1. turn'[p] \in 1 .. Len(prog[p]) /\ turn' \in [Procs -> Nat]
        BY <3>1, <3>4
      <4>2. \A q \in Procs \ {p} : turn'[q] = turn[q]
        BY <3>4
      <4> QED BY <4>1, <4>2
    <3> QED BY <3>2, <3>3, <3>4
  <2> QED BY <1>8, <2>1 DEF Return, Nothing
<1>9. ASSUME NEW p \in Procs, NEW l \in Locks, Create(p, l) PROVE LockTypeOK' /\ ProgInv'
  BY <1>9 DEF Create, Opens
<1>10. ASSUME NEW p \in Procs, NEW l \in Locks, SeeStale(p, l) PROVE LockTypeOK' /\ ProgInv'
  BY <1>10 DEF SeeStale, Opens
<1>11. ASSUME NEW p \in Procs, NEW l \in Locks, Steal(p, l) PROVE LockTypeOK' /\ ProgInv'
  <2> HIDE DEF LockTypeOK
  <2>1. /\ lock' \in [Locks -> Procs \cup {Free}] /\ age' \in [Locks -> Nat]
        /\ usurped' \in SUBSET Locks
    BY <1>11, TakeAwayLocks DEF Steal
  <2> USE DEF LockTypeOK
  <2> QED BY <1>11, <2>1 DEF Steal
<1>12. ASSUME NEW p \in Procs, NEW l \in Locks, Release(p, l) PROVE LockTypeOK' /\ ProgInv'
  <2>1. /\ lock' \in [Locks -> Procs \cup {Free}] /\ age' \in [Locks -> Nat]
    <3>1. \/ UNCHANGED <<lock, age>>
          \/ lock' = [lock EXCEPT ![l] = Free] /\ age' = [age EXCEPT ![l] = 0]
      BY <1>12 DEF Release, Unlink
    <3>2. CASE lock' = [lock EXCEPT ![l] = Free] /\ age' = [age EXCEPT ![l] = 0]
      BY <3>2
    <3> QED BY <3>1, <3>2
  <2> QED BY <1>12, <2>1 DEF Release
<1>13. ASSUME NEW p \in Procs, NEW f \in Files, Write(p, f) PROVE LockTypeOK' /\ ProgInv'
  BY <1>13 DEF Write
<1>14. ASSUME NEW p \in Procs, NEW f \in Files, WriteFails(p, f) PROVE LockTypeOK' /\ ProgInv'
  <2>1. file' \in [Files -> SUBSET Procs] /\ damaged' \in SUBSET Files
    BY <1>14 DEF WriteFails
  <2>2. pc' \in [Procs -> Step \cup Ended] /\ faults' \in 0 .. MaxFaults
    BY <1>14, LockAssumption DEF WriteFails, Fault
  <2> QED BY <1>14, <2>1, <2>2 DEF WriteFails
<1>15. ASSUME NEW p \in Procs, NEW f \in Files, Undo(p, f) PROVE LockTypeOK' /\ ProgInv'
  BY <1>15 DEF Undo
<1>16. ASSUME NEW p \in Procs, NEW f \in Files, UndoFails(p, f) PROVE LockTypeOK' /\ ProgInv'
  <2>1. file' \in [Files -> SUBSET Procs] /\ damaged' \in SUBSET Files
    BY <1>16 DEF UndoFails
  <2>2. pc' \in [Procs -> Step \cup Ended] /\ faults' \in 0 .. MaxFaults
    BY <1>16, LockAssumption DEF UndoFails, Fault
  <2> QED BY <1>16, <2>1, <2>2 DEF UndoFails
<1>17. ASSUME NEW p \in Procs, Crash(p) PROVE LockTypeOK' /\ ProgInv'
  BY <1>17, LockAssumption DEF Crash, Nothing
<1>19. ASSUME NEW p \in Procs, NEW l \in Locks, CreateFails(p, l) PROVE LockTypeOK' /\ ProgInv'
  <2>1. lock' \in [Locks -> Procs \cup {Free}] /\ age' \in [Locks -> Nat]
    <3>1. CASE UNCHANGED <<lock, age>>
      BY <3>1
    <3>2. CASE lock' = [lock EXCEPT ![l] = p] /\ age' = [age EXCEPT ![l] = 0]
      BY <3>2
    <3> QED BY <1>19, <3>1, <3>2 DEF CreateFails
  <2>2. faults' \in 0 .. MaxFaults
    BY <1>19, LockAssumption DEF CreateFails, Fault
  <2>3. pc' \in [Procs -> Step \cup Ended]
    <3>1. pc' = [pc EXCEPT ![p] = "bail"] \/ pc' = pc
      BY <1>19 DEF CreateFails
    <3> QED BY <3>1
  <2> QED BY <1>19, <2>1, <2>2, <2>3 DEF CreateFails
<1>20. ASSUME NEW l \in Locks, NEW a \in Accesses, Refuse(l, a) \/ Relent(l, a) PROVE LockTypeOK' /\ ProgInv'
  <2>1. faults' \in 0 .. MaxFaults
    BY <1>20, LockAssumption DEF Refuse, Relent, Fault
  <2>2. refuses' \in [Locks -> SUBSET Accesses]
    BY <1>20 DEF Refuse, Relent
  <2> QED BY <1>20, <2>1, <2>2 DEF Refuse, Relent
<1>18. CASE UNCHANGED lockVars
  BY <1>18 DEF lockVars
<1> QED
  BY <1>1, <1>2, <1>3, <1>4, <1>5, <1>6, <1>7, <1>8, <1>9, <1>10, <1>11, <1>12, <1>13,
     <1>14, <1>15, <1>16, <1>17, <1>18, <1>19, <1>20 DEF LockNext, Running

----------------------------------------------------------------------------
(* The locks.                                                              *)

\* Somebody who removes a lock file waits for an overdue lock.
LEMMA TakersWait ==
    ASSUME LockTypeOK, StealInv, NEW l \in Locks, l \in overdue, TakeAway(l), NEW p \in Procs,
           UNCHANGED <<prog, turn, waited, held, overdue>>,
           \/ pc' = [pc EXCEPT ![p] = "acquire"] /\ pc[p] = "steal"
           \/ pc' = [pc EXCEPT ![p] = "forced"] /\ l = "plan",
           NextLock(p, l)
    PROVE  StealInv'
<1>1. \A q \in Procs : \A k \in Locks \cup {"plan"} : NextLock(q, k)' <=> NextLock(q, k)
  BY DEF NextLock, Wanted, Now
<1>2. NextLock(p, "plan") /\ l # "plan" => FALSE
  BY DEF NextLock, Locks
<1> HIDE DEF NextLock
<1>3. /\ usurped' \subseteq usurped \cup {l}
      /\ \A k \in Locks : k = l \/ (lock'[k] = lock[k] /\ age'[k] = age[k])
  BY TakeAwayLocks
<1>4. \A k \in Locks : lock'[k] # Free /\ age'[k] > Stale[k] => k \in overdue'
  BY <1>3 DEF StealInv
<1>5. \A q \in Procs \ {p} : pc'[q] = pc[q]
  BY DEF LockTypeOK
<1>6. pc'[p] \in {"acquire", "forced"} /\ (pc'[p] = "forced" => l = "plan")
  BY DEF LockTypeOK
<1>7. \A q \in Procs, k \in Locks : pc'[q] = "steal" /\ NextLock(q, k)' => k \in overdue'
  BY <1>1, <1>5, <1>6 DEF StealInv
<1>8. \A q \in Procs : pc'[q] = "acquire" /\ NextLock(q, "plan")' /\ waited'[q] >= PlanTimeout
        => "plan" \in overdue'
  BY <1>1, <1>2, <1>5, <1>6 DEF StealInv
<1>9. \A q \in Procs : pc'[q] = "forced" => "plan" \in overdue'
  BY <1>5, <1>6 DEF StealInv
<1>10. usurped' \subseteq overdue'
  BY <1>3 DEF StealInv
<1> QED BY <1>4, <1>7, <1>8, <1>9, <1>10 DEF StealInv

LEMMA ExpireSteals ==
    ASSUME LockTypeOK, StealInv, NEW p \in Procs, Expire(p)
    PROVE  StealInv'
<1>1. "plan" \in Locks /\ "plan" \in overdue
  BY DEF Expire, StealInv, Locks
<1>2. /\ TakeAway("plan") /\ NextLock(p, "plan")
      /\ UNCHANGED <<prog, turn, waited, held, overdue>> /\ pc' = [pc EXCEPT ![p] = "forced"]
  BY DEF Expire
<1> QED BY <1>1, <1>2, TakersWait

LEMMA StealSteals ==
    ASSUME LockTypeOK, StealInv, NEW p \in Procs, NEW l \in Locks, Steal(p, l)
    PROVE  StealInv'
<1>1. l \in overdue
  BY DEF Steal, StealInv
<1>2. /\ TakeAway(l) /\ NextLock(p, l) /\ pc[p] = "steal"
      /\ UNCHANGED <<prog, turn, waited, held, overdue>> /\ pc' = [pc EXCEPT ![p] = "acquire"]
  BY DEF Steal
<1> QED BY <1>1, <1>2, TakersWait

\* A lock becomes overdue by a tick, before anybody can remove it.
LEMMA StealStep ==
    ASSUME LocksInv, [LockNext]_lockVars
    PROVE  StealInv'
<1> USE LockAssumption DEF LocksInv, LockTypeOK, StealInv, NextLock, Wanted, Now, Locks
<1>1. CASE Tick
  BY <1>1 DEF Tick
<1>2. ASSUME NEW p \in Procs, Begin(p) PROVE StealInv'
  BY <1>2 DEF Begin, Snapshot
<1>3. ASSUME NEW p \in Procs, Expire(p) PROVE StealInv'
  BY <1>3, ExpireSteals DEF LocksInv
<1>4. ASSUME NEW p \in Procs, ForceCreate(p) PROVE StealInv'
  <2>1. "plan" \in overdue /\ overdue' = overdue
    BY <1>4 DEF ForceCreate
  <2>2. \A q \in Procs : pc'[q] # "steal" \/ (q # p /\ pc[q] = "steal")
    BY <1>4 DEF ForceCreate
  <2>3. \A q \in Procs \ {p} : held'[q] = held[q] /\ prog'[q] = prog[q] /\ turn'[q] = turn[q]
    BY <1>4 DEF ForceCreate
  <2>4. \A l \in Locks : l # "plan" => lock'[l] = lock[l] /\ age'[l] = age[l]
    BY <1>4 DEF ForceCreate
  <2>5. \A l \in Locks : lock'[l] # Free /\ age'[l] > Stale[l] => l \in overdue'
    BY <2>1, <2>4
  <2>6. \A q \in Procs, l \in Locks : pc'[q] = "steal" /\ NextLock(q, l)' => l \in overdue'
    <3>1. \A q \in Procs \ {p}, l \in Locks : NextLock(q, l)' <=> NextLock(q, l)
      BY <2>3
    <3>2. StealInv
      OBVIOUS
    <3> HIDE DEF NextLock, Wanted, Now, Locks, LocksInv, LockTypeOK
    <3> QED BY <2>1, <2>2, <3>1, <3>2
  <2>7. usurped' \subseteq overdue'
    BY <1>4 DEF ForceCreate
  <2> QED BY <2>1, <2>5, <2>6, <2>7
<1>5. ASSUME NEW p \in Procs, GiveUp(p) PROVE StealInv'
  BY <1>5 DEF GiveUp, Opens
<1>6. ASSUME NEW p \in Procs, Enter(p) PROVE StealInv'
  BY <1>6 DEF Enter, Snapshot
<1>7. ASSUME NEW p \in Procs, Finish(p) PROVE StealInv'
  BY <1>7 DEF Finish
<1>8. ASSUME NEW p \in Procs, Return(p) PROVE StealInv'
  <2>1. pc'[p] \notin {"steal", "acquire", "forced"}
    BY <1>8 DEF Return
  <2>2. ASSUME NEW q \in Procs \ {p}
        PROVE  /\ pc'[q] = pc[q] /\ waited'[q] = waited[q]
               /\ \A l : NextLock(q, l)' <=> NextLock(q, l)
    <3>1. /\ pc'[q] = pc[q] /\ held'[q] = held[q] /\ waited'[q] = waited[q]
          /\ turn'[q] = turn[q] /\ prog'[q] = prog[q]
      BY <1>8, ReturnOthers DEF LocksInv
    <3> QED BY <3>1
  <2>3. UNCHANGED <<lock, age, overdue>>
    BY <1>8 DEF Return
  <2>4. \A l \in Locks : lock'[l] # Free /\ age'[l] > Stale[l] => l \in overdue'
    BY <2>3
  <2>5. ASSUME NEW q \in Procs, NEW l \in Locks, pc'[q] = "steal", NextLock(q, l)' PROVE l \in overdue'
    <3>1. q # p
      BY <2>1, <2>5
    <3>2. pc[q] = "steal" /\ NextLock(q, l)
      BY <2>2, <2>5, <3>1
    <3> HIDE DEF NextLock
    <3> QED BY <2>3, <3>2
  <2>6. ASSUME NEW q \in Procs, pc'[q] = "acquire", NextLock(q, "plan")', waited'[q] >= PlanTimeout
        PROVE  "plan" \in overdue'
    <3>1. q # p
      BY <2>1, <2>6
    <3>2. pc[q] = "acquire" /\ NextLock(q, "plan") /\ waited[q] >= PlanTimeout
      BY <2>2, <2>6, <3>1
    <3> HIDE DEF NextLock
    <3> QED BY <2>3, <3>2
  <2>7. \A q \in Procs : pc'[q] = "forced" => "plan" \in overdue'
    BY <2>1, <2>2, <2>3
  <2>8. usurped' \subseteq overdue'
    BY <1>8 DEF Return
  <2> HIDE DEF NextLock
  <2> QED BY <2>4, <2>5, <2>6, <2>7, <2>8
<1>9. ASSUME NEW p \in Procs, NEW l \in Locks, Create(p, l) PROVE StealInv'
  BY <1>9 DEF Create, Opens
<1>10. ASSUME NEW p \in Procs, NEW l \in Locks, SeeStale(p, l) PROVE StealInv'
  BY <1>10 DEF SeeStale, Opens
<1>11. ASSUME NEW p \in Procs, NEW l \in Locks, Steal(p, l) PROVE StealInv'
  BY <1>11, StealSteals DEF LocksInv
<1>12. ASSUME NEW p \in Procs, NEW l \in Locks, Release(p, l) PROVE StealInv'
  BY <1>12 DEF Release, Unlink
<1>13. ASSUME NEW p \in Procs, NEW f \in Files, Write(p, f) PROVE StealInv'
  BY <1>13 DEF Write
<1>14. ASSUME NEW p \in Procs, NEW f \in Files, WriteFails(p, f) PROVE StealInv'
  BY <1>14 DEF WriteFails
<1>15. ASSUME NEW p \in Procs, NEW f \in Files, Undo(p, f) PROVE StealInv'
  BY <1>15 DEF Undo
<1>16. ASSUME NEW p \in Procs, NEW f \in Files, UndoFails(p, f) PROVE StealInv'
  BY <1>16 DEF UndoFails
<1>17. ASSUME NEW p \in Procs, Crash(p) PROVE StealInv'
  BY <1>17 DEF Crash
<1>19. ASSUME NEW p \in Procs, NEW l \in Locks, CreateFails(p, l) PROVE StealInv'
  BY <1>19 DEF CreateFails, Opens
<1>20. ASSUME NEW l \in Locks, NEW a \in Accesses, Refuse(l, a) \/ Relent(l, a) PROVE StealInv'
  <2>1. UNCHANGED <<prog, lock, age, pc, turn, waited, held, overdue, usurped>>
    BY <1>20 DEF Refuse, Relent
  <2> QED BY <2>1
<1>18. CASE UNCHANGED lockVars
  BY <1>18 DEF lockVars
<1> HIDE DEF LocksInv, LockTypeOK, StealInv, NextLock, Wanted, Now, Locks
<1> QED
  BY <1>1, <1>2, <1>3, <1>4, <1>5, <1>6, <1>7, <1>8, <1>9, <1>10, <1>11, <1>12, <1>13,
     <1>14, <1>15, <1>16, <1>17, <1>18, <1>19, <1>20 DEF LockNext, Running

\* Whoever removes a lock file from a living holder is seen.
LEMMA TakenIsSeen ==
    ASSUME LockTypeOK, HeldInv, NEW l \in Locks, TakeAway(l), NEW p \in Procs,
           \/ pc' = [pc EXCEPT ![p] = "acquire"] /\ pc[p] = "steal"
           \/ pc' = [pc EXCEPT ![p] = "forced"] /\ pc[p] = "acquire",
           held' = held
    PROVE  HeldInv'
<1>1. \A q \in Procs : pc'[q] # "crashed" => pc[q] # "crashed"
  BY DEF LockTypeOK
<1>2. SUFFICES ASSUME NEW k \in Locks \ usurped', NEW q \in Procs, k \in held[q], pc[q] # "crashed"
               PROVE  lock'[k] = q
  BY <1>1 DEF HeldInv
<1>3. usurped \subseteq usurped'
  BY TakeAwayLocks
<1>4. lock[k] = q
  BY <1>2, <1>3 DEF HeldInv
<1>5. Occupied(k)
  BY <1>2, <1>4 DEF Occupied
<1>6. \/ lock'[k] = lock[k]
      \/ Occupied(k) => k \in usurped'
  BY TakeAwayLocks
<1> HIDE DEF Occupied
<1> QED BY <1>2, <1>4, <1>5, <1>6

\* A lock is created when it is free, and removed by its holder or taken from nobody.
LEMMA HeldStep ==
    ASSUME LocksInv, LockTypeOK', StealInv', [LockNext]_lockVars
    PROVE  HeldInv'
<1> USE LockAssumption DEF LocksInv, LockTypeOK, StealInv, HeldInv
<1>1. CASE Tick
  BY <1>1 DEF Tick
<1>2. ASSUME NEW p \in Procs, Begin(p) PROVE HeldInv'
  BY <1>2 DEF Begin, Snapshot
<1>3. ASSUME NEW p \in Procs, Expire(p) PROVE HeldInv'
  <2>1. "plan" \in Locks
    BY DEF Locks
  <2> QED BY <1>3, <2>1, TakenIsSeen DEF Expire
<1>4. ASSUME NEW p \in Procs, ForceCreate(p) PROVE HeldInv'
  <2>1. UNCHANGED usurped /\ "plan" \in Locks
    BY <1>4 DEF ForceCreate, Locks
  <2>2. \A q \in Procs \ {p} : pc'[q] = pc[q] /\ held'[q] = held[q]
    BY <1>4 DEF ForceCreate
  <2>3. CASE UNCHANGED <<lock, held>>
    <3>1. pc[p] # "crashed"
      BY <1>4 DEF ForceCreate
    <3> QED BY <2>1, <2>2, <2>3, <3>1
  <2>4. CASE /\ lock["plan"] = Free /\ lock' = [lock EXCEPT !["plan"] = p]
             /\ held' = [held EXCEPT ![p] = @ \cup {"plan"}] /\ pc[p] = "forced"
    <3>1. lock'["plan"] = p /\ held'[p] = held[p] \cup {"plan"}
      BY <2>1, <2>4
    <3>2. \A l \in Locks \ {"plan"} : lock'[l] = lock[l]
      BY <2>4
    <3>3. \A q \in Procs : lock["plan"] # q
      BY <2>4
    <3> QED BY <2>1, <2>2, <2>4, <3>1, <3>2, <3>3
  <2> QED BY <1>4, <2>3, <2>4 DEF ForceCreate
<1>5. ASSUME NEW p \in Procs, GiveUp(p) PROVE HeldInv'
  BY <1>5 DEF GiveUp, Opens
<1>6. ASSUME NEW p \in Procs, Enter(p) PROVE HeldInv'
  BY <1>6 DEF Enter, Snapshot
<1>7. ASSUME NEW p \in Procs, Finish(p) PROVE HeldInv'
  BY <1>7 DEF Finish
<1>8. ASSUME NEW p \in Procs, Return(p) PROVE HeldInv'
  BY <1>8 DEF Return
<1>9. ASSUME NEW p \in Procs, NEW l \in Locks, Create(p, l) PROVE HeldInv'
  BY <1>9 DEF Create, Opens
<1>10. ASSUME NEW p \in Procs, NEW l \in Locks, SeeStale(p, l) PROVE HeldInv'
  BY <1>10 DEF SeeStale, Opens
<1>11. ASSUME NEW p \in Procs, NEW l \in Locks, Steal(p, l) PROVE HeldInv'
  BY <1>11, TakenIsSeen DEF Steal
<1>12. ASSUME NEW p \in Procs, NEW l \in Locks, Release(p, l) PROVE HeldInv'
  BY <1>12 DEF Release, Unlink
<1>13. ASSUME NEW p \in Procs, NEW f \in Files, Write(p, f) PROVE HeldInv'
  BY <1>13 DEF Write
<1>14. ASSUME NEW p \in Procs, NEW f \in Files, WriteFails(p, f) PROVE HeldInv'
  BY <1>14 DEF WriteFails
<1>15. ASSUME NEW p \in Procs, NEW f \in Files, Undo(p, f) PROVE HeldInv'
  BY <1>15 DEF Undo
<1>16. ASSUME NEW p \in Procs, NEW f \in Files, UndoFails(p, f) PROVE HeldInv'
  BY <1>16 DEF UndoFails
<1>17. ASSUME NEW p \in Procs, Crash(p) PROVE HeldInv'
  BY <1>17 DEF Crash
<1>19. ASSUME NEW p \in Procs, NEW l \in Locks, CreateFails(p, l) PROVE HeldInv'
  BY <1>19 DEF CreateFails, Opens
<1>20. ASSUME NEW l \in Locks, NEW a \in Accesses, Refuse(l, a) \/ Relent(l, a) PROVE HeldInv'
  BY <1>20 DEF Refuse, Relent
<1>18. CASE UNCHANGED lockVars
  BY <1>18 DEF lockVars
<1> QED
  BY <1>1, <1>2, <1>3, <1>4, <1>5, <1>6, <1>7, <1>8, <1>9, <1>10, <1>11, <1>12, <1>13,
     <1>14, <1>15, <1>16, <1>17, <1>18, <1>19, <1>20 DEF LockNext, Running

\* A transaction begins with nothing written, and writes its own files.
LEMMA WroteStep ==
    ASSUME LocksInv, [LockNext]_lockVars
    PROVE  WroteInv'
<1> USE DEF LocksInv, LockTypeOK, WroteInv, Now, Wanted, Todo
<1>1. CASE Tick
  BY <1>1 DEF Tick
<1>2. ASSUME NEW p \in Procs, Begin(p) PROVE WroteInv'
  BY <1>2 DEF Begin, Snapshot
<1>3. ASSUME NEW p \in Procs, Expire(p) PROVE WroteInv'
  BY <1>3 DEF Expire, TakeAway, Unlink
<1>4. ASSUME NEW p \in Procs, ForceCreate(p) PROVE WroteInv'
  <2>1. UNCHANGED <<prog, turn, wrote>> /\ pc[p] = "forced"
    BY <1>4 DEF ForceCreate
  <2>2. pc'[p] \in {"acquire", "bail"}
    BY <1>4 DEF ForceCreate
  <2>3. \A q \in Procs \ {p} : pc'[q] = pc[q] /\ held'[q] = held[q]
    BY <1>4 DEF ForceCreate
  <2> QED BY <2>1, <2>2, <2>3
<1>5. ASSUME NEW p \in Procs, GiveUp(p) PROVE WroteInv'
  BY <1>5 DEF GiveUp, Opens
<1>6. ASSUME NEW p \in Procs, Enter(p) PROVE WroteInv'
  BY <1>6 DEF Enter, Snapshot
<1>7. ASSUME NEW p \in Procs, Finish(p) PROVE WroteInv'
  BY <1>7 DEF Finish
<1>8. ASSUME NEW p \in Procs, Return(p) PROVE WroteInv'
  <2>1. pc'[p] \notin {"write", "undo"} /\ wrote'[p] = {}
    BY <1>8 DEF Return
  <2>2. ASSUME NEW q \in Procs \ {p}
        PROVE  /\ pc'[q] = pc[q] /\ held'[q] = held[q] /\ wrote'[q] = wrote[q]
               /\ turn'[q] = turn[q] /\ prog'[q] = prog[q]
    BY <1>8, ReturnOthers DEF LocksInv
  <2> QED BY <2>1, <2>2
<1>9. ASSUME NEW p \in Procs, NEW l \in Locks, Create(p, l) PROVE WroteInv'
  BY <1>9 DEF Create, Opens
<1>10. ASSUME NEW p \in Procs, NEW l \in Locks, SeeStale(p, l) PROVE WroteInv'
  BY <1>10 DEF SeeStale, Opens
<1>11. ASSUME NEW p \in Procs, NEW l \in Locks, Steal(p, l) PROVE WroteInv'
  BY <1>11 DEF Steal, TakeAway, Unlink
<1>12. ASSUME NEW p \in Procs, NEW l \in Locks, Release(p, l) PROVE WroteInv'
  BY <1>12 DEF Release, Unlink
<1>13. ASSUME NEW p \in Procs, NEW f \in Files, Write(p, f) PROVE WroteInv'
  BY <1>13 DEF Write
<1>14. ASSUME NEW p \in Procs, NEW f \in Files, WriteFails(p, f) PROVE WroteInv'
  BY <1>14 DEF WriteFails
<1>15. ASSUME NEW p \in Procs, NEW f \in Files, Undo(p, f) PROVE WroteInv'
  BY <1>15 DEF Undo
<1>16. ASSUME NEW p \in Procs, NEW f \in Files, UndoFails(p, f) PROVE WroteInv'
  BY <1>16 DEF UndoFails
<1>17. ASSUME NEW p \in Procs, Crash(p) PROVE WroteInv'
  BY <1>17 DEF Crash
<1>19. ASSUME NEW p \in Procs, NEW l \in Locks, CreateFails(p, l) PROVE WroteInv'
  BY <1>19 DEF CreateFails, Opens
<1>20. ASSUME NEW l \in Locks, NEW a \in Accesses, Refuse(l, a) \/ Relent(l, a) PROVE WroteInv'
  BY <1>20 DEF Refuse, Relent
<1>18. CASE UNCHANGED lockVars
  BY <1>18 DEF lockVars
<1> QED
  BY <1>1, <1>2, <1>3, <1>4, <1>5, <1>6, <1>7, <1>8, <1>9, <1>10, <1>11, <1>12, <1>13,
     <1>14, <1>15, <1>16, <1>17, <1>18, <1>19, <1>20 DEF LockNext, Running

\* What a step does about the locks.
LEMMA LocksStep ==
    ASSUME LocksInv, [LockNext]_lockVars
    PROVE  LocksInv'
<1>1. LockTypeOK' /\ ProgInv'
  BY TypeStep DEF LocksInv
<1>2. StealInv'
  BY StealStep
<1>3. HeldInv'
  BY <1>1, <1>2, HeldStep
<1>4. WroteInv'
  BY WroteStep
<1> QED BY <1>1, <1>2, <1>3, <1>4 DEF LocksInv

----------------------------------------------------------------------------
(* The files.                                                              *)

\* Two processes do not write a file at the same time that a lock keeps.
LEMMA Exclusion ==
    ASSUME LocksInv, NEW l \in Locks, NEW f \in Files, Kept(l, f),
           NEW p \in Procs, pc[p] \in {"write", "undo"}, f \in Now(p).files,
           NEW q \in Procs, pc[q] \in {"write", "undo"}, f \in Now(q).files
    PROVE  p = q
<1>1. ASSUME NEW r \in Procs, pc[r] \in {"write", "undo"}, f \in Now(r).files
      PROVE  lock[l] = r
  <2>1. turn[r] \in 1 .. Len(prog[r])
    BY NowType DEF LocksInv
  <2>2. l \in Now(r).needs
    BY <1>1, <2>1 DEF Kept, Guards, Now
  <2>3. l \in held[r]
    BY <1>1, <2>2 DEF LocksInv, WroteInv
  <2> QED BY <1>1, <2>3 DEF LocksInv, HeldInv, Kept
<1> QED BY <1>1

\* What a lock keeps after a step, it has kept before.
LEMMA KeptBefore ==
    ASSUME LockTypeOK, ProgInv, [LockNext]_lockVars, NEW l \in Locks, NEW f \in Files, Kept(l, f)'
    PROVE  Kept(l, f) /\ prog' = prog /\ unrolled \subseteq unrolled'
<1>1. prog' = prog
  BY DEF LockNext, Running, Tick, Begin, Create, CreateFails, Opens, SeeStale, Steal, Expire, ForceCreate, GiveUp, Enter,
         Write, WriteFails, Undo, UndoFails, Finish, Release, Return, Crash, Refuse, Relent, lockVars
<1>2. usurped \subseteq usurped'
  BY DEF TakeAway, LockNext, Running, Tick, Begin, Create, CreateFails, Opens, SeeStale, Steal, Expire, ForceCreate, GiveUp, Enter,
         Write, WriteFails, Undo, UndoFails, Finish, Release, Return, Crash, Refuse, Relent, lockVars
<1>3. damaged \subseteq damaged' /\ unrolled \subseteq unrolled'
  BY DEF LockNext, Running, Tick, Begin, Create, CreateFails, Opens, SeeStale, Steal, Expire, ForceCreate, GiveUp, Enter,
         Write, WriteFails, Undo, UndoFails, Finish, Release, Return, Crash, Refuse, Relent, lockVars
<1> QED BY <1>1, <1>2, <1>3 DEF Kept, Guards

\* A process that does not move keeps what holds of it, when the file stays, or when
\* it is not about to write the file and another one's update comes or goes.
LEMMA RestingKeeps ==
    ASSUME NEW p \in Procs, NEW f \in Files, prog' = prog, unrolled \subseteq unrolled',
           turn'[p] = turn[p], pc'[p] = pc[p], wrote'[p] = wrote[p], copy'[p] = copy[p],
           \/ file'[f] = file[f]
           \/ /\ p \in file'[f] <=> p \in file[f]
              /\ ~ (pc[p] \in {"write", "undo"} /\ f \in Now(p).files),
           CopyInv(p, f), p \notin unrolled => ReportInv(p, f)
    PROVE  CopyInv(p, f)' /\ (p \notin unrolled' => ReportInv(p, f)')
<1>1. Now(p)' = Now(p) /\ (Says(p, f)' <=> Says(p, f))
  BY NowStays
<1>2. CopyInv(p, f)'
  BY <1>1 DEF CopyInv
<1>3. ASSUME p \notin unrolled' PROVE ReportInv(p, f)'
  <2>1. ReportInv(p, f)
    BY <1>3
  <2> QED BY <1>1, <2>1 DEF ReportInv
<1> QED BY <1>2, <1>3

\* A step of one process leaves the places of the others alone.
LEMMA OthersRest ==
    ASSUME LockTypeOK, ProgInv, NEW q \in Procs, Running(q) \/ Crash(q), NEW p \in Procs \ {q}
    PROVE  turn'[p] = turn[p] /\ pc'[p] = pc[p] /\ wrote'[p] = wrote[p] /\ copy'[p] = copy[p]
<1> USE DEF LockTypeOK, ProgInv
<1>1. CASE Begin(q) \/ Expire(q) \/ GiveUp(q) \/ Enter(q) \/ Finish(q) \/ Crash(q)
  BY <1>1 DEF Begin, Expire, GiveUp, Enter, Finish, Crash
<1>2. CASE ForceCreate(q)
  <2>1. pc' = [pc EXCEPT ![q] = "acquire"] \/ pc' = [pc EXCEPT ![q] = "bail"]
    BY <1>2 DEF ForceCreate
  <2> QED BY <1>2, <2>1 DEF ForceCreate
<1>3. CASE Return(q)
  BY <1>3, ReturnOthers
<1>4. CASE \E l \in Locks : Create(q, l) \/ CreateFails(q, l) \/ SeeStale(q, l) \/ Steal(q, l) \/ Release(q, l)
  BY <1>4 DEF Create, CreateFails, Opens, SeeStale, Steal, Release
<1>5. CASE \E f \in Files : Write(q, f) \/ WriteFails(q, f) \/ Undo(q, f) \/ UndoFails(q, f)
  BY <1>5 DEF Write, WriteFails, Undo, UndoFails
<1> QED BY <1>1, <1>2, <1>3, <1>4, <1>5 DEF Running

\* A step changes a file only where it writes it or takes it back: from what its
\* process has read, by the update of its process.
LEMMA FileStep ==
    ASSUME LockInv, NEW q \in Procs, Running(q) \/ Crash(q),
           NEW l \in Locks, NEW f \in Files, Kept(l, f), f \notin damaged'
    PROVE  \/ file'[f] = file[f]
           \/ /\ pc[q] \in {"write", "undo"} /\ f \in Now(q).files
              /\ \A p \in Procs \ {q} : p \in file'[f] <=> p \in file[f]
<1> USE DEF LockTypeOK, LocksInv, LockInv
<1>1. CASE \/ Begin(q) \/ Expire(q) \/ GiveUp(q) \/ Enter(q) \/ Finish(q) \/ Crash(q) \/ ForceCreate(q)
           \/ Return(q) \/ \E k \in Locks : Create(q, k) \/ CreateFails(q, k) \/ SeeStale(q, k) \/ Steal(q, k) \/ Release(q, k)
  <2>1. file' = file
    BY <1>1 DEF Begin, Expire, GiveUp, Enter, Finish, Crash, ForceCreate, Return, Create, CreateFails, Opens, SeeStale,
                Steal, Release
  <2> QED BY <2>1
<1>2. ASSUME NEW g \in Files, Write(q, g)
      PROVE  \/ file'[f] = file[f]
             \/ /\ pc[q] = "write" /\ f \in Now(q).files
                /\ \A p \in Procs \ {q} : p \in file'[f] <=> p \in file[f]
  <2>1. CASE f # g
    BY <1>2, <2>1 DEF Write
  <2>2. CASE f = g
    <3>1. pc[q] = "write" /\ f \in Now(q).files /\ f \notin wrote[q]
      BY <1>2, <2>2 DEF Write, Todo
    <3>2. file[f] = copy[q][f]
      BY <3>1 DEF FilesInv, CopyInv
    <3>3. file'[f] = copy[q][f] \cup {q}
      BY <1>2, <2>2 DEF Write
    <3> QED BY <3>1, <3>2, <3>3
  <2> QED BY <2>1, <2>2
<1>3. ASSUME NEW g \in Files, Undo(q, g)
      PROVE  \/ file'[f] = file[f]
             \/ /\ pc[q] = "undo" /\ f \in Now(q).files
                /\ \A p \in Procs \ {q} : p \in file'[f] <=> p \in file[f]
  <2>1. CASE f # g
    BY <1>3, <2>1 DEF Undo
  <2>2. CASE f = g
    <3>1. pc[q] = "undo" /\ f \in wrote[q] /\ f \in Now(q).files
      BY <1>3, <2>2 DEF Undo, WroteInv
    <3>2. file[f] = copy[q][f] \cup {q}
      BY <3>1 DEF FilesInv, CopyInv
    <3>3. file'[f] = copy[q][f]
      BY <1>3, <2>2 DEF Undo
    <3> QED BY <3>1, <3>2, <3>3
  <2> QED BY <2>1, <2>2
<1>4. ASSUME NEW g \in Files, WriteFails(q, g) \/ UndoFails(q, g) PROVE file'[f] = file[f]
  BY <1>4 DEF WriteFails, UndoFails
<1> QED BY <1>1, <1>2, <1>3, <1>4 DEF Running

\* Whoever does not move keeps what holds of it.
LEMMA OthersKeep ==
    ASSUME LockInv, NEW q \in Procs, Running(q) \/ Crash(q), NEW p \in Procs \ {q},
           NEW l \in Locks, NEW f \in Files, Kept(l, f), Kept(l, f)',
           prog' = prog, unrolled \subseteq unrolled'
    PROVE  CopyInv(p, f)' /\ (p \notin unrolled' => ReportInv(p, f)')
<1>1. turn'[p] = turn[p] /\ pc'[p] = pc[p] /\ wrote'[p] = wrote[p] /\ copy'[p] = copy[p]
  BY OthersRest DEF LockInv, LocksInv
<1>2. \/ file'[f] = file[f]
      \/ /\ pc[q] \in {"write", "undo"} /\ f \in Now(q).files
         /\ p \in file'[f] <=> p \in file[f]
  BY FileStep DEF Kept
<1>3. ~ /\ pc[q] \in {"write", "undo"} /\ f \in Now(q).files
        /\ pc[p] \in {"write", "undo"} /\ f \in Now(p).files
  BY Exclusion DEF LockInv
<1>4. CopyInv(p, f) /\ (p \notin unrolled => ReportInv(p, f))
  BY DEF LockInv, FilesInv
<1> QED BY <1>1, <1>2, <1>3, <1>4, RestingKeeps

----------------------------------------------------------------------------
(* The process that moves.                                                 *)

\* The steps before and after the writing.
LEMMA WaitingKeeps ==
    ASSUME LockInv, NEW q \in Procs, NEW f \in Files, CopyInv(q, f), q \notin unrolled => ReportInv(q, f),
           prog' = prog, unrolled' = unrolled, turn'[q] = turn[q], file' = file,
           pc[q] \in {"idle", "acquire", "steal", "forced", "leave", "bail"},
           \/ pc'[q] = pc[q]
           \/ /\ pc[q] \in {"idle", "acquire", "steal", "forced", "bail"}
              /\ pc'[q] \in {"idle", "acquire", "steal", "forced", "bail", "failed"}
    PROVE  CopyInv(q, f)' /\ (q \notin unrolled' => ReportInv(q, f)')
<1>1. pc'[q] \notin {"write", "undo", "done"} /\ pc[q] # "done"
  OBVIOUS
<1>2. Now(q)' = Now(q) /\ (Says(q, f)' <=> Says(q, f))
  BY <1>1, NowStays
<1> QED BY <1>1, <1>2 DEF CopyInv, ReportInv

LEMMA SelfWaits ==
    ASSUME LockInv, NEW q \in Procs, NEW f \in Files, CopyInv(q, f), q \notin unrolled => ReportInv(q, f),
           \/ Begin(q) \/ Expire(q) \/ ForceCreate(q) \/ GiveUp(q)
           \/ \E k \in Locks : Create(q, k) \/ CreateFails(q, k) \/ SeeStale(q, k) \/ Steal(q, k) \/ Release(q, k)
    PROVE  CopyInv(q, f)' /\ (q \notin unrolled' => ReportInv(q, f)')
<1> USE DEF LockInv, LocksInv, LockTypeOK
<1>1. prog' = prog /\ unrolled' = unrolled /\ turn' = turn /\ file' = file
  BY DEF Begin, Expire, GiveUp, ForceCreate, Create, CreateFails, Opens, SeeStale, Steal, Release
<1>2. pc[q] \in {"idle", "acquire", "steal", "forced", "leave", "bail"}
  BY DEF Begin, Expire, GiveUp, ForceCreate, Create, CreateFails, Opens, SeeStale, Steal, Release
<1>3. \/ pc'[q] = pc[q]
      \/ /\ pc[q] \in {"idle", "acquire", "steal", "forced", "bail"}
         /\ pc'[q] \in {"idle", "acquire", "steal", "forced", "bail", "failed"}
  BY DEF Begin, Expire, GiveUp, ForceCreate, Create, CreateFails, Opens, SeeStale, Steal, Release
<1> HIDE DEF LockInv
<1> QED BY <1>1, <1>2, <1>3, WaitingKeeps

\* A process reads its files when it has its locks.
LEMMA SelfEnters ==
    ASSUME LockInv, NEW q \in Procs, NEW l \in Locks, NEW f \in Files, Kept(l, f), CopyInv(q, f),
           q \notin unrolled => ReportInv(q, f), Enter(q)
    PROVE  CopyInv(q, f)' /\ (q \notin unrolled' => ReportInv(q, f)')
<1> USE DEF LockInv, LocksInv, LockTypeOK
<1>1. UNCHANGED <<prog, turn, file, wrote, unrolled>> /\ pc[q] = "acquire" /\ pc'[q] = "write"
  BY DEF Enter
<1>2. Now(q)' = Now(q) /\ (Says(q, f)' <=> Says(q, f))
  BY <1>1, NowStays
<1>3. wrote[q] = {}
  BY <1>1 DEF WroteInv
<1>4. f \in Now(q).files => copy'[q][f] = file[f]
  <2>1. ASSUME f \in Now(q).files PROVE ~ Now(q).early
    BY <2>1, NowType DEF Kept, Guards, Now
  <2> QED BY <2>1 DEF Enter, Snapshot
<1>5. CopyInv(q, f)'
  BY <1>1, <1>2, <1>3, <1>4 DEF CopyInv
<1>6. ReportInv(q, f) => ReportInv(q, f)'
  BY <1>1, <1>2, <1>4 DEF ReportInv
<1> QED BY <1>1, <1>5, <1>6

\* It writes a file, or the write fails.
LEMMA SelfWrites ==
    ASSUME LockInv, NEW q \in Procs, NEW f \in Files, CopyInv(q, f), q \notin unrolled => ReportInv(q, f),
           NEW g \in Files, Write(q, g)
    PROVE  CopyInv(q, f)' /\ (q \notin unrolled' => ReportInv(q, f)')
<1> USE DEF LockInv, LocksInv, LockTypeOK
<1>1. UNCHANGED <<prog, turn, pc, copy, unrolled>> /\ pc[q] = "write"
  BY DEF Write
<1>2. Now(q)' = Now(q) /\ (Says(q, f)' <=> Says(q, f))
  BY <1>1, NowStays
<1>3. CASE f = g
  <2>1. f \in Now(q).files /\ f \in wrote'[q] /\ file'[f] = copy[q][f] \cup {q}
    BY <1>3 DEF Write, Todo
  <2> QED BY <1>1, <1>2, <2>1 DEF CopyInv, ReportInv
<1>4. CASE f # g
  <2>1. file'[f] = file[f] /\ (f \in wrote'[q] <=> f \in wrote[q])
    BY <1>4 DEF Write
  <2> QED BY <1>1, <1>2, <2>1 DEF CopyInv, ReportInv
<1> QED BY <1>3, <1>4

LEMMA SelfWriteFails ==
    ASSUME LockInv, NEW q \in Procs, NEW f \in Files, f \notin damaged', CopyInv(q, f),
           q \notin unrolled => ReportInv(q, f), NEW g \in Files, WriteFails(q, g)
    PROVE  CopyInv(q, f)' /\ (q \notin unrolled' => ReportInv(q, f)')
<1> USE DEF LockInv, LocksInv, LockTypeOK
<1>1. /\ UNCHANGED <<prog, turn, copy, wrote, unrolled>> /\ pc[q] = "write"
      /\ pc'[q] = IF Now(q).undoes THEN "undo" ELSE "bail"
  BY DEF WriteFails
<1>2. Now(q)' = Now(q) /\ (Says(q, f)' <=> Says(q, f))
  BY <1>1, NowStays
<1>3. file'[f] = file[f]
  BY DEF WriteFails
<1>4. CASE Now(q).undoes
  BY <1>1, <1>2, <1>3, <1>4 DEF CopyInv, ReportInv
<1>5. CASE ~ Now(q).undoes
  <2>1. f \in Now(q).files => f = g
    BY <1>5, NowType, MixAssumption DEF Now, ProgInv, WriteFails, Todo
  <2>2. f \in Now(q).files => file[f] = copy[q][f]
    BY <1>1, <2>1 DEF WriteFails, Todo, CopyInv
  <2> QED BY <1>1, <1>2, <1>3, <1>5, <2>2 DEF CopyInv, ReportInv
<1> QED BY <1>4, <1>5

\* It takes a file back, or fails to.
LEMMA SelfUndoes ==
    ASSUME LockInv, NEW q \in Procs, NEW f \in Files, CopyInv(q, f), q \notin unrolled => ReportInv(q, f),
           NEW g \in Files, Undo(q, g) \/ UndoFails(q, g)
    PROVE  CopyInv(q, f)' /\ (q \notin unrolled' => ReportInv(q, f)')
<1> USE DEF LockInv, LocksInv, LockTypeOK
<1>1. CASE UndoFails(q, g)
  BY <1>1 DEF UndoFails, CopyInv
<1>2. CASE Undo(q, g)
  <2>1. UNCHANGED <<prog, turn, pc, copy, unrolled>> /\ pc[q] = "undo"
    BY <1>2 DEF Undo
  <2>2. Now(q)' = Now(q) /\ (Says(q, f)' <=> Says(q, f))
    BY <2>1, NowStays
  <2>3. CASE f = g
    <3>1. f \in Now(q).files /\ f \notin wrote'[q] /\ file'[f] = copy[q][f]
      BY <1>2, <2>3 DEF Undo, WroteInv
    <3> QED BY <2>1, <2>2, <3>1 DEF CopyInv, ReportInv
  <2>4. CASE f # g
    <3>1. file'[f] = file[f] /\ (f \in wrote'[q] <=> f \in wrote[q])
      BY <1>2, <2>4 DEF Undo
    <3> QED BY <2>1, <2>2, <3>1 DEF CopyInv, ReportInv
  <2> QED BY <2>3, <2>4
<1> QED BY <1>1, <1>2

\* It has written all its files, or taken all back.
LEMMA SelfFinishes ==
    ASSUME LockInv, NEW q \in Procs, NEW f \in Files, CopyInv(q, f), q \notin unrolled => ReportInv(q, f),
           Finish(q)
    PROVE  CopyInv(q, f)' /\ (q \notin unrolled' => ReportInv(q, f)')
<1> USE DEF LockInv, LocksInv, LockTypeOK
<1>1. UNCHANGED <<prog, turn, file, copy, wrote, unrolled>>
  BY DEF Finish
<1>2. pc[q] \in {"write", "undo"} /\ pc'[q] \in {"leave", "bail"}
  BY DEF Finish
<1>3. Now(q)' = Now(q) /\ (Says(q, f)' <=> Says(q, f))
  BY <1>1, <1>2, NowStays
<1>4. CASE pc[q] = "write"
  <2>1. pc'[q] = "leave" /\ (f \in Now(q).files => f \in wrote[q])
    BY <1>4 DEF Finish, Todo
  <2>2. f \in Now(q).files => file[f] = copy[q][f] \cup {q}
    BY <1>4, <2>1 DEF CopyInv
  <2> QED BY <1>1, <1>3, <1>4, <2>1, <2>2 DEF CopyInv, ReportInv
<1>5. CASE pc[q] = "undo"
  <2>1. pc'[q] = "bail" /\ f \notin wrote[q]
    BY <1>5 DEF Finish
  <2>2. f \in Now(q).files => file[f] = copy[q][f]
    BY <1>5, <2>1 DEF CopyInv
  <2> QED BY <1>1, <1>3, <1>5, <2>1, <2>2 DEF CopyInv, ReportInv
<1> QED BY <1>2, <1>4, <1>5

\* A transaction that was carried out is reported.
LEMMA SelfReturns ==
    ASSUME LockInv, NEW q \in Procs, NEW f \in Files, CopyInv(q, f), q \notin unrolled => ReportInv(q, f),
           Return(q)
    PROVE  CopyInv(q, f)' /\ (q \notin unrolled' => ReportInv(q, f)')
<1> USE DEF LockInv, LocksInv, LockTypeOK
<1>1. UNCHANGED <<prog, file, unrolled>>
  BY DEF Return
<1>2. turn[q] \in 1 .. Len(prog[q]) /\ Len(prog[q]) \in Nat
  BY NowType
<1>3. CASE pc[q] = "bail"
  <2>1. pc'[q] = "failed" /\ turn'[q] = turn[q]
    BY <1>3 DEF Return
  <2> HIDE DEF LockInv
  <2> QED BY <1>1, <1>3, <2>1, WaitingKeeps DEF Return
<1>4. CASE pc[q] = "leave" /\ turn[q] < Len(prog[q])
  <2>1. pc'[q] = "idle" /\ turn'[q] = turn[q] + 1
    BY <1>4 DEF Return, ProgInv
  <2>2. Says(q, f)' <=> Says(q, f) \/ f \in Now(q).files
    BY <1>1, <1>2, <1>4, <2>1 DEF Says, Now
  <2> QED BY <1>1, <1>4, <2>1, <2>2 DEF CopyInv, ReportInv
<1>5. CASE pc[q] = "leave" /\ turn[q] = Len(prog[q])
  <2>1. pc'[q] = "done" /\ turn'[q] = turn[q]
    BY <1>5, <1>2 DEF Return
  <2>2. Says(q, f)' <=> Says(q, f) \/ f \in Now(q).files
    BY <1>1, <1>2, <1>5, <2>1 DEF Says, Now
  <2> QED BY <1>1, <1>5, <2>1, <2>2 DEF CopyInv, ReportInv
<1> QED BY <1>3, <1>4, <1>5 DEF Return

LEMMA SelfDies ==
    ASSUME LockInv, NEW q \in Procs, NEW f \in Files, Crash(q)
    PROVE  CopyInv(q, f)' /\ ReportInv(q, f)'
BY DEF LockInv, LocksInv, LockTypeOK, Crash, CopyInv, ReportInv

----------------------------------------------------------------------------
(* The whole.                                                              *)

LEMMA FilesStep ==
    ASSUME LockInv, [LockNext]_lockVars
    PROVE  FilesInv'
<1> SUFFICES ASSUME NEW l \in Locks, NEW f \in Files, Kept(l, f)', NEW p \in Procs
             PROVE  CopyInv(p, f)' /\ (p \notin unrolled' => ReportInv(p, f)')
  BY DEF FilesInv
<1>1. Kept(l, f) /\ prog' = prog /\ unrolled \subseteq unrolled'
  BY KeptBefore DEF LockInv, LocksInv
<1>2. CopyInv(p, f) /\ (p \notin unrolled => ReportInv(p, f))
  BY <1>1 DEF LockInv, FilesInv
<1>3. f \notin damaged'
  BY DEF Kept
<1>4. CASE \/ Tick \/ UNCHANGED lockVars
           \/ \E k \in Locks, a \in Accesses : Refuse(k, a) \/ Relent(k, a)
  <2>1. UNCHANGED <<file, turn, pc, wrote, copy>>
    BY <1>4 DEF Tick, lockVars, Refuse, Relent
  <2> QED BY <1>1, <1>2, <2>1, RestingKeeps
<1>5. ASSUME NEW q \in Procs, Running(q) \/ Crash(q)
      PROVE  CopyInv(p, f)' /\ (p \notin unrolled' => ReportInv(p, f)')
  <2>1. CASE p # q
    BY <1>1, <1>5, <2>1, OthersKeep
  <2>2. CASE p = q /\ Crash(q)
    BY <2>2, SelfDies
  <2>3. CASE p = q /\ Running(q)
    BY <1>1, <1>2, <1>3, <2>3, SelfWaits, SelfEnters, SelfWrites, SelfWriteFails, SelfUndoes,
       SelfFinishes, SelfReturns DEF Running
  <2> QED BY <1>5, <2>1, <2>2, <2>3
<1> QED BY <1>4, <1>5 DEF LockNext

LEMMA LockInvAlways == LockInit /\ [][LockNext]_lockVars => []LockInv
<1>1. LockInv /\ [LockNext]_lockVars => LockInv'
  BY LocksStep, FilesStep DEF LockInv
<1> QED BY <1>1, LockInitInv, PTL

\* What a process has carried out is what Says says.
LEMMA CarriedOutIsSaid ==
    ASSUME NEW p \in Procs, pc[p] \in {"done", "failed"}, NEW f \in Files
    PROVE  f \in CarriedOut(p) <=> Says(p, f)
BY DEF CarriedOut, Says

\* The variables keep their types, for every number of processes and every program
\* (planning-workspace.cjs:125-199, state.cjs:930-1092).
THEOREM LocksTyped == LockSpec => []LockTypeOK
<1>1. LockInv => LockTypeOK
  BY DEF LockInv, LocksInv
<1> QED BY <1>1, LockInvAlways, PTL DEF LockSpec

\* A process that has ended has its update in exactly the files of the transactions that
\* went through, for every number of processes and faults and every program: as long as
\* the lock was not taken from a living holder and no write has truncated the file or
\* roll-back failed; and a lock is taken from a living holder only after it was overdue
\* (readModifyWriteStateMd, withPlanningLock, writePlanningFileSet).
THEOREM FilesMatch == LockSpec => []FilesMatchTransactions
<1>1. LockInv => FilesMatchTransactions
  <2> SUFFICES ASSUME LockInv
               PROVE  FilesMatchTransactions
    OBVIOUS
  <2>1. usurped \subseteq overdue
    BY DEF LockInv, LocksInv, StealInv
  <2>2. ASSUME NEW f \in Files, NEW l \in Locks,
               Guards(l, f) /\ l \notin usurped /\ f \notin damaged,
               NEW p \in Procs \ unrolled, pc[p] \in {"done", "failed"}
        PROVE  p \in file[f] <=> f \in CarriedOut(p)
    <3>1. ReportInv(p, f)
      BY <2>2 DEF LockInv, FilesInv, Kept
    <3> QED BY <2>2, <3>1, CarriedOutIsSaid DEF ReportInv
  <2> QED BY <2>1, <2>2 DEF FilesMatchTransactions
<1> QED BY <1>1, LockInvAlways, PTL DEF LockSpec
=============================================================================
