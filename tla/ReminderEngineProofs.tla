------------------------ MODULE ReminderEngineProofs ------------------------
(***************************************************************************)
(* What holds of the reminder task for every set of rows and workers, all  *)
(* leads in the source's order and every number of runs that die.          *)
(*                                                                         *)
(* The order of the marks survives overlapping commits because each run    *)
(* extends an older state of the row that is closed under the order        *)
(* (CopiesInv).  The number of repeated alerts is bounded by counting, for *)
(* a stage that is not marked yet, the runs that hold it uncommitted and,  *)
(* once it is marked, the runs that still may send it again (CountInv).    *)
(* That a worker which keeps up misses no stage is an argument about time: *)
(* the last run and the one at work are never more than MaxGap apart, so   *)
(* no stage grows too old between them (PunctualInv).                      *)
(***************************************************************************)
EXTENDS ReminderEngine, FiniteSetTheorems, TLAPS

\* A set of stages that contains every stage due before one it contains.
Closed(S) == ("h1" \in S => "h6" \in S) /\ ("h6" \in S => "h24" \in S)

\* A run works on a former state of each row, which it extends in order, and
\* holds changes only of rows it has visited.
CopyInv(w, r) ==
    /\ Closed(loadedAs[w][r])
    /\ loadedAs[w][r] \subseteq reminded[r]
    /\ Closed(loadedAs[w][r] \cup newly[w][r])
    /\ r \in todo[w] => newly[w][r] = {}

CopiesInv ==
    /\ \A r \in Reminders : Closed(reminded[r])
    /\ \A w \in Workers, r \in Reminders : CopyInv(w, r)

\* The runs that have marked a stage and not committed it, and the runs that
\* may still send it.
Holding(r, s) == {w \in Workers : s \in newly[w][r]}
Eligible(r, s) ==
    {w \in Workers : Busy(w) /\ r \in todo[w] /\ s \notin loadedAs[w][r]}

\* Each alert sent is accounted for by a run that holds its mark or by one that
\* came to nothing; once the mark is stored, by a run that cannot send it again.
Counted(r, s) ==
    IF s \notin reminded[r]
    THEN sent[r][s] <= aborts + Cardinality(Holding(r, s))
    ELSE sent[r][s] + Cardinality(Eligible(r, s)) <= aborts + Cardinality(Workers)

CountInv ==
    /\ aborts <= MaxAborts
    /\ \A r \in Reminders, s \in Stages : Counted(r, s)

IInv == TypeOK /\ CopiesInv /\ CountInv
-----------------------------------------------------------------------------
\* Runs are counted by subsets of Workers.
LEMMA RunsAreFinite ==
    ASSUME NEW S \in SUBSET Workers
    PROVE  IsFiniteSet(S) /\ Cardinality(S) \in Nat /\ Cardinality(S) <= Cardinality(Workers)
  BY WorkersAssumption, FS_Subset, FS_CardinalityType

LEMMA FewerRuns ==
    ASSUME NEW S \in SUBSET Workers, NEW T \in SUBSET S
    PROVE  Cardinality(T) <= Cardinality(S)
  BY RunsAreFinite, FS_Subset

LEMMA OneRunMore ==
    ASSUME NEW S \in SUBSET Workers, NEW w \in Workers \ S
    PROVE  Cardinality(S \cup {w}) = Cardinality(S) + 1
  BY RunsAreFinite, FS_AddElement

LEMMA OneRunLess ==
    ASSUME NEW S \in SUBSET Workers, NEW w \in S
    PROVE  Cardinality(S \ {w}) = Cardinality(S) - 1
  BY RunsAreFinite, FS_RemoveElement

LEMMA DisjointRuns ==
    ASSUME NEW S \in SUBSET Workers, NEW T \in SUBSET Workers, S \cap T = {}
    PROVE  Cardinality(S) + Cardinality(T) <= Cardinality(Workers)
<1>1. Cardinality(S \cup T) = Cardinality(S) + Cardinality(T) - Cardinality(S \cap T)
  BY RunsAreFinite, FS_Union
<1>2. Cardinality(S \cap T) = 0
  BY FS_EmptySet
<1>3. QED
  BY <1>1, <1>2, RunsAreFinite

\* The stages a run adds to a closed state of a row leave it closed: the leads
\* decrease from stage to stage.
LEMMA DueIsClosed ==
    ASSUME TypeOK, NEW r \in Reminders, NEW t \in Nat, NEW S \in SUBSET Stages, Closed(S)
    PROVE  Closed(S \cup Due(r, t, S))
<1>1. Lead["h24"] > Lead["h6"] /\ Lead["h6"] > Lead["h1"] /\ Lead \in [Stages -> Nat]
  BY EngineAssumption DEF Stages
<1>2. deadline[r] \in Nat
  BY DEF TypeOK
<1>3. QED
  BY <1>1, <1>2 DEF Closed, Due, Trigger, Stages
-----------------------------------------------------------------------------
LEMMA InvInit == Init => IInv
<1> SUFFICES ASSUME Init
             PROVE  IInv
  OBVIOUS
<1> USE EngineAssumption
<1>1. TypeOK
  BY DEF Init, TypeOK, Busy, NothingNew, NothingDecided
<1>2. CopiesInv
  BY DEF Init, CopiesInv, CopyInv, Closed, NothingNew
<1>3. CountInv
  <2>1. ASSUME NEW r \in Reminders, NEW s \in Stages
        PROVE  Cardinality(Holding(r, s)) \in Nat
    BY RunsAreFinite DEF Holding
  <2>2. QED
    BY <2>1 DEF Init, CountInv, Counted
<1>4. QED
  BY <1>1, <1>2, <1>3 DEF IInv

\* The type invariant is preserved by every step.
LEMMA TypeStep == TypeOK /\ [Next]_vars => TypeOK'
<1> SUFFICES ASSUME TypeOK, [Next]_vars
             PROVE  TypeOK'
  OBVIOUS
<1>a. NothingNew \in [Reminders -> SUBSET Stages]
  BY DEF NothingNew
<1>b. NothingDecided \in [Reminders -> {"ACTIVE", "EXPIRED", "COMPLETED"}]
  BY DEF NothingDecided
<1> USE EngineAssumption, <1>a, <1>b DEF TypeOK, Busy
<1>1. ASSUME NEW r \in Reminders, NEW d \in Deadlines, Create(r, d)
      PROVE  TypeOK'
  BY <1>1 DEF Create, runVars
<1>2. ASSUME NEW w \in Workers, StartRun(w)
      PROVE  TypeOK'
  BY <1>2 DEF StartRun, Active, rowVars
<1>3. ASSUME NEW w \in Workers, NEW r \in Reminders, Visit(w, r)
      PROVE  TypeOK'
  <2> DEFINE due == Due(r, captured[w], loadedAs[w][r])
             fresh == Fresh(r, captured[w], due)
  <2>1. due \in SUBSET Stages
    BY DEF Due
  <2>2. CASE captured[w] > deadline[r]
    <3>1. outcome' = [outcome EXCEPT ![w][r] = "EXPIRED"] /\ UNCHANGED <<newly, sent>>
      BY <1>3, <2>2 DEF Visit
    <3>2. outcome' \in [Workers -> [Reminders -> {"ACTIVE", "EXPIRED", "COMPLETED"}]]
      BY <3>1
    <3>3. Busy(w) /\ \A g \in Workers \ {w} :
              todo'[g] = todo[g] /\ outcome'[g] = outcome[g]
      BY <1>3, <3>1 DEF Visit
    <3>4. UNCHANGED <<now, rowVars, captured, loadedAs, lastRun, aborts>>
          /\ todo' \in [Workers -> SUBSET Reminders]
      BY <1>3 DEF Visit
    <3>5. QED
      BY <3>1, <3>2, <3>3, <3>4 DEF rowVars
  <2>3. CASE ~ captured[w] > deadline[r]
    <3> HIDE DEF due, fresh
    <3>1. newly' = [newly EXCEPT ![w][r] = due]
      BY <1>3, <2>3 DEF Visit, due
    <3>2. newly' \in [Workers -> [Reminders -> SUBSET Stages]]
      BY <2>1, <3>1
    <3>3. outcome' \in [Workers -> [Reminders -> {"ACTIVE", "EXPIRED", "COMPLETED"}]]
      <4>1. PICK o \in {"ACTIVE", "COMPLETED"} : outcome' = [outcome EXCEPT ![w][r] = o]
        BY <1>3, <2>3 DEF Visit
      <4>2. QED
        BY <4>1
    <3>4. sent' = [sent EXCEPT ![r] =
              [s \in Stages |-> IF s \in fresh THEN @[s] + 1 ELSE @[s]]]
      BY <1>3, <2>3 DEF Visit, due, fresh
    <3>5. sent' \in [Reminders -> [Stages -> Nat]]
      BY <3>4
    <3>6. Busy(w) /\ \A g \in Workers \ {w} :
              todo'[g] = todo[g] /\ newly'[g] = newly[g] /\ outcome'[g] = outcome[g]
      BY <1>3, <2>3, <3>1 DEF Visit
    <3>7. UNCHANGED <<now, rowVars, captured, loadedAs, lastRun, aborts>>
          /\ todo' \in [Workers -> SUBSET Reminders]
      BY <1>3 DEF Visit
    <3>8. QED
      BY <3>2, <3>3, <3>5, <3>6, <3>7 DEF rowVars
  <2>4. QED
    BY <2>2, <2>3
<1>4. ASSUME NEW w \in Workers, Commit(w)
      PROVE  TypeOK'
  BY <1>4 DEF Commit, CloseRun
<1>5. ASSUME NEW w \in Workers, Abort(w)
      PROVE  TypeOK'
  BY <1>5 DEF Abort, CloseRun, rowVars
<1>6. CASE Tick \/ UNCHANGED vars
  <2>1. now' \in Nat /\ UNCHANGED <<rowVars, runVars, sent, lastRun, aborts>>
    BY <1>6 DEF Tick, vars, rowVars, runVars
  <2>2. QED
    BY <2>1 DEF rowVars, runVars
<1>7. QED
  BY <1>1, <1>2, <1>3, <1>4, <1>5, <1>6 DEF Next, Run

\* A closed run has no copies and no changes, and other runs do not notice.
LEMMA ClosedRun ==
    ASSUME TypeOK, NEW w \in Workers, CloseRun(w)
    PROVE  /\ ~ Busy(w)'
           /\ \A r \in Reminders : loadedAs'[w][r] = {} /\ newly'[w][r] = {} /\ r \notin todo'[w]
           /\ \A g \in Workers \ {w} :
                  /\ captured'[g] = captured[g]
                  /\ todo'[g] = todo[g]
                  /\ loadedAs'[g] = loadedAs[g]
                  /\ newly'[g] = newly[g]
  BY DEF CloseRun, TypeOK, Busy, NothingNew

\* What a visit leaves of the row it visits and of everything else.
LEMMA VisitedRow ==
    ASSUME TypeOK, NEW w \in Workers, NEW r \in Reminders, newly[w][r] = {}, Visit(w, r)
    PROVE  /\ todo'[w] = todo[w] \ {r}
           /\ \/ newly'[w][r] = {} /\ sent' = sent
              \/ /\ newly'[w][r] = Due(r, captured[w], loadedAs[w][r])
                 /\ \A s \in Stages :
                        \/ sent'[r][s] = sent[r][s]
                        \/ s \in newly'[w][r] /\ sent'[r][s] = sent[r][s] + 1
           /\ \A q \in Reminders \ {r} : newly'[w][q] = newly[w][q] /\ sent'[q] = sent[q]
           /\ \A g \in Workers \ {w} : newly'[g] = newly[g] /\ todo'[g] = todo[g]
           /\ UNCHANGED <<reminded, captured, loadedAs, aborts>>
<1>1. CASE captured[w] > deadline[r]
  BY <1>1 DEF Visit, TypeOK, rowVars
<1>2. CASE ~ captured[w] > deadline[r]
  <2> DEFINE due == Due(r, captured[w], loadedAs[w][r])
             fresh == Fresh(r, captured[w], due)
  <2>1. due \subseteq Stages /\ fresh \subseteq due
    BY DEF Due, Fresh
  <2>2. /\ newly' = [newly EXCEPT ![w][r] = due]
        /\ sent' = [sent EXCEPT ![r] =
               [s \in Stages |-> IF s \in fresh THEN @[s] + 1 ELSE @[s]]]
        /\ todo' = [todo EXCEPT ![w] = @ \ {r}]
        /\ UNCHANGED <<reminded, captured, loadedAs, aborts>>
    BY <1>2 DEF Visit, rowVars
  <2> HIDE DEF due, fresh
  <2>3. newly'[w][r] = due
    BY <2>2 DEF TypeOK
  <2>4. \A s \in Stages :
            \/ sent'[r][s] = sent[r][s]
            \/ s \in due /\ sent'[r][s] = sent[r][s] + 1
    <3>1. sent'[r] = [s \in Stages |-> IF s \in fresh THEN sent[r][s] + 1 ELSE sent[r][s]]
      BY <2>2 DEF TypeOK
    <3>2. QED
      BY <2>1, <3>1
  <2>5. /\ todo'[w] = todo[w] \ {r}
        /\ \A q \in Reminders \ {r} : newly'[w][q] = newly[w][q] /\ sent'[q] = sent[q]
        /\ \A g \in Workers \ {w} : newly'[g] = newly[g] /\ todo'[g] = todo[g]
    BY <2>2 DEF TypeOK
  <2>6. newly'[w][r] = Due(r, captured[w], loadedAs[w][r])
    BY <2>3 DEF due
  <2>7. QED
    BY <2>2, <2>3, <2>4, <2>5, <2>6
<1>3. QED
  BY <1>1, <1>2

\* Every run keeps working on a former, closed state of its rows.
LEMMA CopiesStep == TypeOK /\ CopiesInv /\ [Next]_vars => CopiesInv'
<1> SUFFICES ASSUME TypeOK, CopiesInv, [Next]_vars
             PROVE  CopiesInv'
  OBVIOUS
<1> USE DEF CopiesInv, CopyInv
<1>1. ASSUME NEW r \in Reminders, NEW d \in Deadlines, Create(r, d)
      PROVE  CopiesInv'
  BY <1>1 DEF Create, runVars
<1>2. ASSUME NEW w \in Workers, StartRun(w)
      PROVE  CopiesInv'
  <2>1. \A r \in Reminders : newly'[w][r] = {} /\ loadedAs'[w][r] \in {reminded[r], {}}
    BY <1>2 DEF StartRun, TypeOK, NothingNew
  <2>2. /\ \A g \in Workers \ {w} : loadedAs'[g] = loadedAs[g] /\ todo'[g] = todo[g]
        /\ UNCHANGED <<reminded, newly>>
    BY <1>2 DEF StartRun, TypeOK, rowVars
  <2>3. QED
    BY <2>1, <2>2 DEF Closed
<1>3. ASSUME NEW w \in Workers, NEW r \in Reminders, Visit(w, r)
      PROVE  CopiesInv'
  <2>1. r \in todo[w] /\ newly[w][r] = {}
    BY <1>3 DEF Visit
  <2>2. captured[w] \in Nat /\ loadedAs[w][r] \in SUBSET Stages
    BY <1>3 DEF Visit, Busy, TypeOK
  <2>3. Closed(loadedAs[w][r] \cup Due(r, captured[w], loadedAs[w][r]))
    BY <2>2, DueIsClosed
  <2>4. /\ newly'[w][r] \in {{}, Due(r, captured[w], loadedAs[w][r])}
        /\ todo'[w] = todo[w] \ {r}
        /\ \A q \in Reminders \ {r} : newly'[w][q] = newly[w][q]
        /\ \A g \in Workers \ {w} : newly'[g] = newly[g] /\ todo'[g] = todo[g]
        /\ UNCHANGED <<reminded, loadedAs>>
    BY <1>3, <2>1, VisitedRow
  <2>5. Closed(loadedAs[w][r] \cup newly'[w][r])
    BY <2>3, <2>4 DEF Closed
  <2>6. QED
    BY <2>1, <2>4, <2>5
<1>4. ASSUME NEW w \in Workers, Commit(w)
      PROVE  CopiesInv'
  <2>1. \A r \in Reminders : reminded'[r] = reminded[r] \cup newly[w][r]
    BY <1>4 DEF Commit
  <2>2. \A r \in Reminders : Closed(reminded'[r])
    BY <2>1 DEF Closed
  <2>3. CloseRun(w)
    BY <1>4 DEF Commit
  <2>4. QED
    BY <2>1, <2>2, <2>3, ClosedRun DEF Closed
<1>5. ASSUME NEW w \in Workers, Abort(w)
      PROVE  CopiesInv'
  <2>1. CloseRun(w) /\ UNCHANGED reminded
    BY <1>5 DEF Abort, rowVars
  <2>2. QED
    BY <2>1, ClosedRun DEF Closed
<1>6. CASE Tick \/ UNCHANGED vars
  BY <1>6 DEF Tick, vars, rowVars, runVars
<1>7. QED
  BY <1>1, <1>2, <1>3, <1>4, <1>5, <1>6 DEF Next, Run

\* A step that sends nothing, marks nothing and lets no run of the kind that is
\* counted come or go the wrong way keeps the account.
LEMMA CountKept ==
    ASSUME TypeOK, NEW r \in Reminders, NEW s \in Stages, Counted(r, s),
           sent'[r][s] = sent[r][s], aborts' = aborts,
           s \in reminded'[r] <=> s \in reminded[r],
           s \notin reminded[r] => Holding(r, s) \subseteq Holding(r, s)',
           s \in reminded[r] => Eligible(r, s)' \subseteq Eligible(r, s)
    PROVE  Counted(r, s)'
<1>1. sent[r][s] \in Nat /\ aborts \in Nat /\ Cardinality(Workers) \in Nat
  BY RunsAreFinite DEF TypeOK
<1>2. /\ Holding(r, s) \in SUBSET Workers /\ Holding(r, s)' \in SUBSET Workers
      /\ Eligible(r, s) \in SUBSET Workers /\ Eligible(r, s)' \in SUBSET Workers
  BY DEF Holding, Eligible
<1>3. CASE s \notin reminded[r]
  <2>1. Cardinality(Holding(r, s)) <= Cardinality(Holding(r, s)')
    BY <1>2, <1>3, FewerRuns
  <2>2. Cardinality(Holding(r, s)) \in Nat /\ Cardinality(Holding(r, s)') \in Nat
    BY <1>2, RunsAreFinite
  <2>3. QED
    BY <1>1, <1>3, <2>1, <2>2 DEF Counted
<1>4. CASE s \in reminded[r]
  <2>1. Cardinality(Eligible(r, s)') <= Cardinality(Eligible(r, s))
    BY <1>2, <1>4, FewerRuns
  <2>2. Cardinality(Eligible(r, s)) \in Nat /\ Cardinality(Eligible(r, s)') \in Nat
    BY <1>2, RunsAreFinite
  <2>3. QED
    BY <1>1, <1>4, <2>1, <2>2 DEF Counted
<1>5. QED
  BY <1>3, <1>4

\* The alert of a visit is accounted for by the run that sent it.
LEMMA CountVisit ==
    ASSUME TypeOK, CopiesInv, NEW w \in Workers, NEW q \in Reminders, Visit(w, q),
           NEW r \in Reminders, NEW s \in Stages, Counted(r, s)
    PROVE  Counted(r, s)'
<1>1. Busy(w) /\ q \in todo[w] /\ newly[w][q] = {}
  BY DEF Visit, CopiesInv, CopyInv
<1>2. /\ todo'[w] = todo[w] \ {q}
      /\ \A g \in Workers \ {w} : newly'[g] = newly[g] /\ todo'[g] = todo[g]
      /\ UNCHANGED <<reminded, captured, loadedAs, aborts>>
  BY <1>1, VisitedRow
<1>3. Eligible(r, s)' \subseteq Eligible(r, s)
  BY <1>2 DEF Eligible, Busy
<1>4. Holding(r, s) \subseteq Holding(r, s)'
  <2>1. newly[w][r] \subseteq newly'[w][r]
    BY <1>1, VisitedRow
  <2>2. QED
    BY <1>2, <2>1 DEF Holding
<1>5. CASE sent'[r][s] = sent[r][s]
  BY <1>2, <1>3, <1>4, <1>5, CountKept
<1>6. CASE sent'[r][s] # sent[r][s]
  <2>1. r = q /\ s \in newly'[w][q] /\ sent'[q][s] = sent[q][s] + 1
        /\ newly'[w][q] = Due(q, captured[w], loadedAs[w][q])
    BY <1>1, <1>6, VisitedRow
  <2>2. s \notin loadedAs[w][r]
    BY <2>1 DEF Due
  <2>3. /\ Holding(r, s) \in SUBSET Workers /\ Eligible(r, s) \in SUBSET Workers
        /\ Eligible(r, s) \ {w} \in SUBSET Workers /\ Holding(r, s) \cup {w} \in SUBSET Workers
    BY DEF Holding, Eligible
  <2>4. /\ sent[r][s] \in Nat /\ aborts \in Nat /\ Cardinality(Workers) \in Nat
        /\ Cardinality(Holding(r, s)) \in Nat /\ Cardinality(Eligible(r, s)) \in Nat
    BY <2>3, RunsAreFinite DEF TypeOK
  <2>5. CASE s \notin reminded[r]
    <3>1. w \notin Holding(r, s) /\ Holding(r, s)' = Holding(r, s) \cup {w}
      BY <1>1, <1>2, <2>1 DEF Holding
    <3>2. Cardinality(Holding(r, s)') = Cardinality(Holding(r, s)) + 1
      BY <2>3, <3>1, OneRunMore
    <3>3. QED
      BY <1>2, <2>1, <2>4, <2>5, <3>2 DEF Counted
  <2>6. CASE s \in reminded[r]
    <3>1. w \in Eligible(r, s) /\ Eligible(r, s)' = Eligible(r, s) \ {w}
      BY <1>1, <1>2, <2>1, <2>2 DEF Eligible, Busy
    <3>2. Cardinality(Eligible(r, s)') = Cardinality(Eligible(r, s)) - 1
      BY <2>3, <3>1, OneRunLess
    <3>3. QED
      BY <1>2, <2>1, <2>4, <2>6, <3>2 DEF Counted
  <2>7. QED
    BY <2>5, <2>6
<1>7. QED
  BY <1>5, <1>6

\* A commit hands the account from the runs that hold the mark to the runs that
\* can no longer send: nobody is both.
LEMMA CountCommit ==
    ASSUME TypeOK, CopiesInv, NEW w \in Workers, Commit(w),
           NEW r \in Reminders, NEW s \in Stages, Counted(r, s)
    PROVE  Counted(r, s)'
<1>1. reminded'[r] = reminded[r] \cup newly[w][r] /\ UNCHANGED <<sent, aborts>> /\ CloseRun(w)
  BY DEF Commit
<1>2. Eligible(r, s)' \subseteq Eligible(r, s)
  BY <1>1, ClosedRun DEF Eligible, Busy
<1>3. CASE s \in reminded[r] \/ s \notin newly[w][r]
  <2>1. s \notin newly[w][r] => Holding(r, s) \subseteq Holding(r, s)'
    BY <1>1, ClosedRun DEF Holding
  <2>2. QED
    BY <1>1, <1>2, <1>3, <2>1, CountKept
<1>4. CASE s \notin reminded[r] /\ s \in newly[w][r]
  <2>1. /\ Holding(r, s) \in SUBSET Workers /\ Eligible(r, s)' \in SUBSET Workers
        /\ Holding(r, s) \cap Eligible(r, s)' = {}
    BY <1>2 DEF Holding, Eligible, CopiesInv, CopyInv
  <2>2. Cardinality(Holding(r, s)) + Cardinality(Eligible(r, s)') <= Cardinality(Workers)
    BY <2>1, DisjointRuns
  <2>3. /\ sent[r][s] \in Nat /\ aborts \in Nat /\ Cardinality(Workers) \in Nat
        /\ Cardinality(Holding(r, s)) \in Nat /\ Cardinality(Eligible(r, s)') \in Nat
    BY <2>1, RunsAreFinite DEF TypeOK
  <2>4. QED
    BY <1>1, <1>4, <2>2, <2>3 DEF Counted
<1>5. QED
  BY <1>3, <1>4

\* A run that comes to nothing may have sent its alerts: it is counted itself.
LEMMA CountAbort ==
    ASSUME TypeOK, NEW w \in Workers, Abort(w),
           NEW r \in Reminders, NEW s \in Stages, Counted(r, s)
    PROVE  Counted(r, s)'
<1>1. UNCHANGED <<sent, reminded>> /\ aborts' = aborts + 1 /\ CloseRun(w)
  BY DEF Abort, rowVars
<1>2. /\ Eligible(r, s)' \subseteq Eligible(r, s)
      /\ Holding(r, s) \ {w} \subseteq Holding(r, s)'
      /\ Holding(r, s) \in SUBSET Workers /\ Holding(r, s)' \in SUBSET Workers
      /\ Eligible(r, s) \in SUBSET Workers /\ Eligible(r, s)' \in SUBSET Workers
  BY <1>1, ClosedRun DEF Eligible, Holding, Busy
<1>3. /\ Cardinality(Holding(r, s)) \in Nat /\ Cardinality(Holding(r, s)') \in Nat
      /\ Cardinality(Eligible(r, s)) \in Nat /\ Cardinality(Eligible(r, s)') \in Nat
      /\ sent[r][s] \in Nat /\ aborts \in Nat /\ Cardinality(Workers) \in Nat
  BY <1>2, RunsAreFinite DEF TypeOK
<1>4. Cardinality(Eligible(r, s)') <= Cardinality(Eligible(r, s))
  BY <1>2, FewerRuns
<1>5. Cardinality(Holding(r, s)) - 1 <= Cardinality(Holding(r, s)')
  <2>1. Cardinality(Holding(r, s) \ {w}) <= Cardinality(Holding(r, s)')
    BY <1>2, FewerRuns
  <2>2. CASE w \in Holding(r, s)
    BY <1>2, <1>3, <2>1, <2>2, OneRunLess
  <2>3. CASE w \notin Holding(r, s)
    <3>1. Holding(r, s) \ {w} = Holding(r, s)
      BY <2>3
    <3>2. QED
      BY <1>3, <2>1, <3>1
  <2>4. QED
    BY <2>2, <2>3
<1>6. QED
  BY <1>1, <1>3, <1>4, <1>5 DEF Counted

LEMMA CountStep == TypeOK /\ CopiesInv /\ CountInv /\ [Next]_vars => CountInv'
<1> SUFFICES ASSUME TypeOK, CopiesInv, CountInv, [Next]_vars
             PROVE  CountInv'
  OBVIOUS
<1>1. ASSUME NEW r \in Reminders, NEW s \in Stages
      PROVE  Counted(r, s)'
  <2> Counted(r, s)
    BY <1>1 DEF CountInv
  <2>1. ASSUME NEW q \in Reminders, NEW d \in Deadlines, Create(q, d)
        PROVE  Counted(r, s)'
    <3>1. UNCHANGED <<sent, reminded, aborts, captured, todo, loadedAs, newly>>
      BY <2>1 DEF Create, runVars
    <3>2. QED
      BY <1>1, <3>1, CountKept DEF Holding, Eligible, Busy
  <2>2. ASSUME NEW w \in Workers, StartRun(w)
        PROVE  Counted(r, s)'
    <3>1. UNCHANGED <<sent, reminded, aborts, newly>>
      BY <2>2 DEF StartRun, rowVars
    <3>2. s \in reminded[r] => Eligible(r, s)' \subseteq Eligible(r, s)
      BY <1>1, <2>2 DEF StartRun, Eligible, Busy, TypeOK, Active
    <3>3. QED
      BY <1>1, <3>1, <3>2, CountKept DEF Holding
  <2>3. ASSUME NEW w \in Workers, NEW q \in Reminders, Visit(w, q)
        PROVE  Counted(r, s)'
    BY <1>1, <2>3, CountVisit
  <2>4. ASSUME NEW w \in Workers, Commit(w)
        PROVE  Counted(r, s)'
    BY <1>1, <2>4, CountCommit
  <2>5. ASSUME NEW w \in Workers, Abort(w)
        PROVE  Counted(r, s)'
    BY <1>1, <2>5, CountAbort
  <2>6. CASE Tick \/ UNCHANGED vars
    <3>1. UNCHANGED <<sent, reminded, aborts, captured, todo, loadedAs, newly>>
      BY <2>6 DEF Tick, vars, rowVars, runVars
    <3>2. QED
      BY <1>1, <3>1, CountKept DEF Holding, Eligible, Busy
  <2>7. QED
    BY <2>1, <2>2, <2>3, <2>4, <2>5, <2>6 DEF Next, Run
<1>2. (aborts <= MaxAborts)'
  <2>1. ASSUME NEW w \in Workers, Abort(w)
        PROVE  aborts' <= MaxAborts
    BY <2>1, EngineAssumption DEF Abort, TypeOK
  <2>2. ASSUME NEW w \in Workers, Run(w)
        PROVE  aborts' = aborts
    BY <2>2 DEF Run, StartRun, Visit, Commit
  <2>3. ASSUME NEW r \in Reminders, NEW d \in Deadlines, Create(r, d)
        PROVE  aborts' = aborts
    BY <2>3 DEF Create
  <2>4. CASE Tick \/ UNCHANGED vars
    BY <2>4 DEF Tick, vars, CountInv
  <2>5. QED
    BY <2>1, <2>2, <2>3, <2>4 DEF Next, CountInv
<1>3. QED
  BY <1>1, <1>2 DEF CountInv

LEMMA InvStep == IInv /\ [Next]_vars => IInv'
  BY TypeStep, CopiesStep, CountStep DEF IInv

LEMMA InvAlways == Spec => []IInv
  BY InvInit, InvStep, PTL DEF Spec

\* The account of a stage bounds its alerts by the workers and the runs that
\* came to nothing.
LEMMA CountedBound == TypeOK /\ CountInv => RepeatsAreAccountedFor
<1> SUFFICES ASSUME TypeOK, CountInv, NEW r \in Reminders, NEW s \in Stages
             PROVE  sent[r][s] <= Cardinality(Workers) + aborts
  BY DEF RepeatsAreAccountedFor
<1>1. Holding(r, s) \in SUBSET Workers /\ Eligible(r, s) \in SUBSET Workers
  BY DEF Holding, Eligible
<1>2. /\ sent[r][s] \in Nat /\ aborts \in Nat /\ Cardinality(Workers) \in Nat
      /\ Cardinality(Holding(r, s)) \in Nat /\ Cardinality(Eligible(r, s)) \in Nat
      /\ Cardinality(Holding(r, s)) <= Cardinality(Workers)
  BY <1>1, RunsAreFinite DEF TypeOK
<1>3. Counted(r, s)
  BY DEF CountInv
<1>4. QED
  BY <1>2, <1>3 DEF Counted
-----------------------------------------------------------------------------
\* Every reachable state of the reminder task is well typed, and a worker that
\* runs nothing holds no changes (email_tasks.py:629-734).
THEOREM TypeCorrect == Spec => []TypeOK
<1>1. IInv => TypeOK
  BY DEF IInv
<1>2. QED
  BY <1>1, InvAlways, PTL

\* However many runs overlap and in whatever order they commit, no stage of a
\* row is marked before the stages due earlier (email_tasks.py:669-724).
THEOREM StagesAreOrdered == Spec => []StageOrder
<1>1. IInv => StageOrder
  BY DEF IInv, CopiesInv, Closed, StageOrder
<1>2. QED
  BY <1>1, InvAlways, PTL

\* No step takes a mark back or returns a finished row to ACTIVE
\* (email_tasks.py:653-657, 684-724).
THEOREM MarksStay == Spec => MarksAreKept
<1> DEFINE Kept ==
        \A r \in Reminders :
            /\ reminded[r] \subseteq reminded'[r]
            /\ status[r] \in {"EXPIRED", "COMPLETED"} =>
                   status'[r] \in {"EXPIRED", "COMPLETED"}
<1>1. IInv /\ [Next]_vars => [Kept]_vars
  <2> SUFFICES ASSUME IInv, Next
               PROVE  Kept
    OBVIOUS
  <2> USE DEF IInv, TypeOK
  <2>1. ASSUME NEW r \in Reminders, NEW d \in Deadlines, Create(r, d)
        PROVE  Kept
    BY <2>1 DEF Create
  <2>2. ASSUME NEW w \in Workers, Commit(w)
        PROVE  Kept
    BY <2>2 DEF Commit
  <2>3. ASSUME NEW w \in Workers, StartRun(w) \/ Abort(w) \/ \E r \in Reminders : Visit(w, r)
        PROVE  Kept
    BY <2>3 DEF StartRun, Abort, Visit, rowVars
  <2>4. CASE Tick
    BY <2>4 DEF Tick, rowVars
  <2>5. QED
    BY <2>1, <2>2, <2>3, <2>4 DEF Next, Run
<1>2. QED
  BY <1>1, InvAlways, PTL DEF Spec, MarksAreKept

\* For every number of workers an alert is repeated at most once per overlapping
\* run and once per run that came to nothing (email_tasks.py:632, 679-729).
THEOREM RepeatsAreBounded == Spec => []RepeatsAreAccountedFor
<1>1. IInv => RepeatsAreAccountedFor
  BY CountedBound DEF IInv
<1>2. QED
  BY <1>1, InvAlways, PTL

\* With a single worker process whose runs all commit no alert is repeated: what
\* the documentation promises of the task holds there, and needs both
\* (email_tasks.py:679-729).
THEOREM SingleWorkerNeverRepeats ==
    ASSUME Cardinality(Workers) = 1, MaxAborts = 0
    PROVE  Spec => []NoDuplicateAlert
<1>1. IInv => NoDuplicateAlert
  BY CountedBound DEF IInv, CountInv, TypeOK, RepeatsAreAccountedFor, NoDuplicateAlert
<1>2. QED
  BY <1>1, InvAlways, PTL
-----------------------------------------------------------------------------
(* One worker that keeps up.                                               *)

\* A stage that lay ahead when the row was inserted.
Owed(r, s) == created[r] <= Trigger(r, s)

\* The clock, the last run and the one at work are never more than MaxGap apart.
TimeInv(w) ==
    /\ lastRun <= now /\ now <= lastRun + MaxGap
    /\ Busy(w) => lastRun <= captured[w] /\ captured[w] <= now
    /\ \A r \in Reminders : created[r] <= now

\* A row at rest is not in the hands of the run.
Untouched(w, r) == r \notin todo[w] /\ newly[w][r] = {} /\ outcome[w][r] = "ACTIVE"

\* An owed stage is sent when it is marked, and the last run came before its time
\* otherwise; so does the run at work, when it has let the row pass.
ActiveInv(w, r) ==
    /\ "h1" \notin reminded[r]
    /\ \A s \in Stages : Owed(r, s) =>
        /\ sent[r][s] = IF s \in reminded[r] \cup newly[w][r] THEN 1 ELSE 0
        /\ s \notin reminded[r] => lastRun <= Trigger(r, s)
        /\ Busy(w) /\ r \notin todo[w] /\ outcome[w][r] = "ACTIVE" /\ s \notin reminded[r] \cup newly[w][r]
               => captured[w] <= Trigger(r, s)
    /\ r \in todo[w] => loadedAs[w][r] = reminded[r] /\ outcome[w][r] = "ACTIVE"
    /\ (outcome[w][r] = "COMPLETED") <=> ("h1" \in newly[w][r])
    /\ outcome[w][r] = "EXPIRED" => \A s \in Stages : Owed(r, s) => s \in reminded[r]

RowInv(w, r) ==
    /\ status[r] = "absent" =>
           Untouched(w, r) /\ reminded[r] = {} /\ \A s \in Stages : sent[r][s] = 0
    /\ status[r] = "ACTIVE" => ActiveInv(w, r)
    /\ status[r] = "EXPIRED" =>
           Untouched(w, r) /\ \A s \in Stages : Owed(r, s) => s # "h1" /\ sent[r][s] = 1
    /\ status[r] = "COMPLETED" =>
           Untouched(w, r) /\ \A s \in Stages : Owed(r, s) => sent[r][s] = 1

PunctualInv(w) == TimeInv(w) /\ \A r \in Reminders : RowInv(w, r)

\* What the deployment has to provide.
KeepsUp(w) == Workers = {w} /\ MaxAborts = 0 /\ MaxGap <= Lead["h1"]

LEMMA PunctualInit == ASSUME NEW w \in Workers, Init PROVE PunctualInv(w)
  BY EngineAssumption DEF Init, PunctualInv, TimeInv, RowInv, Untouched, Busy, NothingNew, NothingDecided

\* The values that the comparisons of times need.
LEMMA Times ==
    ASSUME TypeOK, NEW r \in Reminders, NEW s \in Stages
    PROVE  /\ Trigger(r, s) \in Int /\ deadline[r] \in Nat /\ created[r] \in Nat
           /\ Lead[s] \in Nat /\ Lead["h1"] \in Nat /\ Lead["h1"] <= Lead[s]
           /\ Lead["h1"] <= CatchUp /\ CatchUp \in Nat /\ MaxGap \in Nat
           /\ Trigger(r, s) = deadline[r] - Lead[s]
           /\ now \in Nat /\ lastRun \in Nat
           /\ \A w \in Workers : Busy(w) => captured[w] \in Nat
<1>1. /\ Lead \in [Stages -> Nat] /\ CatchUp \in Nat
      /\ Lead["h24"] - CatchUp > Lead["h6"] /\ Lead["h6"] - CatchUp > Lead["h1"]
      /\ Lead["h1"] <= CatchUp
  BY EngineAssumption
<1>2. Lead["h24"] \in Nat /\ Lead["h6"] \in Nat /\ Lead["h1"] \in Nat
  BY <1>1 DEF Stages
<1>3. s = "h24" \/ s = "h6" \/ s = "h1"
  BY DEF Stages
<1>4. Lead["h1"] <= Lead[s] /\ Lead[s] \in Nat
  BY <1>1, <1>2, <1>3
<1>5. QED
  BY <1>1, <1>2, <1>4, EngineAssumption DEF TypeOK, Trigger, Busy

LEMMA CreateTimely ==
    ASSUME TypeOK, NEW w \in Workers, PunctualInv(w), NEW q \in Reminders, NEW d \in Deadlines, Create(q, d)
    PROVE  PunctualInv(w)'
<1>1. TimeInv(w)'
  BY EngineAssumption DEF Create, PunctualInv, TimeInv, Busy, TypeOK, runVars
<1>2. ASSUME NEW r \in Reminders, r # q
      PROVE  RowInv(w, r)'
  <2>1. /\ status'[r] = status[r] /\ deadline'[r] = deadline[r] /\ created'[r] = created[r]
        /\ UNCHANGED <<reminded, captured, todo, loadedAs, newly, outcome, sent, lastRun>>
    BY <1>2 DEF Create, TypeOK, runVars
  <2>2. RowInv(w, r)
    BY DEF PunctualInv
  <2>3. QED
    BY <2>1, <2>2 DEF RowInv, ActiveInv, Untouched, Owed, Trigger, Busy
<1>3. RowInv(w, q)'
  <2>1. /\ status'[q] = "ACTIVE" /\ deadline'[q] = d /\ created'[q] = now
        /\ status[q] = "absent"
        /\ UNCHANGED <<reminded, captured, todo, loadedAs, newly, outcome, sent, lastRun>>
    BY DEF Create, TypeOK, runVars
  <2>2. Untouched(w, q) /\ reminded[q] = {} /\ \A s \in Stages : sent[q][s] = 0
    BY <2>1 DEF PunctualInv, RowInv
  <2>3. \A s \in Stages : Owed(q, s)' => now <= Trigger(q, s)' /\ Trigger(q, s)' \in Int
    <3>1. \A s \in Stages : Trigger(q, s)' = d - Lead[s] /\ Lead[s] \in Nat
      BY <2>1, EngineAssumption DEF Trigger
    <3>2. d \in Nat /\ now \in Nat
      BY EngineAssumption DEF TypeOK
    <3>3. QED
      BY <2>1, <3>1, <3>2 DEF Owed
  <2>4. /\ lastRun <= now /\ now \in Nat /\ lastRun \in Nat
        /\ Busy(w) => captured[w] <= now /\ captured[w] \in Nat
    BY DEF PunctualInv, TimeInv, TypeOK, Busy
  <2>5. ActiveInv(w, q)'
    <3>1. ASSUME NEW s \in Stages, Owed(q, s)'
          PROVE  lastRun <= Trigger(q, s)' /\ (Busy(w) => captured[w] <= Trigger(q, s)')
      BY <2>3, <2>4, <3>1
    <3>2. QED
      BY <2>1, <2>2, <3>1 DEF ActiveInv, Untouched, Busy
  <2>6. QED
    BY <2>1, <2>5 DEF RowInv
<1>4. QED
  BY <1>1, <1>2, <1>3 DEF PunctualInv

LEMMA StartTimely ==
    ASSUME TypeOK, NEW w \in Workers, PunctualInv(w), StartRun(w)
    PROVE  PunctualInv(w)'
<1>1. /\ ~ Busy(w) /\ captured'[w] = now /\ todo'[w] = Active
      /\ loadedAs'[w] = [r \in Reminders |-> IF r \in Active THEN reminded[r] ELSE {}]
      /\ UNCHANGED <<now, status, reminded, deadline, created, newly, outcome, sent, lastRun>>
  BY DEF StartRun, TypeOK, rowVars
<1>2. newly[w] = NothingNew /\ outcome[w] = NothingDecided
  BY <1>1 DEF TypeOK
<1>3. TimeInv(w)'
  BY <1>1 DEF PunctualInv, TimeInv, TypeOK, Busy
<1>4. ASSUME NEW r \in Reminders
      PROVE  RowInv(w, r)'
  <2>1. RowInv(w, r) /\ newly[w][r] = {} /\ outcome[w][r] = "ACTIVE"
    BY <1>2 DEF PunctualInv, NothingNew, NothingDecided
  <2>2. r \in todo'[w] <=> status[r] = "ACTIVE"
    BY <1>1 DEF Active
  <2>3. status[r] = "ACTIVE" => loadedAs'[w][r] = reminded[r]
    BY <1>1 DEF Active
  <2>4. QED
    BY <1>1, <2>1, <2>2, <2>3 DEF RowInv, ActiveInv, Untouched, Owed, Trigger
<1>5. QED
  BY <1>3, <1>4 DEF PunctualInv

LEMMA VisitTimely ==
    ASSUME TypeOK, CopiesInv, NEW w \in Workers, KeepsUp(w), PunctualInv(w), NEW q \in Reminders, Visit(w, q)
    PROVE  PunctualInv(w)'
<1>1. /\ Busy(w) /\ q \in todo[w] /\ todo'[w] = todo[w] \ {q}
      /\ UNCHANGED <<now, status, reminded, deadline, created, captured, loadedAs, lastRun>>
  BY DEF Visit, TypeOK, rowVars
<1>2. newly[w][q] = {}
  BY <1>1 DEF CopiesInv, CopyInv
<1>3. TimeInv(w)'
  BY <1>1 DEF PunctualInv, TimeInv, Busy
<1>4. ASSUME NEW r \in Reminders, r # q
      PROVE  RowInv(w, r)'
  <2>1. newly'[w][r] = newly[w][r] /\ sent'[r] = sent[r]
    BY <1>2, <1>4, VisitedRow
  <2>2. outcome'[w][r] = outcome[w][r]
    BY <1>4 DEF Visit, TypeOK
  <2>3. RowInv(w, r) /\ (r \in todo'[w] <=> r \in todo[w])
    BY <1>1, <1>4 DEF PunctualInv
  <2>4. QED
    BY <1>1, <2>1, <2>2, <2>3 DEF RowInv, ActiveInv, Untouched, Owed, Trigger, Busy
<1>5. status[q] = "ACTIVE" /\ ActiveInv(w, q) /\ q \notin todo'[w]
  <2>1. RowInv(w, q) /\ status[q] \in {"absent", "ACTIVE", "EXPIRED", "COMPLETED"}
    BY DEF PunctualInv, TypeOK
  <2>2. QED
    BY <1>1, <2>1 DEF RowInv, Untouched
<1>6. /\ lastRun <= captured[w] /\ captured[w] <= lastRun + MaxGap
      /\ captured[w] \in Nat /\ lastRun \in Nat /\ MaxGap \in Nat
  BY <1>1, Times, EngineAssumption DEF PunctualInv, TimeInv, TypeOK, Busy
<1>7. \A s \in Stages : Owed(q, s)' <=> Owed(q, s)
  BY <1>1 DEF Owed, Trigger
\* An owed stage that is not marked is due within the lead of the last stage.
<1>8. ASSUME NEW s \in Stages, Owed(q, s), s \notin reminded[q]
      PROVE  captured[w] - Trigger(q, s) <= CatchUp /\ captured[w] <= deadline[q]
  <2>1. lastRun <= Trigger(q, s)
    BY <1>5, <1>8 DEF ActiveInv
  <2>2. MaxGap <= Lead["h1"]
    BY DEF KeepsUp
  <2>3. QED
    BY <1>6, <2>1, <2>2, Times
<1>9. CASE captured[w] > deadline[q]
  <2>1. outcome'[w][q] = "EXPIRED" /\ UNCHANGED <<newly, sent>>
    BY <1>9 DEF Visit, TypeOK
  <2>2. \A s \in Stages : Owed(q, s) => s \in reminded[q]
    BY <1>6, <1>8, <1>9, Times
  <2>3. ActiveInv(w, q)'
    BY <1>1, <1>2, <1>5, <1>7, <2>1, <2>2 DEF ActiveInv, Busy, Trigger
  <2>4. QED
    BY <1>1, <1>3, <1>4, <1>5, <2>3 DEF PunctualInv, RowInv
<1>10. CASE ~ captured[w] > deadline[q]
  <2> DEFINE due == Due(q, captured[w], loadedAs[w][q])
             fresh == Fresh(q, captured[w], due)
  <2>1. /\ newly'[w][q] = due
        /\ sent'[q] = [s \in Stages |-> IF s \in fresh THEN sent[q][s] + 1 ELSE sent[q][s]]
        /\ outcome'[w][q] = IF "h1" \in due THEN "COMPLETED" ELSE "ACTIVE"
    <3>1. /\ newly' = [newly EXCEPT ![w][q] = due]
          /\ sent' = [sent EXCEPT ![q] = [s \in Stages |-> IF s \in fresh THEN @[s] + 1 ELSE @[s]]]
          /\ outcome' = [outcome EXCEPT ![w][q] = IF "h1" \in due THEN "COMPLETED" ELSE "ACTIVE"]
      BY <1>10 DEF Visit
    <3> HIDE DEF due, fresh
    <3>2. QED
      BY <3>1 DEF TypeOK
  <2>2. loadedAs[w][q] = reminded[q]
    BY <1>1, <1>5 DEF ActiveInv
  <2>3. ASSUME NEW s \in Stages, Owed(q, s)
        PROVE  /\ s \notin reminded[q] => (s \in due <=> captured[w] >= Trigger(q, s))
               /\ s \in due => s \notin reminded[q] /\ s \in fresh
               /\ s \in fresh => s \in due
    BY <1>8, <2>2, <2>3 DEF Due, Fresh
  <2>4. ASSUME NEW s \in Stages, Owed(q, s)
        PROVE  /\ sent[q][s] = IF s \in reminded[q] THEN 1 ELSE 0
               /\ s \notin reminded[q] => lastRun <= Trigger(q, s)
    BY <1>2, <1>5, <2>4 DEF ActiveInv
  <2> HIDE DEF due, fresh
  <2>5. ASSUME NEW s \in Stages, Owed(q, s)
        PROVE  /\ sent'[q][s] = IF s \in reminded[q] \cup due THEN 1 ELSE 0
               /\ s \notin reminded[q] \cup due => captured[w] <= Trigger(q, s)
    <3>1. CASE s \in reminded[q]
      BY <2>1, <2>3, <2>4, <2>5, <3>1
    <3>2. CASE s \notin reminded[q]
      BY <1>6, <2>1, <2>3, <2>4, <2>5, <3>2, Times
    <3>3. QED
      BY <3>1, <3>2
  <2>6. ActiveInv(w, q)'
    <3>1. outcome'[w][q] # "EXPIRED" /\ (outcome'[w][q] = "COMPLETED" <=> "h1" \in due)
      BY <2>1
    <3>2. "h1" \notin reminded[q]
      BY <1>5 DEF ActiveInv
    <3>3. \A s \in Stages : Trigger(q, s)' = Trigger(q, s)
      BY <1>1 DEF Trigger
    <3>4. QED
      BY <1>1, <1>5, <1>7, <2>1, <2>4, <2>5, <3>1, <3>2, <3>3 DEF ActiveInv
  <2>7. QED
    BY <1>1, <1>3, <1>4, <1>5, <2>6 DEF PunctualInv, RowInv
<1>11. QED
  BY <1>9, <1>10

LEMMA CommitTimely ==
    ASSUME TypeOK, CopiesInv, NEW w \in Workers, PunctualInv(w), Commit(w)
    PROVE  PunctualInv(w)'
<1>1. /\ Busy(w) /\ todo[w] = {} /\ CloseRun(w) /\ lastRun' = captured[w]
      /\ reminded' = [r \in Reminders |-> reminded[r] \cup newly[w][r]]
      /\ status' = [r \in Reminders |-> IF outcome[w][r] # "ACTIVE" THEN outcome[w][r] ELSE status[r]]
      /\ UNCHANGED <<now, deadline, created, sent>>
  BY DEF Commit
<1>2. /\ ~ Busy(w)' /\ todo'[w] = {} /\ newly'[w] = NothingNew /\ outcome'[w] = NothingDecided
  BY <1>1 DEF CloseRun, TypeOK, Busy
<1>3. /\ lastRun <= captured[w] /\ captured[w] <= now
      /\ captured[w] \in Nat /\ lastRun \in Nat /\ MaxGap \in Nat /\ now \in Nat
  BY <1>1, EngineAssumption DEF PunctualInv, TimeInv, TypeOK, Busy
<1>4. TimeInv(w)'
  BY <1>1, <1>2, <1>3 DEF PunctualInv, TimeInv
<1>5. ASSUME NEW r \in Reminders
      PROVE  RowInv(w, r)'
  <2>1. /\ RowInv(w, r) /\ outcome[w][r] \in {"ACTIVE", "EXPIRED", "COMPLETED"}
        /\ status[r] \in {"absent", "ACTIVE", "EXPIRED", "COMPLETED"}
    BY DEF PunctualInv, TypeOK
  <2>2. Untouched(w, r)' /\ newly'[w][r] = {} /\ outcome'[w][r] = "ACTIVE"
    BY <1>2 DEF Untouched, NothingNew, NothingDecided
  <2>3. \A s \in Stages : (Owed(r, s)' <=> Owed(r, s)) /\ Trigger(r, s)' = Trigger(r, s)
    BY <1>1 DEF Owed, Trigger
  <2>4. /\ reminded'[r] = reminded[r] \cup newly[w][r]
        /\ status'[r] = IF outcome[w][r] # "ACTIVE" THEN outcome[w][r] ELSE status[r]
    BY <1>1
  <2>5. CASE status[r] # "ACTIVE"
    <3>1. Untouched(w, r)
      BY <2>1, <2>5 DEF RowInv
    <3>2. QED
      BY <1>1, <2>1, <2>2, <2>3, <2>4, <2>5, <3>1 DEF RowInv, Untouched
  <2>6. CASE status[r] = "ACTIVE"
    <3>1. ActiveInv(w, r)
      BY <2>1, <2>6 DEF RowInv
    <3>2. CASE outcome[w][r] = "ACTIVE"
      <4>1. ActiveInv(w, r)'
        BY <1>1, <1>2, <2>2, <2>3, <2>4, <3>1, <3>2 DEF ActiveInv
      <4>2. QED
        BY <2>4, <2>6, <3>2, <4>1 DEF RowInv
    <3>3. CASE outcome[w][r] = "EXPIRED"
      BY <1>1, <2>2, <2>3, <2>4, <3>1, <3>3 DEF ActiveInv, RowInv, Stages
    <3>4. CASE outcome[w][r] = "COMPLETED"
      <4>1. "h1" \in newly[w][r] /\ Closed(loadedAs[w][r] \cup newly[w][r]) /\ loadedAs[w][r] \subseteq reminded[r]
        BY <3>1, <3>4 DEF ActiveInv, CopiesInv, CopyInv
      <4>2. \A s \in Stages : s \in reminded[r] \cup newly[w][r]
        BY <4>1 DEF Closed, Stages
      <4>3. QED
        BY <1>1, <2>2, <2>3, <2>4, <3>1, <3>4, <4>2 DEF ActiveInv, RowInv
    <3>5. QED
      BY <2>1, <3>2, <3>3, <3>4
  <2>7. QED
    BY <2>5, <2>6
<1>6. QED
  BY <1>4, <1>5 DEF PunctualInv

LEMMA TickTimely ==
    ASSUME TypeOK, NEW w \in Workers, PunctualInv(w), Tick
    PROVE  PunctualInv(w)'
<1>1. TimeInv(w)'
  BY EngineAssumption DEF Tick, PunctualInv, TimeInv, TypeOK, Busy, rowVars, runVars
<1>2. ASSUME NEW r \in Reminders
      PROVE  RowInv(w, r)'
  BY DEF Tick, PunctualInv, RowInv, ActiveInv, Untouched, Owed, Trigger, Busy, rowVars, runVars
<1>3. QED
  BY <1>1, <1>2 DEF PunctualInv

LEMMA PunctualStep ==
    ASSUME NEW w \in Workers, KeepsUp(w)
    PROVE  IInv /\ PunctualInv(w) /\ [Next]_vars => PunctualInv(w)'
<1> SUFFICES ASSUME IInv, PunctualInv(w), [Next]_vars
             PROVE  PunctualInv(w)'
  OBVIOUS
<1>a. TypeOK /\ CopiesInv
  BY DEF IInv
<1>1. ASSUME NEW r \in Reminders, NEW d \in Deadlines, Create(r, d)
      PROVE  PunctualInv(w)'
  BY <1>a, <1>1, CreateTimely
<1>2. ASSUME NEW g \in Workers, Run(g)
      PROVE  PunctualInv(w)'
  <2>1. g = w
    BY DEF KeepsUp
  <2>2. QED
    BY <1>a, <1>2, <2>1, StartTimely, VisitTimely, CommitTimely DEF Run
<1>3. ASSUME NEW g \in Workers, Abort(g)
      PROVE  FALSE
  BY <1>a, <1>3 DEF Abort, KeepsUp, TypeOK
<1>4. CASE Tick
  BY <1>a, <1>4, TickTimely
<1>5. CASE UNCHANGED vars
  BY <1>5 DEF vars, PunctualInv, TimeInv, RowInv, ActiveInv, Untouched, Owed, Trigger, Busy
<1>6. QED
  BY <1>1, <1>2, <1>3, <1>4, <1>5 DEF Next

\* Where one worker completes a run at least once in the lead of the last stage, an
\* hour, a row that was inserted before a stage was due gets exactly one alert for
\* it, and is completed if it was inserted before the last one
\* (email_tasks.py:669-724).
THEOREM EveryStageIsSentOnce ==
    ASSUME NEW w \in Workers, KeepsUp(w)
    PROVE  Spec => []EveryStageSentOnce
<1>1. TypeOK /\ PunctualInv(w) => EveryStageSentOnce
  <2> SUFFICES ASSUME PunctualInv(w), NEW r \in Reminders, status[r] \in {"EXPIRED", "COMPLETED"}
               PROVE  /\ created[r] <= Trigger(r, "h1") => status[r] = "COMPLETED"
                      /\ \A s \in Stages : created[r] <= Trigger(r, s) => sent[r][s] = 1
    BY DEF EveryStageSentOnce
  <2>1. RowInv(w, r)
    BY DEF PunctualInv
  <2>2. QED
    BY <2>1 DEF RowInv, Owed, Stages
<1>2. Init => PunctualInv(w)
  BY PunctualInit
<1>3. IInv /\ PunctualInv(w) /\ [Next]_vars => PunctualInv(w)'
  BY PunctualStep
<1>4. IInv => TypeOK
  BY DEF IInv
<1>5. QED
  BY <1>1, <1>2, <1>3, <1>4, InvAlways, PTL DEF Spec
=============================================================================
