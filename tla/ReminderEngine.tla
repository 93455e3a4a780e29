--------------------------- MODULE ReminderEngine ---------------------------
(***************************************************************************)
(* The periodic task check_and_send_reminders_task                         *)
(* (src/src/tasks/email_tasks.py:629-734) over the reminders table.        *)
(*                                                                         *)
(* A run reads every ACTIVE row and the clock, walks through the rows it   *)
(* read, sends what is due, and writes all its changes in one commit at    *)
(* the end.  Beat queues a run every five minutes whether or not the last  *)
(* one is done, so with several worker processes runs overlap: each works  *)
(* on its own copies and on the time it captured.  SQLAlchemy writes the   *)
(* columns a run changed, nothing else.  A run that dies, or whose commit  *)
(* fails, has sent its alerts and leaves no trace in the table.            *)
(*                                                                         *)
(* Time is counted in units that the constants give a meaning to.          *)
(***************************************************************************)
EXTENDS Integers, FiniteSets

CONSTANTS
    Reminders,   \* rows that may come to exist
    Workers,     \* worker processes
    NoRun,       \* a worker that is not running the task
    Lead,        \* time before the deadline at which each stage is due
    CatchUp,     \* time for which a stage that was missed is still sent
    Deadlines,   \* the deadlines rows may have
    MaxTime,     \* bound: the clock
    MaxAborts,   \* bound: runs that die or fail to commit
    MaxGap       \* time within which the deployment completes the next run

Stages == {"h24", "h6", "h1"}

\* With the source's 24, 6, 1 and 2 hours the stages' windows do not touch, so
\* one visit of a row sends at most one alert.
ASSUME EngineAssumption ==
    /\ Lead \in [Stages -> Nat]
    /\ CatchUp \in Nat
    /\ Lead["h24"] - CatchUp > Lead["h6"]
    /\ Lead["h6"] - CatchUp > Lead["h1"]
    /\ Lead["h1"] <= CatchUp
    /\ Deadlines \subseteq Nat
    /\ MaxTime \in Nat
    /\ MaxAborts \in Nat
    /\ MaxGap \in Nat \ {0}
    /\ NoRun \notin Nat

ASSUME WorkersAssumption == IsFiniteSet(Workers)

VARIABLES
    now,        \* the clock
    status,     \* status column of each row, "absent" before it is inserted
    reminded,   \* the stages whose reminded_* column is true
    deadline,   \* deadline_at
    created,    \* history: when the row was inserted
    captured,   \* the time each run works with, NoRun for no run
    todo,       \* rows each run has yet to visit
    loadedAs,   \* reminded_* columns as each run read them
    newly,      \* stages each run has marked and not committed
    outcome,    \* status each run has set and not committed, "ACTIVE" if none
    sent,       \* alerts sent per row and stage
    lastRun,    \* time the last committed run worked with
    aborts      \* runs that came to nothing (bounded by MaxAborts)

rowVars == <<status, reminded, deadline, created>>
runVars == <<captured, todo, loadedAs, newly, outcome>>
vars == <<now, status, reminded, deadline, created, captured, todo, loadedAs,
          newly, outcome, sent, lastRun, aborts>>

Busy(w) == captured[w] # NoRun

NothingNew == [r \in Reminders |-> {}]
NothingDecided == [r \in Reminders |-> "ACTIVE"]

TypeOK ==
    /\ now \in Nat
    /\ status \in [Reminders -> {"absent", "ACTIVE", "EXPIRED", "COMPLETED"}]
    /\ reminded \in [Reminders -> SUBSET Stages]
    /\ deadline \in [Reminders -> Nat]
    /\ created \in [Reminders -> Nat]
    /\ captured \in [Workers -> Nat \cup {NoRun}]
    /\ todo \in [Workers -> SUBSET Reminders]
    /\ loadedAs \in [Workers -> [Reminders -> SUBSET Stages]]
    /\ newly \in [Workers -> [Reminders -> SUBSET Stages]]
    /\ outcome \in [Workers -> [Reminders -> {"ACTIVE", "EXPIRED", "COMPLETED"}]]
    /\ sent \in [Reminders -> [Stages -> Nat]]
    /\ lastRun \in Nat
    /\ aborts \in Nat
    /\ \A w \in Workers : ~ Busy(w) =>
           todo[w] = {} /\ newly[w] = NothingNew /\ outcome[w] = NothingDecided
-----------------------------------------------------------------------------
Active == {r \in Reminders : status[r] = "ACTIVE"}

Trigger(r, s) == deadline[r] - Lead[s]

\* Mutant of Due: only the stage reached last is considered.
DueLatest(r, t, marked) ==
    {s \in Stages \ marked :
        /\ t >= Trigger(r, s)
        /\ \A other \in Stages : t >= Trigger(r, other) => Lead[s] <= Lead[other]}

\* The stages a run at time t finds due and not marked, and those among them
\* that are recent enough to be sent.
Due(r, t, marked) == {s \in Stages \ marked : t >= Trigger(r, s)}
Fresh(r, t, due) == {s \in due : t - Trigger(r, s) <= CatchUp}

\* Mutant of CloseRun: the session is shared by the runs of a worker.
CloseRunKeepingSession(w) ==
    /\ captured' = [captured EXCEPT ![w] = NoRun]
    /\ todo' = [todo EXCEPT ![w] = {}]
    /\ loadedAs' = [loadedAs EXCEPT ![w] = NothingNew]
    /\ UNCHANGED <<newly, outcome>>

\* The session of a run is closed: its copies are gone.
CloseRun(w) ==
    /\ captured' = [captured EXCEPT ![w] = NoRun]
    /\ todo' = [todo EXCEPT ![w] = {}]
    /\ loadedAs' = [loadedAs EXCEPT ![w] = NothingNew]
    /\ newly' = [newly EXCEPT ![w] = NothingNew]
    /\ outcome' = [outcome EXCEPT ![w] = NothingDecided]
-----------------------------------------------------------------------------
Init ==
    /\ now = 0
    /\ status = [r \in Reminders |-> "absent"]
    /\ reminded = [r \in Reminders |-> {}]
    /\ deadline = [r \in Reminders |-> 0]
    /\ created = [r \in Reminders |-> 0]
    /\ captured = [w \in Workers |-> NoRun]
    /\ todo = [w \in Workers |-> {}]
    /\ loadedAs = [w \in Workers |-> NothingNew]
    /\ newly = [w \in Workers |-> NothingNew]
    /\ outcome = [w \in Workers |-> NothingDecided]
    /\ sent = [r \in Reminders |-> [s \in Stages |-> 0]]
    /\ lastRun = 0
    /\ aborts = 0

\* The e-mail pipeline inserts a row with a deadline that lies ahead.
Create(r, d) ==
    /\ status[r] = "absent"
    /\ d > now
    /\ status' = [status EXCEPT ![r] = "ACTIVE"]
    /\ deadline' = [deadline EXCEPT ![r] = d]
    /\ created' = [created EXCEPT ![r] = now]
    /\ UNCHANGED <<now, reminded, runVars, sent, lastRun, aborts>>

\* SELECT the ACTIVE rows and take the time.
StartRun(w) ==
    /\ ~ Busy(w)
    /\ captured' = [captured EXCEPT ![w] = now]
    /\ todo' = [todo EXCEPT ![w] = Active]
    /\ loadedAs' = [loadedAs EXCEPT ![w] =
           [r \in Reminders |-> IF r \in Active THEN reminded[r] ELSE {}]]
    /\ UNCHANGED <<now, rowVars, newly, outcome, sent, lastRun, aborts>>

\* Mutants of Visit: a row past its deadline is skipped; the 6h stage completes.
VisitSkippingPast(w, r) ==
    /\ Busy(w)
    /\ r \in todo[w]
    /\ todo' = [todo EXCEPT ![w] = @ \ {r}]
    /\ IF captured[w] > deadline[r]
       THEN UNCHANGED <<newly, sent, outcome>>
       ELSE /\ newly' = [newly EXCEPT ![w][r] = Due(r, captured[w], loadedAs[w][r])]
            /\ outcome' = [outcome EXCEPT ![w][r] =
                   IF "h1" \in Due(r, captured[w], loadedAs[w][r])
                   THEN "COMPLETED" ELSE "ACTIVE"]
            /\ UNCHANGED sent
    /\ UNCHANGED <<now, rowVars, captured, loadedAs, lastRun, aborts>>

VisitCompletingEarly(w, r) ==
    /\ Busy(w)
    /\ r \in todo[w]
    /\ todo' = [todo EXCEPT ![w] = @ \ {r}]
    /\ LET due == Due(r, captured[w], loadedAs[w][r])
           fresh == Fresh(r, captured[w], due)
       IN  /\ newly' = [newly EXCEPT ![w][r] = due]
           /\ sent' = [sent EXCEPT ![r] =
                  [s \in Stages |-> IF s \in fresh THEN @[s] + 1 ELSE @[s]]]
           /\ outcome' = [outcome EXCEPT ![w][r] =
                  IF "h6" \in due THEN "COMPLETED" ELSE "ACTIVE"]
    /\ UNCHANGED <<now, rowVars, captured, loadedAs, lastRun, aborts>>

\* Visit one row: expire it, or send and mark what is due.  The result of the
\* send is not looked at, and a stage that is too old is marked without one.
Visit(w, r) ==
    /\ Busy(w)
    /\ r \in todo[w]
    /\ todo' = [todo EXCEPT ![w] = @ \ {r}]
    /\ IF captured[w] > deadline[r]
       THEN /\ outcome' = [outcome EXCEPT ![w][r] = "EXPIRED"]
            /\ UNCHANGED <<newly, sent>>
       ELSE LET due == Due(r, captured[w], loadedAs[w][r])
                fresh == Fresh(r, captured[w], due)
            IN  /\ newly' = [newly EXCEPT ![w][r] = due]
                /\ sent' = [sent EXCEPT ![r] =
                       [s \in Stages |-> IF s \in fresh THEN @[s] + 1 ELSE @[s]]]
                /\ outcome' = [outcome EXCEPT ![w][r] =
                       IF "h1" \in due THEN "COMPLETED" ELSE "ACTIVE"]
    /\ UNCHANGED <<now, rowVars, captured, loadedAs, lastRun, aborts>>

\* Mutant of Commit: the marks are not saved.
CommitWithoutMarks(w) ==
    /\ Busy(w)
    /\ todo[w] = {}
    /\ status' = [r \in Reminders |->
           IF outcome[w][r] # "ACTIVE" THEN outcome[w][r] ELSE status[r]]
    /\ lastRun' = captured[w]
    /\ CloseRun(w)
    /\ UNCHANGED <<now, reminded, deadline, created, sent, aborts>>

\* The single commit writes the changed columns of the changed rows.
Commit(w) ==
    /\ Busy(w)
    /\ todo[w] = {}
    /\ reminded' = [r \in Reminders |-> reminded[r] \cup newly[w][r]]
    /\ status' = [r \in Reminders |->
           IF outcome[w][r] # "ACTIVE" THEN outcome[w][r] ELSE status[r]]
    /\ lastRun' = captured[w]
    /\ CloseRun(w)
    /\ UNCHANGED <<now, deadline, created, sent, aborts>>

\* The worker dies in the run, or the session raises.
Abort(w) ==
    /\ Busy(w)
    /\ aborts < MaxAborts
    /\ aborts' = aborts + 1
    /\ CloseRun(w)
    /\ UNCHANGED <<now, rowVars, sent, lastRun>>

\* Time passes, unless the deployment is due to complete a run first.
Tick ==
    /\ now < MaxTime
    /\ now < lastRun + MaxGap
    /\ now' = now + 1
    /\ UNCHANGED <<rowVars, runVars, sent, lastRun, aborts>>

Run(w) ==
    \/ StartRun(w)
    \/ \E r \in Reminders : Visit(w, r)
    \/ Commit(w)

Next ==
    \/ \E r \in Reminders, d \in Deadlines : Create(r, d)
    \/ \E w \in Workers : Run(w) \/ Abort(w)
    \/ Tick

\* Beat keeps queueing runs, workers take them, and time passes.
Fairness == WF_vars(Tick) /\ \A w \in Workers : WF_vars(Run(w))

Spec == Init /\ [][Next]_vars /\ Fairness
-----------------------------------------------------------------------------
\* The stages are marked in the order of their leads, also when overlapping runs
\* commit in any order (email_tasks.py:669-724).
StageOrder ==
    \A r \in Reminders :
        /\ "h1" \in reminded[r] => "h6" \in reminded[r]
        /\ "h6" \in reminded[r] => "h24" \in reminded[r]

\* A commit never takes back what another run wrote: a mark stays, and a row
\* that left ACTIVE is never picked up again (email_tasks.py:633-637, 653-657,
\* 684-724, 729).
MarksAreKept ==
    [][\A r \in Reminders :
          /\ reminded[r] \subseteq reminded'[r]
          /\ status[r] \in {"EXPIRED", "COMPLETED"} =>
                 status'[r] \in {"EXPIRED", "COMPLETED"}]_vars

\* An alert is repeated at most once per run that overlapped the first one or
\* came to nothing before its commit (email_tasks.py:632, 679-729).
RepeatsAreAccountedFor ==
    \A r \in Reminders, s \in Stages :
        sent[r][s] <= Cardinality(Workers) + aborts

\* Every reminder leaves ACTIVE: it is completed or it expires
\* (email_tasks.py:653-657, 723).
ReminderEnds ==
    \A r \in Reminders : status[r] = "ACTIVE" ~> status[r] \in {"EXPIRED", "COMPLETED"}

\* Where one worker completes a run at least once an hour, a row that was
\* inserted before a stage was due gets exactly one alert for it, and a row
\* inserted before its last stage is completed and not expired
\* (email_tasks.py:669-724).
EveryStageSentOnce ==
    \A r \in Reminders :
        status[r] \in {"EXPIRED", "COMPLETED"} =>
            /\ created[r] <= Trigger(r, "h1") => status[r] = "COMPLETED"
            /\ \A s \in Stages : created[r] <= Trigger(r, s) => sent[r][s] = 1

\* "uses a 2-hour catch-up window to guarantee alert delivery without duplicate
\* notifications" (.planning/v1.0-MILESTONE-AUDIT.md:56).
NoDuplicateAlert == \A r \in Reminders, s \in Stages : sent[r][s] <= 1
=============================================================================
