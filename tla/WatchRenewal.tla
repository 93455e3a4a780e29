---------------------------- MODULE WatchRenewal -----------------------------
(***************************************************************************)
(* How users link their mailboxes and how the watches on these, which      *)
(* Google drops after some days, are renewed: the OAuth callback           *)
(* (src/src/api/endpoints/auth.py), the daily beat and the renewal of one  *)
(* user with its retries (src/src/tasks/email_tasks.py:498-602).           *)
(*                                                                         *)
(* A renewal works on a copy of the row, and SQLAlchemy writes only the    *)
(* columns that differ from the copy; so does the callback.  Renewals of   *)
(* several days, callbacks and the user's own revocations interleave.      *)
(***************************************************************************)
EXTENDS Naturals

CONSTANTS
    Subscribers,      \* Telegram accounts
    Inboxes,          \* Gmail addresses
    Renewals,         \* bound: renewals of one user that are under way
    Callbacks,        \* bound: callbacks that are under way
    Life,             \* days Google keeps a watch
    MaxRenewRetries,  \* max_retries of the renewal
    RetryRaises,      \* what Celery's retry(exc=...) may raise when exhausted:
                      \* "exc", the task's own exception, or "MaxRetriesExceeded"
    MaxCallbacks,     \* bound: callbacks run
    MaxRevocations,   \* bound: grants the users take back
    MaxMishaps        \* bound: calls that fail, workers that die, beats that are missed

ASSUME WatchAssumption ==
    /\ "none" \notin Inboxes
    /\ Life \in Nat \ {0}
    /\ MaxRenewRetries \in Nat
    /\ RetryRaises \subseteq {"exc", "MaxRetriesExceeded"}
    /\ MaxCallbacks \in Nat /\ MaxRevocations \in Nat /\ MaxMishaps \in Nat

VARIABLES
    row,         \* the users table: mailbox, refresh token, watch_active and the
                 \* days until watch_expiration
    watch,       \* days Google will still publish each mailbox's changes
    grant,       \* the grant of each mailbox that is in force
    renewal,     \* the renewal tasks of each user
    callback,    \* the callbacks under way
    former,      \* history: watch_expiration is of a former mailbox or grant
    overlapped,  \* history: the last callback committed was overtaken by another
    callbacks, revocations, mishaps  \* counted for the bounds

watchVars == <<row, watch, grant, renewal, callback, former, overlapped,
               callbacks, revocations, mishaps>>
histories == <<former, overlapped, callbacks, revocations>>

NoRow == [mail |-> "none"]
NoTask == [at |-> "none"]
Tokens == [mail : Inboxes, grant : Nat]
Days == 0 .. Life

UserRows == [mail : Inboxes, token : Tokens, active : BOOLEAN, until : Days]
RenewalTasks ==
    [at : {"queued"}, attempt : 0 .. MaxRenewRetries]
    \cup [at : {"loaded", "failing", "exhausted"}, attempt : 0 .. MaxRenewRetries,
          token : Tokens, active : BOOLEAN]
    \cup [at : {"watched"}, attempt : 0 .. MaxRenewRetries,
          token : Tokens, active : BOOLEAN, until : Days]
CallbackTasks ==
    [at : {"found"}, user : Subscribers, mail : Inboxes, token : Tokens,
     found : Inboxes \cup {"none"}, overtaken : BOOLEAN]

WatchTypeOK ==
    /\ row \in [Subscribers -> UserRows \cup {NoRow}]
    /\ watch \in [Inboxes -> Days]
    /\ grant \in [Inboxes -> Nat]
    /\ renewal \in [Subscribers -> [Renewals -> RenewalTasks \cup {NoTask}]]
    /\ callback \in [Callbacks -> CallbackTasks \cup {NoTask}]
    /\ former \in [Subscribers -> BOOLEAN]
    /\ overlapped \in [Subscribers -> BOOLEAN]
    /\ callbacks \in 0 .. MaxCallbacks
    /\ revocations \in 0 .. MaxRevocations
    /\ mishaps \in 0 .. MaxMishaps
-----------------------------------------------------------------------------
Valid(token) == grant[token.mail] = token.grant
Mishap == mishaps < MaxMishaps /\ mishaps' = mishaps + 1
FreeSlot(slots) == CHOOSE s \in DOMAIN slots : slots[s] = NoTask
Becomes(u, s, task) == renewal' = [renewal EXCEPT ![u][s] = task]

\* The new row has watch_active by its default and no watch_expiration.
Inserted(mail, token) == [mail |-> mail, token |-> token, active |-> TRUE, until |-> 0]

\* Each user is new, or linked a mailbox a moment ago.
WatchInit ==
    /\ row \in [Subscribers ->
                 {NoRow} \cup {Inserted(m, [mail |-> m, grant |-> 0]) : m \in Inboxes}]
    /\ watch = [m \in Inboxes |-> 0]
    /\ grant = [m \in Inboxes |-> 0]
    /\ renewal = [u \in Subscribers |-> [s \in Renewals |-> NoTask]]
    /\ callback = [c \in Callbacks |-> NoTask]
    /\ former = [u \in Subscribers |-> FALSE]
    /\ overlapped = [u \in Subscribers |-> FALSE]
    /\ callbacks = 0 /\ revocations = 0 /\ mishaps = 0
-----------------------------------------------------------------------------
(* The callback.                                                           *)

\* The user consents, for whichever account, and the row is looked up.  A grant
\* that is taken back between the two is like one taken back after both.
CallbackSelect(u, m) ==
    /\ \E c \in Callbacks : callback[c] = NoTask
    /\ callbacks < MaxCallbacks /\ callbacks' = callbacks + 1
    /\ callback' = [callback EXCEPT ![FreeSlot(callback)] =
                      [at |-> "found", user |-> u, mail |-> m,
                       token |-> [mail |-> m, grant |-> grant[m]],
                       found |-> row[u].mail, overtaken |-> FALSE]]
    /\ UNCHANGED <<row, watch, grant, renewal, former, overlapped, revocations, mishaps>>

\* A mailbox that equals the one found is not written; a token always differs.
Updated(r, cb) ==
    [r EXCEPT !.token = cb.token, !.mail = IF cb.mail = cb.found THEN r.mail ELSE cb.mail]

\* The second insert of a user fails on the unique telegram_id.
CallbackCommit(c) ==
    /\ callback[c].at = "found"
    /\ LET cb == callback[c]
           u == cb.user
           before == row[u]
           after == IF cb.found = "none" THEN Inserted(cb.mail, cb.token) ELSE Updated(before, cb)
       IN IF cb.found = "none" /\ before # NoRow
          THEN /\ callback' = [callback EXCEPT ![c] = NoTask]
               /\ UNCHANGED <<row, former, overlapped>>
          ELSE /\ row' = [row EXCEPT ![u] = after]
               /\ former' = [former EXCEPT ![u] =
                    @ \/ (before # NoRow /\ (\/ before.token.mail # cb.token.mail
                                             \/ ~ Valid(before.token)))]
               /\ overlapped' = [overlapped EXCEPT ![u] = cb.overtaken]
               /\ callback' = [d \in Callbacks |->
                    IF d = c THEN NoTask
                    ELSE IF callback[d].at = "found" /\ callback[d].user = u
                         THEN [callback[d] EXCEPT !.overtaken = TRUE]
                         ELSE callback[d]]
    /\ UNCHANGED <<watch, grant, renewal, callbacks, revocations, mishaps>>

CallbackFails(c) ==
    /\ callback[c] # NoTask
    /\ Mishap
    /\ callback' = [callback EXCEPT ![c] = NoTask]
    /\ UNCHANGED <<row, watch, grant, renewal, histories>>

\* The user takes the grant back at Google, which then drops the watch.
Revoke(m) ==
    /\ revocations < MaxRevocations /\ revocations' = revocations + 1
    /\ grant' = [grant EXCEPT ![m] = @ + 1]
    /\ watch' = [watch EXCEPT ![m] = 0]
    /\ UNCHANGED <<row, renewal, callback, former, overlapped, callbacks, mishaps>>
-----------------------------------------------------------------------------
(* The daily beat and the renewals.                                        *)

\* Mutant of DueUsers: only users whose watch is active.
DueIfActive == {u \in Subscribers : row[u] # NoRow /\ row[u].active}

DueUsers == {u \in Subscribers : row[u] # NoRow}

Older(days) == IF days = 0 THEN 0 ELSE days - 1
Aged(task) == IF task.at = "watched" THEN [task EXCEPT !.until = Older(@)] ELSE task

\* A day passes, and the tasks of the users asked for are queued: of all who are
\* due, or of some if the broker refuses one or the beat is down.
MidnightPasses ==
    /\ \A u \in DueUsers : \E s \in Renewals : renewal[u][s] = NoTask
    /\ watch' = [m \in Inboxes |-> Older(watch[m])]
    /\ row' = [u \in Subscribers |->
                 IF row[u] = NoRow THEN NoRow ELSE [row[u] EXCEPT !.until = Older(@)]]
    /\ \E asked \in SUBSET DueUsers :
         /\ IF asked = DueUsers THEN UNCHANGED mishaps ELSE Mishap
         /\ renewal' = [u \in Subscribers |->
              [s \in Renewals |->
                 IF u \in asked /\ s = FreeSlot(renewal[u]) THEN [at |-> "queued", attempt |-> 0]
                 ELSE Aged(renewal[u][s])]]
    /\ UNCHANGED <<grant, callback, histories>>

\* The attempt reads the row, also one that follows a failed attempt.
LoadUser(u, s) ==
    /\ renewal[u][s].at = "queued"
    /\ Becomes(u, s, [at |-> "loaded", attempt |-> renewal[u][s].attempt,
                      token |-> row[u].token, active |-> row[u].active])
    /\ UNCHANGED <<row, watch, grant, callback, histories, mishaps>>

\* refresh_access_token and setup_gmail_watch with the token of the copy.
AskGoogle(u, s) ==
    LET task == renewal[u][s]
        failing == [task EXCEPT !.at = "failing"]
        registered == [watch EXCEPT ![task.token.mail] = Life]
    IN /\ task.at = "loaded"
       /\ IF Valid(task.token)
          THEN \/ /\ watch' = registered
                  /\ Becomes(u, s, [at |-> "watched", attempt |-> task.attempt, token |-> task.token,
                                    active |-> task.active, until |-> Life])
                  /\ UNCHANGED mishaps
               \/ /\ watch' \in {watch, registered}  \* the answer is lost
                  /\ Becomes(u, s, failing)
                  /\ Mishap
          ELSE Becomes(u, s, failing) /\ UNCHANGED <<watch, mishaps>>
       /\ UNCHANGED <<row, grant, callback, histories>>

\* Mutant of RecordedDays: the full life is written, however long ago it began.
LifeAnew(task) == Life

\* watch_expiration is the time Google gave.
RecordedDays(task) == task.until

\* watch_active is written if the copy has it FALSE.  A commit that raises leaves
\* a session whose objects cannot be read, and the task ends there.
CommitWatch(u, s) ==
    LET task == renewal[u][s]
    IN /\ task.at = "watched"
       /\ \/ /\ row' = [row EXCEPT ![u].until = RecordedDays(task),
                                   ![u].active = IF task.active THEN @ ELSE TRUE]
             /\ former' = [former EXCEPT ![u] = task.token # row[u].token]
             /\ UNCHANGED mishaps
          \/ Mishap /\ UNCHANGED <<row, former>>
       /\ Becomes(u, s, NoTask)
       /\ UNCHANGED <<watch, grant, callback, overlapped, callbacks, revocations>>

\* self.retry: the next attempt is published, or the broker refuses it; when the
\* retries are exhausted the handler runs only on MaxRetriesExceededError.
RetryRenewal(u, s) ==
    LET task == renewal[u][s]
    IN /\ task.at = "failing"
       /\ IF task.attempt < MaxRenewRetries
          THEN \/ Becomes(u, s, [at |-> "queued", attempt |-> task.attempt + 1]) /\ UNCHANGED mishaps
               \/ Becomes(u, s, NoTask) /\ Mishap
          ELSE /\ \E raised \in RetryRaises :
                    Becomes(u, s, IF raised = "exc" THEN NoTask ELSE [task EXCEPT !.at = "exhausted"])
               /\ UNCHANGED mishaps
       /\ UNCHANGED <<row, watch, grant, callback, histories>>

\* watch_active is written FALSE unless the copy has it so; the user is warned.
GiveUp(u, s) ==
    LET task == renewal[u][s]
    IN /\ task.at = "exhausted"
       /\ \/ row' = [row EXCEPT ![u].active = IF task.active THEN FALSE ELSE @] /\ UNCHANGED mishaps
          \/ UNCHANGED row /\ Mishap
       /\ Becomes(u, s, NoTask)
       /\ UNCHANGED <<watch, grant, callback, histories>>

\* The worker dies, and the task was acknowledged when it started; or the look-up
\* of the row raises, which is outside the handler.
RenewalDies(u, s) ==
    /\ renewal[u][s] # NoTask
    /\ Mishap
    /\ Becomes(u, s, NoTask)
    /\ UNCHANGED <<row, watch, grant, callback, histories>>

RenewalWorks(u, s) ==
    LoadUser(u, s) \/ AskGoogle(u, s) \/ CommitWatch(u, s) \/ RetryRenewal(u, s) \/ GiveUp(u, s)

WatchNext ==
    \/ \E u \in Subscribers, m \in Inboxes : CallbackSelect(u, m)
    \/ \E c \in Callbacks : CallbackCommit(c) \/ CallbackFails(c)
    \/ \E m \in Inboxes : Revoke(m)
    \/ MidnightPasses
    \/ \E u \in Subscribers, s \in Renewals : RenewalWorks(u, s) \/ RenewalDies(u, s)

\* Time passes, and workers take up what is queued.
WatchFairness ==
    /\ WF_watchVars(MidnightPasses)
    /\ \A u \in Subscribers, s \in Renewals : WF_watchVars(RenewalWorks(u, s))

WatchSpec == WatchInit /\ [][WatchNext]_watchVars /\ WatchFairness
-----------------------------------------------------------------------------
\* What a row says of its mailbox is so, however callbacks, renewals that read
\* the row before them, revocations and lost answers interleave: the token opens
\* the row's mailbox, and Google's watch lasts at least until watch_expiration
\* (auth.py:128-142, email_tasks.py:517-521).  Two things are excepted: callbacks
\* of one user that overlapped, and a watch_expiration that is of a former mailbox
\* or grant: the callback registers no watch, and a renewal may commit after it.
RecordIsTrue ==
    \A u \in Subscribers :
        row[u] # NoRow /\ ~ overlapped[u] =>
            /\ row[u].token.mail = row[u].mail
            /\ Valid(row[u].token) /\ ~ former[u] => watch[row[u].mail] >= row[u].until

\* After any finite number of failures, missed beats, revocations and relinks, a
\* user whose token is good is watched and recorded as active again, also one
\* who was given up, or who was linked without a watch (email_tasks.py:572-579:
\* the beat queues every user, not only the active ones).
WatchComesBack ==
    \A u \in Subscribers :
        []<>(\/ row[u] = NoRow
             \/ ~ Valid(row[u].token)
             \/ row[u].active /\ watch[row[u].token.mail] > 0 /\ row[u].until > 0)
=============================================================================
