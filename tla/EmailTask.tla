------------------------------ MODULE EmailTask ------------------------------
(***************************************************************************)
(* The Celery task process_email_event and the pipeline it runs, from the  *)
(* broker's queue to the alert, the reminder row, the audit rows and the   *)
(* dead-letter row (src/src/tasks/email_tasks.py), with the OAuth callback *)
(* relinking accounts to mailboxes while tasks run.                        *)
(*                                                                         *)
(* A task is one queued event.  One attempt walks through the phases of    *)
(* process_email_pipeline_async; between two phases other tasks, the       *)
(* callback and a crash of the worker may take their turn, because each    *)
(* phase ends at an await on the database, Google, Gemini or Telegram.     *)
(*                                                                         *)
(* Celery runs with its defaults (worker.py sets neither acks_late nor a   *)
(* visibility timeout): a message is acknowledged when the attempt starts, *)
(* so a crash while it runs loses the event, and a retry is a new message. *)
(***************************************************************************)
EXTENDS Naturals, Sequences, FiniteSets

CONSTANTS
    Tasks,           \* queued events
    Users,           \* rows of the users table (one Telegram account each)
    Mailboxes,       \* Gmail addresses
    MailboxOf,       \* the mailbox each event is about
    NoMailbox,       \* an account that has not been onboarded
    NoUser,          \* no row loaded
    Verdicts,        \* the classifications the AI may return
    NoVerdict,       \* no classification
    MaxRetries,      \* max_retries of the task
    MaxLinks,        \* bound: runs of the OAuth callback
    RetryRaises      \* what Celery's retry(exc=...) may raise when exhausted:
                     \* the task's own exception ("cause"), which is what it
                     \* does, or the MaxRetriesExceededError the code expects

Categories == {"Offer", "Shortlist", "Interview", "Assessment", "Opportunity"}

\* A classification, reduced to what the pipeline branches on.  "deadline" is
\* the result of parse_deadline compared with the clock.
VerdictType ==
    [placement : BOOLEAN,
     category  : Categories \cup {"none"},
     deadline  : {"none", "unparsed", "past", "future"}]

ASSUME TaskAssumption ==
    /\ MailboxOf \in [Tasks -> Mailboxes]
    /\ NoMailbox \notin Mailboxes
    /\ NoUser \notin Users
    /\ Verdicts \subseteq VerdictType
    /\ NoVerdict \notin VerdictType
    /\ MaxRetries \in Nat
    /\ MaxLinks \in Nat
    /\ RetryRaises \subseteq {"cause", "MaxRetriesExceeded"}
    /\ RetryRaises # {}

VARIABLES
    account,     \* mailbox each user is linked to
    links,       \* callbacks run so far (bounded by MaxLinks)
    phase,       \* where each task is
    retries,     \* self.request.retries
    recipient,   \* the user row the attempt loaded
    owners,      \* history: users linked to the mailbox since the attempt began
    matched,     \* is_student_matched
    verdict,     \* the classification of the attempt
    alerts,      \* Telegram messages sent for the task, oldest first
    reminders,   \* Reminder rows committed for the task
    audit,       \* audit rows of the task
    dlq          \* the dead-letter row: "no", "written" or "writefailed"

accountVars == <<account, links>>
attemptVars == <<recipient, owners, matched, verdict>>
outputVars  == <<alerts, reminders, audit, dlq>>
vars == <<account, links, phase, retries, recipient, owners, matched, verdict,
          alerts, reminders, audit, dlq>>

\* The phases in which a worker process holds the task in memory.
Running == {"load", "fetch", "scan", "classify", "alert", "remind", "fallback",
            "finish", "failing", "retry", "exhausted"}

\* The phases a task never leaves.
Terminal == {"succeeded", "failed", "dropped", "crashed"}

Phases == {"absent", "queued", "waiting"} \cup Running \cup Terminal

AlertType == [attempt : Nat, kind : {"classified", "fallback"}, to : Users,
              ok : BOOLEAN]
AuditType == [attempt : Nat,
              event : {"notification", "email_processed", "dlq_routing"},
              status : {"success", "failed"}]

TypeOK ==
    /\ account \in [Users -> Mailboxes \cup {NoMailbox}]
    /\ links \in Nat
    /\ phase \in [Tasks -> Phases]
    /\ retries \in [Tasks -> 0 .. MaxRetries]
    /\ recipient \in [Tasks -> Users \cup {NoUser}]
    /\ owners \in [Tasks -> SUBSET Users]
    /\ matched \in [Tasks -> BOOLEAN]
    /\ verdict \in [Tasks -> Verdicts \cup {NoVerdict}]
    /\ alerts \in [Tasks -> Seq(AlertType)]
    /\ reminders \in [Tasks -> Nat]
    /\ audit \in [Tasks -> SUBSET AuditType]
    /\ dlq \in [Tasks -> {"no", "written", "writefailed"}]
-----------------------------------------------------------------------------
\* Which users a query by gmail_address may find.
LinkedTo(m) == {u \in Users : account[u] = m}

\* The condition under which the student is alerted after a classification.
ShouldNotify(isMatched, v) ==
    isMatched \/ (v.placement /\ v.category = "Opportunity")

\* The condition under which a reminder row is saved.
WantsReminder(v) ==
    /\ v.placement
    /\ v.category \in {"Opportunity", "Assessment", "Interview"}
    /\ v.deadline = "future"

\* log_audit_event: one more row, unless the write fails, which is swallowed.
LogAudit(t, event, status) ==
    \E written \in BOOLEAN :
        audit' = [audit EXCEPT ![t] = @ \cup
            (IF written
             THEN {[attempt |-> retries[t], event |-> event, status |-> status]}
             ELSE {})]

\* Mutant of Send: every notification is audited as a success.
SendAuditedAsSuccess(t, kind) ==
    \E ok \in BOOLEAN :
        /\ alerts' = [alerts EXCEPT ![t] =
               Append(@, [attempt |-> retries[t], kind |-> kind,
                          to |-> recipient[t], ok |-> ok])]
        /\ LogAudit(t, "notification", "success")

\* send_telegram_alert reports its result and never raises; either result is
\* audited.
Send(t, kind) ==
    \E ok \in BOOLEAN :
        /\ alerts' = [alerts EXCEPT ![t] =
               Append(@, [attempt |-> retries[t], kind |-> kind,
                          to |-> recipient[t], ok |-> ok])]
        /\ LogAudit(t, "notification", IF ok THEN "success" ELSE "failed")

Goto(t, p) == phase' = [phase EXCEPT ![t] = p]
-----------------------------------------------------------------------------
Init ==
    /\ account \in [Users -> Mailboxes \cup {NoMailbox}]
    /\ links = 0
    /\ phase = [t \in Tasks |-> "absent"]
    /\ retries = [t \in Tasks |-> 0]
    /\ recipient = [t \in Tasks |-> NoUser]
    /\ owners = [t \in Tasks |-> {}]
    /\ matched = [t \in Tasks |-> FALSE]
    /\ verdict = [t \in Tasks |-> NoVerdict]
    /\ alerts = [t \in Tasks |-> <<>>]
    /\ reminders = [t \in Tasks |-> 0]
    /\ audit = [t \in Tasks |-> {}]
    /\ dlq = [t \in Tasks |-> "no"]

\* The OAuth callback links a Telegram account to the mailbox that signed in,
\* creating the row or overwriting the mailbox of the existing one.
Callback(u, m) ==
    /\ links < MaxLinks
    /\ links' = links + 1
    /\ account' = [account EXCEPT ![u] = m]
    /\ owners' = [t \in Tasks |->
           IF phase[t] \in Running /\ MailboxOf[t] = m
           THEN owners[t] \cup {u}
           ELSE owners[t]]
    /\ UNCHANGED <<phase, retries, recipient, matched, verdict, outputVars>>

\* The webhook puts the event on the queue.
Enqueue(t) ==
    /\ phase[t] = "absent"
    /\ Goto(t, "queued")
    /\ UNCHANGED <<accountVars, retries, attemptVars, outputVars>>

\* Mutant of Start: a retry keeps the row that the first attempt loaded.
StartWithCachedUser(t) ==
    /\ phase[t] \in {"queued", "waiting"}
    /\ Goto(t, IF recipient[t] = NoUser THEN "load" ELSE "fetch")
    /\ owners' = [owners EXCEPT ![t] = LinkedTo(MailboxOf[t])]
    /\ UNCHANGED <<accountVars, retries, recipient, matched, verdict, outputVars>>

\* A worker takes the message (or the countdown of a retry ends) and starts
\* an attempt with nothing remembered from an earlier one.
Start(t) ==
    /\ phase[t] \in {"queued", "waiting"}
    /\ Goto(t, "load")
    /\ recipient' = [recipient EXCEPT ![t] = NoUser]
    /\ owners' = [owners EXCEPT ![t] = LinkedTo(MailboxOf[t])]
    /\ matched' = [matched EXCEPT ![t] = FALSE]
    /\ verdict' = [verdict EXCEPT ![t] = NoVerdict]
    /\ UNCHANGED <<accountVars, retries, outputVars>>

\* Load the row of the mailbox and decrypt its credentials.  With no row, a
\* database error or an undecryptable token the attempt fails.
LoadUser(t) ==
    /\ phase[t] = "load"
    /\ \/ \E u \in LinkedTo(MailboxOf[t]) :
            /\ recipient' = [recipient EXCEPT ![t] = u]
            /\ Goto(t, "fetch")
       \/ /\ Goto(t, "failing")
          /\ UNCHANGED recipient
    /\ UNCHANGED <<accountVars, retries, owners, matched, verdict, outputVars>>

\* Refresh the access token, fetch the message and parse it; any of these may
\* raise.
FetchMessage(t) ==
    /\ phase[t] = "fetch"
    /\ \/ Goto(t, "scan")
       \/ Goto(t, "failing")
    /\ UNCHANGED <<accountVars, retries, attemptVars, outputVars>>

\* Look for the student's identifiers in the body and in every attachment.
\* Errors of one attachment are swallowed; a malformed payload raises.
Scan(t) ==
    /\ phase[t] = "scan"
    /\ \/ /\ \E isMatched \in BOOLEAN : matched' = [matched EXCEPT ![t] = isMatched]
          /\ Goto(t, "classify")
       \/ /\ Goto(t, "failing")
          /\ UNCHANGED matched
    /\ UNCHANGED <<accountVars, retries, recipient, owners, verdict, outputVars>>

\* Mutant of Classify: an exception of the gateway is logged and forgotten.
ClassifySwallowing(t) ==
    /\ phase[t] = "classify"
    /\ \/ \E v \in Verdicts :
            /\ verdict' = [verdict EXCEPT ![t] = v]
            /\ Goto(t, IF ShouldNotify(matched[t], v) THEN "alert" ELSE "finish")
       \/ /\ Goto(t, "finish")
          /\ UNCHANGED verdict
    /\ UNCHANGED <<accountVars, retries, recipient, owners, matched, outputVars>>

\* Mutant of Classify: the reminder is saved outside "if should_notify".
ClassifyAlwaysReminding(t) ==
    /\ phase[t] = "classify"
    /\ \E v \in Verdicts :
           /\ verdict' = [verdict EXCEPT ![t] = v]
           /\ Goto(t, IF ShouldNotify(matched[t], v) THEN "alert" ELSE "remind")
    /\ UNCHANGED <<accountVars, retries, recipient, owners, matched, outputVars>>

\* Ask the AI gateway; an exception of the gateway leads to the fallback alert.
Classify(t) ==
    /\ phase[t] = "classify"
    /\ \/ \E v \in Verdicts :
            /\ verdict' = [verdict EXCEPT ![t] = v]
            /\ Goto(t, IF ShouldNotify(matched[t], v) THEN "alert" ELSE "finish")
       \/ /\ Goto(t, "fallback")
          /\ UNCHANGED verdict
    /\ UNCHANGED <<accountVars, retries, recipient, owners, matched, outputVars>>

\* Mutant of Alert: a failed delivery fails the attempt.
AlertRaising(t) ==
    /\ phase[t] = "alert"
    /\ Send(t, "classified")
    /\ Goto(t, IF alerts'[t][Len(alerts'[t])].ok THEN "remind" ELSE "failing")
    /\ UNCHANGED <<accountVars, retries, attemptVars, reminders, dlq>>

\* Send the alert of a classified e-mail.
Alert(t) ==
    /\ phase[t] = "alert"
    /\ Send(t, "classified")
    /\ Goto(t, "remind")
    /\ UNCHANGED <<accountVars, retries, attemptVars, reminders, dlq>>

\* Mutant of Remind: an exception of the session leaves the inner try block.
RemindRaising(t) ==
    /\ phase[t] = "remind"
    /\ \/ /\ Goto(t, "finish")
          /\ reminders' = [reminders EXCEPT ![t] =
                 IF WantsReminder(verdict[t]) THEN @ + 1 ELSE @]
       \/ /\ WantsReminder(verdict[t])
          /\ Goto(t, "failing")
          /\ UNCHANGED reminders
    /\ UNCHANGED <<accountVars, retries, attemptVars, alerts, audit, dlq>>

\* Save a reminder when the classification asks for one.  An exception of the
\* session lands in the handler meant for the AI gateway, and the commit may
\* have taken effect even though it raised.
Remind(t) ==
    /\ phase[t] = "remind"
    /\ \/ /\ ~WantsReminder(verdict[t])
          /\ Goto(t, "finish")
          /\ UNCHANGED reminders
       \/ /\ WantsReminder(verdict[t])
          /\ \/ /\ reminders' = [reminders EXCEPT ![t] = @ + 1]
                /\ Goto(t, "finish")
             \/ /\ \/ reminders' = [reminders EXCEPT ![t] = @ + 1]
                   \/ UNCHANGED reminders
                /\ Goto(t, "fallback")
    /\ UNCHANGED <<accountVars, retries, attemptVars, alerts, audit, dlq>>

\* The handler of the inner try block: alert without a classification.
Fallback(t) ==
    /\ phase[t] = "fallback"
    /\ Send(t, "fallback")
    /\ Goto(t, "finish")
    /\ UNCHANGED <<accountVars, retries, attemptVars, reminders, dlq>>

\* Audit the processed e-mail and return.
Finish(t) ==
    /\ phase[t] = "finish"
    /\ LogAudit(t, "email_processed", "success")
    /\ Goto(t, "succeeded")
    /\ UNCHANGED <<accountVars, retries, attemptVars, alerts, reminders, dlq>>

\* The outer handler audits the failure and re-raises into the task.
Failing(t) ==
    /\ phase[t] = "failing"
    /\ LogAudit(t, "email_processed", "failed")
    /\ Goto(t, "retry")
    /\ UNCHANGED <<accountVars, retries, attemptVars, alerts, reminders, dlq>>

\* Mutants of Retry: the limit is not checked, the retries are not counted, the
\* event is given up at the first failure.
RetryUnlimited(t) ==
    /\ phase[t] = "retry"
    /\ retries' = [retries EXCEPT ![t] = @ + 1]
    /\ Goto(t, "waiting")
    /\ UNCHANGED <<accountVars, attemptVars, outputVars>>

RetryUncounted(t) ==
    /\ phase[t] = "retry"
    /\ Goto(t, "waiting")
    /\ UNCHANGED <<accountVars, retries, attemptVars, outputVars>>

RetryNever(t) ==
    /\ phase[t] = "retry"
    /\ Goto(t, "failed")
    /\ UNCHANGED <<accountVars, retries, attemptVars, outputVars>>

\* self.retry: publish the next attempt, or find the retries exhausted.  When
\* the broker refuses the new message Celery rejects the old one, which was
\* acknowledged already: the event is dropped.
Retry(t) ==
    /\ phase[t] = "retry"
    /\ \/ /\ retries[t] < MaxRetries
          /\ \/ /\ retries' = [retries EXCEPT ![t] = @ + 1]
                /\ Goto(t, "waiting")
             \/ /\ Goto(t, "dropped")
                /\ UNCHANGED retries
       \/ /\ retries[t] = MaxRetries
          /\ \E raised \in RetryRaises :
                 Goto(t, IF raised = "cause" THEN "failed" ELSE "exhausted")
          /\ UNCHANGED retries
    /\ UNCHANGED <<accountVars, attemptVars, outputVars>>

\* The handler of MaxRetriesExceededError writes the dead-letter row and audits
\* it; the insert may raise in place of the exception being handled.
DeadLetter(t) ==
    /\ phase[t] = "exhausted"
    /\ \/ /\ dlq' = [dlq EXCEPT ![t] = "written"]
          /\ LogAudit(t, "dlq_routing", "success")
       \/ /\ dlq' = [dlq EXCEPT ![t] = "writefailed"]
          /\ UNCHANGED audit
    /\ Goto(t, "failed")
    /\ UNCHANGED <<accountVars, retries, attemptVars, alerts, reminders>>

\* The worker process dies with the attempt in memory.
Crash(t) ==
    /\ phase[t] \in Running
    /\ Goto(t, "crashed")
    /\ UNCHANGED <<accountVars, retries, attemptVars, outputVars>>

\* What a worker does with a task it holds or can take.
Work(t) ==
    \/ Start(t)
    \/ LoadUser(t)
    \/ FetchMessage(t)
    \/ Scan(t)
    \/ Classify(t)
    \/ Alert(t)
    \/ Remind(t)
    \/ Fallback(t)
    \/ Finish(t)
    \/ Failing(t)
    \/ Retry(t)
    \/ DeadLetter(t)

Next ==
    \/ \E u \in Users, m \in Mailboxes : Callback(u, m)
    \/ \E t \in Tasks : Enqueue(t) \/ Work(t) \/ Crash(t)

\* Every await of the pipeline returns or raises (the HTTP clients have
\* timeouts) and Celery delivers what is queued, so a worker goes on.
Fairness == \A t \in Tasks : WF_vars(Work(t))

Spec == Init /\ [][Next]_vars /\ Fairness
-----------------------------------------------------------------------------
\* Retries never repeat an alert: whatever was sent for an event was sent by
\* the attempt that is its last, and an event that has produced an alert does
\* not go back to the queue or fail (email_tasks.py:303-413, 484-488).
AlertOnlyInFinalAttempt ==
    \A t \in Tasks : alerts[t] # <<>> =>
        /\ \A i \in DOMAIN alerts[t] : alerts[t][i].attempt = retries[t]
        /\ phase[t] \in {"remind", "fallback", "finish", "succeeded", "crashed"}

\* However often an event is tried, it alerts the student once; the only way to
\* a second message is the fallback of the same attempt, after a reminder that
\* the classification asked for could not be saved (email_tasks.py:303-353).
SecondAlertOnlyAfterReminderFailure ==
    \A t \in Tasks :
        /\ Len(alerts[t]) <= 2
        /\ Len(alerts[t]) = 2 =>
               /\ alerts[t][1].kind = "classified"
               /\ alerts[t][2].kind = "fallback"
               /\ WantsReminder(verdict[t])

\* A reminder row is saved at most once per event, however often the event is
\* tried, and only for an e-mail the student was alerted to (email_tasks.py:323-350).
ReminderFollowsAlert ==
    \A t \in Tasks :
        /\ reminders[t] <= 1
        /\ reminders[t] = 1 =>
               /\ WantsReminder(verdict[t])
               /\ ShouldNotify(matched[t], verdict[t])
               /\ alerts[t] # <<>> /\ alerts[t][1].kind = "classified"

\* A successful task is silent only when it was classified and neither the
\* student was found in it nor is it an opportunity: an AI outage or a failed
\* reminder never swallows an e-mail (email_tasks.py:276-284, 353-406).
SilenceIsDeliberate ==
    \A t \in Tasks :
        phase[t] = "succeeded" /\ alerts[t] = <<>> =>
            verdict[t] # NoVerdict /\ ~ShouldNotify(matched[t], verdict[t])

\* The audit log can be read backwards: an attempt recorded as failed alerted
\* nobody, a recorded notification was sent with that result, a recorded
\* success is the end of the task, and a recorded routing has its dead-letter
\* row (email_tasks.py:110-122, 306-321, 408-424).
AuditAgreesWithHistory ==
    \A t \in Tasks : \A row \in audit[t] :
        LET sent == {i \in DOMAIN alerts[t] : alerts[t][i].attempt = row.attempt}
        IN  /\ row.event = "email_processed" /\ row.status = "failed" => sent = {}
            /\ row.event = "email_processed" /\ row.status = "success" =>
                   phase[t] = "succeeded"
            /\ row.event = "dlq_routing" => dlq[t] = "written"
            /\ row.event = "notification" =>
                   \E i \in sent : alerts[t][i].ok <=> (row.status = "success")

\* An alert goes to an account that was linked to the e-mail's mailbox at some
\* moment of the attempt that sends it: a relink between two attempts cannot
\* leak the e-mail to the former owner (email_tasks.py:150-152, 303, 364).
AlertReachesAnOwner ==
    \A t \in Tasks : \A i \in DOMAIN alerts[t] : alerts[t][i].to \in owners[t]

\* What the handler at email_tasks.py:489-496 says of itself ("routing to DLQ"):
\* every event whose attempts are exhausted goes through the dead-letter write,
\* and none gets there earlier or after an alert.  It is not what happens when
\* Celery raises the cause.
ExhaustedReachesDLQ ==
    \A t \in Tasks :
        /\ phase[t] = "failed" => dlq[t] # "no"
        /\ dlq[t] # "no" => retries[t] = MaxRetries /\ alerts[t] = <<>>

\* An accepted event does not circulate for ever: it ends in a result or is
\* lost to a crash or a broker refusal (email_tasks.py:484-496).
EventSettles ==
    \A t \in Tasks : phase[t] = "queued" ~> phase[t] \in Terminal

\* What the task promises, read off its state.
OutcomeOf(t) ==
    CASE phase[t] = "absent" -> "none"
      [] alerts[t] # <<>> -> "notified"
      [] alerts[t] = <<>> /\ phase[t] = "succeeded" -> "dismissed"
      [] alerts[t] = <<>> /\ phase[t] = "failed" -> "givenup"
      [] alerts[t] = <<>> /\ phase[t] \in {"crashed", "dropped"} -> "lost"
      [] OTHER -> "pending"

Outcome == INSTANCE EmailOutcome WITH
    outcome <- [t \in Tasks |-> OutcomeOf(t)], tries <- retries

\* The worker implements the outcome each event was promised.
ImplementsOutcome == Outcome!OutcomeSpec
=============================================================================
