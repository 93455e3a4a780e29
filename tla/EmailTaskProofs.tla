--------------------------- MODULE EmailTaskProofs ---------------------------
(***************************************************************************)
(* What holds of the e-mail task for every set of tasks, users, mailboxes  *)
(* and verdicts and every number of retries.                               *)
(*                                                                         *)
(* The safety properties are not inductive: that a task which has produced *)
(* an alert is never tried again depends on where in the pipeline alerts   *)
(* can exist at all.  The invariant TaskInv says, per task, what has been  *)
(* sent and saved (History), and which of these histories each phase       *)
(* allows (PhaseInv), what a success without an alert means (SilenceInv),  *)
(* what the audit rows may say (AuditInv) and how the dead-letter row      *)
(* relates to the retries (DlqInv).                                        *)
(***************************************************************************)
EXTENDS EmailTask, SequenceTheorems, TLAPS

\* Alerts of a given kind that the current attempt may have sent.
SentAs(t, kind) ==
    {a \in AlertType : a.kind = kind /\ a.attempt = retries[t] /\ a.to \in owners[t]}

\* Nothing has come out of the task.
Nothing(t) == alerts[t] = <<>> /\ reminders[t] = 0

\* The verdict of the attempt is one that alerts.
Alarming(t) == verdict[t] \in Verdicts /\ ShouldNotify(matched[t], verdict[t])

\* The alert of a classified e-mail is all that was sent.
Notified(t) ==
    /\ \E a \in SentAs(t, "classified") : alerts[t] = <<a>>
    /\ Alarming(t)
    /\ reminders[t] = 1 => WantsReminder(verdict[t])

\* The fallback is all that was sent.
FellBack(t) ==
    /\ \E a \in SentAs(t, "fallback") : alerts[t] = <<a>>
    /\ reminders[t] = 0

\* The reminder raised after the alert, and the fallback was sent too.
SentBoth(t) ==
    /\ \E a \in SentAs(t, "classified"), b \in SentAs(t, "fallback") : alerts[t] = <<a, b>>
    /\ Alarming(t)
    /\ WantsReminder(verdict[t])

History(t) ==
    /\ reminders[t] \in 0 .. 1
    /\ Nothing(t) \/ Notified(t) \/ FellBack(t) \/ SentBoth(t)

\* Phases before anything is sent, and phases that follow a failed attempt.
Unsent == {"absent", "queued", "waiting", "load", "fetch", "scan", "classify", "alert",
           "failing", "retry", "exhausted", "failed", "dropped"}

\* Phases in which the attempt works with a row it loaded.
Loaded == {"fetch", "scan", "classify", "alert", "remind", "fallback"}

PhaseInv(t) ==
    /\ phase[t] \in Unsent => Nothing(t)
    /\ phase[t] = "load" => LinkedTo(MailboxOf[t]) \subseteq owners[t]
    /\ phase[t] \in Loaded => recipient[t] \in owners[t]
    /\ phase[t] = "alert" => Alarming(t)
    /\ phase[t] = "remind" => Notified(t) /\ reminders[t] = 0
    /\ phase[t] = "fallback" =>
           Nothing(t) \/ (Notified(t) /\ WantsReminder(verdict[t]))

SilenceInv(t) ==
    phase[t] \in {"finish", "succeeded"} /\ alerts[t] = <<>> =>
        verdict[t] # NoVerdict /\ ~ ShouldNotify(matched[t], verdict[t])

\* Phases an attempt can be in once it was audited as failed.
AfterFailure == {"retry", "exhausted", "failed", "dropped", "crashed"}

RowInv(t, row) ==
    /\ row.event = "email_processed" /\ row.status = "failed" =>
           /\ row.attempt <= retries[t]
           /\ row.attempt = retries[t] => phase[t] \in AfterFailure /\ alerts[t] = <<>>
    /\ row.event = "email_processed" /\ row.status = "success" => phase[t] = "succeeded"
    /\ row.event = "dlq_routing" => dlq[t] = "written"
    /\ row.event = "notification" =>
           \E i \in DOMAIN alerts[t] :
               /\ alerts[t][i].attempt = row.attempt
               /\ alerts[t][i].ok <=> (row.status = "success")

AuditInv(t) == \A row \in audit[t] : RowInv(t, row)

DlqInv(t) ==
    /\ phase[t] \in {"exhausted", "failed"} => retries[t] = MaxRetries
    /\ dlq[t] # "no" => phase[t] = "failed"

TaskInv(t) == History(t) /\ PhaseInv(t) /\ SilenceInv(t) /\ AuditInv(t) /\ DlqInv(t)

IInv == TypeOK /\ \A t \in Tasks : TaskInv(t)
-----------------------------------------------------------------------------
\* Nothing of u changes in the step, nor does any account.
Same(u) ==
    /\ account' = account
    /\ phase'[u] = phase[u] /\ retries'[u] = retries[u]
    /\ recipient'[u] = recipient[u] /\ owners'[u] = owners[u]
    /\ matched'[u] = matched[u] /\ verdict'[u] = verdict[u]
    /\ alerts'[u] = alerts[u] /\ reminders'[u] = reminders[u]
    /\ audit'[u] = audit[u] /\ dlq'[u] = dlq[u]

LEMMA SameKeepsTaskInv ==
    ASSUME NEW u \in Tasks, TaskInv(u), Same(u)
    PROVE  TaskInv(u)'
<1>1. History(u)'
  BY DEF TaskInv, History, Nothing, Notified, FellBack, SentBoth, SentAs, Alarming, Same
<1>2. PhaseInv(u)'
  BY DEF TaskInv, PhaseInv, LinkedTo, Nothing, Notified, SentAs, Alarming, Same
<1>3. SilenceInv(u)' /\ DlqInv(u)'
  BY DEF TaskInv, SilenceInv, DlqInv, Same
<1>4. AuditInv(u)'
  BY DEF TaskInv, AuditInv, RowInv, Same
<1>5. QED
  BY <1>1, <1>2, <1>3, <1>4 DEF TaskInv

\* A step of one task touches no other task (each task works on its own row of
\* every variable).
LEMMA OthersStay ==
    ASSUME NEW t \in Tasks, Enqueue(t) \/ Work(t) \/ Crash(t), NEW u \in Tasks, u # t, TypeOK
    PROVE  Same(u)
<1> USE DEF Goto, accountVars, attemptVars, outputVars, TypeOK, Same
<1>1. CASE Enqueue(t)
  BY <1>1 DEF Enqueue
<1>2. CASE Start(t)
  BY <1>2 DEF Start
<1>3. CASE LoadUser(t)
  BY <1>3 DEF LoadUser
<1>4. CASE FetchMessage(t)
  BY <1>4 DEF FetchMessage
<1>5. CASE Scan(t)
  BY <1>5 DEF Scan
<1>6. CASE Classify(t)
  BY <1>6 DEF Classify
<1>7. CASE Alert(t)
  BY <1>7 DEF Alert, Send, LogAudit
<1>8. CASE Remind(t)
  BY <1>8 DEF Remind
<1>9. CASE Fallback(t)
  BY <1>9 DEF Fallback, Send, LogAudit
<1>10. CASE Finish(t)
  BY <1>10 DEF Finish, LogAudit
<1>11. CASE Failing(t)
  BY <1>11 DEF Failing, LogAudit
<1>12. CASE Retry(t)
  BY <1>12 DEF Retry
<1>13. CASE DeadLetter(t)
  BY <1>13 DEF DeadLetter, LogAudit
<1>14. CASE Crash(t)
  BY <1>14 DEF Crash
<1>15. QED
  BY <1>1, <1>2, <1>3, <1>4, <1>5, <1>6, <1>7, <1>8, <1>9, <1>10, <1>11, <1>12,
     <1>13, <1>14 DEF Work
-----------------------------------------------------------------------------
LEMMA SendType ==
    ASSUME TypeOK, NEW t \in Tasks, recipient[t] \in Users,
           NEW kind \in {"classified", "fallback"}, Send(t, kind)
    PROVE  /\ alerts' \in [Tasks -> Seq(AlertType)]
           /\ audit' \in [Tasks -> SUBSET AuditType]
<1>1. PICK ok \in BOOLEAN, written \in BOOLEAN :
        /\ alerts' = [alerts EXCEPT ![t] =
               Append(@, [attempt |-> retries[t], kind |-> kind,
                          to |-> recipient[t], ok |-> ok])]
        /\ audit' = [audit EXCEPT ![t] = @ \cup
               (IF written
                THEN {[attempt |-> retries[t], event |-> "notification",
                       status |-> IF ok THEN "success" ELSE "failed"]}
                ELSE {})]
  BY DEF Send, LogAudit
<1>2. retries[t] \in Nat
  BY TaskAssumption DEF TypeOK
<1>3. [attempt |-> retries[t], kind |-> kind, to |-> recipient[t], ok |-> ok] \in AlertType
  BY <1>2 DEF AlertType
<1>4. Append(alerts[t], [attempt |-> retries[t], kind |-> kind, to |-> recipient[t], ok |-> ok])
        \in Seq(AlertType)
  BY <1>3 DEF TypeOK
<1>5. [attempt |-> retries[t], event |-> "notification",
       status |-> IF ok THEN "success" ELSE "failed"] \in AuditType
  BY <1>2 DEF AuditType
<1>6. QED
  BY <1>1, <1>4, <1>5 DEF TypeOK

LEMMA LogAuditType ==
    ASSUME TypeOK, NEW t \in Tasks,
           NEW e \in {"notification", "email_processed", "dlq_routing"},
           NEW s \in {"success", "failed"}, LogAudit(t, e, s)
    PROVE  audit' \in [Tasks -> SUBSET AuditType]
<1>1. [attempt |-> retries[t], event |-> e, status |-> s] \in AuditType
  BY TaskAssumption DEF TypeOK, AuditType
<1>2. QED
  BY <1>1 DEF LogAudit, TypeOK

\* Logging adds at most the row it was asked to write.
LEMMA LogAuditRows ==
    ASSUME TypeOK, NEW t \in Tasks, NEW e, NEW s, LogAudit(t, e, s)
    PROVE  audit'[t] \subseteq
               audit[t] \cup {[attempt |-> retries[t], event |-> e, status |-> s]}
  BY DEF LogAudit, TypeOK

LEMMA TypeStep == IInv /\ [Next]_vars => TypeOK'
<1> SUFFICES ASSUME IInv, [Next]_vars PROVE TypeOK'
  OBVIOUS
<1>1. TypeOK
  BY DEF IInv
<1>2. ASSUME NEW t \in Tasks, phase[t] \in Loaded
      PROVE  recipient[t] \in Users
  BY <1>1, <1>2 DEF IInv, TaskInv, PhaseInv, TypeOK
<1>3. ASSUME NEW u \in Users, NEW m \in Mailboxes, Callback(u, m) PROVE TypeOK'
  BY <1>1, <1>3 DEF Callback, TypeOK, outputVars
<1> USE <1>1 DEF Goto, accountVars, attemptVars, outputVars, Phases, Running, Terminal
<1>4. ASSUME NEW t \in Tasks, Enqueue(t) PROVE TypeOK'
  BY <1>4 DEF Enqueue, TypeOK
<1>5. ASSUME NEW t \in Tasks, Start(t) PROVE TypeOK'
  BY <1>5 DEF Start, LinkedTo, TypeOK
<1>6. ASSUME NEW t \in Tasks, LoadUser(t) PROVE TypeOK'
  <2>1. phase' \in [Tasks -> Phases]
    BY <1>6 DEF LoadUser, LinkedTo, TypeOK
  <2>2. recipient' \in [Tasks -> Users \cup {NoUser}]
    BY <1>6, TaskAssumption DEF LoadUser, LinkedTo, TypeOK
  <2>3. QED
    BY <1>6, <2>1, <2>2 DEF LoadUser, TypeOK
<1>7. ASSUME NEW t \in Tasks, FetchMessage(t) PROVE TypeOK'
  BY <1>7 DEF FetchMessage, TypeOK
<1>8. ASSUME NEW t \in Tasks, Scan(t) PROVE TypeOK'
  BY <1>8 DEF Scan, TypeOK
<1>9. ASSUME NEW t \in Tasks, Classify(t) PROVE TypeOK'
  <2>1. phase' \in [Tasks -> Phases]
    <3>1. PICK p \in {"alert", "finish", "fallback"} : phase' = [phase EXCEPT ![t] = p]
      BY <1>9 DEF Classify
    <3>2. QED
      BY <3>1 DEF TypeOK
  <2>2. verdict' \in [Tasks -> Verdicts \cup {NoVerdict}]
    <3>1. \/ \E v \in Verdicts : verdict' = [verdict EXCEPT ![t] = v]
          \/ verdict' = verdict
      BY <1>9 DEF Classify
    <3>2. QED
      BY <3>1 DEF TypeOK
  <2>3. QED
    BY <1>9, <2>1, <2>2 DEF Classify, TypeOK
<1>10. ASSUME NEW t \in Tasks, Alert(t) PROVE TypeOK'
  <2>1. /\ alerts' \in [Tasks -> Seq(AlertType)]
        /\ audit' \in [Tasks -> SUBSET AuditType]
    BY <1>2, <1>10, SendType DEF Alert, Loaded
  <2>2. QED
    BY <1>10, <2>1 DEF Alert, TypeOK
<1>11. ASSUME NEW t \in Tasks, Remind(t) PROVE TypeOK'
  <2>1. phase' \in [Tasks -> Phases]
    BY <1>11 DEF Remind, TypeOK
  <2>2. reminders' \in [Tasks -> Nat]
    BY <1>11, TaskAssumption DEF Remind, TypeOK
  <2>3. QED
    BY <1>11, <2>1, <2>2 DEF Remind, TypeOK
<1>12. ASSUME NEW t \in Tasks, Fallback(t) PROVE TypeOK'
  <2>1. /\ alerts' \in [Tasks -> Seq(AlertType)]
        /\ audit' \in [Tasks -> SUBSET AuditType]
    BY <1>2, <1>12, SendType DEF Fallback, Loaded
  <2>2. QED
    BY <1>12, <2>1 DEF Fallback, TypeOK
<1>13. ASSUME NEW t \in Tasks, Finish(t) PROVE TypeOK'
  <2>1. audit' \in [Tasks -> SUBSET AuditType]
    BY <1>13, LogAuditType DEF Finish
  <2>2. QED
    BY <1>13, <2>1 DEF Finish, TypeOK
<1>14. ASSUME NEW t \in Tasks, Failing(t) PROVE TypeOK'
  <2>1. audit' \in [Tasks -> SUBSET AuditType]
    BY <1>14, LogAuditType DEF Failing
  <2>2. QED
    BY <1>14, <2>1 DEF Failing, TypeOK
<1>15. ASSUME NEW t \in Tasks, Retry(t) PROVE TypeOK'
  <2>1. phase' \in [Tasks -> Phases]
    BY <1>15 DEF Retry, TypeOK
  <2>2. retries' \in [Tasks -> 0 .. MaxRetries]
    BY <1>15, TaskAssumption DEF Retry, TypeOK
  <2>3. QED
    BY <1>15, <2>1, <2>2 DEF Retry, TypeOK
<1>16. ASSUME NEW t \in Tasks, DeadLetter(t) PROVE TypeOK'
  <2>1. audit' \in [Tasks -> SUBSET AuditType]
    <3>1. LogAudit(t, "dlq_routing", "success") \/ audit' = audit
      BY <1>16 DEF DeadLetter
    <3>2. QED
      BY <3>1, LogAuditType DEF TypeOK
  <2>2. dlq' \in [Tasks -> {"no", "written", "writefailed"}]
    BY <1>16 DEF DeadLetter, TypeOK
  <2>3. QED
    BY <1>16, <2>1, <2>2 DEF DeadLetter, TypeOK
<1>17. ASSUME NEW t \in Tasks, Crash(t) PROVE TypeOK'
  BY <1>17 DEF Crash, TypeOK
<1>18. CASE UNCHANGED vars
  BY <1>18 DEF vars, TypeOK
<1>19. QED
  BY <1>3, <1>4, <1>5, <1>6, <1>7, <1>8, <1>9, <1>10, <1>11, <1>12, <1>13, <1>14,
     <1>15, <1>16, <1>17, <1>18 DEF Next, Work
-----------------------------------------------------------------------------
\* The actions that change neither the alerts nor the audit rows of a task that
\* has sent nothing: TaskInv follows from the phase they lead to.
LEMMA QuietSteps ==
    ASSUME NEW t \in Tasks, TypeOK, TaskInv(t),
           \/ Enqueue(t) \/ Start(t) \/ LoadUser(t) \/ FetchMessage(t) \/ Scan(t)
           \/ Retry(t)
    PROVE  TaskInv(t)'
<1>1. /\ phase[t] \in Unsent /\ alerts[t] = <<>> /\ reminders[t] = 0
      /\ phase[t] # "alert" /\ dlq[t] = "no"
  BY DEF TaskInv, PhaseInv, DlqInv, Nothing, Unsent, Enqueue, Start, LoadUser, FetchMessage,
         Scan, Retry
<1>2. /\ alerts' = alerts /\ reminders' = reminders /\ audit' = audit /\ dlq' = dlq
  BY DEF Enqueue, Start, LoadUser, FetchMessage, Scan, Retry, outputVars
<1>3. phase'[t] \in {"queued", "load", "fetch", "failing", "scan", "classify", "waiting",
                    "dropped", "failed", "exhausted"}
  BY DEF Enqueue, Start, LoadUser, FetchMessage, Scan, Retry, Goto, TypeOK
<1>4. History(t)'
  BY <1>1, <1>2 DEF History, Nothing
<1>5. PhaseInv(t)'
  <2>1. Nothing(t)'
    BY <1>1, <1>2 DEF Nothing
  <2>2. phase'[t] = "load" => LinkedTo(MailboxOf[t])' \subseteq owners'[t]
    BY DEF Enqueue, Start, LoadUser, FetchMessage, Scan, Retry, Goto, TypeOK,
           LinkedTo, accountVars
  <2>3. phase'[t] \in {"fetch", "scan", "classify"} => recipient'[t] \in owners'[t]
    <3>1. CASE LoadUser(t)
      BY <3>1 DEF LoadUser, Goto, TypeOK, TaskInv, PhaseInv, accountVars
    <3>2. CASE FetchMessage(t) \/ Scan(t)
      BY <3>2 DEF FetchMessage, Scan, Goto, TypeOK, TaskInv, PhaseInv, Loaded, attemptVars
    <3>3. CASE Enqueue(t) \/ Start(t) \/ Retry(t)
      BY <3>3 DEF Enqueue, Start, Retry, Goto, TypeOK
    <3>4. QED
      BY <3>1, <3>2, <3>3
  <2>4. QED
    BY <1>3, <2>1, <2>2, <2>3 DEF PhaseInv, Loaded
<1>6. SilenceInv(t)'
  BY <1>3 DEF SilenceInv
<1>7. AuditInv(t)'
  <2> SUFFICES ASSUME NEW row \in audit[t] PROVE RowInv(t, row)'
    BY <1>2 DEF AuditInv
  <2>1. RowInv(t, row) /\ row \in AuditType
    BY DEF TaskInv, AuditInv, TypeOK
  <2>2. row.event # "notification"
    BY <2>1, <1>1 DEF RowInv
  <2>3. row.event = "email_processed" /\ row.status = "failed" =>
            /\ row.attempt <= retries'[t]
            /\ row.attempt = retries'[t] => phase'[t] \in AfterFailure
    <3>1. retries[t] \in Nat /\ row.attempt \in Nat
      BY <2>1, TaskAssumption DEF TypeOK, AuditType
    <3>2. CASE Retry(t)
      BY <2>1, <3>1, <3>2 DEF Retry, RowInv, Goto, TypeOK, AfterFailure
    <3>3. CASE Enqueue(t) \/ Start(t) \/ LoadUser(t) \/ FetchMessage(t) \/ Scan(t)
      BY <2>1, <3>1, <3>3 DEF Enqueue, Start, LoadUser, FetchMessage, Scan, RowInv, AfterFailure
    <3>4. QED
      BY <3>2, <3>3
  <2>4. ~ (row.event = "email_processed" /\ row.status = "success")
    BY <1>1, <2>1 DEF RowInv, Unsent
  <2>5. QED
    BY <1>1, <1>2, <2>1, <2>2, <2>3, <2>4 DEF RowInv
<1>8. DlqInv(t)'
  <2>1. CASE Retry(t)
    BY <1>1, <2>1 DEF Retry, DlqInv, Goto, TypeOK, outputVars
  <2>2. CASE Enqueue(t) \/ Start(t) \/ LoadUser(t) \/ FetchMessage(t) \/ Scan(t)
    BY <1>1, <2>2 DEF Enqueue, Start, LoadUser, FetchMessage, Scan, DlqInv, Goto, TypeOK,
                      outputVars
  <2>3. QED
    BY <2>1, <2>2
<1>9. QED
  BY <1>4, <1>5, <1>6, <1>7, <1>8 DEF TaskInv

\* The classification decides whether the attempt alerts, falls back or is done.
LEMMA ClassifyStep ==
    ASSUME NEW t \in Tasks, TypeOK, TaskInv(t), Classify(t)
    PROVE  TaskInv(t)'
<1>1. /\ phase[t] = "classify" /\ alerts[t] = <<>> /\ reminders[t] = 0 /\ dlq[t] = "no"
      /\ recipient[t] \in owners[t]
  BY DEF Classify, TaskInv, PhaseInv, DlqInv, Nothing, Unsent, Loaded
<1>2. /\ alerts' = alerts /\ reminders' = reminders /\ audit' = audit /\ dlq' = dlq
      /\ retries' = retries /\ matched' = matched
      /\ recipient' = recipient /\ owners' = owners
  BY DEF Classify, outputVars
<1>3. \/ phase'[t] = "fallback"
      \/ /\ phase'[t] = "alert" /\ verdict'[t] \in Verdicts
         /\ ShouldNotify(matched[t], verdict'[t])
      \/ /\ phase'[t] = "finish" /\ verdict'[t] \in Verdicts
         /\ ~ ShouldNotify(matched[t], verdict'[t])
  <2>1. CASE phase' = [phase EXCEPT ![t] = "fallback"]
    BY <2>1 DEF TypeOK
  <2>2. ASSUME NEW v \in Verdicts, verdict' = [verdict EXCEPT ![t] = v],
               phase' = [phase EXCEPT ![t] =
                            IF ShouldNotify(matched[t], v) THEN "alert" ELSE "finish"]
        PROVE  <1>3!2 \/ <1>3!3
    <3>1. verdict'[t] = v /\ phase'[t] = IF ShouldNotify(matched[t], v) THEN "alert" ELSE "finish"
      BY <2>2 DEF TypeOK
    <3>2. QED
      BY <3>1
  <2>3. QED
    BY <2>1, <2>2 DEF Classify, Goto
<1>4. Nothing(t)' /\ History(t)'
  BY <1>1, <1>2 DEF History, Nothing
<1>5. PhaseInv(t)'
  BY <1>1, <1>2, <1>3, <1>4 DEF PhaseInv, Alarming, Loaded, Unsent
<1>6. SilenceInv(t)'
  BY <1>2, <1>3, TaskAssumption DEF SilenceInv
<1>7. AuditInv(t)'
  <2> SUFFICES ASSUME NEW row \in audit[t] PROVE RowInv(t, row)'
    BY <1>2 DEF AuditInv
  <2>1. RowInv(t, row)
    BY DEF TaskInv, AuditInv
  <2>2. QED
    BY <1>1, <1>2, <2>1 DEF RowInv, AfterFailure
<1>8. DlqInv(t)'
  BY <1>1, <1>2, <1>3 DEF DlqInv
<1>9. QED
  BY <1>4, <1>5, <1>6, <1>7, <1>8 DEF TaskInv

\* What sending does to the history and to the audit rows.
LEMMA SendEffect ==
    ASSUME NEW t \in Tasks, TypeOK, TaskInv(t), phase[t] \in Loaded,
           NEW kind \in {"classified", "fallback"}, Send(t, kind),
           retries' = retries, owners' = owners, dlq' = dlq,
           phase'[t] \in {"remind", "finish"}
    PROVE  /\ \E a \in SentAs(t, kind)' : alerts'[t] = Append(alerts[t], a)
           /\ AuditInv(t)'
<1>1. PICK ok \in BOOLEAN, written \in BOOLEAN :
        /\ alerts' = [alerts EXCEPT ![t] =
               Append(@, [attempt |-> retries[t], kind |-> kind,
                          to |-> recipient[t], ok |-> ok])]
        /\ audit' = [audit EXCEPT ![t] = @ \cup
               (IF written
                THEN {[attempt |-> retries[t], event |-> "notification",
                       status |-> IF ok THEN "success" ELSE "failed"]}
                ELSE {})]
  BY DEF Send, LogAudit
<1> DEFINE new == [attempt |-> retries[t], kind |-> kind, to |-> recipient[t], ok |-> ok]
           note == [attempt |-> retries[t], event |-> "notification",
                    status |-> IF ok THEN "success" ELSE "failed"]
<1>2. /\ recipient[t] \in owners[t] /\ owners[t] \in SUBSET Users /\ retries[t] \in Nat
      /\ alerts[t] \in Seq(AlertType) /\ audit[t] \in SUBSET AuditType
  BY TaskAssumption DEF TypeOK, TaskInv, PhaseInv
<1>3. new \in AlertType
  BY <1>2 DEF AlertType
<1>4. alerts'[t] = Append(alerts[t], new) /\ audit'[t] \subseteq audit[t] \cup {note}
  BY <1>1 DEF TypeOK
<1>5. new \in SentAs(t, kind)'
  BY <1>2, <1>3 DEF SentAs
<1>6. ASSUME NEW row \in audit'[t] PROVE RowInv(t, row)'
  <2> HIDE DEF new
  <2>1. /\ Len(alerts'[t]) = Len(alerts[t]) + 1
        /\ DOMAIN alerts'[t] = 1 .. Len(alerts[t]) + 1
        /\ DOMAIN alerts[t] = 1 .. Len(alerts[t])
        /\ Len(alerts[t]) \in Nat
        /\ \A i \in 1 .. Len(alerts[t]) : alerts'[t][i] = alerts[t][i]
        /\ alerts'[t][Len(alerts[t]) + 1] = new
    BY <1>2, <1>3, <1>4
  <2>2. CASE row = note
    <3>1. /\ row.event = "notification" /\ row.attempt = new.attempt
          /\ new.ok <=> (row.status = "success")
      BY <2>2 DEF new
    <3>2. QED
      BY <2>1, <3>1 DEF RowInv
  <2>3. CASE row \in audit[t]
    <3>1. RowInv(t, row)
      BY <2>3 DEF TaskInv, AuditInv
    <3>2. phase[t] \notin AfterFailure /\ phase[t] # "succeeded"
      BY DEF Loaded, AfterFailure
    <3>3. row.event = "notification" =>
            \E i \in DOMAIN alerts'[t] :
               /\ alerts'[t][i].attempt = row.attempt
               /\ alerts'[t][i].ok <=> (row.status = "success")
      BY <2>1, <3>1 DEF RowInv
    <3>4. QED
      BY <3>1, <3>2, <3>3 DEF RowInv
  <2>4. QED
    BY <1>4, <2>2, <2>3
<1>7. QED
  BY <1>4, <1>5, <1>6 DEF AuditInv

LEMMA AlertStep ==
    ASSUME NEW t \in Tasks, TypeOK, TaskInv(t), Alert(t)
    PROVE  TaskInv(t)'
<1>1. /\ phase[t] = "alert" /\ phase'[t] = "remind"
      /\ alerts[t] = <<>> /\ reminders[t] = 0 /\ dlq[t] = "no"
      /\ recipient[t] \in owners[t] /\ Alarming(t)
  BY DEF Alert, Goto, TypeOK, TaskInv, PhaseInv, DlqInv, Nothing, Unsent, Loaded
<1>2. /\ reminders' = reminders /\ dlq' = dlq /\ retries' = retries /\ matched' = matched
      /\ recipient' = recipient /\ owners' = owners /\ verdict' = verdict
  BY DEF Alert, attemptVars
<1>3. /\ \E a \in SentAs(t, "classified")' : alerts'[t] = Append(alerts[t], a)
      /\ AuditInv(t)'
  BY <1>1, <1>2, SendEffect DEF Alert, Loaded
<1>4. PICK a \in SentAs(t, "classified")' : alerts'[t] = <<a>>
  BY <1>1, <1>3
<1>5. Alarming(t)' /\ Notified(t)'
  BY <1>1, <1>2, <1>4 DEF Alarming, Notified
<1>6. History(t)'
  BY <1>1, <1>2, <1>5 DEF History
<1>7. PhaseInv(t)'
  BY <1>1, <1>2, <1>5 DEF PhaseInv, Unsent
<1>8. SilenceInv(t)' /\ DlqInv(t)'
  BY <1>1, <1>2 DEF SilenceInv, DlqInv
<1>9. QED
  BY <1>3, <1>6, <1>7, <1>8 DEF TaskInv

LEMMA RemindStep ==
    ASSUME NEW t \in Tasks, TypeOK, TaskInv(t), Remind(t)
    PROVE  TaskInv(t)'
<1>1. /\ phase[t] = "remind" /\ Notified(t) /\ reminders[t] = 0 /\ dlq[t] = "no"
      /\ recipient[t] \in owners[t]
  BY DEF Remind, TaskInv, PhaseInv, DlqInv, Loaded
<1>2. /\ alerts' = alerts /\ audit' = audit /\ dlq' = dlq /\ retries' = retries
      /\ matched' = matched /\ recipient' = recipient /\ owners' = owners
      /\ verdict' = verdict
  BY DEF Remind, attemptVars
<1>3. /\ reminders'[t] \in 0 .. 1
      /\ \/ phase'[t] = "finish" /\ (reminders'[t] = 1 => WantsReminder(verdict[t]))
         \/ phase'[t] = "fallback" /\ WantsReminder(verdict[t])
  BY <1>1 DEF Remind, Goto, TypeOK
<1>4. Notified(t)'
  BY <1>1, <1>2, <1>3 DEF Notified, SentAs, Alarming
<1>5. History(t)'
  BY <1>3, <1>4 DEF History
<1>6. PhaseInv(t)'
  BY <1>1, <1>2, <1>3, <1>4 DEF PhaseInv, Unsent
<1>7. SilenceInv(t)'
  <2>1. PICK a \in SentAs(t, "classified")' : alerts'[t] = <<a>>
    BY <1>4 DEF Notified
  <2>2. alerts'[t] # <<>>
    BY <2>1
  <2>3. QED
    BY <2>2 DEF SilenceInv
<1>8. AuditInv(t)'
  <2> SUFFICES ASSUME NEW row \in audit[t] PROVE RowInv(t, row)'
    BY <1>2 DEF AuditInv
  <2>1. RowInv(t, row)
    BY DEF TaskInv, AuditInv
  <2>2. QED
    BY <1>1, <1>2, <2>1 DEF RowInv, AfterFailure
<1>9. DlqInv(t)'
  BY <1>1, <1>2, <1>3 DEF DlqInv
<1>10. QED
  BY <1>5, <1>6, <1>7, <1>8, <1>9 DEF TaskInv

\* A second element appended to a sequence of one.
LEMMA AppendToOne ==
    ASSUME NEW S, NEW a \in S, NEW b \in S
    PROVE  Append(<<a>>, b) = <<a, b>>
<1>1. Append(<<a>>, b) \in Seq(S) /\ <<a, b>> \in Seq(S) /\ <<a>> \in Seq(S)
  OBVIOUS
<1>2. Len(Append(<<a>>, b)) = 2 /\ Len(<<a, b>>) = 2 /\ Len(<<a>>) = 1
  BY <1>1
<1>3. Append(<<a>>, b)[1] = a /\ Append(<<a>>, b)[2] = b
  BY <1>1, <1>2
<1>4. \A i \in 1 .. 2 : Append(<<a>>, b)[i] = <<a, b>>[i]
  <2>1. \A i \in 1 .. 2 : i = 1 \/ i = 2
    OBVIOUS
  <2>2. QED
    BY <1>3, <2>1
<1>5. QED
  BY <1>1, <1>2, <1>4, SeqEqual

LEMMA FallbackStep ==
    ASSUME NEW t \in Tasks, TypeOK, TaskInv(t), Fallback(t)
    PROVE  TaskInv(t)'
<1>1. /\ phase[t] = "fallback" /\ phase'[t] = "finish" /\ dlq[t] = "no"
      /\ Nothing(t) \/ (Notified(t) /\ WantsReminder(verdict[t]))
      /\ reminders[t] \in 0 .. 1
  BY DEF Fallback, Goto, TypeOK, TaskInv, PhaseInv, History, DlqInv
<1>2. /\ reminders' = reminders /\ dlq' = dlq /\ retries' = retries /\ matched' = matched
      /\ recipient' = recipient /\ owners' = owners /\ verdict' = verdict
  BY DEF Fallback, attemptVars
<1>3. /\ \E b \in SentAs(t, "fallback")' : alerts'[t] = Append(alerts[t], b)
      /\ AuditInv(t)'
  BY <1>1, <1>2, SendEffect DEF Fallback, Loaded
<1>4. PICK b \in SentAs(t, "fallback")' : alerts'[t] = Append(alerts[t], b)
  BY <1>3
<1>5. CASE Nothing(t)
  <2>1. alerts'[t] = <<b>>
    BY <1>4, <1>5 DEF Nothing
  <2>2. FellBack(t)' /\ History(t)'
    BY <1>2, <1>5, <2>1 DEF FellBack, History, Nothing
  <2>3. QED
    BY <1>1, <1>2, <1>3, <2>1, <2>2 DEF TaskInv, PhaseInv, Unsent, Loaded, SilenceInv, DlqInv
<1>6. CASE Notified(t) /\ WantsReminder(verdict[t])
  <2>1. PICK a \in SentAs(t, "classified") : alerts[t] = <<a>>
    BY <1>6 DEF Notified
  <2>2. alerts'[t] = <<a, b>>
    <3>1. alerts'[t] = Append(<<a>>, b)
      BY <1>4, <2>1
    <3>2. a \in AlertType /\ b \in AlertType
      BY DEF SentAs, AlertType
    <3>3. Append(<<a>>, b) = <<a, b>>
      BY <3>2, AppendToOne
    <3>4. QED
      BY <3>1, <3>3
  <2>3. a \in SentAs(t, "classified")'
    BY <1>2 DEF SentAs
  <2>4. SentBoth(t)' /\ History(t)'
    BY <1>1, <1>2, <1>6, <2>2, <2>3 DEF SentBoth, History, Notified, Alarming
  <2>5. QED
    BY <1>1, <1>2, <1>3, <2>2, <2>4 DEF TaskInv, PhaseInv, Unsent, Loaded, SilenceInv, DlqInv
<1>7. QED
  BY <1>1, <1>5, <1>6

LEMMA FinishStep ==
    ASSUME NEW t \in Tasks, TypeOK, TaskInv(t), Finish(t)
    PROVE  TaskInv(t)'
<1>1. phase[t] = "finish" /\ phase'[t] = "succeeded" /\ dlq[t] = "no"
  BY DEF Finish, Goto, TypeOK, TaskInv, DlqInv
<1>2. /\ alerts' = alerts /\ reminders' = reminders /\ dlq' = dlq /\ retries' = retries
      /\ matched' = matched /\ recipient' = recipient /\ owners' = owners
      /\ verdict' = verdict
  BY DEF Finish, attemptVars
<1>3. History(t)'
  BY <1>2 DEF TaskInv, History, Nothing, Notified, FellBack, SentBoth, SentAs, Alarming
<1>4. PhaseInv(t)' /\ SilenceInv(t)' /\ DlqInv(t)'
  BY <1>1, <1>2 DEF TaskInv, PhaseInv, SilenceInv, DlqInv, Unsent, Loaded
<1>5. AuditInv(t)'
  <2> SUFFICES ASSUME NEW row \in audit'[t] PROVE RowInv(t, row)'
    BY DEF AuditInv
  <2>1. \/ row \in audit[t]
        \/ row = [attempt |-> retries[t], event |-> "email_processed", status |-> "success"]
    BY LogAuditRows DEF Finish
  <2>2. CASE row \in audit[t]
    BY <1>1, <1>2, <2>2 DEF TaskInv, AuditInv, RowInv, AfterFailure
  <2>3. CASE row = [attempt |-> retries[t], event |-> "email_processed", status |-> "success"]
    BY <1>1, <2>3 DEF RowInv
  <2>4. QED
    BY <2>1, <2>2, <2>3
<1>6. QED
  BY <1>3, <1>4, <1>5 DEF TaskInv

LEMMA FailingStep ==
    ASSUME NEW t \in Tasks, TypeOK, TaskInv(t), Failing(t)
    PROVE  TaskInv(t)'
<1>1. /\ phase[t] = "failing" /\ phase'[t] = "retry" /\ dlq[t] = "no"
      /\ alerts[t] = <<>> /\ retries[t] \in Nat
  BY TaskAssumption DEF Failing, Goto, TypeOK, TaskInv, DlqInv, PhaseInv, Nothing, Unsent
<1>2. /\ alerts' = alerts /\ reminders' = reminders /\ dlq' = dlq /\ retries' = retries
      /\ matched' = matched /\ recipient' = recipient /\ owners' = owners
      /\ verdict' = verdict
  BY DEF Failing, attemptVars
<1>3. History(t)'
  BY <1>2 DEF TaskInv, History, Nothing, Notified, FellBack, SentBoth, SentAs, Alarming
<1>4. PhaseInv(t)' /\ SilenceInv(t)' /\ DlqInv(t)'
  BY <1>1, <1>2 DEF TaskInv, PhaseInv, SilenceInv, DlqInv, Unsent, Loaded, Nothing
<1>5. AuditInv(t)'
  <2> SUFFICES ASSUME NEW row \in audit'[t] PROVE RowInv(t, row)'
    BY DEF AuditInv
  <2>1. \/ row \in audit[t]
        \/ row = [attempt |-> retries[t], event |-> "email_processed", status |-> "failed"]
    BY LogAuditRows DEF Failing
  <2>2. CASE row \in audit[t]
    BY <1>1, <1>2, <2>2 DEF TaskInv, AuditInv, RowInv, AfterFailure
  <2>3. CASE row = [attempt |-> retries[t], event |-> "email_processed", status |-> "failed"]
    BY <1>1, <1>2, <2>3 DEF RowInv, AfterFailure
  <2>4. QED
    BY <2>1, <2>2, <2>3
<1>6. QED
  BY <1>3, <1>4, <1>5 DEF TaskInv

\* The dead-letter row and its audit row: only a task out of retries, which has
\* sent nothing, gets here.
LEMMA DeadLetterStep ==
    ASSUME NEW t \in Tasks, TypeOK, TaskInv(t), DeadLetter(t)
    PROVE  TaskInv(t)'
<1>1. /\ phase[t] = "exhausted" /\ phase'[t] = "failed" /\ dlq[t] = "no"
      /\ alerts[t] = <<>> /\ reminders[t] = 0 /\ retries[t] = MaxRetries
  BY DEF DeadLetter, Goto, TypeOK, TaskInv, DlqInv, PhaseInv, Nothing, Unsent
<1>2. /\ alerts' = alerts /\ reminders' = reminders /\ retries' = retries
  BY DEF DeadLetter
<1>3. dlq'[t] \in {"written", "writefailed"}
  BY DEF DeadLetter, TypeOK
<1>4. Nothing(t)' /\ History(t)'
  BY <1>1, <1>2 DEF History, Nothing
<1>5. PhaseInv(t)' /\ SilenceInv(t)' /\ DlqInv(t)'
  BY <1>1, <1>2, <1>3, <1>4 DEF PhaseInv, SilenceInv, DlqInv, Loaded
<1>6. AuditInv(t)'
  <2> SUFFICES ASSUME NEW row \in audit'[t] PROVE RowInv(t, row)'
    BY DEF AuditInv
  <2>1. \/ row \in audit[t]
        \/ /\ row = [attempt |-> retries[t], event |-> "dlq_routing", status |-> "success"]
           /\ dlq'[t] = "written"
    <3>1. CASE dlq' = [dlq EXCEPT ![t] = "written"] /\ LogAudit(t, "dlq_routing", "success")
      BY <3>1, LogAuditRows DEF TypeOK
    <3>2. CASE audit' = audit
      BY <3>2
    <3>3. QED
      BY <3>1, <3>2 DEF DeadLetter
  <2>2. CASE row \in audit[t]
    BY <1>1, <1>2, <2>2 DEF TaskInv, AuditInv, RowInv, AfterFailure
  <2>3. CASE /\ row = [attempt |-> retries[t], event |-> "dlq_routing", status |-> "success"]
             /\ dlq'[t] = "written"
    BY <2>3 DEF RowInv
  <2>4. QED
    BY <2>1, <2>2, <2>3
<1>7. QED
  BY <1>4, <1>5, <1>6 DEF TaskInv

LEMMA CrashStep ==
    ASSUME NEW t \in Tasks, TypeOK, TaskInv(t), Crash(t)
    PROVE  TaskInv(t)'
<1>1. phase[t] \in Running /\ phase'[t] = "crashed" /\ dlq[t] = "no"
  BY DEF Crash, Goto, TypeOK, TaskInv, DlqInv, Running
<1>2. /\ alerts' = alerts /\ reminders' = reminders /\ dlq' = dlq /\ retries' = retries
      /\ matched' = matched /\ recipient' = recipient /\ owners' = owners
      /\ verdict' = verdict /\ audit' = audit
  BY DEF Crash, attemptVars, outputVars
<1>3. History(t)'
  BY <1>2 DEF TaskInv, History, Nothing, Notified, FellBack, SentBoth, SentAs, Alarming
<1>4. PhaseInv(t)' /\ SilenceInv(t)' /\ DlqInv(t)'
  BY <1>1, <1>2 DEF TaskInv, PhaseInv, SilenceInv, DlqInv, Unsent, Loaded
<1>5. AuditInv(t)'
  <2> SUFFICES ASSUME NEW row \in audit[t] PROVE RowInv(t, row)'
    BY <1>2 DEF AuditInv
  <2>1. RowInv(t, row)
    BY DEF TaskInv, AuditInv
  <2>2. QED
    BY <1>1, <1>2, <2>1 DEF RowInv, AfterFailure, Running
<1>6. QED
  BY <1>3, <1>4, <1>5 DEF TaskInv

\* Relinking an account only adds owners while an attempt runs, so the row the
\* attempt loaded stays one of them.
LEMMA CallbackStep ==
    ASSUME TypeOK, NEW u \in Users, NEW m \in Mailboxes, Callback(u, m),
           NEW t \in Tasks, TaskInv(t)
    PROVE  TaskInv(t)'
<1>1. /\ alerts' = alerts /\ reminders' = reminders /\ dlq' = dlq /\ retries' = retries
      /\ matched' = matched /\ recipient' = recipient
      /\ verdict' = verdict /\ audit' = audit /\ phase' = phase
  BY DEF Callback, outputVars
<1>2. /\ owners[t] \subseteq owners'[t]
      /\ phase[t] \in Running /\ MailboxOf[t] = m => u \in owners'[t]
  BY DEF Callback
<1>3. SentAs(t, "classified") \subseteq SentAs(t, "classified")'
  BY <1>1, <1>2 DEF SentAs
<1>4. SentAs(t, "fallback") \subseteq SentAs(t, "fallback")'
  BY <1>1, <1>2 DEF SentAs
<1>5. /\ Nothing(t) => Nothing(t)'
      /\ Notified(t) => Notified(t)'
      /\ FellBack(t) => FellBack(t)'
      /\ SentBoth(t) => SentBoth(t)'
  BY <1>1, <1>3, <1>4 DEF Nothing, Notified, FellBack, SentBoth, Alarming
<1>6. History(t)'
  BY <1>1, <1>5 DEF TaskInv, History
<1>7. PhaseInv(t)'
  <2>1. phase[t] = "load" => LinkedTo(MailboxOf[t])' \subseteq owners'[t]
    BY <1>2 DEF Callback, LinkedTo, TypeOK, TaskInv, PhaseInv, Running
  <2>2. QED
    BY <1>1, <1>2, <1>5, <2>1 DEF TaskInv, PhaseInv, Alarming
<1>8. SilenceInv(t)' /\ DlqInv(t)'
  BY <1>1 DEF TaskInv, SilenceInv, DlqInv
<1>9. AuditInv(t)'
  BY <1>1 DEF TaskInv, AuditInv, RowInv
<1>10. QED
  BY <1>6, <1>7, <1>8, <1>9 DEF TaskInv
-----------------------------------------------------------------------------
LEMMA InvInit == Init => IInv
<1> SUFFICES ASSUME Init PROVE IInv
  OBVIOUS
<1>1. TypeOK
  BY TaskAssumption DEF Init, TypeOK, Phases
<1>2. ASSUME NEW t \in Tasks PROVE TaskInv(t)
  <2>1. /\ phase[t] = "absent" /\ alerts[t] = <<>> /\ reminders[t] = 0
        /\ audit[t] = {} /\ dlq[t] = "no"
    BY DEF Init
  <2>2. QED
    BY <2>1 DEF TaskInv, History, PhaseInv, SilenceInv, AuditInv, DlqInv, Nothing, Unsent,
                Loaded
<1>3. QED
  BY <1>1, <1>2 DEF IInv

LEMMA InvStep == IInv /\ [Next]_vars => IInv'
<1> SUFFICES ASSUME IInv, [Next]_vars PROVE IInv'
  OBVIOUS
<1>1. TypeOK /\ \A t \in Tasks : TaskInv(t)
  BY DEF IInv
<1>2. TypeOK'
  BY TypeStep
<1>3. ASSUME NEW t \in Tasks, Enqueue(t) \/ Work(t) \/ Crash(t), NEW u \in Tasks
      PROVE  TaskInv(u)'
  <2>1. CASE u = t
    BY <1>1, <1>3, <2>1, QuietSteps, ClassifyStep, AlertStep, RemindStep, FallbackStep,
       FinishStep, FailingStep, DeadLetterStep, CrashStep DEF Work
  <2>2. CASE u # t
    BY <1>1, <1>3, <2>2, OthersStay, SameKeepsTaskInv
  <2>3. QED
    BY <2>1, <2>2
<1>4. ASSUME NEW v \in Users, NEW m \in Mailboxes, Callback(v, m), NEW u \in Tasks
      PROVE  TaskInv(u)'
  BY <1>1, <1>4, CallbackStep
<1>5. ASSUME UNCHANGED vars, NEW u \in Tasks
      PROVE  TaskInv(u)'
  <2>1. Same(u)
    BY <1>5 DEF vars, Same
  <2>2. QED
    BY <1>1, <2>1, SameKeepsTaskInv
<1>6. \A u \in Tasks : TaskInv(u)'
  BY <1>3, <1>4, <1>5 DEF Next
<1>7. QED
  BY <1>2, <1>6 DEF IInv

\* The invariant holds throughout.
LEMMA InvAlways == Spec => []IInv
  BY InvInit, InvStep, PTL DEF Spec

\* Type correctness; in particular an alert is only ever addressed to a user row
\* that was loaded, never to "no user" (email_tasks.py:154-155, 303, 364).
THEOREM TypeCorrect == Spec => []TypeOK
<1>1. IInv => TypeOK
  BY DEF IInv
<1>2. QED
  BY InvAlways, <1>1, PTL

\* The alerts of every history were sent by the current attempt to an owner.
LEMMA HistoryAlerts ==
    ASSUME NEW t \in Tasks, History(t), NEW i \in DOMAIN alerts[t]
    PROVE  alerts[t][i].attempt = retries[t] /\ alerts[t][i].to \in owners[t]
<1>1. CASE Nothing(t)
  BY <1>1 DEF Nothing
<1>2. CASE Notified(t)
  <2>1. PICK a \in SentAs(t, "classified") : alerts[t] = <<a>>
    BY <1>2 DEF Notified
  <2>2. QED
    BY <2>1 DEF SentAs
<1>3. CASE FellBack(t)
  <2>1. PICK a \in SentAs(t, "fallback") : alerts[t] = <<a>>
    BY <1>3 DEF FellBack
  <2>2. QED
    BY <2>1 DEF SentAs
<1>4. CASE SentBoth(t)
  <2>1. PICK a \in SentAs(t, "classified"), b \in SentAs(t, "fallback") :
            alerts[t] = <<a, b>>
    BY <1>4 DEF SentBoth
  <2>2. QED
    BY <2>1 DEF SentAs
<1>5. QED
  BY <1>1, <1>2, <1>3, <1>4 DEF History

\* Phases in which a task may have alerts: all but Unsent.
LEMMA AlertPhases ==
    ASSUME TypeOK, NEW t \in Tasks, TaskInv(t), alerts[t] # <<>>
    PROVE  phase[t] \in {"remind", "fallback", "finish", "succeeded", "crashed"}
<1>1. phase[t] \in Phases /\ phase[t] \notin Unsent
  BY DEF TypeOK, TaskInv, PhaseInv, Nothing
<1>2. QED
  BY <1>1 DEF Phases, Running, Terminal, Unsent

\* Retries never repeat an alert, however many there are: an event that has
\* produced one does not go back to the queue or fail (email_tasks.py:303-413,
\* 484-488).
THEOREM RetriesNeverRepeatAlerts == Spec => []AlertOnlyInFinalAttempt
<1>1. IInv => AlertOnlyInFinalAttempt
  <2> SUFFICES ASSUME IInv, NEW t \in Tasks, alerts[t] # <<>>
               PROVE  /\ \A i \in DOMAIN alerts[t] : alerts[t][i].attempt = retries[t]
                      /\ phase[t] \in {"remind", "fallback", "finish", "succeeded", "crashed"}
    BY DEF AlertOnlyInFinalAttempt
  <2>1. TypeOK /\ TaskInv(t) /\ History(t)
    BY DEF IInv, TaskInv
  <2>2. QED
    BY <2>1, HistoryAlerts, AlertPhases
<1>2. QED
  BY InvAlways, <1>1, PTL

\* One event alerts the student once, twice only when a reminder could not be
\* saved after the first alert (email_tasks.py:353).
THEOREM AtMostOneExtraAlert == Spec => []SecondAlertOnlyAfterReminderFailure
<1>1. IInv => SecondAlertOnlyAfterReminderFailure
  <2> SUFFICES ASSUME IInv, NEW t \in Tasks
               PROVE  /\ Len(alerts[t]) <= 2
                      /\ Len(alerts[t]) = 2 =>
                             /\ alerts[t][1].kind = "classified"
                             /\ alerts[t][2].kind = "fallback"
                             /\ WantsReminder(verdict[t])
    BY DEF SecondAlertOnlyAfterReminderFailure
  <2>1. History(t)
    BY DEF IInv, TaskInv
  <2>2. CASE Nothing(t)
    BY <2>2 DEF Nothing
  <2>3. CASE Notified(t) \/ FellBack(t)
    <3>1. PICK a \in AlertType : alerts[t] = <<a>>
      BY <2>3 DEF Notified, FellBack, SentAs
    <3>2. QED
      BY <3>1
  <2>4. CASE SentBoth(t)
    <3>1. PICK a \in SentAs(t, "classified"), b \in SentAs(t, "fallback") :
              alerts[t] = <<a, b>>
      BY <2>4 DEF SentBoth
    <3>2. QED
      BY <2>4, <3>1 DEF SentAs, SentBoth
  <2>5. QED
    BY <2>1, <2>2, <2>3, <2>4 DEF History
<1>2. QED
  BY InvAlways, <1>1, PTL

\* A reminder is saved at most once per event and never for an e-mail the
\* student was not alerted to (email_tasks.py:323-350).
THEOREM RemindersFollowAlerts == Spec => []ReminderFollowsAlert
<1>1. IInv => ReminderFollowsAlert
  <2> SUFFICES ASSUME IInv, NEW t \in Tasks
               PROVE  /\ reminders[t] <= 1
                      /\ reminders[t] = 1 =>
                            /\ WantsReminder(verdict[t])
                            /\ ShouldNotify(matched[t], verdict[t])
                            /\ alerts[t] # <<>> /\ alerts[t][1].kind = "classified"
    BY DEF ReminderFollowsAlert
  <2>1. History(t)
    BY DEF IInv, TaskInv
  <2>2. CASE Nothing(t) \/ FellBack(t)
    BY <2>2 DEF Nothing, FellBack
  <2>3. CASE Notified(t)
    <3>1. PICK a \in SentAs(t, "classified") : alerts[t] = <<a>>
      BY <2>3 DEF Notified
    <3>2. QED
      BY <2>1, <2>3, <3>1 DEF SentAs, History, Notified, Alarming
  <2>4. CASE SentBoth(t)
    <3>1. PICK a \in SentAs(t, "classified"), b \in SentAs(t, "fallback") :
              alerts[t] = <<a, b>>
      BY <2>4 DEF SentBoth
    <3>2. QED
      BY <2>1, <2>4, <3>1 DEF SentAs, History, SentBoth, Alarming
  <2>5. QED
    BY <2>1, <2>2, <2>3, <2>4 DEF History
<1>2. QED
  BY InvAlways, <1>1, PTL

\* A success without an alert means that the e-mail was classified and found not
\* to concern the student (email_tasks.py:276-284, 353-406).
THEOREM SilenceMeansIrrelevant == Spec => []SilenceIsDeliberate
<1>1. IInv => SilenceIsDeliberate
  BY DEF IInv, TaskInv, SilenceInv, SilenceIsDeliberate
<1>2. QED
  BY InvAlways, <1>1, PTL

\* However accounts are relinked while attempts run, alerts go to accounts that
\* were linked to the mailbox in the attempt that sent them
\* (email_tasks.py:150-152, 303, 364; auth.py:127-142).
THEOREM AlertsReachOwners == Spec => []AlertReachesAnOwner
<1>1. IInv => AlertReachesAnOwner
  BY HistoryAlerts DEF IInv, TaskInv, AlertReachesAnOwner
<1>2. QED
  BY InvAlways, <1>1, PTL

\* The audit log never contradicts what was sent (email_tasks.py:306-321,
\* 408-424).
THEOREM AuditIsTruthful == Spec => []AuditAgreesWithHistory
<1>1. IInv => AuditAgreesWithHistory
  <2> SUFFICES ASSUME IInv, NEW t \in Tasks, NEW row \in audit[t],
                      NEW sent, sent = {i \in DOMAIN alerts[t] :
                                           alerts[t][i].attempt = row.attempt}
               PROVE  /\ row.event = "email_processed" /\ row.status = "failed" => sent = {}
                      /\ row.event = "email_processed" /\ row.status = "success" =>
                             phase[t] = "succeeded"
                      /\ row.event = "dlq_routing" => dlq[t] = "written"
                      /\ row.event = "notification" =>
                             \E i \in sent : alerts[t][i].ok <=> (row.status = "success")
    BY DEF AuditAgreesWithHistory
  <2>1. TypeOK /\ TaskInv(t) /\ History(t) /\ RowInv(t, row)
    BY DEF IInv, TaskInv, AuditInv
  <2>2. \A i \in DOMAIN alerts[t] : alerts[t][i].attempt = retries[t]
    BY <2>1, HistoryAlerts
  <2>3. ASSUME row.event = "email_processed", row.status = "failed", NEW i \in sent
        PROVE  FALSE
    <3>1. row.attempt = retries[t] /\ i \in DOMAIN alerts[t]
      BY <2>2, <2>3
    <3>2. alerts[t] = <<>>
      BY <2>1, <2>3, <3>1 DEF RowInv
    <3>3. QED
      BY <3>1, <3>2
  <2>4. QED
    BY <2>1, <2>3 DEF RowInv
<1>2. QED
  BY InvAlways, <1>1, PTL
-----------------------------------------------------------------------------
\* The values of the refinement mapping, phase by phase.
LEMMA OutcomeValues ==
    ASSUME TypeOK, NEW t \in Tasks, TaskInv(t)
    PROVE  /\ phase[t] = "absent" => OutcomeOf(t) = "none"
           /\ alerts[t] # <<>> => OutcomeOf(t) = "notified"
           /\ alerts[t] = <<>> /\ phase[t] = "succeeded" => OutcomeOf(t) = "dismissed"
           /\ alerts[t] = <<>> /\ phase[t] = "failed" => OutcomeOf(t) = "givenup"
           /\ alerts[t] = <<>> /\ phase[t] \in {"crashed", "dropped"} => OutcomeOf(t) = "lost"
           /\ alerts[t] = <<>> /\ phase[t] \notin Terminal \cup {"absent"} =>
                  OutcomeOf(t) = "pending"
  BY DEF OutcomeOf, TaskInv, PhaseInv, Unsent, Nothing, Terminal

\* What a step of a task does to its outcome and its tries.
Moves(t) ==
    \/ OutcomeOf(t)' = OutcomeOf(t) /\ retries' = retries
    \/ OutcomeOf(t) = "none" /\ OutcomeOf(t)' = "pending" /\ retries' = retries
    \/ /\ OutcomeOf(t) = "pending" /\ OutcomeOf(t)' = "pending"
       /\ retries[t] < MaxRetries /\ retries' = [retries EXCEPT ![t] = @ + 1]
    \/ /\ OutcomeOf(t) = "pending"
       /\ OutcomeOf(t)' \in {"notified", "dismissed", "givenup", "lost"}
       /\ OutcomeOf(t)' = "givenup" => retries[t] = MaxRetries
       /\ retries' = retries

LEMMA TaskMoves ==
    ASSUME IInv, IInv', NEW t \in Tasks, Enqueue(t) \/ Work(t) \/ Crash(t)
    PROVE  Moves(t)
<1>1. TypeOK /\ TypeOK' /\ TaskInv(t) /\ TaskInv(t)'
  BY DEF IInv
<1>2. /\ phase[t] \in Unsent => alerts[t] = <<>>
      /\ phase'[t] \in Unsent => alerts'[t] = <<>>
  BY <1>1 DEF TaskInv, PhaseInv, Nothing
<1>3. /\ phase'[t] = "absent" => OutcomeOf(t)' = "none"
      /\ alerts'[t] # <<>> => OutcomeOf(t)' = "notified"
      /\ alerts'[t] = <<>> /\ phase'[t] = "succeeded" => OutcomeOf(t)' = "dismissed"
      /\ alerts'[t] = <<>> /\ phase'[t] = "failed" => OutcomeOf(t)' = "givenup"
      /\ alerts'[t] = <<>> /\ phase'[t] \in {"crashed", "dropped"} => OutcomeOf(t)' = "lost"
      /\ alerts'[t] = <<>> /\ phase'[t] \notin Terminal \cup {"absent"} =>
             OutcomeOf(t)' = "pending"
  BY <1>1 DEF OutcomeOf, TaskInv, PhaseInv, Unsent, Nothing, Terminal
<1> USE OutcomeValues, <1>1, <1>2, <1>3
    DEF Goto, TypeOK, accountVars, attemptVars, outputVars, Unsent, Terminal
<1>4. CASE Enqueue(t)
  BY <1>4 DEF Enqueue, Moves
<1>5. CASE Start(t) \/ LoadUser(t) \/ FetchMessage(t) \/ Scan(t) \/ Failing(t)
  <2>1. /\ phase[t] \in {"queued", "waiting", "load", "fetch", "scan", "failing"}
        /\ phase'[t] \in {"load", "fetch", "scan", "classify", "failing", "retry"}
        /\ retries' = retries
    BY <1>5 DEF Start, LoadUser, FetchMessage, Scan, Failing
  <2>2. QED
    BY <2>1 DEF Moves
<1>6. CASE Classify(t)
  <2>1. /\ phase[t] = "classify" /\ alerts' = alerts /\ retries' = retries
        /\ phase'[t] \in {"alert", "finish", "fallback"}
    BY <1>6 DEF Classify
  <2>2. QED
    BY <2>1 DEF Moves
<1>7. CASE Alert(t) \/ Fallback(t)
  <2>1. /\ phase[t] \in {"alert", "fallback"} /\ retries' = retries
        /\ phase'[t] \in {"remind", "finish"}
    BY <1>7 DEF Alert, Fallback
  <2>2. alerts'[t] # <<>>
    <3>1. phase[t] \in Loaded
      BY <2>1 DEF Loaded
    <3>2. \E kind \in {"classified", "fallback"} : Send(t, kind)
      BY <1>7 DEF Alert, Fallback
    <3>3. owners' = owners /\ dlq' = dlq
      BY <1>7 DEF Alert, Fallback
    <3>4. PICK a : a \in AlertType /\ alerts'[t] = Append(alerts[t], a)
      BY <1>1, <2>1, <3>1, <3>2, <3>3, SendEffect DEF SentAs
    <3>5. QED
      BY <3>4
  <2>3. QED
    BY <2>1, <2>2 DEF Moves
<1>8. CASE Remind(t)
  <2>1. /\ phase[t] = "remind" /\ alerts' = alerts /\ retries' = retries
    BY <1>8 DEF Remind
  <2>2. PICK a \in SentAs(t, "classified") : alerts[t] = <<a>>
    BY <2>1 DEF TaskInv, PhaseInv, Notified
  <2>3. alerts[t] # <<>>
    BY <2>2
  <2>4. QED
    BY <2>1, <2>3 DEF Moves
<1>9. CASE Finish(t)
  <2>1. /\ phase[t] = "finish" /\ phase'[t] = "succeeded"
        /\ alerts' = alerts /\ retries' = retries
    BY <1>9 DEF Finish
  <2>2. QED
    BY <2>1 DEF Moves
<1>10. CASE Retry(t)
  <2>1. phase[t] = "retry"
    BY <1>10 DEF Retry
  <2>2. \/ /\ phase'[t] = "waiting" /\ retries[t] < MaxRetries
           /\ retries' = [retries EXCEPT ![t] = @ + 1]
        \/ phase'[t] = "dropped" /\ retries' = retries
        \/ /\ phase'[t] \in {"failed", "exhausted"} /\ retries[t] = MaxRetries
           /\ retries' = retries
    BY <1>10 DEF Retry
  <2>3. QED
    BY <2>1, <2>2 DEF Moves
<1>11. CASE DeadLetter(t)
  <2>1. /\ phase[t] = "exhausted" /\ phase'[t] = "failed" /\ retries' = retries
    BY <1>11 DEF DeadLetter
  <2>2. retries[t] = MaxRetries
    BY <2>1 DEF TaskInv, DlqInv
  <2>3. QED
    BY <2>1, <2>2 DEF Moves
<1>12. CASE Crash(t)
  <2>1. /\ phase[t] \in Running /\ phase'[t] = "crashed"
        /\ alerts' = alerts /\ retries' = retries
    BY <1>12 DEF Crash
  <2>2. QED
    BY <2>1 DEF Moves, Running
<1>13. QED
  BY <1>4, <1>5, <1>6, <1>7, <1>8, <1>9, <1>10, <1>11, <1>12 DEF Work

LEMMA OutcomeStarts == Init => Outcome!OutcomeInit
<1> SUFFICES ASSUME Init PROVE Outcome!OutcomeInit
  OBVIOUS
<1>1. ASSUME NEW t \in Tasks PROVE OutcomeOf(t) = "none"
  BY OutcomeValues, InvInit DEF IInv, Init
<1>2. QED
  BY <1>1 DEF Outcome!OutcomeInit, Init

LEMMA OutcomeSteps ==
    IInv /\ IInv' /\ [Next]_vars => [Outcome!OutcomeNext]_(Outcome!outcomeVars)
<1> SUFFICES ASSUME IInv, IInv', [Next]_vars
             PROVE  [Outcome!OutcomeNext]_(Outcome!outcomeVars)
  OBVIOUS
<1> DEFINE out == [u \in Tasks |-> OutcomeOf(u)]
<1>1. ASSUME NEW t \in Tasks, Enqueue(t) \/ Work(t) \/ Crash(t)
      PROVE  [Outcome!OutcomeNext]_(Outcome!outcomeVars)
  <2>1. \A u \in Tasks \ {t} : OutcomeOf(u)' = OutcomeOf(u)
    <3>1. \A u \in Tasks \ {t} : Same(u)
      BY <1>1, OthersStay DEF IInv
    <3>2. QED
      BY <3>1 DEF Same, OutcomeOf
  <2>2. Moves(t)
    BY <1>1, TaskMoves
  <2>3. out' = [out EXCEPT ![t] = OutcomeOf(t)']
    BY <2>1
  <2>4. out[t] = OutcomeOf(t)
    OBVIOUS
  <2> HIDE DEF out
  <2>5. CASE OutcomeOf(t)' = OutcomeOf(t) /\ retries' = retries
    <3>1. out' = out
      BY <2>1, <2>5 DEF out
    <3>2. QED
      BY <2>5, <3>1 DEF Outcome!outcomeVars, out
  <2>6. CASE OutcomeOf(t) = "none" /\ OutcomeOf(t)' = "pending" /\ retries' = retries
    <3>1. Outcome!Accept(t)
      BY <2>3, <2>4, <2>6 DEF Outcome!Accept, out
    <3>2. QED
      BY <3>1 DEF Outcome!OutcomeNext
  <2>7. CASE /\ OutcomeOf(t) = "pending" /\ OutcomeOf(t)' = "pending"
             /\ retries[t] < MaxRetries /\ retries' = [retries EXCEPT ![t] = @ + 1]
    <3>1. out' = out
      BY <2>1, <2>7 DEF out
    <3>2. Outcome!TryAgain(t)
      BY <2>4, <2>7, <3>1 DEF Outcome!TryAgain, out
    <3>3. QED
      BY <3>2 DEF Outcome!OutcomeNext
  <2>8. CASE /\ OutcomeOf(t) = "pending"
             /\ OutcomeOf(t)' \in {"notified", "dismissed", "givenup", "lost"}
             /\ OutcomeOf(t)' = "givenup" => retries[t] = MaxRetries
             /\ retries' = retries
    <3>1. PICK result \in Outcome!Settled : OutcomeOf(t)' = result
      BY <2>8 DEF Outcome!Settled
    <3>2. Outcome!Settle(t, result)
      BY <2>3, <2>4, <2>8, <3>1 DEF Outcome!Settle, out
    <3>3. QED
      BY <3>2 DEF Outcome!OutcomeNext
  <2>9. QED
    BY <2>2, <2>5, <2>6, <2>7, <2>8 DEF Moves
<1>2. ASSUME NEW v \in Users, NEW m \in Mailboxes, Callback(v, m)
      PROVE  [Outcome!OutcomeNext]_(Outcome!outcomeVars)
  <2>1. phase' = phase /\ alerts' = alerts /\ retries' = retries
    BY <1>2 DEF Callback, outputVars
  <2>2. QED
    BY <2>1 DEF Outcome!outcomeVars, OutcomeOf
<1>3. CASE UNCHANGED vars
  BY <1>3 DEF vars, Outcome!outcomeVars, OutcomeOf
<1>4. QED
  BY <1>1, <1>2, <1>3 DEF Next

\* The safety half of ImplementsOutcome, for every set of tasks and users and
\* every number of retries: the pipeline settles each event at most once, gives
\* it up only after its last retry, and never after an alert.
THEOREM OutcomesAreKept ==
    Spec => Outcome!OutcomeInit /\ [][Outcome!OutcomeNext]_(Outcome!outcomeVars)
<1>1. QED
  BY InvAlways, OutcomeStarts, OutcomeSteps, PTL DEF Spec
=============================================================================
