------------------------------- MODULE OpenItems -------------------------------
(***************************************************************************)
(* What is left open in a planning directory, and who is told: tests of a  *)
(* user acceptance session, verification reports, debug sessions, quick    *)
(* tasks, threads, todos, seeds and open questions, written by the agents  *)
(* of several workflows, and read by audit-open before a milestone closes, *)
(* by audit-uat, by uat render-checkpoint and by verification status.      *)
(***************************************************************************)
EXTENDS Naturals, FiniteSets

CONSTANTS
  AuditPhases,      \* directories of phases
  Tests,            \* numbers of the tests of a session
  Slugs,            \* names of debug sessions, tasks, threads and seeds
  ShownTodos,       \* so many todos are listed by name (5 in the code)
  MaxOpenSteps,     \* bound: steps of the agents, the user and the disk
  MaxUnreadable     \* bound: directories and files that cannot be read

ASSUME OpenAssumption ==
  /\ IsFiniteSet(AuditPhases) /\ Tests \subseteq Nat \ {0}
  /\ ShownTodos \in Nat \ {0} /\ MaxOpenSteps \in Nat

KnowledgeBase == "knowledge-base"
Done == 0
Answers == {"pass", "issue", "skipped", "skipped with a reason", "blocked"}
UatStatuses == {"testing", "partial", "complete", "diagnosed", "resolved"}
NoUat == [is |-> "absent"]
NoReport == [status |-> "absent", rows |-> {}]
ReportStatuses == {"absent", "", "passed", "gaps_found", "human_needed", "in doubt"}
ArtifactDirs == {"debug", "quick", "threads", "todos", "seeds", "phases"}
\* Files whose contents are looked at; a todo has its place in the listing as its name.
FilesOf == [kind \in {"debug", "threads", "todos", "seeds", "uat", "report", "questions"} |->
              CASE kind \in {"debug", "threads", "seeds"} -> Slugs
                [] kind = "todos" -> 1 .. ShownTodos + 1
                [] OTHER -> AuditPhases]

VARIABLES
  milestone,   \* phases the current milestone has
  uat,         \* phase -> its UAT file: status, Current Test, result of each test, open gaps
  report,      \* phase -> its VERIFICATION file: status, rows of the human section left open
  questions,   \* phases whose CONTEXT has open questions
  debug,       \* files directly under debug/ -> status in their frontmatter
  quick,       \* directories under quick/ -> status of the summary
  threads,     \* files -> status, in the frontmatter or in the body
  seeds,
  todos,       \* number of files in todos/pending
  unreadable,  \* kinds of artifacts whose directory cannot be read
  unreadableFiles, \* and the single files that cannot, see FilesOf
  openSteps

openVars == <<milestone, uat, report, questions, debug, quick, threads, seeds, todos, unreadable,
              unreadableFiles, openSteps>>
----------------------------------------------------------------------------
(* audit-open.                                                             *)

Readable(kind) == kind \notin unreadable
FileReadable(kind, name) == name \notin unreadableFiles[kind]

\* A directory that cannot be read is marked in the list; a file is passed over.
ScanDebugSessions ==
  {f \in DOMAIN debug : /\ Readable("debug") /\ FileReadable("debug", f)
                        /\ debug[f] \notin {"resolved", "complete"}}

\* A task whose summary cannot be read is listed as one that is not complete.
ScanQuickTasks == {d \in DOMAIN quick : Readable("quick") /\ quick[d] # "complete"}

ScanThreads ==
  {f \in DOMAIN threads : /\ Readable("threads") /\ FileReadable("threads", f)
                          /\ threads[f] \in {"open", "in_progress", "OPEN in the body"}}

\* The remainder is a number beside the list and is not counted.
ScanTodos ==
  IF ~Readable("todos") THEN 0
  ELSE Cardinality({n \in 1 .. todos : n <= ShownTodos /\ FileReadable("todos", n)})

ScanSeeds ==
  {f \in DOMAIN seeds : /\ Readable("seeds") /\ FileReadable("seeds", f)
                        /\ seeds[f] \in {"", "dormant", "active", "triggered"}}

\* What counts as the end of a session.
\* Mutant of TerminalUatStatuses: a session the user broke off counts as well.
TerminalWithPartial == {"complete", "resolved", "partial"}

TerminalUatStatuses == {"complete", "resolved"}

ScanUatGaps ==
  {p \in AuditPhases : /\ Readable("phases") /\ FileReadable("uat", p) /\ uat[p] # NoUat
                       /\ uat[p].status \notin TerminalUatStatuses}

ScanVerificationGaps ==
  {p \in AuditPhases : /\ Readable("phases") /\ FileReadable("report", p)
                       /\ report[p].status \in {"gaps_found", "human_needed"}}

ScanContextQuestions == {p \in questions : Readable("phases") /\ FileReadable("questions", p)}

\* A scan that failed counts for nothing.
Counts ==
  [debug |-> Cardinality(ScanDebugSessions), quick |-> Cardinality(ScanQuickTasks),
   threads |-> Cardinality(ScanThreads), todos |-> ScanTodos,
   seeds |-> Cardinality(ScanSeeds), uat |-> Cardinality(ScanUatGaps),
   verification |-> Cardinality(ScanVerificationGaps),
   questions |-> Cardinality(ScanContextQuestions)]

HasOpenItems == LET counts == Counts IN \E kind \in DOMAIN counts : counts[kind] > 0

\* What the report prints: all clear, or the kinds with something open.
FormatAuditReport ==
  LET counts == Counts
  IN IF HasOpenItems THEN {kind \in DOMAIN counts : counts[kind] > 0} ELSE {"all clear"}
----------------------------------------------------------------------------
(* audit-uat, the checkpoint of a session, and the routing of a report.    *)

ParseUatItems(p) ==
  IF uat[p] = NoUat THEN {}
  ELSE {t \in Tests : uat[p].results[t] \in (Answers \ {"pass", "issue"}) \cup {"pending"}}

ParseVerificationItems(p) == IF report[p].status = "human_needed" THEN report[p].rows ELSE {}

CategorizeItem(result) ==
  CASE result = "blocked" -> "blocked"
    [] result \in {"skipped", "skipped with a reason"} -> "skipped_unresolved"
    [] result = "pending" -> "pending"
    [] OTHER -> "unknown"

\* audit-uat ends in an error when there is something it cannot read.
AuditUatFails ==
  \/ ~Readable("phases")
  \/ \E p \in milestone :
       \/ uat[p] # NoUat /\ ~FileReadable("uat", p)
       \/ report[p] # NoReport /\ ~FileReadable("report", p)

AuditUat ==
  IF AuditUatFails THEN {} ELSE
  (UNION {{[phase |-> p, test |-> t, category |-> CategorizeItem(uat[p].results[t])] :
            t \in ParseUatItems(p)} : p \in milestone})
  \cup (UNION {{[phase |-> p, test |-> t, category |-> "human_uat"] :
            t \in ParseVerificationItems(p)} : p \in milestone})

\* The test a session waits on; there is none once it is complete.
RenderCheckpoint(p) ==
  IF uat[p] = NoUat \/ ~FileReadable("uat", p) THEN {}
  ELSE IF uat[p].current = Done THEN {} ELSE {uat[p].current}

\* A report without a status is as good as none.
ReadVerificationStatus(p) ==
  CASE report[p].status \in {"absent", ""} -> "missing"
    [] report[p].status \in {"passed", "gaps_found", "human_needed"} -> report[p].status
    [] OTHER -> "unknown"

NextCommand(p) ==
  CASE ReadVerificationStatus(p) = "gaps_found" -> "plan-phase --gaps"
    [] ReadVerificationStatus(p) \in {"missing", "unknown"} -> "execute-phase"
    [] OTHER -> ""
----------------------------------------------------------------------------
(* The workflows that write them.                                          *)

FirstPending(results) ==
  IF \E t \in Tests : results[t] = "pending"
  THEN CHOOSE t \in Tests : /\ results[t] = "pending"
                            /\ \A u \in Tests : results[u] = "pending" => t <= u
  ELSE Done

NewSession ==
  LET results == [t \in Tests |-> "pending"]
  IN [status |-> "testing", results |-> results, gaps |-> {}, current |-> FirstPending(results)]

OpenStep == openSteps < MaxOpenSteps /\ openSteps' = openSteps + 1
restVars == <<milestone, questions, debug, quick, threads, seeds, todos, unreadable, unreadableFiles>>

CreateUatFile(p) ==
  /\ OpenStep /\ uat[p] = NoUat
  /\ uat' = [uat EXCEPT ![p] = NewSession]
  /\ UNCHANGED <<report, restVars>>

\* An answer that is no pass, skip or block is an issue, and a gap.
ProcessResponse(p, answer) ==
  /\ OpenStep
  /\ \E t \in RenderCheckpoint(p) :
       LET results == [uat[p].results EXCEPT ![t] = answer]
       IN uat' = [uat EXCEPT ![p].results = results, ![p].current = FirstPending(results),
                             ![p].gaps = IF answer = "issue" THEN @ \cup {t} ELSE @]
  /\ UNCHANGED <<report, restVars>>

\* The last answer ends a session, or the user does; resuming it goes on with
\* the tests that are pending.
CompleteSession(p) ==
  /\ OpenStep /\ uat[p] # NoUat /\ uat[p].status \in {"testing", "partial"}
  /\ uat' = [uat EXCEPT ![p].current = Done,
       ![p].status = IF \E t \in Tests : uat[p].results[t] \in {"pending", "blocked", "skipped"}
                     THEN "partial" ELSE "complete"]
  /\ UNCHANGED <<report, restVars>>

ResumeFromFile(p) ==
  /\ OpenStep /\ uat[p] # NoUat /\ uat[p].current = Done /\ uat[p].status = "partial"
  /\ FirstPending(uat[p].results) # Done
  /\ uat' = [uat EXCEPT ![p].current = FirstPending(uat[p].results)]
  /\ UNCHANGED <<report, restVars>>

\* The root cause of the gaps is looked for in a debug session.
DiagnoseIssues(p) ==
  /\ OpenStep /\ uat[p] # NoUat /\ uat[p].gaps # {} /\ uat[p].current = Done
  /\ uat[p].status \in {"partial", "complete"}
  /\ uat' = [uat EXCEPT ![p].status = "diagnosed"]
  /\ \E s \in Slugs : debug' = [f \in DOMAIN debug \cup {s} |-> IF f = s THEN "investigating" ELSE debug[f]]
  /\ UNCHANGED <<milestone, report, questions, quick, threads, seeds, todos, unreadable, unreadableFiles>>

\* Gap plans were executed: all gaps of the parent are closed.
CloseParentArtifacts(p) ==
  /\ OpenStep /\ uat[p] # NoUat /\ uat[p].status = "diagnosed"
  /\ uat' = [uat EXCEPT ![p].status = "resolved", ![p].gaps = {}]
  /\ \E gone \in SUBSET (DOMAIN debug \ {KnowledgeBase}) :
       debug' = [f \in DOMAIN debug \ gone |-> debug[f]]
  /\ UNCHANGED <<milestone, report, questions, quick, threads, seeds, todos, unreadable, unreadableFiles>>

\* The verifier writes its report; a writer that dies leaves one without status.
Verify(p) ==
  /\ OpenStep /\ (NextCommand(p) # "" \/ report[p].status = "human_needed")
  /\ \E s \in ReportStatuses \ {"absent"} :
       report' = [report EXCEPT ![p] = [status |-> s, rows |-> IF s = "human_needed" THEN Tests ELSE {}]]
  /\ UNCHANGED <<uat, restVars>>

\* What a human has to verify becomes a session, whatever file was there.
PersistHumanItems(p) ==
  /\ OpenStep /\ ReadVerificationStatus(p) = "human_needed"
  /\ uat' = [uat EXCEPT ![p] = NewSession]
  /\ UNCHANGED <<report, restVars>>

RowPasses(p) ==
  /\ OpenStep
  /\ \E t \in ParseVerificationItems(p) : report' = [report EXCEPT ![p].rows = @ \ {t}]
  /\ UNCHANGED <<uat, restVars>>

\* A resolved session moves away, and an entry is appended to the knowledge
\* base, which is a file in the same directory.
Debug ==
  /\ OpenStep
  /\ \E s \in Slugs :
       \/ /\ s \notin DOMAIN debug
          /\ debug' = [f \in DOMAIN debug \cup {s} |-> IF f = s THEN "investigating" ELSE debug[f]]
       \/ /\ s \in DOMAIN debug /\ debug[s] = "investigating"
          /\ debug' = [debug EXCEPT ![s] = "awaiting_human_verify"]
       \/ /\ s \in DOMAIN debug /\ debug[s] = "awaiting_human_verify"
          /\ debug' = [debug EXCEPT ![s] = "resolved"]
       \/ /\ s \in DOMAIN debug /\ debug[s] = "resolved"
          /\ debug' = [f \in (DOMAIN debug \ {s}) \cup {KnowledgeBase} |->
                         IF f = KnowledgeBase THEN "unknown" ELSE debug[f]]
  /\ UNCHANGED <<milestone, uat, report, questions, quick, threads, seeds, todos, unreadable, unreadableFiles>>

\* The summary of a quick task has a status only when its writer adds one.
Quick ==
  /\ OpenStep
  /\ \E s \in Slugs, status \in {"unknown", "complete"} :
       quick' = IF s \in DOMAIN quick THEN [quick EXCEPT ![s] = status]
                ELSE [d \in DOMAIN quick \cup {s} |-> IF d = s THEN "missing" ELSE quick[d]]
  /\ UNCHANGED <<milestone, uat, report, questions, debug, threads, seeds, todos, unreadable, unreadableFiles>>

Thread ==
  /\ OpenStep
  /\ \E s \in Slugs, status \in {"open", "resolved", "OPEN in the body"} :
       threads' = [f \in DOMAIN threads \cup {s} |-> IF f = s THEN status ELSE threads[f]]
  /\ UNCHANGED <<milestone, uat, report, questions, debug, quick, seeds, todos, unreadable, unreadableFiles>>

Seed ==
  /\ OpenStep
  /\ \E s \in Slugs, status \in {"", "implemented"} :
       seeds' = [f \in DOMAIN seeds \cup {s} |-> IF f = s THEN status ELSE seeds[f]]
  /\ UNCHANGED <<milestone, uat, report, questions, debug, quick, threads, todos, unreadable, unreadableFiles>>

TodoOrQuestion ==
  /\ OpenStep
  /\ \/ todos' \in {todos - 1, todos + 1} \cap (0 .. ShownTodos + 1) /\ UNCHANGED questions
     \/ /\ \E p \in AuditPhases :
             questions' = IF p \in questions THEN questions \ {p} ELSE questions \cup {p}
        /\ UNCHANGED todos
  /\ UNCHANGED <<milestone, uat, report, debug, quick, threads, seeds, unreadable, unreadableFiles>>

Unreadable ==
  /\ OpenStep
  /\ Cardinality(unreadable) + Cardinality({kind \in DOMAIN FilesOf : unreadableFiles[kind] # {}})
       < MaxUnreadable
  /\ \/ /\ \E kind \in ArtifactDirs \ unreadable : unreadable' = unreadable \cup {kind}
        /\ UNCHANGED unreadableFiles
     \/ /\ \E kind \in DOMAIN FilesOf : \E name \in FilesOf[kind] :
             unreadableFiles' = [unreadableFiles EXCEPT ![kind] = @ \cup {name}]
        /\ UNCHANGED unreadable
  /\ UNCHANGED <<milestone, uat, report, questions, debug, quick, threads, seeds, todos>>

OpenInit ==
  /\ milestone \in SUBSET AuditPhases
  /\ uat = [p \in AuditPhases |-> NoUat] /\ report = [p \in AuditPhases |-> NoReport]
  /\ questions = {} /\ todos = 0 /\ openSteps = 0
  /\ unreadable = {} /\ unreadableFiles = [kind \in DOMAIN FilesOf |-> {}]
  /\ debug = [f \in {} |-> ""] /\ quick = debug /\ threads = debug /\ seeds = debug

OpenNext ==
  \/ \E p \in AuditPhases :
       \/ CreateUatFile(p) \/ CompleteSession(p) \/ ResumeFromFile(p) \/ DiagnoseIssues(p)
       \/ CloseParentArtifacts(p) \/ Verify(p) \/ PersistHumanItems(p) \/ RowPasses(p)
       \/ \E answer \in Answers : ProcessResponse(p, answer)
  \/ Debug \/ Quick \/ Thread \/ Seed \/ TodoOrQuestion \/ Unreadable

OpenSpec == OpenInit /\ [][OpenNext]_openVars
----------------------------------------------------------------------------
OpenTypeOK ==
  /\ milestone \subseteq AuditPhases
  /\ \A p \in AuditPhases : uat[p] = NoUat \/
       /\ uat[p].status \in UatStatuses /\ uat[p].current \in Tests \cup {Done}
       /\ uat[p].results \in [Tests -> Answers \cup {"pending"}] /\ uat[p].gaps \subseteq Tests
  /\ \A p \in AuditPhases : report[p].status \in ReportStatuses /\ report[p].rows \subseteq Tests
  /\ questions \subseteq AuditPhases /\ todos \in 0 .. ShownTodos + 1 /\ unreadable \subseteq ArtifactDirs
  /\ DOMAIN debug \subseteq Slugs \cup {KnowledgeBase}
  /\ \A kind \in DOMAIN FilesOf : unreadableFiles[kind] \subseteq FilesOf[kind]
  /\ openSteps \in 0 .. MaxOpenSteps

Unfinished(p) ==
  IF uat[p] = NoUat THEN {}
  ELSE {t \in Tests : uat[p].results[t] \in {"pending", "blocked", "skipped"}}

\* What the agents leave open, one of the audits shows, unless its directory or
\* its file cannot be read; audit-uat fails when one cannot.  An unfinished test
\* is hidden from audit-open only by the status 'resolved' of its file, and from
\* audit-uat only by the milestone; a test that failed only by a session that
\* ended as complete and was not diagnosed; and a milestone closes as clear only
\* over settled artifacts (audit.cjs:362-457, 607-619; uat.cjs:28-81, 179-209).
NothingIsHidden ==
  /\ \A p \in AuditPhases, t \in Tests :
       /\ t \in Unfinished(p) =>
            \/ ~Readable("phases") \/ ~FileReadable("uat", p) \/ p \in ScanUatGaps
            \/ uat[p].status = "resolved" /\ (p \in milestone => AuditUatFails \/
                 \E item \in AuditUat : item.phase = p /\ item.test = t /\ item.category # "unknown")
       /\ uat[p] # NoUat /\ t \in uat[p].gaps =>
            \/ ~Readable("phases") \/ ~FileReadable("uat", p) \/ p \in ScanUatGaps
            \/ uat[p].status = "complete"
  /\ unreadable = {} /\ (\A kind \in DOMAIN FilesOf : unreadableFiles[kind] = {})
       /\ FormatAuditReport = {"all clear"} =>
       /\ todos = 0 /\ questions = {}
       /\ \A f \in DOMAIN debug : debug[f] = "resolved"
       /\ \A d \in DOMAIN quick : quick[d] = "complete"
       /\ \A p \in AuditPhases : NextCommand(p) # "plan-phase --gaps"
=============================================================================
