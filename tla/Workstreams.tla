---------------------------- MODULE Workstreams ----------------------------
(***************************************************************************)
(* The workstreams of one .planning directory: creating one, which first   *)
(* moves a flat project into a workstream of its own, archiving one, and   *)
(* the pointer to the active one, which every terminal session has for     *)
(* itself or shares.  Sessions run their commands at the same time and     *)
(* take no lock; a command moves one entry after the other.                *)
(***************************************************************************)
EXTENDS Naturals, FiniteSets

CONSTANTS
  Sessions,
  Streams,        \* names of workstreams
  PointerOf,      \* session -> the pointer file it uses
  MaxMoveFaults,  \* bound: renames that fail
  MaxCommands,    \* bound: commands started
  NoStream

ASSUME WorkstreamAssumption ==
  NoStream \notin Streams /\ MaxMoveFaults \in Nat /\ MaxCommands \in Nat

Pointers == {PointerOf[p] : p \in Sessions}
Kinds == {"roadmap", "state"}

\* An entry of a planning directory and the project it was made for.
Items == [owner : Streams \cup {NoStream}, kind : Kinds]

VARIABLES
  root,      \* entries of a flat project
  wsRoot,    \* .planning/workstreams exists
  dirs,      \* the workstream directories
  inDir,     \* entries of each
  archived,  \* entries of the archives of finished commands
  made,      \* entries that have been made
  pointer,   \* the active workstream, per pointer file
  cmd,       \* what a session is doing: [step, stream, other, entry]
  moving,    \* entries it has moved so far
  left,      \* entries it still has to move
  wasActive,
  commands, moveFaults,
  harmed     \* history: a restore failed, or two moves met in one directory

streamVars == <<root, wsRoot, dirs, inDir, archived, made, pointer, cmd, moving, left,
                wasActive, commands, moveFaults, harmed>>

Steps == {"free", "migrate", "mkdir", "look", "move", "unmove", "make", "set",
          "archive", "unarchive", "tidy"}
Resting == [step |-> "free", stream |-> NoStream, other |-> NoStream]

WorkstreamTypeOK ==
  /\ root \subseteq Items /\ archived \subseteq Items /\ made \subseteq Items
  /\ wsRoot \in BOOLEAN /\ dirs \subseteq Streams
  /\ inDir \in [Streams -> SUBSET Items]
  /\ \A s \in Streams \ dirs : inDir[s] = {}
  /\ pointer \in [Pointers -> Streams \cup {NoStream}]
  /\ cmd \in [Sessions -> [step : Steps, stream : Streams \cup {NoStream},
                           other : Streams \cup {NoStream}]]
  /\ moving \in [Sessions -> SUBSET Items] /\ left \in [Sessions -> SUBSET Items]
  /\ wasActive \in [Sessions -> BOOLEAN]
  /\ commands \in 0 .. MaxCommands /\ moveFaults \in 0 .. MaxMoveFaults
  /\ harmed \in BOOLEAN

Flat == [owner : {NoStream}, kind : Kinds]

StreamInit ==
  /\ root \in {{}, Flat} /\ made = root
  /\ wsRoot = FALSE /\ dirs = {} /\ inDir = [s \in Streams |-> {}] /\ archived = {}
  /\ pointer = [q \in Pointers |-> NoStream]
  /\ cmd = [p \in Sessions |-> Resting]
  /\ moving = [p \in Sessions |-> {}] /\ left = [p \in Sessions |-> {}]
  /\ wasActive = [p \in Sessions |-> FALSE]
  /\ commands = 0 /\ moveFaults = 0 /\ harmed = FALSE

Goto(p, step) == cmd' = [cmd EXCEPT ![p].step = step]
End(p) == /\ cmd' = [cmd EXCEPT ![p] = Resting]
          /\ moving' = [moving EXCEPT ![p] = {}] /\ left' = [left EXCEPT ![p] = {}]

\* Another session is moving entries into or out of the directory.
Busy(p, s) == \E q \in Sessions \ {p} :
  /\ cmd[q].step \in {"look", "move", "unmove", "archive", "unarchive"}
  /\ s \in {cmd[q].stream, cmd[q].other}

HasState(s) == \E i \in inDir[s] : i.kind = "state"

\* getActiveWorkstream: a pointer to a directory that is gone is removed.
Cleaned(p) == IF pointer[PointerOf[p]] \in dirs THEN pointer
              ELSE [pointer EXCEPT ![PointerOf[p]] = NoStream]

\* setActiveWorkstream makes the directory if need be.
Activate(p, s) == /\ wsRoot' = TRUE /\ dirs' = dirs \cup {s}
                  /\ pointer' = [pointer EXCEPT ![PointerOf[p]] = s]

----------------------------------------------------------------------------
(* workstream create.                                                      *)

\* An existing workstream is refused; a flat project is migrated first,
\* unless the caller forbids it, under a name of its own.
CreateStream(p, s, other, migrate) ==
  /\ cmd[p] = Resting /\ commands < MaxCommands /\ ~ HasState(s)
  /\ commands' = commands + 1
  /\ IF ~ wsRoot /\ migrate /\ root # {}
     THEN cmd' = [cmd EXCEPT ![p] = [step |-> "migrate", stream |-> s, other |-> other]]
          /\ UNCHANGED wsRoot
     ELSE cmd' = [cmd EXCEPT ![p] = [step |-> "make", stream |-> s, other |-> NoStream]]
          /\ wsRoot' = (wsRoot \/ migrate)
  /\ UNCHANGED <<root, dirs, inDir, archived, made, pointer, moving, left, wasActive,
                 moveFaults, harmed>>

\* migrateToWorkstreams: refused when somebody else has been faster.
MigrateCheck(p) ==
  /\ cmd[p].step = "migrate"
  /\ IF wsRoot THEN End(p) ELSE Goto(p, "mkdir") /\ UNCHANGED <<moving, left>>
  /\ UNCHANGED <<root, wsRoot, dirs, inDir, archived, made, pointer, wasActive, commands,
                 moveFaults, harmed>>

MigrateMkdir(p) ==
  /\ cmd[p].step = "mkdir"
  /\ wsRoot' = TRUE /\ dirs' = dirs \cup {cmd[p].other}
  /\ left' = [left EXCEPT ![p] = Flat]
  /\ harmed' = (harmed \/ cmd[p].other \in dirs \/ Busy(p, cmd[p].other))
  /\ Goto(p, "look")
  /\ UNCHANGED <<root, inDir, archived, made, pointer, moving, wasActive, commands, moveFaults>>

\* The next entry is skipped when it is not there ...
MigrateLook(p, i) ==
  /\ cmd[p].step = "look" /\ i \in left[p] /\ (i.kind = "state" => \A j \in left[p] : j = i)
  /\ IF i \in root THEN Goto(p, "move") /\ UNCHANGED left
     ELSE left' = [left EXCEPT ![p] = @ \ {i}] /\ UNCHANGED cmd
  /\ UNCHANGED <<root, wsRoot, dirs, inDir, archived, made, pointer, moving, wasActive,
                 commands, moveFaults, harmed>>

\* ... and renamed otherwise; it may be gone by then, or the rename fail.
MigrateMove(p, i) ==
  /\ cmd[p].step = "move" /\ i \in left[p] /\ (i.kind = "state" => \A j \in left[p] : j = i)
  /\ \/ /\ i \in root /\ cmd[p].other \in dirs
        /\ root' = root \ {i}
        /\ inDir' = [inDir EXCEPT ![cmd[p].other] = @ \cup {i}]
        /\ moving' = [moving EXCEPT ![p] = @ \cup {i}]
        /\ left' = [left EXCEPT ![p] = @ \ {i}]
        /\ Goto(p, "look") /\ UNCHANGED moveFaults
     \/ /\ \/ (i \notin root \/ cmd[p].other \notin dirs) /\ UNCHANGED moveFaults
           \/ moveFaults < MaxMoveFaults /\ moveFaults' = moveFaults + 1
        /\ Goto(p, "unmove") /\ UNCHANGED <<root, inDir, moving, left>>
  /\ UNCHANGED <<wsRoot, dirs, archived, made, pointer, wasActive, commands, harmed>>

\* The error path takes back what was moved, and ignores what fails again ...
MigrateUnmove(p, i) ==
  /\ cmd[p].step = "unmove" /\ i \in moving[p]
  /\ moving' = [moving EXCEPT ![p] = @ \ {i}]
  /\ \/ /\ \E s \in {cmd[p].other} : i \in inDir[s]
        /\ root' = root \cup {i} /\ inDir' = [inDir EXCEPT ![cmd[p].other] = @ \ {i}]
        /\ UNCHANGED <<moveFaults, harmed>>
     \/ /\ \/ i \notin inDir[cmd[p].other] /\ UNCHANGED moveFaults
           \/ moveFaults < MaxMoveFaults /\ moveFaults' = moveFaults + 1
        /\ harmed' = TRUE /\ UNCHANGED <<root, inDir>>
  /\ UNCHANGED <<wsRoot, dirs, archived, made, pointer, cmd, left, wasActive, commands>>

\* Mutant of MigrateAbandon: the directory goes before its entries are back.
AbandonAtOnce(p) ==
  /\ cmd[p].step = "unmove"
  /\ LET s == cmd[p].other IN
       /\ dirs' = dirs \ {s} /\ inDir' = [inDir EXCEPT ![s] = {}]
       /\ wsRoot' = (dirs \ {s} # {})
  /\ End(p)
  /\ UNCHANGED <<root, archived, made, pointer, wasActive, commands, moveFaults, harmed>>

\* ... and removes the new directory with all that is in it.
MigrateAbandon(p) ==
  /\ cmd[p].step = "unmove" /\ moving[p] = {}
  /\ LET s == cmd[p].other IN
       /\ dirs' = dirs \ {s} /\ inDir' = [inDir EXCEPT ![s] = {}]
       /\ wsRoot' = (dirs \ {s} # {})
  /\ End(p)
  /\ UNCHANGED <<root, archived, made, pointer, wasActive, commands, moveFaults, harmed>>

\* The migration is over: the directory of the new workstream, a STATE.md
\* unless there is one, and the pointer.
MakeStream(p) ==
  /\ cmd[p].step = "make" \/ (cmd[p].step = "look" /\ left[p] = {})
  /\ LET s == cmd[p].stream
         state == [owner |-> s, kind |-> "state"]
     IN /\ Activate(p, s)
        /\ IF HasState(s) THEN UNCHANGED <<inDir, made>>
           ELSE inDir' = [inDir EXCEPT ![s] = @ \cup {state}] /\ made' = made \cup {state}
  /\ harmed' = (harmed \/ Busy(p, cmd[p].stream))
  /\ End(p)
  /\ UNCHANGED <<root, archived, wasActive, commands, moveFaults>>

----------------------------------------------------------------------------
(* workstream complete, set, set --clear and get.                          *)

CompleteStream(p, s) ==
  /\ cmd[p] = Resting /\ commands < MaxCommands /\ s \in dirs
  /\ commands' = commands + 1
  /\ wasActive' = [wasActive EXCEPT ![p] = Cleaned(p)[PointerOf[p]] = s]
  /\ pointer' = [Cleaned(p) EXCEPT ![PointerOf[p]] = IF @ = s THEN NoStream ELSE @]
  /\ left' = [left EXCEPT ![p] = inDir[s]]
  /\ harmed' = (harmed \/ Busy(p, s))
  /\ cmd' = [cmd EXCEPT ![p] = [step |-> "archive", stream |-> s, other |-> NoStream]]
  /\ UNCHANGED <<root, wsRoot, dirs, inDir, archived, made, moving, moveFaults>>

ArchiveEntry(p, i) ==
  /\ cmd[p].step = "archive" /\ i \in left[p]
  /\ LET s == cmd[p].stream IN
     \/ /\ i \in inDir[s]
        /\ inDir' = [inDir EXCEPT ![s] = @ \ {i}]
        /\ moving' = [moving EXCEPT ![p] = @ \cup {i}]
        /\ left' = [left EXCEPT ![p] = @ \ {i}]
        /\ UNCHANGED <<cmd, moveFaults>>
     \/ /\ \/ i \notin inDir[s] /\ UNCHANGED moveFaults
           \/ moveFaults < MaxMoveFaults /\ moveFaults' = moveFaults + 1
        /\ Goto(p, "unarchive") /\ UNCHANGED <<inDir, moving, left>>
  /\ UNCHANGED <<root, wsRoot, dirs, archived, made, pointer, wasActive, commands, harmed>>

\* The error path: one entry goes back, or does not; that is ignored.
UnarchiveEntry(p, i) ==
  /\ cmd[p].step = "unarchive" /\ i \in moving[p]
  /\ moving' = [moving EXCEPT ![p] = @ \ {i}]
  /\ LET s == cmd[p].stream IN
     \/ /\ s \in dirs /\ inDir' = [inDir EXCEPT ![s] = @ \cup {i}]
        /\ UNCHANGED <<moveFaults, harmed>>
     \/ /\ \/ s \notin dirs /\ UNCHANGED moveFaults
           \/ moveFaults < MaxMoveFaults /\ moveFaults' = moveFaults + 1
        /\ harmed' = TRUE /\ UNCHANGED inDir
  /\ UNCHANGED <<root, wsRoot, dirs, archived, made, pointer, cmd, left, wasActive, commands>>

\* The half-filled archive is removed and the pointer set again.
UnarchiveEnds(p) ==
  /\ cmd[p].step = "unarchive" /\ moving[p] = {}
  /\ IF wasActive[p] THEN Activate(p, cmd[p].stream) ELSE UNCHANGED <<wsRoot, dirs, pointer>>
  /\ End(p)
  /\ UNCHANGED <<root, inDir, archived, made, wasActive, commands, moveFaults, harmed>>

\* The directory goes if it is empty, and so does the last one's parent.
CompleteEnds(p) ==
  /\ cmd[p].step = "archive" /\ left[p] = {}
  /\ LET rest == IF inDir[cmd[p].stream] = {} THEN dirs \ {cmd[p].stream} ELSE dirs IN
       dirs' = rest /\ wsRoot' = (rest # {})
  /\ archived' = archived \cup moving[p]
  /\ End(p)
  /\ UNCHANGED <<root, inDir, made, pointer, wasActive, commands, moveFaults, harmed>>

\* set: the directory is looked for ...
SetStream(p, s) ==
  /\ cmd[p] = Resting /\ commands < MaxCommands /\ s \in dirs
  /\ commands' = commands + 1
  /\ cmd' = [cmd EXCEPT ![p] = [step |-> "set", stream |-> s, other |-> NoStream]]
  /\ UNCHANGED <<root, wsRoot, dirs, inDir, archived, made, pointer, moving, left, wasActive,
                 moveFaults, harmed>>

\* ... and made again by the call that writes the pointer.
WritePointer(p) ==
  /\ cmd[p].step = "set" /\ Activate(p, cmd[p].stream) /\ End(p)
  /\ UNCHANGED <<root, inDir, archived, made, wasActive, commands, moveFaults, harmed>>

ClearPointer(p) ==
  /\ cmd[p] = Resting /\ pointer[PointerOf[p]] # NoStream
  /\ pointer' = [pointer EXCEPT ![PointerOf[p]] = NoStream]
  /\ UNCHANGED <<root, wsRoot, dirs, inDir, archived, made, cmd, moving, left, wasActive,
                 commands, moveFaults, harmed>>

\* get, status, list, progress and every command without --ws.
GetActive(p) ==
  /\ cmd[p] = Resting /\ pointer' = Cleaned(p) /\ pointer' # pointer
  /\ UNCHANGED <<root, wsRoot, dirs, inDir, archived, made, cmd, moving, left, wasActive,
                 commands, moveFaults, harmed>>

StreamNext == \E p \in Sessions :
  \/ \E s, o \in Streams, m \in BOOLEAN : CreateStream(p, s, o, m)
  \/ \E s \in Streams : CompleteStream(p, s) \/ SetStream(p, s)
  \/ \E i \in Items : \/ MigrateLook(p, i) \/ MigrateMove(p, i) \/ MigrateUnmove(p, i)
                      \/ ArchiveEntry(p, i) \/ UnarchiveEntry(p, i)
  \/ MigrateCheck(p) \/ MigrateMkdir(p) \/ MigrateAbandon(p) \/ MakeStream(p)
  \/ UnarchiveEnds(p) \/ CompleteEnds(p) \/ WritePointer(p) \/ ClearPointer(p) \/ GetActive(p)

StreamSpec == StreamInit /\ [][StreamNext]_streamVars

----------------------------------------------------------------------------
\* Every ROADMAP.md and STATE.md there ever was is in the flat project, in a
\* workstream or in an archive, also when moves fail half-way and sessions
\* interleave, as long as no rename of an error path fails and no two
\* commands work on one directory (migrateToWorkstreams,
\* cmdWorkstreamComplete).
PlanningFilesKept ==
  harmed \/ made = root \cup archived \cup (UNION {inDir[s] : s \in Streams})
                        \cup (UNION {moving[p] : p \in Sessions})
=============================================================================
