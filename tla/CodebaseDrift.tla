----------------------------- MODULE CodebaseDrift -----------------------------
(***************************************************************************)
(* The map of the codebase and what has grown since: a mapper writes       *)
(* STRUCTURE.md and stamps it with a commit; the gate after a phase        *)
(* compares that commit with HEAD, reports what is structural or lies in   *)
(* directories the map does not mention, and may have it mapped again.     *)
(* Commits come meanwhile, are squashed, and lose their objects.           *)
(***************************************************************************)
EXTENDS Naturals, FiniteSets

CONSTANTS
  DriftFiles,
  CategoryOf,       \* file -> migration, route, barrel or ordinary
  TopOf,            \* file -> its top directory
  ScopeOf,          \* file -> the path a mapper is given for it
  Reads,            \* top directory -> those whose mention contains its name
  InitialTrees,
  UnsafePaths,      \* what a user may pass that is no path below the root
  Thresholds, Actions,  \* values of workflow.drift_threshold and workflow.drift_action
  MaxCommitIds      \* bound: commits ever made

ASSUME DriftAssumption ==
  /\ CategoryOf \in [DriftFiles -> {"migration", "route", "barrel", "ordinary"}]
  /\ \A f \in DriftFiles : TopOf[f] \in DOMAIN Reads /\ TopOf[f] \in Reads[TopOf[f]]
  /\ InitialTrees \subseteq SUBSET DriftFiles /\ MaxCommitIds \in Nat \ {0}

NoStamp == 0
Garbled == MaxCommitIds + 1      \* what no commit is named
NoMapper == [is |-> "rest"]
Whole == {"*"}

VARIABLES
  tree,       \* commit the repository still has -> its files
  reachable,  \* commits HEAD descends from, itself included
  head,
  structure,  \* STRUCTURE.md: what it mentions and its stamp
  mapper,     \* a mapper at work: for whom, its scope, what was there, and what it has read
  covered,    \* history: files a mapper has described
  passedOver, \* history: files a mapper did not see, or that the user left out of its
              \* scope, and that its stamp has left behind
  settings    \* the threshold and the action in the configuration

driftVars == <<tree, reachable, head, structure, mapper, covered, passedOver, settings>>
----------------------------------------------------------------------------
\* Specific categories first; a file of none of them is new only when the map
\* does not mention where it lies.
ClassifyFile(f) == CategoryOf[f]

\* Any prefix is looked for as a part of the text, so the top directory decides.
IsPathMapped(f) == Reads[TopOf[f]] \cap structure.mentions # {}

\* The empty tree stands for a stamp that is missing or that git does not know.
\* Mutant of Base: HEAD stands for it.
BaseOrHead == IF structure.stamp \in DOMAIN tree THEN tree[structure.stamp] ELSE tree[head]
Base == IF structure.stamp \in DOMAIN tree THEN tree[structure.stamp] ELSE {}

Added == tree[head] \ Base

DetectDrift ==
  {f \in Added : ClassifyFile(f) # "ordinary" \/ ~IsPathMapped(f)}

Threshold == IF settings.threshold \in Nat \ {0} THEN settings.threshold ELSE 3
Action == IF settings.action = "auto-remap" THEN "auto-remap" ELSE "warn"

ChooseAffectedPaths(files) == {ScopeOf[f] : f \in files}

\* The gate: nothing to say without a map, and when the map cannot be read, there is no
\* repository, git makes no diff, or anything is thrown; a directive with enough elements.
GateOutcomes == {"works", "fails"}

VerifyCodebaseDrift(outcome) ==
  IF structure.is = "absent" \/ outcome = "fails"
  THEN [skipped |-> TRUE, elements |-> {}, directive |-> "none", paths |-> {}]
  ELSE IF Cardinality(DetectDrift) >= Threshold
  THEN [skipped |-> FALSE, elements |-> DetectDrift, directive |-> Action,
        paths |-> ChooseAffectedPaths(DetectDrift)]
  ELSE [skipped |-> FALSE, elements |-> DetectDrift, directive |-> "none", paths |-> {}]

\* What a user passes with --paths; with nothing usable the whole is mapped.
SanitizePaths(paths) == paths \ UnsafePaths
UserScope(paths) == IF SanitizePaths(paths) = {} THEN Whole ELSE SanitizePaths(paths)
InScope(scope, files) == {f \in files : scope = Whole \/ ScopeOf[f] \in scope}
----------------------------------------------------------------------------
MayCommit == head < MaxCommitIds

\* A commit adds a file, removes one, or moves one.
CommitFiles(files) ==
  /\ MayCommit /\ files # tree[head]
  /\ head' = head + 1
  /\ tree' = [c \in DOMAIN tree \cup {head'} |-> IF c = head' THEN files ELSE tree[c]]
  /\ reachable' = reachable \cup {head'}
  /\ UNCHANGED <<structure, mapper, covered, passedOver, settings>>

CommitChange ==
  \/ \E f \in DriftFiles : CommitFiles(tree[head] \cup {f})
  \/ \E f \in tree[head] : CommitFiles(tree[head] \ {f})
  \/ \E f \in tree[head], g \in DriftFiles \ tree[head] : CommitFiles((tree[head] \ {f}) \cup {g})

\* A branch is squashed or rebased: another commit, the same files.
Squash ==
  /\ MayCommit /\ head' = head + 1
  /\ tree' = [c \in DOMAIN tree \cup {head'} |-> IF c = head' THEN tree[head] ELSE tree[c]]
  /\ reachable' = {head'}
  /\ UNCHANGED <<structure, mapper, covered, passedOver, settings>>

\* Another clone, or garbage collection: only what HEAD descends from is left.
LoseObjects ==
  /\ DOMAIN tree # reachable
  /\ tree' = [c \in reachable |-> tree[c]]
  /\ UNCHANGED <<reachable, head, structure, mapper, covered, passedOver, settings>>

StartMapper(by, scope) ==
  /\ mapper = NoMapper
  /\ mapper' = [is |-> by, scope |-> scope, saw |-> tree[head], files |-> InScope(scope, tree[head])]
  /\ UNCHANGED <<tree, reachable, head, structure, covered, passedOver, settings>>

MapCodebase == \E paths \in SUBSET ({ScopeOf[f] : f \in DriftFiles} \cup UnsafePaths) :
                 StartMapper("user", UserScope(paths))

\* The gate has the affected paths mapped again, and waits for it.
AutoRemap ==
  /\ VerifyCodebaseDrift("works").directive = "auto-remap"
  /\ StartMapper("gate", VerifyCodebaseDrift("works").paths)

\* The document is written over; its stamp is HEAD at that time, HEAD when the mapper
\* began or any other commit, is lost with the frontmatter, or is not a commit.
WriteMappedCommit ==
  /\ mapper # NoMapper
  /\ \E stamp \in DOMAIN tree \cup {NoStamp, Garbled} :
       /\ structure' = [is |-> "there", stamp |-> stamp,
            mentions |-> {TopOf[f] : f \in mapper.files} \cup
                         (IF mapper.scope = Whole THEN {} ELSE structure.mentions)]
       /\ passedOver' = IF stamp \notin DOMAIN tree THEN passedOver
                        ELSE passedOver \cup (tree[stamp] \ mapper.saw) \cup
                             (IF mapper.is = "user" THEN tree[stamp] \ mapper.files ELSE {})
  /\ covered' = covered \cup mapper.files
  /\ mapper' = NoMapper
  /\ UNCHANGED <<tree, reachable, head, settings>>

MapperFails ==
  /\ mapper # NoMapper /\ mapper' = NoMapper
  /\ UNCHANGED <<tree, reachable, head, structure, covered, passedOver, settings>>

DriftInit ==
  /\ \E files \in InitialTrees : tree = [c \in {1} |-> files]
  /\ head = 1 /\ reachable = {1}
  /\ structure = [is |-> "absent", stamp |-> NoStamp, mentions |-> {}]
  /\ mapper = NoMapper /\ covered = {} /\ passedOver = {}
  /\ settings \in [threshold : Thresholds, action : Actions]

DriftNext ==
  \/ CommitChange \/ Squash \/ LoseObjects
  \/ MapCodebase \/ AutoRemap \/ WriteMappedCommit \/ MapperFails

DriftSpec == DriftInit /\ [][DriftNext]_driftVars
----------------------------------------------------------------------------
DriftTypeOK ==
  /\ head \in reachable /\ reachable \subseteq DOMAIN tree /\ DOMAIN tree \subseteq 1 .. MaxCommitIds
  /\ \A c \in DOMAIN tree : tree[c] \subseteq DriftFiles
  /\ structure.stamp \in 0 .. MaxCommitIds + 1
  /\ structure.mentions \subseteq DOMAIN Reads
  /\ covered \subseteq DriftFiles /\ passedOver \subseteq DriftFiles
  /\ settings \in [threshold : Thresholds, action : Actions]

\* As long as there is a map, whatever is structural or lies where the map says
\* nothing is reported until a mapper has described it, although commits are
\* squashed, their objects lost, stamps garbled or those of another commit, and
\* mappers fail. Only what comes while a mapper works, or what a user leaves out of
\* its scope, is left behind by the stamp; a remap the gate asks for leaves nothing
\* behind. A gate that cannot compare says that it was skipped, and never that
\* nothing has drifted (verify.cjs:1333-1440, drift.cjs:109-168, 249-267, 335-353).
UnmappedIsReported ==
  structure.is = "there" =>
    \A f \in tree[head] \ (covered \cup passedOver), outcome \in GateOutcomes :
      \/ f \in VerifyCodebaseDrift(outcome).elements
      \/ outcome = "fails" /\ VerifyCodebaseDrift(outcome).skipped
      \/ ClassifyFile(f) = "ordinary" /\ IsPathMapped(f)
=============================================================================
