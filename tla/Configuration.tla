---------------------------- MODULE Configuration ----------------------------
(***************************************************************************)
(* The configuration of a project: config.json of .planning and of a       *)
(* workstream, which overlays it. Loading rewrites a file that has legacy  *)
(* keys, without the lock that config-set takes; a project's first file is *)
(* built from the user's defaults.                                         *)
(***************************************************************************)
EXTENDS Integers

CONSTANTS
  InitialFiles,     \* what the files of .planning and of the workstream may hold at first
  UserDefaults,     \* what ~/.gsd/defaults.json may hold
  MaxConfigSteps    \* bound on the confSteps of a behaviour

Where == {"root", "stream"}
Unset == "unset"
YesNo == {"yes", "no"}

\* The keys told apart: legacy ones, flat ones, and the nested ones of a section.
NestedKeys == {"git.branching_strategy", "planning.sub_repos", "planning.commit_docs", "workflow.research"}
ConfKeys == NestedKeys \cup {"branching_strategy", "sub_repos", "multiRepo", "depth",
                             "granularity", "commit_docs", "research"}

ValuesOf(k) ==
  CASE k \in {"branching_strategy", "git.branching_strategy"} -> {"none", "phase"}
    [] k \in {"sub_repos", "planning.sub_repos"} -> {"empty", "old", "found"}
    [] k = "depth" -> {"quick", "standard"}
    [] k = "granularity" -> {"coarse", "standard"}
    [] OTHER -> YesNo

Values == {Unset} \cup UNION {ValuesOf(k) : k \in ConfKeys}
Texts == [ConfKeys -> Values]
NoKeys == [k \in ConfKeys |-> Unset]
\* Those in which every key has a value of its own.
KeyedTexts == {f \in Texts : \A k \in ConfKeys : f[k] \in ValuesOf(k) \cup {Unset}}
ReadableAs == {"nodir", "missing", "broken", "ok"}

ASSUME ConfigAssumption ==
  /\ InitialFiles \subseteq [Where -> [text : KeyedTexts, is : ReadableAs]]
  /\ UserDefaults \subseteq KeyedTexts /\ MaxConfigSteps \in Nat

\* What config-set accepts for the keys told apart.
Settable == {"git.branching_strategy", "planning.commit_docs", "workflow.research", "granularity"}
Accepted(k) == ValuesOf(k)

VARIABLES
  onDisk,        \* the text of each file
  readable,     \* "nodir", "missing", "broken" or "ok", for each
  rewriting,    \* the text a command without the lock is about to write
  editing,      \* the config-set that holds the lock of each directory
  promised,     \* what was reported as set while nobody else was writing
  subRepos,     \* "found" when the project has repositories below it
  userFile,     \* ~/.gsd/defaults.json
  confSteps

confVars == <<onDisk, readable, rewriting, editing, promised, subRepos, userFile, confSteps>>

NoRewrite == [by |-> "nobody", text |-> NoKeys]
NoEdit == [key |-> Unset, value |-> Unset, copy |-> NoKeys]

----------------------------------------------------------------------------
(* Legacy keys.                                                           *)

\* A mistake: the legacy key wins over the explicit one.
MovedOver(f, flat, nested) ==
  IF f[flat] = Unset THEN f ELSE [f EXCEPT ![flat] = Unset, ![nested] = f[flat]]

\* A flat key moves into its section, where an explicit value is kept.
MovedInto(f, flat, nested) ==
  IF f[flat] = Unset THEN f
  ELSE [f EXCEPT ![flat] = Unset, ![nested] = IF @ = Unset THEN f[flat] ELSE @]

\* A mistake: a depth is taken for a granularity.
GranularityAsIs(depth) == depth

Granularity(depth) == IF depth = "quick" THEN "coarse" ELSE depth

NormalizeLegacyKeys(f) ==
  LET g == MovedInto(MovedInto(f, "branching_strategy", "git.branching_strategy"),
                     "sub_repos", "planning.sub_repos")
      h == [g EXCEPT !["multiRepo"] = IF @ = "yes" THEN Unset ELSE @]
  IN IF h["depth"] # Unset /\ h["granularity"] = Unset
     THEN [h EXCEPT !["depth"] = Unset, !["granularity"] = Granularity(h["depth"])]
     ELSE h

WithFoundRepos(f) == [f EXCEPT !["planning.sub_repos"] = "found", !["planning.commit_docs"] = "no"]

\* loadConfig asks the file system for the repositories when multiRepo names none.
NormalizedOnLoad(f) ==
  LET g == NormalizeLegacyKeys(f)
  IN IF f["multiRepo"] = "yes" /\ g["planning.sub_repos"] = Unset /\ subRepos = "found"
     THEN WithFoundRepos(g) ELSE g

\* The list of repositories follows the file system unless it is empty.
Resynced(f) ==
  IF f["planning.sub_repos"] = "old" /\ subRepos = "found"
  THEN [f EXCEPT !["planning.sub_repos"] = "found"] ELSE f

LoadedFile(f) == Resynced(NormalizedOnLoad(f))

\* migrate-config lets the file system decide whatever the file says.
MigrateOnDisk(f) ==
  IF f["multiRepo"] = "yes" /\ subRepos = "found"
  THEN WithFoundRepos(NormalizeLegacyKeys(f)) ELSE NormalizeLegacyKeys(f)

----------------------------------------------------------------------------
(* What a command sees.                                                   *)

DeepMergeConfig(base, overlay) ==
  [k \in ConfKeys |-> IF overlay[k] = Unset THEN base[k] ELSE overlay[k]]

ConfigDefault ==
  [NoKeys EXCEPT !["git.branching_strategy"] = "none", !["commit_docs"] = "yes",
                 !["workflow.research"] = "yes", !["planning.sub_repos"] = "empty"]

\* A flat key is looked up before the section (in a project whose .planning git tracks).
ValueIn(f, flat, nested) ==
  IF f[flat] # Unset THEN f[flat]
  ELSE IF f[nested] # Unset THEN f[nested]
  ELSE IF ConfigDefault[flat] # Unset THEN ConfigDefault[flat] ELSE ConfigDefault[nested]

Settings(f) ==
  [branching_strategy |-> ValueIn(f, "branching_strategy", "git.branching_strategy"),
   commit_docs |-> ValueIn(f, "commit_docs", "planning.commit_docs"),
   research |-> ValueIn(f, "research", "workflow.research"),
   sub_repos |-> ValueIn(f, "sub_repos", "planning.sub_repos"),
   granularity |-> f["granularity"]]

\* Without a directory: the flat keys of the user's defaults.
DefaultsFile == [k \in ConfKeys |-> IF k \in {"commit_docs", "research", "granularity"} THEN userFile[k] ELSE Unset]

\* The text that a load in w goes by.
Parsed(w) ==
  IF w = "stream" /\ readable["root"] = "ok"
  THEN DeepMergeConfig(NormalizedOnLoad(onDisk["root"]), LoadedFile(onDisk["stream"]))
  ELSE LoadedFile(onDisk[w])

\* Without a file of its own a workstream uses the project's; the user's defaults count only
\* where there is no directory.
LoadConfig(w) ==
  CASE readable[w] = "ok" -> Settings(Parsed(w))
    [] readable[w] = "nodir" -> Settings(DefaultsFile)
    [] readable[w] \in {"missing", "broken"} ->
         IF w = "stream" /\ readable["root"] = "ok" THEN Settings(LoadedFile(onDisk["root"]))
         ELSE Settings(NoKeys)

SettingOf(k) ==
  CASE k = "git.branching_strategy" -> "branching_strategy"
    [] k = "planning.commit_docs" -> "commit_docs"
    [] k = "workflow.research" -> "research"
    [] k = "granularity" -> "granularity"

\* config-get reads the file as it is.
ConfigGet(w, k) == IF readable[w] = "ok" THEN onDisk[w][k] ELSE Unset

----------------------------------------------------------------------------
(* Operations.                                                            *)

ConfigInit ==
  /\ \E f \in InitialFiles : onDisk = [w \in Where |-> f[w].text] /\ readable = [w \in Where |-> f[w].is]
  /\ rewriting = [w \in Where |-> NoRewrite]
  /\ editing = [w \in Where |-> NoEdit]
  /\ promised = [w \in Where |-> NoKeys]
  /\ subRepos \in {"found", "empty"}
  /\ userFile \in UserDefaults
  /\ confSteps = 0

NewCommand == confSteps < MaxConfigSteps /\ confSteps' = confSteps + 1

StartRewrite(w, by, text) ==
  /\ NewCommand
  /\ rewriting[w] = NoRewrite
  /\ rewriting' = [rewriting EXCEPT ![w] = [by |-> by, text |-> text]]

\* A command of the workstream loads the project's file below its own.
LoadRoot ==
  /\ readable["root"] = "ok"
  /\ NormalizeLegacyKeys(onDisk["root"]) # onDisk["root"]
  /\ StartRewrite("root", "load", NormalizedOnLoad(onDisk["root"]))
  /\ UNCHANGED <<onDisk, readable, editing, promised, subRepos, userFile>>

LoadOwn(w) ==
  /\ readable[w] = "ok"
  /\ LoadedFile(onDisk[w]) # onDisk[w]
  /\ StartRewrite(w, "load", LoadedFile(onDisk[w]))
  /\ UNCHANGED <<onDisk, readable, editing, promised, subRepos, userFile>>

MigrateConfig(w) ==
  /\ readable[w] = "ok"
  /\ NormalizeLegacyKeys(onDisk[w]) # onDisk[w]
  /\ StartRewrite(w, "migrate", MigrateOnDisk(onDisk[w]))
  /\ UNCHANGED <<onDisk, readable, editing, promised, subRepos, userFile>>

\* The user's defaults and then the answers replace what is built in; a depth among the
\* defaults is written back as a granularity.
MigratedDefaults ==
  IF userFile["depth"] # Unset /\ userFile["granularity"] = Unset
  THEN [userFile EXCEPT !["depth"] = Unset, !["granularity"] = Granularity(userFile["depth"])]
  ELSE userFile

BuildNewProjectConfig(choices) ==
  DeepMergeConfig(DeepMergeConfig([ConfigDefault EXCEPT !["planning.sub_repos"] = Unset],
                                  MigratedDefaults), choices)

\* Created when there is no file.
NewProject(w, choices) ==
  /\ readable[w] \in {"nodir", "missing"}
  /\ StartRewrite(w, "create", BuildNewProjectConfig(choices))
  /\ readable' = [readable EXCEPT ![w] = "missing"]
  /\ userFile' = MigratedDefaults
  /\ UNCHANGED <<onDisk, editing, promised, subRepos>>

\* config-ensure-section, and set-model-profile before it sets the profile.
EnsureConfigFile(w) == NewProject(w, NoKeys)

\* The file is replaced by the text computed before.
Rewrite(w) ==
  /\ rewriting[w] # NoRewrite
  /\ onDisk' = [onDisk EXCEPT ![w] = rewriting[w].text]
  /\ readable' = [readable EXCEPT ![w] = "ok"]
  /\ rewriting' = [rewriting EXCEPT ![w] = NoRewrite]
  /\ UNCHANGED <<editing, promised, subRepos, userFile, confSteps>>

\* A load ignores a write that fails; migrate-config truncates the file first and may die
\* before the text is there.
RewriteFails(w) ==
  /\ rewriting[w] # NoRewrite
  /\ readable' = IF rewriting[w].by = "migrate" THEN [readable EXCEPT ![w] = "broken"] ELSE readable
  /\ rewriting' = [rewriting EXCEPT ![w] = NoRewrite]
  /\ UNCHANGED <<onDisk, editing, promised, subRepos, userFile, confSteps>>

\* config-set reads the file under the lock of its directory, which it creates.
SetConfigValue(w, k, v) ==
  /\ NewCommand
  /\ editing[w] = NoEdit
  /\ readable[w] # "broken"
  /\ readable' = [readable EXCEPT ![w] = IF @ = "nodir" THEN "missing" ELSE @]
  /\ editing' = [editing EXCEPT ![w] =
                   [key |-> k, value |-> v, copy |-> IF readable[w] = "ok" THEN onDisk[w] ELSE NoKeys]]
  /\ UNCHANGED <<onDisk, rewriting, promised, subRepos, userFile>>

\* Written and reported; a promise unless someone is about to write an older text, or the
\* repositories still decide about commit_docs.
SetConfigDone(w) ==
  LET e == editing[w]
      kept == rewriting[w] = NoRewrite /\ ~(e.key = "planning.commit_docs" /\ e.copy["multiRepo"] = "yes")
  IN /\ e # NoEdit
     /\ onDisk' = [onDisk EXCEPT ![w] = [e.copy EXCEPT ![e.key] = e.value]]
     /\ readable' = [readable EXCEPT ![w] = "ok"]
     /\ editing' = [editing EXCEPT ![w] = NoEdit]
     /\ promised' = [promised EXCEPT ![w][e.key] = IF kept THEN e.value ELSE Unset]
     /\ UNCHANGED <<rewriting, subRepos, userFile, confSteps>>

\* The command dies or cannot write; the rename leaves the file as it was.
SetConfigFails(w) ==
  /\ editing[w] # NoEdit
  /\ editing' = [editing EXCEPT ![w] = NoEdit]
  /\ UNCHANGED <<onDisk, readable, rewriting, promised, subRepos, userFile, confSteps>>

\* Repositories are cloned below the project, or removed.
ReposChange ==
  /\ NewCommand
  /\ subRepos' = IF subRepos = "found" THEN "empty" ELSE "found"
  /\ UNCHANGED <<onDisk, readable, rewriting, editing, promised, userFile>>

ConfigNext ==
  \/ LoadRoot
  \/ ReposChange
  \/ \E w \in Where : \/ LoadOwn(w) \/ MigrateConfig(w) \/ Rewrite(w) \/ RewriteFails(w)
                      \/ SetConfigDone(w) \/ SetConfigFails(w)
                      \/ \E k \in Settable : \E v \in Accepted(k) : SetConfigValue(w, k, v)
                      \/ NewProject(w, [NoKeys EXCEPT !["granularity"] = "standard"]) \/ EnsureConfigFile(w)

ConfigSpec == ConfigInit /\ [][ConfigNext]_confVars

----------------------------------------------------------------------------
(* Properties.                                                            *)

\* Every value is one of its key.
ConfigTypeOK ==
  /\ \A w \in Where : /\ \A k \in ConfKeys : /\ onDisk[w][k] \in ValuesOf(k) \cup {Unset}
                                             /\ rewriting[w].text[k] \in ValuesOf(k) \cup {Unset}
                      /\ readable[w] \in ReadableAs
                      /\ \A s \in {"branching_strategy", "commit_docs", "research", "sub_repos"} :
                           LoadConfig(w)[s] # Unset
  /\ subRepos \in {"found", "empty"}
  /\ confSteps \in 0 .. MaxConfigSteps

\* A flat key above the nested one: the top-level value takes precedence.
Shadowed(w, k) == k \in NestedKeys /\ Parsed(w)[SettingOf(k)] # Unset

\* What config-set reported is what config-get answers and what the next load goes by,
\* however many legacy keys are migrated in between, in whatever order the two files are
\* loaded (config.cjs:367, core.cjs:289, configuration.cjs:112).
ConfigReadsBack ==
  \A w \in Where : \A k \in Settable :
    promised[w][k] # Unset /\ readable[w] = "ok" =>
      /\ ConfigGet(w, k) = promised[w][k]
      /\ LoadConfig(w)[SettingOf(k)] = promised[w][k] \/ Shadowed(w, k)

=============================================================================
