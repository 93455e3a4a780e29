---------------------------- MODULE SkillSurface ----------------------------
(***************************************************************************)
(* The skills an agent runtime shows: a profile, changed by the surface    *)
(* file, is resolved against what the source tree holds, staged, and then  *)
(* copied over the installed skills, commands or agents, of which those    *)
(* that are no longer wanted are removed.                                  *)
(***************************************************************************)
EXTENDS Naturals, Sequences, FiniteSets

CONSTANTS
  Skills,           \* stems of the skills there ever are
  AgentFiles,
  UserNames,        \* what the user keeps beside them
  UserPrefixed,     \* those of them that start with gsd-
  Requires,         \* skill -> the skills its header requires
  Calls,            \* skill -> the agents its text names
  Profiles,         \* core and standard -> their skills
  Clusters,         \* cluster -> its skills
  Runtimes,         \* <<runtime, scope>>
  InitialSurfaces,
  MaxSurfaceSteps,  \* bound: commands, changes of the source tree
  MaxSurfaceFaults  \* bound: failing file operations and killed processes

Full == "full"
Names == Skills \cup AgentFiles \cup UserNames
SurfaceOf(base, disabled, adds, removes) ==
  [is |-> "file", base |-> base, disabled |-> disabled, adds |-> adds, removes |-> removes]
NoSurface == [is |-> "absent"]
BrokenSurface == [is |-> "broken"]
Surfaces == [is : {"file"}, base : SUBSET {"core", "standard", Full}, disabled : SUBSET DOMAIN Clusters,
             adds : SUBSET Skills, removes : SUBSET Skills]

ASSUME SurfaceAssumption ==
  /\ Requires \in [Skills -> SUBSET Skills] /\ Calls \in [Skills -> SUBSET AgentFiles]
  /\ Profiles \in [{"core", "standard"} -> SUBSET Skills]
  /\ Clusters \in [DOMAIN Clusters -> SUBSET Skills]
  /\ InitialSurfaces \subseteq Surfaces \cup {NoSurface, BrokenSurface}
  /\ UserNames \cap (Skills \cup AgentFiles) = {} /\ UserPrefixed \subseteq UserNames
  /\ MaxSurfaceSteps \in Nat /\ MaxSurfaceFaults \in Nat

VARIABLES
  runtime,
  source,      \* the skills of the source tree
  surface,     \* .gsd-surface.json
  profile,     \* .gsd-profile: names of profiles, {} when it is absent or not one
  installed,   \* kind of artifact -> the names in its directory
  apply,       \* a command at work: [step, kinds still to do, kind, left, staged, resolved, known]
  fresh,       \* the last apply removed all it had to, and nothing has changed since
  surfaceSteps, surfaceFaults

surfaceVars == <<runtime, source, surface, profile, installed, apply, fresh,
                 surfaceSteps, surfaceFaults>>

----------------------------------------------------------------------------
(* What is to be installed.                                                *)

\* The kinds of artifacts of a runtime, in order.
ResolveRuntimeArtifactLayout(r) ==
  CASE r = <<"claude", "local">> -> <<"commands", "agents">>
    [] r[1] \in {"gemini", "opencode", "kilo"} -> <<"commands">>
    [] r[1] = "cline" -> <<>>
    [] OTHER -> <<"skills">>

\* An argument that is not a manifest at all counts as an empty one.
LoadSkillsManifest(known) == IF known THEN source ELSE {}
Deps(known, s) == IF s \in LoadSkillsManifest(known) THEN Requires[s] ELSE {}

\* The least set that has the skills of base and what each of its skills requires.
ComputeClosure(base, known) ==
  {s \in Skills : \A S \in SUBSET Skills :
     base \subseteq S /\ (\A t \in S : Deps(known, t) \subseteq S) => s \in S}

\* Names nobody knows are passed over; with none left, everything is meant.
ResolveProfile(names, known) ==
  LET valid == names \cap {"core", "standard"}
  IN IF Full \in names \/ valid = {} THEN LoadSkillsManifest(known)
     ELSE UNION {ComputeClosure(Profiles[p], known) : p \in valid}

ReadSurface == IF surface.is = "file" THEN surface ELSE NoSurface

ReadActiveProfile == IF profile = {} THEN {Full} ELSE profile

ClustersToSkills(cs) == UNION {Clusters[c] : c \in cs \cap DOMAIN Clusters}

ResolveSurface(known) ==
  IF ReadSurface = NoSurface THEN ResolveProfile(ReadActiveProfile, known)
  ELSE LET base == IF surface.base = {} THEN ReadActiveProfile ELSE surface.base
           kept == ResolveProfile(base, known) \ ClustersToSkills(surface.disabled)
       IN (kept \cup ComputeClosure(surface.adds, known)) \ surface.removes

AgentsOf(skills, known) == UNION {Calls[s] : s \in skills \cap LoadSkillsManifest(known)}

ListSurface == [enabled  |-> source \cap ResolveSurface(TRUE),
                disabled |-> source \ ResolveSurface(TRUE)]

\* What a kind's stage copies out of the source tree.
StageSkills(resolved) == resolved \cap source
StageAgents(resolved, known) == AgentsOf(resolved, known) \cap AgentFiles

\* Mutant of Prunable: whatever has the prefix counts as a skill of the project's own.
PrunableByPrefix(kind, known) ==
  CASE kind = "skills" -> LoadSkillsManifest(known) \cup UserPrefixed
    [] kind = "agents" -> AgentFiles \cup UserPrefixed
    [] kind = "commands" -> Names

\* What is removed unless it is staged: of the skills those the manifest knows, of the
\* agents those with the prefix, of the commands whatever is there.
Prunable(kind, known) ==
  CASE kind = "skills" -> LoadSkillsManifest(known)
    [] kind = "agents" -> AgentFiles \cup UserPrefixed
    [] kind = "commands" -> Names

----------------------------------------------------------------------------
(* The commands of /gsd-surface, and the tree they work on.                *)

Kinds3 == {"commands", "agents", "skills"}
NoApply == [step |-> "idle"]

SurfaceInit ==
  /\ runtime \in Runtimes /\ source = Skills
  /\ surface \in InitialSurfaces /\ profile \in {{}, {"core"}}
  /\ installed = [k \in Kinds3 |->
       UserNames \cup (IF k = "agents" THEN AgentFiles ELSE ResolveProfile(ReadActiveProfile, TRUE))]
  /\ apply = NoApply /\ fresh = FALSE
  /\ surfaceSteps = 0 /\ surfaceFaults = 0

Seeded == IF ReadSurface = NoSurface THEN SurfaceOf(ReadActiveProfile, {}, {}, {}) ELSE surface

\* Writes the file, or deletes it, and leaves the rest to applySurface.
Command(file) ==
  /\ apply = NoApply /\ surfaceSteps < MaxSurfaceSteps /\ surfaceSteps' = surfaceSteps + 1
  /\ surface' = file /\ apply' = [step |-> "resolve"] /\ fresh' = FALSE
  /\ UNCHANGED <<runtime, source, profile, installed, surfaceFaults>>

SetProfile(names) == Command([Seeded EXCEPT !.base = names])
Disable(c) == Command([Seeded EXCEPT !.disabled = @ \cup {c}])
Enable(c) == /\ ReadSurface # NoSurface
             /\ Command([surface EXCEPT !.disabled = @ \ {c}])
Reset == surface # NoSurface /\ Command(NoSurface)

\* The next kind of the layout, or the end.
NextKind(kinds, resolved, known) ==
  IF kinds = <<>> THEN NoApply
  ELSE LET k == kinds[1]
           staged == IF k = "agents" THEN StageAgents(resolved, known) ELSE StageSkills(resolved)
       IN [step |-> "copy", kind |-> k, left |-> staged, staged |-> staged,
           kinds |-> IF Len(kinds) = 1 THEN <<>> ELSE Tail(kinds),
           resolved |-> resolved, known |-> known]

ApplySurface(known) ==
  /\ apply.step = "resolve"
  /\ LET next == NextKind(ResolveRuntimeArtifactLayout(runtime), ResolveSurface(known), known)
     IN apply' = next /\ fresh' = known
  /\ UNCHANGED <<runtime, source, surface, profile, installed, surfaceSteps, surfaceFaults>>

\* An entry of the stage replaces one of its name.
CopyEntry(n) ==
  /\ apply.step = "copy" /\ n \in apply.left
  /\ installed' = [installed EXCEPT ![apply.kind] = @ \cup {n}]
  /\ apply' = [apply EXCEPT !.left = @ \ {n}]
  /\ UNCHANGED <<runtime, source, surface, profile, fresh, surfaceSteps, surfaceFaults>>

CopyDone ==
  /\ apply.step = "copy" /\ apply.left = {}
  /\ apply' = [apply EXCEPT !.step = "prune",
       !.left = (installed[apply.kind] \cap Prunable(apply.kind, apply.known)) \ apply.staged]
  /\ UNCHANGED <<runtime, source, surface, profile, installed, fresh, surfaceSteps,
                 surfaceFaults>>

\* A removal that fails is passed over.
PruneEntry(n, fails) ==
  /\ apply.step = "prune" /\ n \in apply.left
  /\ fails => surfaceFaults < MaxSurfaceFaults
  /\ surfaceFaults' = IF fails THEN surfaceFaults + 1 ELSE surfaceFaults
  /\ installed' = IF fails THEN installed ELSE [installed EXCEPT ![apply.kind] = @ \ {n}]
  /\ apply' = [apply EXCEPT !.left = @ \ {n}] /\ fresh' = (fresh /\ ~fails)
  /\ UNCHANGED <<runtime, source, surface, profile, surfaceSteps>>

PruneDone ==
  /\ apply.step = "prune" /\ apply.left = {}
  /\ apply' = NextKind(apply.kinds, apply.resolved, apply.known)
  /\ UNCHANGED <<runtime, source, surface, profile, installed, fresh, surfaceSteps, surfaceFaults>>

\* A copy fails, or the process is ended.
Stop ==
  /\ apply # NoApply /\ surfaceFaults < MaxSurfaceFaults /\ surfaceFaults' = surfaceFaults + 1
  /\ apply' = NoApply /\ fresh' = FALSE
  /\ UNCHANGED <<runtime, source, surface, profile, installed, surfaceSteps>>

\* The tree the skills come from is changed by others.
SourceChanges(s) ==
  /\ apply = NoApply /\ surfaceSteps < MaxSurfaceSteps /\ surfaceSteps' = surfaceSteps + 1
  /\ source' = IF s \in source THEN source \ {s} ELSE source \cup {s}
  /\ fresh' = FALSE
  /\ UNCHANGED <<runtime, surface, profile, installed, apply, surfaceFaults>>

SurfaceNext ==
  \/ \E names \in {{"core"}, {"standard"}, {"core", "standard"}, {Full}} : SetProfile(names)
  \/ \E c \in DOMAIN Clusters : Disable(c) \/ Enable(c)
  \/ Reset
  \/ \E known \in BOOLEAN : ApplySurface(known)
  \/ \E n \in Names : CopyEntry(n) \/ (\E fails \in BOOLEAN : PruneEntry(n, fails))
  \/ CopyDone \/ PruneDone
  \/ Stop
  \/ \E s \in Skills : SourceChanges(s)

SurfaceSpec == SurfaceInit /\ [][SurfaceNext]_surfaceVars
----------------------------------------------------------------------------
SurfaceTypeOK ==
  /\ runtime \in Runtimes /\ source \subseteq Skills
  /\ surface \in Surfaces \cup {NoSurface, BrokenSurface}
  /\ profile \subseteq {"core", "standard", Full}
  /\ installed \in [Kinds3 -> SUBSET Names]
  /\ apply.step \in {"idle", "resolve"} \/
       /\ apply.step \in {"copy", "prune"} /\ apply.kind \in Kinds3
       /\ apply.left \subseteq Names /\ apply.staged \subseteq Skills \cup AgentFiles
  /\ fresh \in BOOLEAN
  /\ surfaceSteps \in 0 .. MaxSurfaceSteps /\ surfaceFaults \in 0 .. MaxSurfaceFaults

LaidOut(kind) == \E i \in DOMAIN ResolveRuntimeArtifactLayout(runtime) :
                   ResolveRuntimeArtifactLayout(runtime)[i] = kind

\* After an apply that went through, the runtime shows the skills /gsd-surface lists as enabled
\* and no other the manifest knows, with the agents these call; where nothing is disabled or
\* removed, a skill comes with what it requires.  Nothing the user keeps among the skills, and
\* no agent of the user's without the prefix, is ever lost (surface.cjs: pruneSkillDirs).
ShownIsListed ==
  /\ apply = NoApply /\ fresh =>
       /\ LaidOut("skills") => installed["skills"] \cap source = ListSurface.enabled
       /\ LaidOut("commands") => installed["commands"] = ListSurface.enabled
       /\ LaidOut("agents") =>
            installed["agents"] \cap AgentFiles = AgentsOf(ListSurface.enabled, TRUE)
       /\ ReadSurface = NoSurface \/ (surface.disabled = {} /\ surface.removes = {}) =>
            \A s \in ListSurface.enabled : Requires[s] \cap source \subseteq ListSurface.enabled
  /\ UserNames \subseteq installed["skills"]
  /\ UserNames \ UserPrefixed \subseteq installed["agents"]
=============================================================================
