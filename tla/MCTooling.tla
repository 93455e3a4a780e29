----------------------------- MODULE MCTooling ------------------------------
(***************************************************************************)
(* The components of the agent tooling around the planning files that      *)
(* share no state: a behaviour is one of one component, named by `part`;   *)
(* the others rest in an initial state.                                    *)
(***************************************************************************)
EXTENDS Worktrees, InstallerMigrations, Workstreams, SkillSurface, OpenItems,
        CodebaseDrift, ContextMonitor, UpdateCheck, TLC

CONSTANTS p1, p2, s1, s2, none

VARIABLE part

toolingVars == <<part, wtVars, installVars, streamVars, surfaceVars, openVars,
                  driftVars, monitorVars, updateVars>>

Parts == {"worktrees", "installers", "streams", "surface", "audits", "drift",
          "monitor", "updates"}

----------------------------------------------------------------------------
(* The instances.                                                          *)

\* An entry of the manifest is repeated and another one is not usable.
MCManifest == << [agent |-> 1, valid |-> TRUE], [agent |-> 2, valid |-> FALSE],
                 [agent |-> 1, valid |-> TRUE], [agent |-> 2, valid |-> TRUE] >>

\* HEAD is ahead of what origin has, which is known or not; the worktrees start at
\* HEAD or at origin's.
MCOrigins == {[known |-> TRUE, ahead |-> TRUE, fork |-> FALSE],
              [known |-> FALSE, ahead |-> TRUE, fork |-> TRUE]}

\* One agent may commit again after it counts as finished; the other only leaves files.
MCCommits == 1 :> 2 @@ 2 :> 0

\* Projects with an edited and with a foreign hook, with old files as they were
\* installed, edited, and none.
Disk(h, l, j) == [hook |-> h, legacy |-> l, hooksJson |-> j]
MCDisks == { Disk("foreign", "pristine", "registered"), Disk("edited", "edited", "absent") }

\* Two sessions with pointers of their own.
MCPointerOf == [p \in Sessions |-> p]

\* A skill that requires another, which calls an agent, and one by itself.
MCRequires == [s \in Skills |-> IF s = "ship" THEN {"review"} ELSE {}]
MCCalls == [s \in Skills |-> IF s = "review" THEN {"reviewer"} ELSE {}]
MCProfiles == [core |-> {"help"}, standard |-> {"ship"}]
MCClusters == [utility |-> {"help"}, audit |-> {"review"}]
MCRuntimes == {<<"claude", "local">>, <<"opencode", "global">>, <<"codex", "global">>, <<"cline", "global">>}
MCSurfaces == {NoSurface, BrokenSurface, SurfaceOf({"core"}, {"utility"}, {"ship"}, {}),
               SurfaceOf({}, {}, {}, {"review"})}

\* A route of an application, another file, and a migration; the name of one top
\* directory is contained in that of another.
MCCategory == [f \in DriftFiles |-> CASE f = "apps/a/routes" -> "route" [] f = "db/m1" -> "migration"
                                     [] OTHER -> "ordinary"]
MCTop == [f \in DriftFiles |-> CASE f = "apps/a/routes" -> "apps" [] f = "app/y" -> "app" [] OTHER -> "db"]
MCScope == [f \in DriftFiles |-> CASE f = "apps/a/routes" -> "apps/a" [] f = "app/y" -> "app"
                                  [] OTHER -> "db"]
MCReads == [t \in {"apps", "app", "db"} |-> IF t = "app" THEN {"app", "apps"} ELSE {t}]
MCTrees == {{"db/m1"}}

\* A user's install, and installs of two runtimes in two places.
MCVersions(places) == [p \in Places |-> IF p \in places THEN 2 ELSE 0]
MCInstalls == {MCVersions({<<"home", 1>>}), MCVersions({<<"home", 2>>, <<"project", 1>>})}
MCEnvPlaces == {NoPlace, <<"home", 2>>}

----------------------------------------------------------------------------
ToolingInit ==
  /\ part \in Parts
  /\ IF part = "worktrees" THEN TRUE ELSE origin = CHOOSE o \in Origins : TRUE
  /\ WorktreeInit
  /\ IF part = "installers" THEN TRUE ELSE applied = {} /\ disk = CHOOSE d \in InitialDisks : TRUE
  /\ InstallerInit
  /\ IF part = "streams" THEN TRUE ELSE root = {}
  /\ StreamInit
  /\ IF part = "surface" THEN TRUE ELSE runtime = <<"codex", "global">> /\ surface = NoSurface /\ profile = {}
  /\ SurfaceInit
  /\ IF part = "audits" THEN TRUE ELSE milestone = {}
  /\ OpenInit
  /\ IF part = "drift" THEN TRUE ELSE tree = [c \in {1} |-> {"db/m1"}] /\ settings = [threshold |-> 1, action |-> "warn"]
  /\ DriftInit
  /\ IF part = "monitor" THEN TRUE ELSE tracked = TRUE
  /\ MonitorInit
  /\ IF part = "updates" THEN TRUE ELSE env = NoPlace /\ published = 2 /\ version = MCVersions({<<"home", 1>>}) /\ hooks = version
  /\ UpdateInit

\* The components other than p.
Rest(p) ==
  /\ IF p = "worktrees" THEN TRUE ELSE UNCHANGED wtVars
  /\ IF p = "installers" THEN TRUE ELSE UNCHANGED installVars
  /\ IF p = "streams" THEN TRUE ELSE UNCHANGED streamVars
  /\ IF p = "surface" THEN TRUE ELSE UNCHANGED surfaceVars
  /\ IF p = "audits" THEN TRUE ELSE UNCHANGED openVars
  /\ IF p = "drift" THEN TRUE ELSE UNCHANGED driftVars
  /\ IF p = "monitor" THEN TRUE ELSE UNCHANGED monitorVars
  /\ IF p = "updates" THEN TRUE ELSE UNCHANGED updateVars

ToolingNext ==
  /\ UNCHANGED part
  /\ \/ part = "worktrees" /\ WorktreeNext /\ Rest("worktrees")
     \/ part = "installers" /\ InstallerNext /\ Rest("installers")
     \/ part = "streams" /\ StreamNext /\ Rest("streams")
     \/ part = "surface" /\ SurfaceNext /\ Rest("surface")
     \/ part = "audits" /\ OpenNext /\ Rest("audits")
     \/ part = "drift" /\ DriftNext /\ Rest("drift")
     \/ part = "monitor" /\ MonitorNext /\ Rest("monitor")
     \/ part = "updates" /\ UpdateNext /\ Rest("updates")

ToolingSpec == ToolingInit /\ [][ToolingNext]_toolingVars

\* Every variable of the component at work has its type.
ToolingTypeOK ==
  /\ part \in Parts
  /\ part = "worktrees" => WorktreeTypeOK
  /\ part = "installers" => InstallerTypeOK
  /\ part = "streams" => WorkstreamTypeOK
  /\ part = "surface" => SurfaceTypeOK
  /\ part = "audits" => OpenTypeOK
  /\ part = "drift" => DriftTypeOK
  /\ part = "monitor" => MonitorTypeOK
  /\ part = "updates" => UpdateTypeOK
=============================================================================
