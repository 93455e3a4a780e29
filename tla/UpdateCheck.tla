------------------------------- MODULE UpdateCheck -------------------------------
(***************************************************************************)
(* How a user learns of a new version: each session starts a worker in the *)
(* background that compares the version installed with the one published   *)
(* and leaves the result in a cache that all sessions, projects and        *)
(* runtimes of the user share; a banner and the status line of later       *)
(* sessions read it. Nothing is locked: workers of several sessions and an *)
(* update run together, and the cache is not replaced in one step.         *)
(***************************************************************************)
EXTENDS Naturals, FiniteSets

CONSTANTS
  UpdateRuntimes,       \* runtimes, numbered in the order they are looked for
  Workers,        \* workers that may be at work
  InitialInstalls, \* installs to begin with: functions from places to versions, 0 for none
  EnvPlaces,      \* places the environment may name: NoPlace for none
  MaxVersion,     \* bound: versions; an odd one releases the even one before it
  MaxUpdateSteps  \* bound: versions published, installs and sessions

Bases == {"home", "project"}
Places == Bases \X UpdateRuntimes
NoPlace == <<"none", 0>>

ASSUME UpdateCheckAssumption ==
  /\ UpdateRuntimes \subseteq Nat /\ MaxVersion \in Nat /\ MaxUpdateSteps \in Nat
  /\ InitialInstalls \subseteq [Places -> 0 .. 2]
  /\ EnvPlaces \subseteq Places \cup {NoPlace}

NoCache == [is |-> "absent"]
TornCache == [is |-> "torn"]
\* What stands for a version in hooks without a header, and in those of a development
\* tree, whose header still has the placeholder.
NoHeader == MaxVersion + 1
Placeholder == MaxVersion + 2
NoWorker == [pc |-> "none"]

VARIABLES
  env,        \* the place CLAUDE_CONFIG_DIR names
  version,    \* place -> version installed, 0 for none
  hooks,      \* place -> version in the headers of its hooks, or NoHeader, Placeholder
  published,  \* version in the registry
  cache,      \* what the last worker left
  worker,     \* worker -> what it has found out
  updating,   \* places installed anew while the cache is not yet cleared
  warnedToday, \* the banner said within a day that the check failed
  updateSteps

updateVars == <<env, version, hooks, published, cache, worker, updating, warnedToday, updateSteps>>
----------------------------------------------------------------------------
\* A comparison of versions ignores what comes after the three numbers.
Core(v) == v \div 2
IsSemverNewer(a, b) == Core(a) > Core(b)

\* The first runtime with an install, whichever is running; one the environment
\* names comes before that.
DetectConfigDir(base) ==
  IF env # NoPlace /\ version[env] # 0 THEN env
  ELSE LET found == {r \in UpdateRuntimes : version[<<base, r>>] # 0}
       IN IF found # {} THEN <<base, CHOOSE r \in found : \A q \in found : r <= q>> ELSE NoPlace

\* The install of a session: that of its project, or else the one of the user.
InstallOf(inProject) ==
  LET local == IF inProject THEN DetectConfigDir("project") ELSE NoPlace
  IN IF local # NoPlace THEN local ELSE DetectConfigDir("home")

VersionAt(place) == IF place = NoPlace THEN 0 ELSE version[place]
\* Hooks older than their install, or from before there were headers.
StaleHooks(place) ==
  /\ place # NoPlace /\ hooks[place] # Placeholder
  /\ hooks[place] = NoHeader \/ IsSemverNewer(version[place], hooks[place])
----------------------------------------------------------------------------
(* What a session shows of the cache.                                      *)

BuildBannerOutput ==
  CASE cache = NoCache -> "nothing"
    [] cache = TornCache -> IF warnedToday THEN "nothing" ELSE "failed"
    [] OTHER -> IF cache.ours /\ cache.available THEN "available" ELSE "nothing"

\* The status line tells stale hooks of an install from those of a development tree.
EvaluateUpdateCache ==
  IF cache.is # "result" \/ ~cache.ours THEN [showUpdate |-> FALSE, staleWarning |-> "none"]
  ELSE [showUpdate |-> cache.available,
        staleWarning |->
          IF ~cache.stale THEN "none"
          ELSE IF cache.latest # 0 /\ IsSemverNewer(cache.installed, cache.latest) THEN "dev" ELSE "stale"]
----------------------------------------------------------------------------
UpdateStep == updateSteps < MaxUpdateSteps /\ updateSteps' = updateSteps + 1

\* The banner looks at the cache as it is, then the worker starts.
SessionStart(w) ==
  /\ UpdateStep /\ worker[w] = NoWorker
  /\ warnedToday' = (warnedToday \/ BuildBannerOutput = "failed")
  /\ \E inProject \in BOOLEAN : worker' = [worker EXCEPT ![w] = [pc |-> "read", place |-> InstallOf(inProject)]]
  /\ UNCHANGED <<env, version, hooks, published, cache, updating>>

DayPasses ==
  /\ warnedToday /\ warnedToday' = FALSE
  /\ UNCHANGED <<env, version, hooks, published, cache, worker, updating, updateSteps>>

\* current: ghost, what the worker found out has not changed since.
ReadVersion(w) ==
  /\ worker[w].pc = "read"
  /\ LET place == worker[w].place
     IN worker' = [worker EXCEPT ![w] =
          [pc |-> "ask", place |-> place, current |-> TRUE,
           installed |-> VersionAt(place), stale |-> StaleHooks(place)]]
  /\ UNCHANGED <<env, version, hooks, published, cache, updating, warnedToday, updateSteps>>

\* A registry that does not answer, or not with a version, leaves the latest unknown.
CheckLatestVersion(w) ==
  /\ worker[w].pc = "ask"
  /\ \E latest \in {0, published} :
       worker' = [worker EXCEPT ![w] =
         [pc |-> "open", place |-> @.place, current |-> @.current,
          result |-> [is |-> "result", ours |-> TRUE, place |-> @.place, current |-> TRUE,
                      installed |-> @.installed, latest |-> latest, stale |-> @.stale,
                      available |-> latest # 0 /\ IsSemverNewer(latest, @.installed)]]]
  /\ UNCHANGED <<env, version, hooks, published, cache, updating, warnedToday, updateSteps>>

\* The file is truncated, and then written.
OpenCache(w) ==
  /\ worker[w].pc = "open" /\ cache' = TornCache
  /\ worker' = [worker EXCEPT ![w].pc = "write"]
  /\ UNCHANGED <<env, version, hooks, published, updating, warnedToday, updateSteps>>

WriteCache(w) ==
  /\ worker[w].pc = "write"
  /\ cache' = [worker[w].result EXCEPT !.current = worker[w].current]
  /\ worker' = [worker EXCEPT ![w] = NoWorker]
  /\ UNCHANGED <<env, version, hooks, published, updating, warnedToday, updateSteps>>

WorkerDies(w) ==
  /\ UpdateStep /\ worker[w] # NoWorker /\ worker' = [worker EXCEPT ![w] = NoWorker]
  /\ UNCHANGED <<env, version, hooks, published, cache, updating, warnedToday>>

\* A package of another lineage writes a cache of this name.
ForeignWrite ==
  /\ UpdateStep
  /\ cache' = [is |-> "result", ours |-> FALSE, place |-> NoPlace, current |-> FALSE,
               installed |-> 0, latest |-> MaxVersion, stale |-> TRUE, available |-> TRUE]
  /\ UNCHANGED <<env, version, hooks, published, worker, updating, warnedToday>>

Outdated(steps, places) ==
  [w \in Workers |-> IF worker[w].pc \in steps /\ worker[w].place \in places
                     THEN [worker[w] EXCEPT !.current = FALSE] ELSE worker[w]]

Publish ==
  /\ UpdateStep /\ published < MaxVersion /\ published' = published + 1
  /\ worker' = Outdated({"open", "write"}, Places \cup {NoPlace})
  /\ cache' = IF cache.is = "result" THEN [cache EXCEPT !.current = FALSE] ELSE cache
  /\ UNCHANGED <<env, version, hooks, updating, warnedToday>>

\* The update: the installer, which may break off before it has replaced the hooks,
\* and then the removal of the caches.
Install ==
  /\ UpdateStep
  /\ \E place \in Places :
       /\ version' = [version EXCEPT ![place] = published]
       /\ \E h \in {published, hooks[place]} : hooks' = [hooks EXCEPT ![place] = h]
       /\ updating' = updating \cup {place}
       /\ worker' = Outdated({"ask", "open", "write"}, {place})
  /\ UNCHANGED <<env, published, cache, warnedToday>>

\* Mutant of ClearCache: the cache that all runtimes share is left.
ClearOwnCache ==
  /\ updating # {} /\ updating' = {}
  /\ UNCHANGED <<env, version, hooks, published, cache, worker, warnedToday, updateSteps>>

ClearCache ==
  /\ updating # {} /\ updating' = {}
  /\ cache' = NoCache
  /\ UNCHANGED <<env, version, hooks, published, worker, warnedToday, updateSteps>>

UpdateInit ==
  /\ env \in EnvPlaces /\ version \in InitialInstalls 
  /\ hooks \in {version} \cup {[p \in Places |-> h] : h \in {NoHeader, Placeholder}}
  /\ published \in 2 .. MaxVersion /\ cache = NoCache /\ worker = [w \in Workers |-> NoWorker]
  /\ updating = {} /\ warnedToday = FALSE /\ updateSteps = 0

UpdateNext ==
  \/ DayPasses \/ ForeignWrite \/ Publish \/ Install \/ ClearCache
  \/ \E w \in Workers :
       \/ SessionStart(w) \/ ReadVersion(w) \/ CheckLatestVersion(w) \/ OpenCache(w) \/ WriteCache(w)
       \/ WorkerDies(w)

UpdateSpec == UpdateInit /\ [][UpdateNext]_updateVars
----------------------------------------------------------------------------
CacheContents ==
  [is : {"result"}, ours : BOOLEAN, place : Places \cup {NoPlace}, current : BOOLEAN,
   installed : 0 .. published, latest : 0 .. MaxVersion, stale : BOOLEAN, available : BOOLEAN]

WorkerStates ==
  {NoWorker}
    \cup [pc : {"read"}, place : Places \cup {NoPlace}]
    \cup [pc : {"ask"}, place : Places \cup {NoPlace}, current : BOOLEAN,
          installed : 0 .. published, stale : BOOLEAN]
    \cup [pc : {"open", "write"}, place : Places \cup {NoPlace}, current : BOOLEAN,
          result : CacheContents]

UpdateTypeOK ==
  /\ env \in Places \cup {NoPlace} /\ published \in 0 .. MaxVersion
  /\ version \in [Places -> 0 .. published] /\ hooks \in [Places -> 0 .. published \cup {NoHeader, Placeholder}]
  /\ \A p \in Places : hooks[p] \in {NoHeader, Placeholder} \/ hooks[p] <= version[p]
  /\ cache \in {NoCache, TornCache} \cup CacheContents
  /\ worker \in [Workers -> WorkerStates]
  /\ updating \subseteq Places /\ warnedToday \in BOOLEAN /\ updateSteps \in 0 .. MaxUpdateSteps

\* What a session shows is true of the install it uses, although all of them share
\* a cache and no worker waits for another or for an update: unless a worker was
\* at work while the version changed, or the last one was started for another
\* install. A registry that did not answer, and another package, show nothing
\* (hooks/gsd-check-update-worker.js:46-107, gsd-statusline.js:508-530).
BannerIsTrue ==
  \A inProject \in BOOLEAN :
    LET place == InstallOf(inProject)
        shown == EvaluateUpdateCache
    IN /\ cache.is = "result" /\ updating = {} /\ (cache.ours => cache.current /\ cache.place = place) =>
            /\ BuildBannerOutput = "available"
                 <=> cache.ours /\ cache.latest # 0 /\ IsSemverNewer(published, VersionAt(place))
            /\ shown.showUpdate <=> BuildBannerOutput = "available"
            /\ shown.staleWarning # "none" <=> cache.ours /\ StaleHooks(place)
=============================================================================
