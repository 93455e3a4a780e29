--------------------------- MODULE PlanningPhases ---------------------------
(***************************************************************************)
(* The phases of a milestone: their headings, check boxes and order in     *)
(* ROADMAP.md and their directories under .planning/phases, as the phase,  *)
(* roadmap and milestone commands renumber, complete and archive them      *)
(* (phase.cjs, roadmap.cjs, milestone.cjs).                                *)
(*                                                                         *)
(* A phase is known by its number <<integer, decimal>>, with decimal 0 for *)
(* none; `key` stands for the phase itself, whatever its number becomes.   *)
(* ROADMAP.md has one milestone; a section runs to the next phase heading, *)
(* so that what stands between two headings (the progress table) belongs   *)
(* to the first.  Custom and milestone-prefixed numbers, project codes and *)
(* letters are left out.                                                   *)
(***************************************************************************)
EXTENDS Integers, Sequences, FiniteSets

CONSTANTS
  Namings,          \* key -> the slug of a phase: the cases to look at
  FirstPhases,      \* the first roadmap has the phases 1 .. FirstPhases
  MaxKeys,          \* bound: phases ever created
  MaxPhaseSteps     \* bound: commands

ASSUME PhaseAssumption ==
  /\ Namings # {} /\ FirstPhases \in Nat \ {0}
  /\ MaxKeys \in Nat /\ MaxKeys >= FirstPhases /\ MaxPhaseSteps \in Nat
  /\ MaxKeys < 999  \* the number the code keeps for the backlog

VARIABLES
  nameOf,      \* key -> the phase's slug
  items,       \* ROADMAP.md: the headings and the progress table, in order
  boxes,       \* its check boxes that name a phase
  phaseDirs,        \* the phase directories
  archive,     \* those a milestone took away
  met,         \* the phases whose requirements are marked complete
  position,    \* the phase STATE.md names, <<0, 0>> after the last one
  removing,    \* the removal that is under way
  skew,        \* what has put headings and directories out of step
  keys,        \* phases created so far
  turns        \* commands so far

phaseVars == <<nameOf, items, boxes, phaseDirs, archive, met, position, removing, skew, keys, turns>>

Keys == 1 .. MaxKeys
BacklogKey == 0
Backlog == <<999, 1>>
Ids == ({0, 999} \cup Keys) \X (0 .. MaxKeys)
NoRemoval == [id |-> <<0, 0>>, key |-> 0]

\* The progress table, among the headings.
ProgressTable == [id |-> <<0, 0>>, key |-> -1]
Headings == {items[i] : i \in DOMAIN items} \ {ProgressTable}

\* How far the work in a directory is; research and context count as empty.
Stages == {"empty", "planned", "partial", "complete"}

PhaseTypeOK ==
  /\ nameOf \in Namings
  /\ items \in Seq([id : Ids, key : Keys \cup {-1, BacklogKey}])
  /\ boxes \subseteq [id : Ids, key : Keys, done : BOOLEAN]
  /\ phaseDirs \subseteq [id : Ids, key : Keys \cup {BacklogKey}, stage : Stages]
  /\ archive \subseteq [id : Ids, key : Keys \cup {BacklogKey}, stage : Stages]
  /\ met \subseteq Keys /\ position \in Ids
  /\ removing \in [id : Ids, key : Keys \cup {BacklogKey}]
  /\ skew \subseteq {"decimal", "name", "overlap", "twice", "crash"}
  /\ keys \in 0 .. MaxKeys /\ turns \in 0 .. MaxPhaseSteps

----------------------------------------------------------------------------
(* Numbers.                                                                *)

\* comparePhaseNum: 2 < 2.1 < 2.2 < 3.
Before(a, b) == a[1] < b[1] \/ (a[1] = b[1] /\ a[2] < b[2])
First(S) == CHOOSE a \in S : \A b \in S : ~ Before(b, a)
Greatest(S) == CHOOSE n \in S : \A m \in S : m <= n

\* phaseTokenMatches over the directories, a heading's number over ROADMAP.md.
DirsOf(id) == {d \in phaseDirs : d.id = id}
HasHeading(id) == \E h \in Headings : h.id = id
FirstIndex(S) == IF S = {} THEN 0 ELSE CHOOSE i \in S : \A j \in S : i <= j
IndexOf(id) == FirstIndex({i \in DOMAIN items : items[i].id = id})

\* Mutant of NextInteger: the headings alone are looked at.
IntegerOfRoadmap ==
  1 + Greatest({0} \cup {h.id[1] : h \in {x \in Headings : x.id[1] # 999}})

\* The number of an added phase: above the headings' and above the directories'; a
\* directory with a decimal number does not count.
NextInteger ==
  1 + Greatest({0} \cup {h.id[1] : h \in {x \in Headings : x.id[1] # 999}}
                   \cup {d.id[1] : d \in {x \in phaseDirs : x.id[1] # 999 /\ x.id[2] = 0}})

\* cmdPhaseNextDecimal, and the same in cmdPhaseInsert.
NextDecimal(base) ==
  1 + Greatest({0} \cup {h.id[2] : h \in {x \in Headings : x.id[1] = base}}
                   \cup {d.id[2] : d \in {x \in phaseDirs : x.id[1] = base}})

\* decrementRoadmapPhaseToken.
Decrement(id, gone) == IF id[1] <= gone[1] \/ id[1] = 999 THEN id ELSE <<id[1] - 1, id[2]>>

----------------------------------------------------------------------------
Order == turns < MaxPhaseSteps /\ turns' = turns + 1
Overlapped == skew' = IF removing = NoRemoval THEN skew ELSE skew \cup {"overlap"}

PhaseInit ==
  /\ nameOf \in Namings
  /\ \E backlog \in BOOLEAN :
        /\ items = [i \in 1 .. FirstPhases |-> [id |-> <<i, 0>>, key |-> i]]
                   \o <<ProgressTable>>
                   \o IF backlog THEN <<[id |-> Backlog, key |-> BacklogKey]>> ELSE <<>>
        /\ phaseDirs = IF backlog THEN {[id |-> Backlog, key |-> BacklogKey, stage |-> "empty"]} ELSE {}
  /\ boxes = {[id |-> <<i, 0>>, key |-> i, done |-> FALSE] : i \in 1 .. FirstPhases}
  /\ archive = {} /\ met = {} /\ position = <<1, 0>> /\ removing = NoRemoval /\ skew = {}
  /\ keys = FirstPhases /\ turns = 0

----------------------------------------------------------------------------
(* Adding.                                                                 *)

\* The directory of a new phase and the box of its "TBD (run ... plan-phase N ...)".
Created(news) ==
  /\ keys' = keys + Cardinality(news)
  /\ phaseDirs' = phaseDirs \cup {[id |-> n.id, key |-> n.key, stage |-> "empty"] : n \in news}
  /\ boxes' = boxes \cup {[id |-> n.id, key |-> n.key, done |-> FALSE] : n \in news}

\* cmdPhaseAddBatch, and cmdPhaseAdd with one description: the entries go to the end.
PhaseAdd(count) ==
  /\ Order /\ keys + count <= MaxKeys
  /\ LET news == [i \in 1 .. count |-> [id |-> <<NextInteger + i - 1, 0>>, key |-> keys + i]]
     IN  /\ news[count].id[1] \in Keys
         /\ Created({news[i] : i \in 1 .. count}) /\ items' = items \o news
  /\ Overlapped
  /\ UNCHANGED <<nameOf, archive, met, position, removing>>

\* cmdPhaseInsert: the entry comes before the next heading, and so before the phases
\* that were inserted earlier.
PhaseInsert(base) ==
  /\ Order /\ keys < MaxKeys /\ HasHeading(<<base, 0>>)
  /\ LET new == [id |-> <<base, NextDecimal(base)>>, key |-> keys + 1]
         here == IndexOf(<<base, 0>>)
         at == IF here < Len(items) /\ items[here + 1] = ProgressTable THEN here + 2 ELSE here + 1
     IN  /\ new.id[2] <= MaxKeys
         /\ Created({new})
         /\ items' = SubSeq(items, 1, at - 1) \o <<new>> \o SubSeq(items, at, Len(items))
  /\ Overlapped
  /\ UNCHANGED <<nameOf, archive, met, position, removing>>

----------------------------------------------------------------------------
(* Removing: cmdPhaseRemove renames the directories before it takes the    *)
(* lock under which it renumbers the roadmap.                              *)

\* The directories to rename, and the one whose new name is taken: the loop goes from the
\* highest number down and ends at the first error.
Renamed(gone, rest) ==
  LET moves == {d \in rest : IF gone[2] > 0 THEN d.id[1] = gone[1] /\ d.id[2] > gone[2]
                             ELSE d.id[1] > gone[1] /\ d.id[1] # 999}
      down(d) == IF gone[2] > 0 THEN <<d.id[1], d.id[2] - 1>> ELSE <<d.id[1] - 1, d.id[2]>>
      taken == {d \in moves : \E e \in rest : e.id = down(d) /\ nameOf[e.key] = nameOf[d.key]}
      ends(d) == \E t \in taken : t = d \/ Before(d.id, t.id)
  IN  [rest |-> {IF d \in moves /\ ~ ends(d) THEN [d EXCEPT !.id = down(d)] ELSE d : d \in rest},
       stuck |-> taken # {}]

\* A phase with summaries is removed only by force.
RemoveDirs(h, force) ==
  /\ Order /\ removing = NoRemoval /\ h \in Headings /\ h.id[1] # 999
  /\ \/ DirsOf(h.id) = {}
     \/ force \/ \A d \in DirsOf(h.id) : d.stage \in {"empty", "planned"}
  /\ \E target \in (IF DirsOf(h.id) = {} THEN {{}} ELSE {{d} : d \in DirsOf(h.id)}) :
        LET r == Renamed(h.id, phaseDirs \ target)
        IN  /\ phaseDirs' = r.rest
            /\ skew' = skew \cup (IF r.stuck THEN {"name"} ELSE {})
                  \cup (IF h.id[2] > 0 THEN {"decimal"} ELSE {})
                  \cup (IF Cardinality(DirsOf(h.id)) > 1
                           \/ Cardinality({x \in Headings : x.id = h.id}) > 1
                        THEN {"twice"} ELSE {})
  /\ removing' = h
  /\ UNCHANGED <<nameOf, items, boxes, archive, met, position, keys>>

\* Mutant of RenumberedItems: the decimals of a later phase keep their numbers.
RenumberedIntegers(gone, kept) ==
  [i \in DOMAIN kept |-> IF kept[i].id[2] > 0 THEN kept[i]
                         ELSE [kept[i] EXCEPT !.id = Decrement(kept[i].id, gone)]]

\* A decimal phase leaves its headings' numbers alone.
RenumberedItems(gone, kept) ==
  IF gone[2] > 0 THEN kept
  ELSE [i \in DOMAIN kept |-> [kept[i] EXCEPT !.id = Decrement(kept[i].id, gone)]]

\* A box follows only if its number has no decimal.
RenumberedBoxes(gone, kept) ==
  IF gone[2] > 0 THEN kept
  ELSE {IF b.id[2] > 0 THEN b ELSE [b EXCEPT !.id = Decrement(b.id, gone)] : b \in kept}

\* updateRoadmapAfterPhaseRemoval: the section goes up to the next heading, and with the
\* last phase of the list the progress table.
RemoveRoadmap ==
  /\ removing # NoRemoval
  /\ LET gone == removing.id
         at == IndexOf(gone)
         last == IF at < Len(items) /\ items[at + 1] = ProgressTable THEN at + 1 ELSE at
         kept == IF at = 0 THEN items
                 ELSE SubSeq(items, 1, at - 1) \o SubSeq(items, last + 1, Len(items))
     IN  /\ items' = RenumberedItems(gone, kept)
         /\ boxes' = RenumberedBoxes(gone, {b \in boxes : b.id # gone})
  /\ removing' = NoRemoval
  /\ UNCHANGED <<nameOf, phaseDirs, archive, met, position, skew, keys, turns>>

\* The process dies between the two.
RemoveDies ==
  /\ removing # NoRemoval /\ removing' = NoRemoval /\ skew' = skew \cup {"crash"}
  /\ UNCHANGED <<nameOf, items, boxes, phaseDirs, archive, met, position, keys, turns>>

----------------------------------------------------------------------------
(* Working on phases.                                                      *)

\* cmdRoadmapAnalyze: the state of a heading.  A checked box wins over the directory.
Checked(id) == \E b \in boxes : b.id = id /\ b.done
DiskStatus(id) == IF Checked(id) THEN "complete"
                  ELSE IF DirsOf(id) = {} THEN "no directory"
                  ELSE (CHOOSE d \in DirsOf(id) : TRUE).stage
FirstWith(states) ==
  FirstIndex({i \in DOMAIN items : items[i] # ProgressTable /\ DiskStatus(items[i].id) \in states})
CurrentPhase == FirstWith({"planned", "partial"})
NextPhase == FirstWith({"empty", "no directory"})

\* The planner makes the directory of the next phase and plans it.
PlanPhase ==
  /\ Order /\ NextPhase # 0
  /\ LET h == items[NextPhase]
     IN  \/ /\ DirsOf(h.id) = {}
            /\ phaseDirs' = phaseDirs \cup {[id |-> h.id, key |-> h.key, stage |-> "planned"]}
         \/ \E d \in DirsOf(h.id) :
               phaseDirs' = (phaseDirs \ {d}) \cup {[d EXCEPT !.stage = "planned"]}
  /\ Overlapped
  /\ UNCHANGED <<nameOf, items, boxes, archive, met, position, removing, keys>>

\* The executor writes summaries in the current one.
ExecutePlans ==
  /\ Order /\ CurrentPhase # 0
  /\ \E d \in DirsOf(items[CurrentPhase].id), s \in {"partial", "complete"} :
        /\ d.stage # s /\ phaseDirs' = (phaseDirs \ {d}) \cup {[d EXCEPT !.stage = s]}
  /\ UNCHANGED <<nameOf, items, boxes, archive, met, position, removing, skew, keys>>

\* findPhaseInternal: the phase's directory, or the one of an archived milestone.
Found(id) == DirsOf(id) # {} \/ \E d \in archive : d.id = id

\* getMilestonePhaseFilter: the directories with a heading.
InMilestone(d) == HasHeading(d.id)

\* The phase after: the next directory and, only if there is none, the next heading,
\* in the order of ROADMAP.md.
PhaseAfter(id) ==
  LET later == {d \in phaseDirs : InMilestone(d) /\ d.id[1] # 999 /\ Before(id, d.id)}
      listed == FirstIndex({i \in DOMAIN items : Before(id, items[i].id)})
  IN  IF later # {} THEN First({d.id : d \in later})
      ELSE IF listed # 0 THEN items[listed].id
      ELSE <<0, 0>>

\* cmdPhaseComplete: unfinished plans are no obstacle.
PhaseComplete(id) ==
  /\ Order /\ Found(id)
  /\ LET open == {b \in boxes : b.id = id /\ ~ b.done}
     IN  IF open = {} THEN UNCHANGED boxes
         ELSE \E b \in open : boxes' = (boxes \ {b}) \cup {[b EXCEPT !.done = TRUE]}
  /\ met' = IF HasHeading(id) /\ id # Backlog THEN met \cup {items[IndexOf(id)].key} ELSE met
  /\ position' = PhaseAfter(id)
  /\ UNCHANGED <<nameOf, items, phaseDirs, archive, removing, skew, keys>>

\* cmdRequirementsMarkComplete.
MarkRequirements(k) ==
  /\ Order /\ k \in 1 .. keys /\ met' = met \cup {k}
  /\ UNCHANGED <<nameOf, items, boxes, phaseDirs, archive, position, removing, skew, keys>>

\* cmdMilestoneComplete --archive-phases: every heading has its directory, or force.  The
\* backlog's headings are among them, and so its directories go as well.
MilestoneComplete(force) ==
  /\ Order
  /\ force \/ \A h \in Headings : DirsOf(h.id) # {}
  /\ archive' = archive \cup {d \in phaseDirs : InMilestone(d)}
  /\ phaseDirs' = {d \in phaseDirs : ~ InMilestone(d)}
  /\ Overlapped
  /\ UNCHANGED <<nameOf, items, boxes, met, position, removing, keys>>

\* cmdPhasesClear --confirm.
PhasesClear ==
  /\ Order /\ phaseDirs' = {d \in phaseDirs : d.id[1] = 999} /\ phaseDirs' # phaseDirs
  /\ UNCHANGED <<nameOf, items, boxes, archive, met, position, removing, skew, keys>>

----------------------------------------------------------------------------
PhaseNext ==
  \/ PhaseAdd(1) \/ PhaseAdd(2)
  \/ \E base \in Keys : PhaseInsert(base)
  \/ \E h \in Headings, force \in BOOLEAN : RemoveDirs(h, force)
  \/ RemoveRoadmap \/ RemoveDies \/ PlanPhase \/ ExecutePlans
  \/ \E h \in Headings : PhaseComplete(h.id)
  \/ \E k \in Keys : MarkRequirements(k)
  \/ \E force \in BOOLEAN : MilestoneComplete(force)
  \/ PhasesClear

PhaseSpec == PhaseInit /\ [][PhaseNext]_phaseVars

----------------------------------------------------------------------------
(* Properties.                                                             *)

\* A number is given once: the phase that a command adds has one that no heading and no
\* directory bears, whatever was removed, cleared or left half done before.
NewPhaseIsFresh ==
  [][keys' > keys =>
       \A n \in {h \in Headings' : h.key > keys} :
          ~ HasHeading(n.id) /\ DirsOf(n.id) = {}]_phaseVars

\* Renumbering keeps a phase together: while no removal is under way, a directory bears the
\* number of its own phase's heading.  What can separate the two is a removal of a decimal
\* phase (its headings keep their numbers), two phases of one name in a row (the second
\* cannot be renamed), a number that two phases got by a renumbering, a command that came
\* between the two halves of a removal, and one that died there.
DirsFollowHeadings ==
  removing = NoRemoval /\ skew = {} =>
    \A d \in phaseDirs : \E h \in Headings : h.key = d.key /\ h.id = d.id
=============================================================================
