----------------------------- MODULE TilePlanning -----------------------------
(***************************************************************************)
(* A conversion with maxPointsPerTile (tools/usd-pointcloud-convert): two  *)
(* passes over the source plan the tiles (BuildPointBudgetPlan,            *)
(* BuildTilePlan of libs/usd-pointcloud-tiling), the identity of the       *)
(* source is looked at again, and a third pass routes every point into its *)
(* tile (PointBudgetTileRouter).  The source is a file that somebody may   *)
(* replace at any moment, and put back: a stream takes the number of       *)
(* points from the header it opened, and every chunk from the file as it   *)
(* is then.                                                                *)
(***************************************************************************)
EXTENDS TilePlans, SequencesExt

CONSTANTS
    Sources,        \* what the file may hold at the start, as sequences of positions
    Replacements,   \* what somebody may put in the place of each
    Configs,        \* the point budgets: [max, min, depth]
    Stamps          \* what tells files apart: size, time and hash of what they hold

Files == Sources \cup UNION {Replacements[s] : s \in Sources}

Positions == UNION {Range(s) : s \in Files}

ASSUME PlanningAssumption ==
    /\ \A s \in Files : s \in Seq(Range(s))
    /\ \A p \in Positions : p.x \in Int /\ p.y \in Int
    /\ \A c \in Configs : /\ c.max \in Nat \ {0} /\ c.min \in 0..c.max
                          /\ c.depth \in 0..31

VARIABLES
    source,      \* the positions in the file
    stamp,       \* what its identity is made of
    config,      \* the point budget
    identified,  \* the source has an identity that can be compared
    identity,    \* the one of the first look at the source
    pc,          \* where the conversion is
    expected,    \* the points of the open stream, from its header
    at,          \* the points read from it
    box,         \* the bounds of the first pass
    counted,     \* its number of points
    terminal,    \* code of a cell at full depth -> points, of the second pass
    budget,      \* the tiles of the point budget
    plan,        \* the tile plan
    written,     \* the <<position, tile>> pairs that were authored, in order
    original,    \* what the identified file holds
    strayed,     \* history: another file was met where that one was looked for
    fooled       \* history: that one was back in its place when it was checked for

file    == <<source, stamp, original>>
request == <<config, identified, identity>>
reader  == <<expected, at>>
passes  == <<box, counted, terminal>>
plans   == <<budget, plan>>
history == <<strayed, fooled>>
vars    == <<file, request, pc, reader, passes, plans, written, history>>

(* The reader stays within its stream, a code is one of the cells at full  *)
(* depth, a tile is one of the tree.                                       *)
TypeOK ==
    /\ source \in Files
    /\ {stamp, identity} \subseteq Stamps
    /\ config \in Configs
    /\ pc \in {"start", "first", "second", "plan", "check", "open", "author", "manifest",
               "done", "failed"}
    /\ at \in 0..expected
    /\ counted \in Nat
    /\ DOMAIN terminal \subseteq 0..(2^(2 * config.depth) - 1)
    /\ DOMAIN plan \subseteq CellsTo(config.depth)
    /\ \A i \in DOMAIN written : written[i].tile \in CellsTo(config.depth)

Empty == <<>>

Init ==
    /\ source \in Sources
    /\ stamp \in Stamps
    /\ config \in Configs
    /\ identified \in BOOLEAN
    /\ identity = stamp
    /\ pc = "start"
    /\ expected = 0 /\ at = 0
    /\ box = Empty /\ counted = 0 /\ terminal = Empty
    /\ budget = {} /\ plan = Empty
    /\ written = <<>>
    /\ original = source /\ strayed = FALSE /\ fooled = FALSE

-----------------------------------------------------------------------------
Fail == pc' = "failed"

(* The file is looked at.                                                  *)
Look == strayed' = (strayed \/ stamp # identity) /\ UNCHANGED fooled

(* A stream is opened anew for every pass.                                 *)
OpenStream(next) ==
    /\ pc' = next
    /\ expected' = Len(source)
    /\ at' = 0
    /\ Look

(* The identity was taken before anything is read.                        *)
OpenFirst ==
    /\ pc = "start" /\ OpenStream("first")
    /\ UNCHANGED <<file, request, passes, plans, written>>

(* The file is shorter than the header of the open stream said.            *)
ReadFails ==
    /\ pc \in {"first", "second", "author"}
    /\ at < expected /\ at >= Len(source)
    /\ Fail /\ Look
    /\ UNCHANGED <<file, request, reader, passes, plans, written>>

(* Mutant: the chunk loop runs to the end of the file.                     *)
ReadingToTheFilesEnd == at < Len(source) /\ Look

Reading == at < expected /\ at < Len(source) /\ Look

point == source[at + 1]

(* The bounds and the number of the points.                                *)
FirstPass ==
    /\ pc = "first" /\ Reading
    /\ box' = IF counted = 0 THEN Around(point) ELSE Hull({box, Around(point)})
    /\ counted' = counted + 1
    /\ at' = at + 1
    /\ UNCHANGED <<file, request, pc, expected, terminal, plans, written>>

(* A source without points has an empty budget.                            *)
EndFirstPass ==
    /\ pc = "first" /\ at = expected
    /\ IF counted = 0
       THEN pc' = "plan" /\ UNCHANGED <<reader, history>>
       ELSE OpenStream("second")
    /\ UNCHANGED <<file, request, passes, plans, written>>

CodeOf(p) ==
    LET id == Descent(box, p, config.depth)[config.depth].id
    IN  EncodeMortonPrefix(id[2], id[3], config.depth)

(* The cell at full depth; a point outside the bounds of the first pass    *)
(* falls into one at their edge.                                           *)
SecondPass ==
    /\ pc = "second" /\ Reading
    /\ terminal' = [c \in DOMAIN terminal \cup {CodeOf(point)} |->
                       (IF c \in DOMAIN terminal THEN terminal[c] ELSE 0)
                       + (IF c = CodeOf(point) THEN 1 ELSE 0)]
    /\ at' = at + 1
    /\ UNCHANGED <<file, request, pc, expected, box, counted, plans, written>>

(* Mutant: the two counts are not compared.                                *)
EndSecondPassUncompared ==
    /\ pc = "second" /\ at = expected
    /\ pc' = "plan"
    /\ UNCHANGED <<file, request, reader, passes, plans, written, history>>

(* Only the numbers of points are compared.                                *)
EndSecondPass ==
    /\ pc = "second" /\ at = expected
    /\ IF at = counted THEN pc' = "plan" ELSE Fail
    /\ UNCHANGED <<file, request, reader, passes, plans, written, history>>

Planned ==
    IF counted = 0 THEN [satisfied |-> TRUE, tiles |-> {}]
    ELSE PlanFromCounts(terminal, box, config)

(* The budget and the plan over it.  The router of an empty plan is        *)
(* refused when authoring starts.                                          *)
Plan ==
    /\ pc = "plan"
    /\ budget' = Planned.tiles
    /\ LET nodes == NodesOver(Planned.tiles)
       IN  IF Planned.satisfied /\ ValidateTilePlan(nodes)
           THEN pc' = "check" /\ plan' = nodes
           ELSE Fail /\ UNCHANGED plan
    /\ UNCHANGED <<file, request, reader, passes, written, history>>

(* Mutant: the identity is taken for granted.                              *)
CheckIdentityNever ==
    /\ pc = "check"
    /\ pc' = "open"
    /\ fooled' = (strayed /\ stamp = identity)
    /\ UNCHANGED <<file, request, reader, passes, plans, written, strayed>>

(* The source must be the one of the first look, if that can be told.      *)
CheckIdentity ==
    /\ pc = "check"
    /\ IF identified /\ stamp # identity
       THEN Fail /\ Look
       ELSE /\ pc' = "open"
            /\ fooled' = (strayed /\ stamp = identity)
            /\ UNCHANGED strayed
    /\ UNCHANGED <<file, request, reader, passes, plans, written>>

(* Then it is opened; the router of an empty plan is refused.              *)
OpenPlanned ==
    /\ pc = "open"
    /\ IF LeafTiles(plan) = {}
       THEN Fail /\ UNCHANGED <<reader, history>>
       ELSE OpenStream("author")
    /\ UNCHANGED <<file, request, passes, plans, written>>

TileOf(p) == GetTileId(LeafTiles(plan), p, config.depth)

(* A point goes into the spool of its tile; one outside the plan ends the  *)
(* conversion.                                                             *)
RoutePoint ==
    /\ pc = "author" /\ Reading
    /\ IF TileOf(point) = NoTile
       THEN Fail /\ UNCHANGED <<at, written>>
       ELSE /\ written' = Append(written, [at |-> point, tile |-> TileOf(point)])
            /\ at' = at + 1
            /\ UNCHANGED pc
    /\ UNCHANGED <<file, request, expected, passes, plans>>

EndAuthoring ==
    /\ pc = "author" /\ at = expected
    /\ pc' = "manifest"
    /\ UNCHANGED <<file, request, reader, passes, plans, written, history>>

Tiles == {written[i].tile : i \in DOMAIN written}

PointsIn(tile) == Cardinality({i \in DOMAIN written : written[i].tile = tile})

(* One manifest entry per tile, sorted by the tile; a tile that is listed  *)
(* twice or holds no point is refused.                                     *)
ManifestEntries == {[id |-> tile, count |-> PointsIn(tile)] : tile \in Tiles}

WriteTileManifest ==
    /\ pc = "manifest"
    /\ IF /\ \A e \in ManifestEntries : e.count > 0
          /\ \A e, f \in ManifestEntries : e.id = f.id => e = f
       THEN pc' = "done"
       ELSE Fail
    /\ UNCHANGED <<file, request, reader, passes, plans, written, history>>

(* Somebody replaces the file, or puts the first one back.                 *)
SourceChanges ==
    /\ pc \notin {"done", "failed"}
    /\ \/ source' \in Replacements[original] /\ stamp' \in Stamps \ {identity}
       \/ source' = original /\ stamp' = identity
    /\ UNCHANGED <<original, request, pc, reader, passes, plans, written, history>>

Next ==
    \/ OpenFirst \/ FirstPass \/ EndFirstPass
    \/ SecondPass \/ EndSecondPass
    \/ ReadFails
    \/ Plan
    \/ CheckIdentity \/ OpenPlanned
    \/ RoutePoint \/ EndAuthoring
    \/ WriteTileManifest
    \/ SourceChanges

Spec == Init /\ [][Next]_vars

-----------------------------------------------------------------------------
(* The streaming planner, which never holds the points, comes to the tiles *)
(* and to the verdict of the planner that holds them all, where it read    *)
(* the file that was identified, whatever was at its place in between.     *)
PlannersAgree ==
    pc = "plan" /\ ~strayed => Planned = PlanInMemory(original, config)

(* Whatever the source did between the passes, a plan that was accepted    *)
(* accounts for every point of the second pass in one tile, keeps the      *)
(* budget in each, and never puts a tile below another: the descent of the *)
(* router stops at the first tile it meets.  A budget that is met always   *)
(* gives a plan that validates.                                            *)
PlanIsSound ==
    /\ pc = "plan" /\ Planned.satisfied => ValidateTilePlan(NodesOver(Planned.tiles))
    /\ plan # Empty =>
        /\ Count(budget) = counted
        /\ \A t \in budget :
              /\ t.count <= config.max
              /\ t.count >= config.min \/ t.id = Root
              /\ \A u \in budget : u # t => t.id \notin PathTo(u.id)
        /\ plan[Root].count = counted

(* Where every look met the file that was identified every point is routed *)
(* into the tile that counted it, although the router rebuilds the box of  *)
(* the tree from the tiles that hold points; nothing is left out or        *)
(* refused.                                                                *)
RoutedWhereCounted ==
    ~strayed =>
        /\ pc = "done" => /\ Tiles = {t.id : t \in budget}
                          /\ \A t \in budget : PointsIn(t.id) = t.count
        /\ pc = "failed" => \/ original = <<>>
                            \/ ~PlanInMemory(original, config).satisfied

(* With an identity, a point is only ever authored into a tile whose box   *)
(* holds it, also when the source is replaced under the last pass: the     *)
(* check keeps plans away whose passes read another file, unless the first *)
(* one was put back before it - the identity does not tell what was read.  *)
TilesHoldTheirPoints ==
    identified /\ ~fooled =>
        \A i \in DOMAIN written :
            InBox(written[i].at, plan[written[i].tile].box)

=============================================================================
