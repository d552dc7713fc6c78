-------------------------- MODULE TilePlanningProofs --------------------------
(***************************************************************************)
(* Of every source, every replacement and every point budget: the planner  *)
(* that never holds the points plans what the one that holds them plans,   *)
(* an accepted plan is sound, and its tiles hold the points routed into    *)
(* them.                                                                   *)
(***************************************************************************)
EXTENDS TilePlanning, TilePlansProofs

Stages ==
    {"start", "first", "second", "plan", "check", "open", "author", "manifest", "done", "failed"}

(* Where the positions of the identified file lie at full depth.           *)
Cells == CellsOf(box, original, config.depth)

Leaf(tile, cell) == \E t \in budget : t.id = tile /\ t.id \in PathTo(cell)

Typed ==
    /\ source \in Files /\ original \in Sources
    /\ {stamp, identity} \subseteq Stamps
    /\ stamp = identity => source = original
    /\ {strayed, fooled} \subseteq BOOLEAN
    /\ config \in Configs
    /\ pc \in Stages
    /\ expected \in Nat /\ at \in 0..expected /\ counted \in Nat
    /\ written \in Seq([at : Positions, tile : CellsTo(config.depth)])

(* What the passes know, whatever the file was when they read it.          *)
Measured ==
    /\ counted > 0 => box \in Boxes /\ Upright(box)
    /\ IsTally(terminal, config.depth)
    /\ pc \in {"start", "first"} => counted = at /\ terminal = Empty
    /\ pc = "start" => at = 0
    /\ pc = "second" => counted > 0 /\ Total(terminal) = at
    /\ pc \in {"plan", "check", "open", "author", "manifest", "done"} =>
          Total(terminal) = counted

(* What a plan is made of.                                                 *)
Accepted ==
    /\ pc \in {"start", "first", "second", "plan"} => plan = Empty
    /\ pc \in {"start", "first", "second", "plan", "check", "open"} => written = <<>>
    /\ plan # Empty => /\ counted > 0 /\ Total(terminal) = counted
                       /\ Planned.satisfied /\ budget = Planned.tiles
                       /\ plan = NodesOver(budget)
    /\ pc \in {"check", "open"} => plan = NodesOver(Planned.tiles) /\ Planned.satisfied
    /\ pc \in {"author", "manifest", "done"} => plan # Empty

(* An identity that was compared, and was not back by then, means that the *)
(* router has the planner's box.                                           *)
Framed ==
    identified /\ ~fooled /\ (pc = "author" \/ (pc = "open" /\ counted > 0)) =>
        Hull(BoxesOf(LeafTiles(plan))) = box

(* What the passes know when each look met the identified file.            *)
Kept ==
    ~strayed =>
        /\ pc # "start" => expected = Len(original)
        /\ pc = "first" /\ counted > 0 => Spans(box, 1..at, original)
        /\ pc \notin {"start", "first"} => counted = Len(original)
        /\ pc # "first" /\ counted > 0 => Spans(box, 1..Len(original), original)
        /\ pc = "second" => Tallied(terminal, 1..at, Cells, config.depth)
        /\ pc \notin {"first", "second"} /\ counted > 0 =>
              Tallied(terminal, 1..Len(original), Cells, config.depth)

(* Where its points went, and why a conversion of it may end early.        *)
Routed ==
    ~strayed =>
        /\ pc = "author" => Len(written) = at
        /\ pc \in {"manifest", "done"} => Len(written) = Len(original)
        /\ pc \in {"author", "manifest", "done"} =>
              \A i \in DOMAIN written : Leaf(written[i].tile, Cells[i])
        /\ pc = "failed" => original = <<>> \/ ~PlanInMemory(original, config).satisfied

IInv == Typed /\ Measured /\ Accepted /\ Framed /\ TilesHoldTheirPoints /\ Kept /\ Routed

-----------------------------------------------------------------------------
(* The constants.                                                          *)

LEMMA ConfigIs ==
  ASSUME Typed
  PROVE  config.depth \in Nat /\ config.max \in Nat /\ config.min \in Nat
  <1>1. config \in Configs
    BY DEF Typed
  <1>2. /\ config.max \in Nat \ {0} /\ config.min \in 0..config.max /\ config.depth \in 0..31
    BY <1>1, PlanningAssumption
  <1> QED
    BY <1>2

LEMMA FilesAre ==
  \A s \in Sources : s \in Files /\ Replacements[s] \subseteq Files
  BY DEF Files

LEMMA PositionsOf ==
  ASSUME NEW s \in Files
  PROVE  /\ Len(s) \in Nat /\ DOMAIN s = 1..Len(s)
         /\ \A i \in 1..Len(s) : s[i] \in Positions /\ IsPoint(s[i])
         /\ Len(s) = 0 => s = <<>>
         /\ Len(s) > 0 => s # <<>>
  <1>1. s \in Seq(Range(s))
    BY PlanningAssumption
  <1>2. PICK R : R = Range(s)
    OBVIOUS
  <1>3. Len(s) \in Nat /\ DOMAIN s = 1..Len(s) /\ (Len(s) = 0 => s = <<>>)
        /\ (Len(s) > 0 => s # <<>>)
    BY <1>1, <1>2
  <1>4. \A i \in 1..Len(s) : s[i] \in Range(s)
    BY <1>3 DEF Range
  <1>5. \A i \in 1..Len(s) : s[i] \in Positions
    BY <1>4 DEF Positions
  <1>6. \A p \in Positions : IsPoint(p)
    BY PlanningAssumption DEF IsPoint
  <1> QED
    BY <1>3, <1>5, <1>6

LEMMA SourceIsFinite ==
  ASSUME Typed
  PROVE  IsFiniteSet(1..Len(original))
  <1>1. Len(original) \in Nat
    BY PositionsOf, FilesAre DEF Typed
  <1>2. PICK n \in Nat : n = Len(original)
    BY <1>1, Zenon
  <1>3. 1 \in Int /\ n \in Int
    OBVIOUS
  <1>4. IsFiniteSet(1..n)
    BY <1>3, FS_Interval
  <1> QED
    BY <1>2, <1>4

LEMMA PointIs ==
  ASSUME Typed, Reading
  PROVE  /\ point \in Positions /\ IsPoint(point)
         /\ at + 1 \in 1..Len(source) /\ at + 1 \in 0..expected
         /\ point = source[at + 1]
  <1>1. Len(source) \in Nat /\ \A i \in 1..Len(source) : source[i] \in Positions /\ IsPoint(source[i])
    <2>1. source \in Files
      BY DEF Typed
    <2> QED
      BY <2>1, PositionsOf
  <1>2. at + 1 \in 1..Len(source) /\ at + 1 \in 0..expected
    BY <1>1 DEF Typed, Reading
  <1> QED
    BY <1>1, <1>2 DEF point

(* A look that does not stray finds what the identified file holds.        *)
LEMMA LookTells ==
  ASSUME Typed, Look, ~strayed'
  PROVE  ~strayed /\ source = original
  BY DEF Look, Typed

-----------------------------------------------------------------------------
(* What is planned.                                                        *)

LEMMA EmptyCut == IsCut({}) /\ Count({}) = 0
  <1>1. IsCut({})
    BY FS_EmptySet DEF IsCut
  <1>2. Count({}) = 0
    <2>1. Count({}) = SumFunctionOnSet([t \in {} |-> t.count], {})
      BY CountIs
    <2> QED
      BY <2>1, SumEmpty
  <1> QED
    BY <1>1, <1>2

Codes == CellsWith(terminal, config.depth)

(* The streaming planner's tiles, from the codes of the second pass.       *)
LEMMA PlannedIsVisit ==
  ASSUME Typed, Measured, counted > 0
  PROVE  /\ Planned = Visit(PlanCounts(terminal, config.depth), box, config)
         /\ Visited(Planned, box, config, DOMAIN terminal, terminal, Codes)
  <1>1. Planned = Visit(PlanCounts(terminal, config.depth), box, config)
    <2>1. counted # 0
      BY DEF Typed
    <2> QED
      BY <2>1 DEF Planned, PlanFromCounts, PlanCounts
  <1>2. config.depth \in Nat /\ box \in Boxes /\ Upright(box) /\ IsTally(terminal, config.depth)
    BY ConfigIs DEF Measured
  <1>3. Weighs(PlanCounts(terminal, config.depth), DOMAIN terminal, terminal, Codes,
               config.depth)
    BY <1>2, WeighsCodes DEF Codes
  <1>4. Visited(Visit(PlanCounts(terminal, config.depth), box, config), box, config,
                DOMAIN terminal, terminal, Codes)
    BY <1>2, <1>3, VisitCuts
  <1> QED
    BY <1>1, <1>4

LEMMA PlannedIsCut ==
  ASSUME Typed, Measured, Total(terminal) = counted
  PROVE  /\ IsCut(Planned.tiles)
         /\ Count(Planned.tiles) = counted
         /\ Planned.tiles = {} <=> counted = 0
         /\ counted = 0 => Planned.satisfied
         /\ \A t \in Planned.tiles : t.id \in CellsTo(config.depth)
  <1>1. CASE counted = 0
    <2>1. Planned.satisfied /\ Planned.tiles = {}
      BY <1>1 DEF Planned
    <2> QED
      BY <1>1, <2>1, EmptyCut
  <1>2. CASE counted > 0
    <2>1. Visited(Planned, box, config, DOMAIN terminal, terminal, Codes)
      BY <1>2, PlannedIsVisit
    <2>2. /\ IsCut(Planned.tiles)
          /\ Count(Planned.tiles) = counted
          /\ Planned.tiles = {} <=> DOMAIN terminal = {}
          /\ \A t \in Planned.tiles : t.id[1] <= config.depth
      BY <2>1 DEF Visited, Total
    <2>3. DOMAIN terminal # {}
      <3>1. SUFFICES ASSUME DOMAIN terminal = {} PROVE FALSE
        OBVIOUS
      <3>2. Total(terminal) = SumFunctionOnSet(terminal, {})
        BY <3>1 DEF Total
      <3> QED
        BY <1>2, <3>2, SumEmpty
    <2>4. \A t \in Planned.tiles : IsCell(t.id)
      BY <2>2 DEF IsCut
    <2>5. \A t \in Planned.tiles : t.id \in CellsTo(config.depth)
      BY <2>2, <2>4, ConfigIs, CellsAre
    <2> QED
      BY <1>2, <2>2, <2>3, <2>5
  <1> QED
    BY <1>1, <1>2 DEF Typed

LEMMA NodesOfNone == NodesOver({}) = Empty
  <1>1. DOMAIN NodesOver({}) = {} /\ NodesOver({}) = [id \in DOMAIN NodesOver({}) |-> NodesOver({})[id]]
    <2>1. AllAbove({}) = {}
      BY DEF AllAbove
    <2>2. DOMAIN NodesOver({}) = {}
      BY <2>1, NodesAre
    <2>3. NodesOver({}) = [id \in DOMAIN NodesOver({}) |-> NodesOver({})[id]]
      BY Zenon DEF NodesOver
    <2> QED
      BY <2>2, <2>3
  <1> QED
    BY <1>1 DEF Empty

(* An accepted plan is a tree with the planned tiles as its leaves.        *)
LEMMA PlanIsTree ==
  ASSUME Typed, Measured, Accepted, plan # Empty
  PROVE  /\ IsCut(budget) /\ budget # {} /\ budget = Planned.tiles
         /\ Planned.satisfied /\ Count(budget) = counted /\ counted > 0
         /\ \A t \in budget : t.id \in CellsTo(config.depth)
         /\ IsTree(plan) /\ LeafTiles(plan) = budget
         /\ \A t \in budget : plan[t.id].box = t.box
         /\ plan[Root].count = counted
         /\ DOMAIN plan \subseteq CellsTo(config.depth)
  <1>1. /\ counted > 0 /\ Total(terminal) = counted /\ Planned.satisfied
        /\ budget = Planned.tiles /\ plan = NodesOver(budget)
    BY DEF Accepted
  <1>2. /\ IsCut(budget) /\ budget # {} /\ Count(budget) = counted
        /\ \A t \in budget : t.id \in CellsTo(config.depth)
    BY <1>1, PlannedIsCut
  <1>3. IsTree(plan)
    BY <1>1, <1>2, NodesAreTree
  <1>4. /\ LeafTiles(plan) = budget
        /\ \A t \in budget : plan[t.id].box = t.box
        /\ plan[Root].count = counted
    BY <1>1, <1>2, NodesHaveTiles
  <1>5. DOMAIN plan \subseteq CellsTo(config.depth)
    <2> SUFFICES ASSUME NEW id \in DOMAIN plan PROVE id \in CellsTo(config.depth)
      OBVIOUS
    <2>1. DOMAIN plan = AllAbove(budget)
      BY <1>1, NodesAre
    <2>2. PICK t \in budget : id \in PathTo(t.id)
      BY <2>1 DEF AllAbove
    <2>3. IsCell(t.id) /\ t.id[1] <= config.depth /\ config.depth \in Nat
      BY <1>2, ConfigIs, CellsAre
    <2>4. IsCell(id) /\ id[1] \in 0..t.id[1]
      BY <2>2, <2>3, PathMember
    <2>5. id[1] <= config.depth
      BY <2>3, <2>4, CellParts
    <2> QED
      BY <2>3, <2>4, <2>5, CellsAre
  <1> QED
    BY <1>1, <1>2, <1>3, <1>4, <1>5


-----------------------------------------------------------------------------
(* The identified file.                                                    *)

LEMMA CellsAreCells ==
  ASSUME Typed, box \in Boxes, NEW i \in 1..Len(original)
  PROVE  /\ IsCell(Cells[i]) /\ Cells[i][1] = config.depth
         /\ Cells[i] = Descent(box, original[i], config.depth)[config.depth].id
  <1>1. i \in DOMAIN original
    BY PositionsOf, FilesAre DEF Typed
  <1> QED
    BY <1>1, ConfigIs, CellsOfAre DEF Cells

(* The code of a point is that of its cell at full depth.                  *)
LEMMA CodeOfIs ==
  ASSUME Typed, box \in Boxes, NEW p
  PROVE  \E cell : /\ cell = Descent(box, p, config.depth)[config.depth].id
                   /\ IsCell(cell) /\ cell[1] = config.depth /\ CodeOf(p) = Code(cell)
  <1>1. config.depth \in Nat /\ config.depth \in 0..config.depth
    BY ConfigIs
  <1>2. PICK cell : cell = Descent(box, p, config.depth)[config.depth].id
    OBVIOUS
  <1>3. IsCell(cell) /\ cell[1] = config.depth
    BY <1>1, <1>2, DescentCells
  <1>4. CodeOf(p) = EncodeMortonPrefix(cell[2], cell[3], config.depth)
    BY <1>2 DEF CodeOf
  <1> QED
    BY <1>2, <1>3, <1>4 DEF Code

(* Every look met the identified file: what it holds was counted.          *)
LEMMA KeptPlans ==
  ASSUME Typed, Measured, Kept, ~strayed, pc \notin {"first", "second"}, counted > 0
  PROVE  /\ Planned = PlanInMemory(original, config)
         /\ Visited(Planned, box, config, 1..Len(original), [i \in 1..Len(original) |-> 1], Cells)
         /\ Hull(BoxesOf(Planned.tiles)) = box
         /\ Spans(box, 1..Len(original), original)
  <1>1. /\ Spans(box, 1..Len(original), original)
        /\ Tallied(terminal, 1..Len(original), Cells, config.depth)
        /\ counted = Len(original)
    BY DEF Kept, Measured, Typed
  <1>2. /\ box \in Boxes /\ Upright(box) /\ config.depth \in Nat
    BY <1>1, ConfigIs, SpansUpright
  <1>3. DOMAIN original = 1..Len(original) /\ Len(original) \in Nat /\ original # <<>>
        /\ \A i \in 1..Len(original) : IsPoint(original[i])
    <2>1. original \in Files
      BY FilesAre DEF Typed
    <2> QED
      BY <1>1, <2>1, PositionsOf
  <1>4. PICK I : I = 1..Len(original)
    OBVIOUS
  <1>5. IsFiniteSet(I) /\ I # {}
    <2>1. 1 \in I
      BY <1>1, <1>3, <1>4
    <2> QED
      BY <1>4, <2>1, SourceIsFinite
  <1>6. box = Hull({Around(original[i]) : i \in I})
    <2>1. Spans(Hull({Around(original[i]) : i \in I}), I, original)
      BY <1>3, <1>4, <1>5, SpansHull
    <2>2. Spans(box, I, original)
      BY <1>1, <1>4
    <2> QED
      BY <2>1, <2>2, SpansOne
  <1>7. Planned = PlanFromCounts(terminal, box, config)
    <2>1. counted # 0
      BY DEF Typed
    <2> QED
      BY <2>1 DEF Planned
  <1>8. Planned = PlanInMemory(original, config)
    <2>1. Tallied(terminal, DOMAIN original, CellsOf(box, original, config.depth), config.depth)
      BY <1>1, <1>3 DEF Cells
    <2>2. box = Hull({Around(original[i]) : i \in DOMAIN original})
      BY <1>3, <1>4, <1>6
    <2> QED
      BY <1>2, <1>3, <1>7, <2>1, <2>2, PlannersAgreeOn
  <1>9. PICK ones : ones = [i \in I |-> 1]
    OBVIOUS
  <1>10. Weighs(PlanCounts(terminal, config.depth), I, ones, Cells, config.depth)
    BY <1>1, <1>2, <1>4, <1>9, TalliedWeighs
  <1>11. Planned = Visit(PlanCounts(terminal, config.depth), box, config)
    BY PlannedIsVisit
  <1>12. Visited(Planned, box, config, I, ones, Cells)
    BY <1>2, <1>10, <1>11, VisitCuts
  <1>13. Hull(BoxesOf(Planned.tiles)) = box
    <2>1. Weighs(PlanCounts(terminal, config.depth), I, ones,
                 CellsOf(box, original, config.depth), config.depth)
      BY <1>10 DEF Cells
    <2>2. Spans(box, I, original) /\ I = DOMAIN original
      BY <1>1, <1>3, <1>4
    <2> QED
      BY <1>2, <1>11, <2>1, <2>2, HullOfTiles
  <1> QED
    BY <1>1, <1>4, <1>8, <1>9, <1>12, <1>13

(* Its points reach the tiles that counted them.                           *)
LEMMA KeptRoutes ==
  ASSUME Typed, Measured, Accepted, Kept, ~strayed, pc = "author",
         NEW i \in 1..Len(original)
  PROVE  \E t \in budget : TileOf(original[i]) = t.id /\ t.id \in PathTo(Cells[i])
  <1>1. plan # Empty
    BY DEF Accepted
  <1>2. /\ IsCut(budget) /\ LeafTiles(plan) = budget /\ budget = Planned.tiles /\ counted > 0
    BY <1>1, PlanIsTree
  <1>3. /\ Visited(Planned, box, config, 1..Len(original), [k \in 1..Len(original) |-> 1], Cells)
        /\ Hull(BoxesOf(Planned.tiles)) = box
        /\ Spans(box, 1..Len(original), original)
    BY <1>2, KeptPlans
  <1>4. box \in Boxes /\ config.depth \in Nat /\ InBox(original[i], box)
    BY <1>3, ConfigIs DEF Spans
  <1>5. PICK t \in budget : t.id \in PathTo(Cells[i])
    BY <1>2, <1>3 DEF Visited
  <1>6. \A u \in budget : \A a \in PathTo(u.id) \ {u.id} : ~Flat(BoxOf(box, a))
    BY <1>2, <1>3 DEF Visited
  <1>7. Cells[i] = Descent(box, original[i], config.depth)[config.depth].id
    BY <1>4, CellsAreCells
  <1>8. GetTileId(budget, original[i], config.depth) = t.id
    <2>1. box = Hull(BoxesOf(budget))
      BY <1>2, <1>3
    <2>2. t.id \in PathTo(Descent(box, original[i], config.depth)[config.depth].id)
      BY <1>5, <1>7
    <2> QED
      BY <1>2, <1>4, <1>6, <2>1, <2>2, RouterFinds
  <1>9. TileOf(original[i]) = t.id
    BY <1>2, <1>8 DEF TileOf
  <1> QED
    BY <1>5, <1>9

(* A tile that the router answers is one of the plan; if its tree is the   *)
(* planner's the tile holds the position.                                  *)
LEMMA RouterAnswers ==
  ASSUME Typed, Measured, Accepted, pc = "author", NEW p, IsPoint(p), TileOf(p) # NoTile
  PROVE  /\ TileOf(p) \in CellsTo(config.depth)
         /\ Hull(BoxesOf(LeafTiles(plan))) = box => InBox(p, plan[TileOf(p)].box)
  <1>1. plan # Empty
    BY DEF Accepted
  <1>2. /\ IsCut(budget) /\ LeafTiles(plan) = budget /\ budget = Planned.tiles /\ counted > 0
        /\ \A t \in budget : t.id \in CellsTo(config.depth) /\ plan[t.id].box = t.box
    BY <1>1, PlanIsTree
  <1>3. TileOf(p) = GetTileId(budget, p, config.depth) /\ config.depth \in Nat
    BY <1>2, ConfigIs DEF TileOf
  <1>4. TileOf(p) \in CellsTo(config.depth)
    <2>1. \E t \in budget : t.id = GetTileId(budget, p, config.depth)
      BY <1>3, RouterAnswersTile
    <2> QED
      BY <1>2, <1>3, <2>1
  <1>5. ASSUME Hull(BoxesOf(LeafTiles(plan))) = box PROVE InBox(p, plan[TileOf(p)].box)
    <2>1. box = Hull(BoxesOf(budget)) /\ box \in Boxes /\ Upright(box)
      BY <1>2, <1>5 DEF Measured
    <2>2. Visited(Planned, box, config, DOMAIN terminal, terminal, Codes)
      BY <1>2, PlannedIsVisit
    <2>3. \A t \in budget : t.box = BoxOf(box, t.id)
      BY <1>2, <2>2 DEF Visited
    <2>4. \E t \in budget : t.id = GetTileId(budget, p, config.depth) /\ InBox(p, t.box)
      BY <1>3, <2>1, <2>3, RouterHolds
    <2> QED
      BY <1>2, <1>3, <2>4
  <1> QED
    BY <1>4, <1>5


-----------------------------------------------------------------------------
(* The initial states and the passes.                                      *)

LEMMA EmptyTally ==
  ASSUME NEW depth
  PROVE  IsTally(Empty, depth) /\ Total(Empty) = 0
  <1>1. DOMAIN Empty = {}
    BY DEF Empty
  <1> QED
    BY <1>1, SumEmpty, FS_EmptySet DEF IsTally, Total

LEMMA InitInv == Init => IInv
  <1> SUFFICES ASSUME Init PROVE IInv
    OBVIOUS
  <1>1. Len(source) \in Nat /\ original = source
    BY PositionsOf, FilesAre DEF Init
  <1>2. Typed
    <2>1. written \in Seq([at : Positions, tile : CellsTo(config.depth)])
      BY DEF Init
    <2>2. /\ source \in Files /\ original \in Sources
          /\ {stamp, identity} \subseteq Stamps
          /\ {strayed, fooled} \subseteq BOOLEAN
      BY <1>1, FilesAre DEF Init
    <2> QED
      BY <1>1, <2>1, <2>2 DEF Init, Typed, Stages
  <1>3. Measured
    BY EmptyTally DEF Init, Measured
  <1>4. Accepted /\ Framed
    BY DEF Init, Accepted, Framed
  <1>5. TilesHoldTheirPoints
    BY DEF Init, TilesHoldTheirPoints
  <1>6. Kept /\ Routed
    BY <1>1 DEF Init, Kept, Routed
  <1> QED
    BY <1>2, <1>3, <1>4, <1>5, <1>6 DEF IInv

LEMMA OpenFirstKeeps ==
  ASSUME IInv, OpenFirst
  PROVE  IInv'
  <1>1. /\ pc = "start" /\ pc' = "first" /\ at' = 0 /\ expected' = Len(source) /\ Look
        /\ UNCHANGED <<source, stamp, original, config, identified, identity, box, counted,
                       terminal, budget, plan, written>>
    BY DEF OpenFirst, OpenStream, file, request, passes, plans
  <1>2. /\ fooled' = fooled /\ strayed' \in BOOLEAN
        /\ ~strayed' => ~strayed /\ source = original
    BY <1>1, LookTells DEF IInv, Typed, Look
  <1>3. /\ counted = 0 /\ terminal = Empty /\ plan = Empty /\ written = <<>>
    BY <1>1 DEF IInv, Measured, Accepted
  <1>4. Len(source) \in Nat
    BY PositionsOf DEF IInv, Typed
  <1>5. Typed'
    BY <1>1, <1>2, <1>4 DEF IInv, Typed, Stages
  <1>6. Measured'
    BY <1>1, <1>3 DEF IInv, Measured
  <1>7. Accepted' /\ Framed' /\ TilesHoldTheirPoints'
    BY <1>1, <1>3 DEF Accepted, Framed, TilesHoldTheirPoints
  <1>8. Kept' /\ Routed'
    BY <1>1, <1>2, <1>3 DEF Kept, Routed
  <1> QED
    BY <1>5, <1>6, <1>7, <1>8 DEF IInv

LEMMA BoundsGrow ==
  ASSUME IInv, FirstPass
  PROVE  /\ box' \in Boxes /\ Upright(box')
         /\ ~strayed' => Spans(box', 1..(at + 1), original)
  <1>1. Typed /\ Measured /\ Kept /\ pc = "first" /\ counted = at
    BY DEF IInv, FirstPass, Measured
  <1>2. /\ IsPoint(point) /\ at + 1 \in 1..Len(source) /\ point = source[at + 1]
        /\ at \in Nat
    BY <1>1, PointIs DEF FirstPass, Typed
  <1>0. ~strayed' => ~strayed /\ source = original
    BY <1>1, LookTells DEF FirstPass, Reading
  <1>3. Around(point) \in Boxes /\ Upright(Around(point))
    BY <1>2 DEF IsPoint, Around, Boxes, Upright
  <1>4. CASE counted = 0
    <2>1. box' = Around(point) /\ 1..(at + 1) = {at + 1}
      BY <1>1, <1>2, <1>4 DEF FirstPass
    <2>2. Spans(Around(source[at + 1]), {at + 1}, source)
      BY <1>2, SpansFirst
    <2> QED
      BY <1>2, <1>3, <1>0, <2>1, <2>2
  <1>5. CASE counted # 0
    <2>1. box' = Hull({box, Around(point)}) /\ box \in Boxes /\ Upright(box)
      BY <1>1, <1>5 DEF FirstPass, Measured, Typed
    <2>2. box' \in Boxes /\ Upright(box')
      <3>1. PICK S : S = {box, Around(point)}
        OBVIOUS
      <3>2. S \in SUBSET Boxes /\ S # {} /\ IsFiniteSet(S)
        <4>1. IsFiniteSet({box})
          BY FS_Singleton
        <4>2. S = {box} \cup {Around(point)}
          BY <3>1
        <4>3. IsFiniteSet(S)
          BY <4>1, <4>2, FS_AddElement
        <4> QED
          BY <1>3, <2>1, <3>1, <4>3
      <3>3. Hull(S) \in Boxes /\ Hull(S).minX <= box.minX /\ box.maxX <= Hull(S).maxX
            /\ Hull(S).minY <= box.minY /\ box.maxY <= Hull(S).maxY
        BY <3>1, <3>2, HullIs
      <3>4. Upright(Hull(S))
        BY <2>1, <3>3 DEF Upright, Boxes
      <3> QED
        BY <2>1, <3>1, <3>3, <3>4
    <2>3. ASSUME ~strayed' PROVE Spans(box', 1..(at + 1), original)
      <3>1. Spans(box, 1..at, source) /\ source = original
        BY <1>1, <1>5, <1>0, <2>3 DEF Kept, Typed
      <3>2. Spans(Hull({box, Around(source[at + 1])}), 1..at \cup {at + 1}, source)
        BY <1>2, <3>1, SpansNext
      <3>3. 1..at \cup {at + 1} = 1..(at + 1)
        BY <1>2
      <3> QED
        BY <1>2, <2>1, <3>1, <3>2, <3>3
    <2> QED
      BY <2>2, <2>3
  <1> QED
    BY <1>4, <1>5

LEMMA FirstPassKeeps ==
  ASSUME IInv, FirstPass
  PROVE  IInv'
  <1>0. /\ fooled' = fooled /\ strayed' \in BOOLEAN
        /\ ~strayed' => ~strayed /\ source = original
    BY LookTells DEF IInv, Typed, FirstPass, Reading, Look
  <1>1. /\ pc = "first" /\ pc' = pc /\ at' = at + 1 /\ counted' = counted + 1
        /\ UNCHANGED <<source, stamp, original, config, identified, identity, expected, terminal,
                       budget, plan, written>>
    BY DEF FirstPass, file, request, plans
  <1>2. /\ counted = at /\ terminal = Empty /\ plan = Empty /\ written = <<>>
        /\ counted \in Nat /\ at \in Nat
    BY <1>1 DEF IInv, Measured, Accepted, Typed
  <1>3. Typed'
    <2>1. at' \in 0..expected
      BY <1>1, PointIs DEF IInv, FirstPass
    <2> QED
      BY <1>0, <1>1, <1>2, <2>1 DEF IInv, Typed, Stages
  <1>4. Measured'
    <2>1. box' \in Boxes /\ Upright(box')
      BY BoundsGrow
    <2>2. IsTally(terminal', config'.depth)
      BY <1>1 DEF IInv, Measured
    <2> QED
      BY <1>1, <1>2, <2>1, <2>2 DEF Measured
  <1>5. Accepted' /\ Framed' /\ TilesHoldTheirPoints'
    BY <1>1, <1>2 DEF Accepted, Framed, TilesHoldTheirPoints
  <1>6. Kept' /\ Routed'
    <2>1. ~strayed' => expected' = Len(original')
      BY <1>0, <1>1 DEF IInv, Kept
    <2>2. ~strayed' => Spans(box', 1..at', original')
      BY <1>1, BoundsGrow
    <2> QED
      BY <1>1, <2>1, <2>2 DEF Kept, Routed
  <1> QED
    BY <1>3, <1>4, <1>5, <1>6 DEF IInv

LEMMA EndFirstPassKeeps ==
  ASSUME IInv, EndFirstPass
  PROVE  IInv'
  <1>1. /\ pc = "first" /\ at = expected
        /\ UNCHANGED <<source, stamp, original, config, identified, identity, box, counted, terminal,
                       budget, plan, written>>
    BY DEF EndFirstPass, file, request, passes, plans
  <1>2. \/ /\ counted = 0 /\ pc' = "plan" /\ at' = at /\ expected' = expected
           /\ strayed' = strayed /\ fooled' = fooled
        \/ /\ counted # 0 /\ pc' = "second" /\ at' = 0 /\ expected' = Len(source)
           /\ Look
    BY DEF EndFirstPass, OpenStream, reader, history
  <1>0. /\ fooled' = fooled /\ strayed' \in BOOLEAN
        /\ ~strayed' => ~strayed /\ (counted = 0 \/ source = original)
    BY <1>2, LookTells DEF IInv, Typed, Look
  <1>3. /\ counted = at /\ terminal = Empty /\ plan = Empty /\ written = <<>>
        /\ counted \in Nat /\ at \in 0..expected /\ expected \in Nat
    BY <1>1 DEF IInv, Measured, Accepted, Typed
  <1>4. Len(source) \in Nat
    BY PositionsOf DEF IInv, Typed
  <1>5. Typed'
    BY <1>0, <1>1, <1>2, <1>3, <1>4 DEF IInv, Typed, Stages
  <1>6. Measured'
    <2>1. IsTally(terminal', config'.depth)
      BY <1>1 DEF IInv, Measured
    <2>2. counted' > 0 => box' \in Boxes /\ Upright(box')
      BY <1>1 DEF IInv, Measured
    <2>3. Total(terminal') = 0
      BY <1>1, <1>3, EmptyTally
    <2> QED
      BY <1>1, <1>2, <1>3, <2>1, <2>2, <2>3 DEF Measured
  <1>7. Accepted' /\ Framed' /\ TilesHoldTheirPoints'
    BY <1>1, <1>2, <1>3 DEF Accepted, Framed, TilesHoldTheirPoints
  <1>8. ASSUME ~strayed'
        PROVE  /\ expected' = Len(original')
               /\ counted' = Len(original')
               /\ counted' > 0 => Spans(box', 1..Len(original'), original')
    <2>1. ~strayed /\ expected = Len(original) /\ (counted > 0 => Spans(box, 1..at, original))
      BY <1>0, <1>1, <1>8 DEF IInv, Kept
    <2> QED
      BY <1>0, <1>1, <1>2, <1>3, <1>8, <2>1
  <1>9. pc' = "second" => Tallied(terminal', 1..at', Cells', config'.depth)
    <2>1. ASSUME pc' = "second" PROVE 1..at' = {} /\ DOMAIN terminal' = {}
      BY <1>1, <1>2, <1>3, <2>1 DEF Empty
    <2> QED
      BY <2>1, FS_EmptySet DEF Tallied
  <1>10. Kept' /\ Routed'
    BY <1>1, <1>2, <1>3, <1>8, <1>9 DEF Kept, Routed
  <1> QED
    BY <1>5, <1>6, <1>7, <1>10 DEF IInv


(* The tables that only grow by the code of the point.                     *)
LEMMA SecondPassCounts ==
  ASSUME IInv, SecondPass
  PROVE  \E cell : /\ cell = Descent(box, point, config.depth)[config.depth].id
                   /\ IsCell(cell) /\ cell[1] = config.depth
                   /\ terminal' = AddOne(terminal, Code(cell))
  <1>1. box \in Boxes
    BY DEF IInv, Measured, SecondPass
  <1>2. PICK cell : /\ cell = Descent(box, point, config.depth)[config.depth].id
                    /\ IsCell(cell) /\ cell[1] = config.depth /\ CodeOf(point) = Code(cell)
    BY <1>1, CodeOfIs DEF IInv
  <1>3. terminal' = AddOne(terminal, Code(cell))
    BY <1>2, Zenon DEF SecondPass, AddOne
  <1> QED
    BY <1>2, <1>3

LEMMA SecondPassKeeps ==
  ASSUME IInv, SecondPass
  PROVE  IInv'
  <1>0. /\ fooled' = fooled /\ strayed' \in BOOLEAN
        /\ ~strayed' => ~strayed /\ source = original
    BY LookTells DEF IInv, Typed, SecondPass, Reading, Look
  <1>1. /\ pc = "second" /\ pc' = pc /\ at' = at + 1
        /\ UNCHANGED <<source, stamp, original, config, identified, identity, expected, box, counted,
                       budget, plan, written>>
    BY DEF SecondPass, file, request, plans
  <1>2. /\ plan = Empty /\ written = <<>> /\ counted > 0 /\ Total(terminal) = at
        /\ at \in Nat
    BY <1>1 DEF IInv, Measured, Accepted, Typed
  <1>3. /\ point = source[at + 1] /\ at + 1 \in 1..Len(source) /\ at + 1 \in 0..expected
        /\ config.depth \in Nat
    BY PointIs, ConfigIs DEF IInv, SecondPass
  <1>4. PICK cell : /\ cell = Descent(box, point, config.depth)[config.depth].id
                    /\ IsCell(cell) /\ cell[1] = config.depth
                    /\ terminal' = AddOne(terminal, Code(cell))
    BY SecondPassCounts
  <1>5. Typed'
    BY <1>0, <1>1, <1>3 DEF IInv, Typed, Stages
  <1>6. Measured'
    <2>1. IsTally(terminal, config.depth) /\ box \in Boxes /\ Upright(box)
      BY <1>2 DEF IInv, Measured
    <2>2. IsTally(terminal', config.depth) /\ Total(terminal') = Total(terminal) + 1
      BY <1>3, <1>4, <2>1, TallyNext
    <2> QED
      BY <1>1, <1>2, <2>1, <2>2 DEF Measured
  <1>7. Accepted' /\ Framed' /\ TilesHoldTheirPoints'
    BY <1>1, <1>2 DEF Accepted, Framed, TilesHoldTheirPoints
  <1>8. ASSUME ~strayed'
        PROVE  /\ expected' = Len(original') /\ counted' = Len(original')
               /\ Spans(box', 1..Len(original'), original')
               /\ Tallied(terminal', 1..at', Cells', config'.depth)
    <2>1. /\ expected = Len(original) /\ counted = Len(original)
          /\ Spans(box, 1..Len(original), original)
          /\ Tallied(terminal, 1..at, Cells, config.depth)
          /\ source = original
      BY <1>0, <1>1, <1>2, <1>8 DEF IInv, Kept
    <2>2. box \in Boxes
      BY <1>2 DEF IInv, Measured
    <2>3. Cells[at + 1] = cell
      <3>1. at + 1 \in 1..Len(original) /\ point = original[at + 1]
        BY <1>3, <2>1
      <3> QED
        BY <1>4, <2>2, <3>1, CellsAreCells DEF IInv
    <2>4. PICK j : j = at + 1 /\ j \notin 1..at /\ 1..at' = 1..at \cup {j}
      BY <1>1, <1>2
    <2>5. Tallied(AddOne(terminal, Code(Cells[j])), 1..at \cup {j}, Cells, config.depth)
      BY <1>3, <1>4, <2>1, <2>3, <2>4, TalliedNext
    <2>6. Cells' = Cells
      BY <1>1 DEF Cells
    <2> QED
      BY <1>1, <1>4, <2>1, <2>3, <2>4, <2>5, <2>6
  <1>9. Kept' /\ Routed'
    BY <1>1, <1>8 DEF Kept, Routed
  <1> QED
    BY <1>5, <1>6, <1>7, <1>9 DEF IInv

LEMMA EndSecondPassKeeps ==
  ASSUME IInv, EndSecondPass
  PROVE  IInv'
  <1>1. /\ pc = "second" /\ at = expected
        /\ UNCHANGED <<source, stamp, original, config, identified, identity, expected, at, box, counted,
                       terminal, budget, plan, written, strayed, fooled>>
    BY DEF EndSecondPass, file, request, reader, passes, plans, history
  <1>2. \/ at = counted /\ pc' = "plan"
        \/ at # counted /\ pc' = "failed"
    BY DEF EndSecondPass, Fail
  <1>3. /\ plan = Empty /\ written = <<>> /\ counted > 0 /\ Total(terminal) = at
    BY <1>1 DEF IInv, Measured, Accepted
  <1>4. Typed'
    BY <1>1, <1>2 DEF IInv, Typed, Stages
  <1>5. Measured'
    <2>1. IsTally(terminal', config'.depth) /\ (counted' > 0 => box' \in Boxes /\ Upright(box'))
      BY <1>1 DEF IInv, Measured
    <2> QED
      BY <1>1, <1>2, <1>3, <2>1 DEF Measured
  <1>6. Accepted' /\ Framed' /\ TilesHoldTheirPoints'
    BY <1>1, <1>2, <1>3 DEF Accepted, Framed, TilesHoldTheirPoints
  <1>7. ASSUME ~strayed'
        PROVE  /\ expected' = Len(original') /\ counted' = Len(original')
               /\ Spans(box', 1..Len(original'), original')
               /\ Tallied(terminal', 1..Len(original'), Cells', config'.depth)
               /\ pc' = "plan"
    <2>1. /\ expected = Len(original) /\ counted = Len(original)
          /\ Spans(box, 1..Len(original), original)
          /\ Tallied(terminal, 1..at, Cells, config.depth)
      BY <1>1, <1>3, <1>7 DEF IInv, Kept
    <2>2. Cells' = Cells
      BY <1>1 DEF Cells
    <2> QED
      BY <1>1, <1>2, <2>1, <2>2
  <1>8. Kept' /\ Routed'
    BY <1>2, <1>7 DEF Kept, Routed
  <1> QED
    BY <1>4, <1>5, <1>6, <1>8 DEF IInv

LEMMA ReadFailsKeeps ==
  ASSUME IInv, ReadFails
  PROVE  IInv'
  <1>0. /\ fooled' = fooled /\ strayed' \in BOOLEAN
        /\ ~strayed' => ~strayed /\ source = original
    BY LookTells DEF IInv, Typed, ReadFails, Look
  <1>1. /\ pc # "start" /\ pc' = "failed" /\ at < expected /\ at >= Len(source)
        /\ UNCHANGED <<source, stamp, original, config, identified, identity, expected, at, box, counted,
                       terminal, budget, plan, written>>
    BY DEF ReadFails, Fail, file, request, reader, passes, plans
  <1>2. strayed'
    BY <1>0, <1>1 DEF IInv, Kept, Typed
  <1>3. Typed'
    BY <1>0, <1>1 DEF IInv, Typed, Stages
  <1>4. Measured'
    BY <1>1 DEF IInv, Measured
  <1>5. Accepted' /\ Framed' /\ TilesHoldTheirPoints'
    <2>1. Planned' = Planned
      BY <1>1 DEF Planned
    <2> QED
      BY <1>0, <1>1, <2>1 DEF IInv, Accepted, Framed, TilesHoldTheirPoints
  <1>6. Kept' /\ Routed'
    BY <1>2 DEF Kept, Routed
  <1> QED
    BY <1>3, <1>4, <1>5, <1>6 DEF IInv

LEMMA PlanKeeps ==
  ASSUME IInv, Plan
  PROVE  IInv'
  <1>1. /\ pc = "plan" /\ budget' = Planned.tiles
        /\ UNCHANGED <<source, stamp, original, config, identified, identity, expected, at, box, counted,
                       terminal, written, strayed, fooled>>
    BY DEF Plan, file, request, reader, passes, history
  <1>2. \/ /\ Planned.satisfied /\ pc' = "check" /\ plan' = NodesOver(Planned.tiles)
        \/ /\ ~(Planned.satisfied /\ ValidateTilePlan(NodesOver(Planned.tiles)))
           /\ pc' = "failed" /\ plan' = plan
    BY DEF Plan, Fail
  <1>3. /\ plan = Empty /\ written = <<>> /\ Total(terminal) = counted /\ counted \in Nat
    BY <1>1 DEF IInv, Measured, Accepted, Typed
  <1>4. /\ IsCut(Planned.tiles) /\ (Planned.tiles = {} <=> counted = 0)
    BY <1>3, PlannedIsCut DEF IInv
  <1>5. ValidateTilePlan(NodesOver(Planned.tiles))
    BY <1>4, NodesAreTree, TreeValidates
  <1>6. Planned' = Planned
    BY <1>1 DEF Planned
  <1>7. Typed'
    BY <1>1, <1>2 DEF IInv, Typed, Stages
  <1>8. Measured'
    BY <1>1, <1>2, <1>3 DEF IInv, Measured
  <1>9. Accepted' /\ Framed' /\ TilesHoldTheirPoints'
    <2>1. plan' # Empty => counted > 0 /\ pc' = "check"
      <3>1. ASSUME plan' # Empty PROVE pc' = "check" /\ plan' = NodesOver(Planned.tiles)
        BY <1>2, <1>3, <3>1
      <3>2. counted = 0 => NodesOver(Planned.tiles) = Empty
        BY <1>4, NodesOfNone
      <3> QED
        BY <1>3, <3>1, <3>2
    <2>2. Accepted'
      BY <1>1, <1>2, <1>3, <1>6, <2>1 DEF Accepted
    <2>3. Framed' /\ TilesHoldTheirPoints'
      BY <1>1, <1>2, <1>3 DEF Framed, TilesHoldTheirPoints
    <2> QED
      BY <2>2, <2>3
  <1>10. Kept'
    <2>1. Cells' = Cells
      BY <1>1 DEF Cells
    <2>2. pc' \in {"check", "failed"}
      BY <1>2
    <2> QED
      BY <1>1, <2>1, <2>2 DEF IInv, Kept
  <1>11. Routed'
    <2>1. ASSUME ~strayed, pc' = "failed"
          PROVE  original = <<>> \/ ~PlanInMemory(original, config).satisfied
      <3>1. ~Planned.satisfied
        BY <1>2, <1>5, <2>1
      <3>2. counted > 0
        <4>1. counted = 0 => Planned.satisfied
          BY DEF Planned
        <4> QED
          BY <1>3, <3>1, <4>1
      <3>3. Planned = PlanInMemory(original, config)
        BY <1>1, <2>1, <3>2, KeptPlans DEF IInv
      <3> QED
        BY <3>1, <3>3
    <2>2. pc' \in {"check", "failed"}
      BY <1>2
    <2> QED
      BY <1>1, <2>1, <2>2 DEF Routed
  <1> QED
    BY <1>7, <1>8, <1>9, <1>10, <1>11 DEF IInv


-----------------------------------------------------------------------------
(* The last pass.                                                          *)

LEMMA CheckIdentityKeeps ==
  ASSUME IInv, CheckIdentity
  PROVE  IInv'
  <1>1. /\ pc = "check"
        /\ UNCHANGED <<source, stamp, original, config, identified, identity, expected, at, box,
                       counted, terminal, budget, plan, written>>
    BY DEF CheckIdentity, file, request, reader, passes, plans
  <1>2. \/ /\ identified /\ stamp # identity
           /\ pc' = "failed" /\ strayed' = TRUE /\ fooled' = fooled
        \/ /\ ~(identified /\ stamp # identity)
           /\ pc' = "open" /\ strayed' = strayed /\ fooled' = (strayed /\ stamp = identity)
    BY DEF CheckIdentity, Fail, Look
  <1>3. /\ written = <<>> /\ Total(terminal) = counted /\ counted \in Nat
        /\ plan = NodesOver(Planned.tiles) /\ Planned.satisfied
    BY <1>1 DEF IInv, Measured, Accepted, Typed
  <1>4. LeafTiles(plan) = Planned.tiles
    <2>1. IsCut(Planned.tiles)
      BY <1>3, PlannedIsCut DEF IInv
    <2> QED
      BY <1>3, <2>1, NodesHaveTiles
  <1>5. Planned' = Planned /\ Cells' = Cells
    BY <1>1 DEF Planned, Cells
  <1>6. Typed'
    BY <1>1, <1>2 DEF IInv, Typed, Stages
  <1>7. Measured'
    BY <1>1, <1>2 DEF IInv, Measured
  <1>8. Accepted'
    BY <1>1, <1>2, <1>5 DEF IInv, Accepted
  <1>9. Framed'
    <2>1. ASSUME identified', ~fooled', pc' = "open", counted' > 0
          PROVE  Hull(BoxesOf(LeafTiles(plan'))) = box'
      <3>1. ~strayed /\ counted > 0
        BY <1>1, <1>2, <2>1
      <3>2. Hull(BoxesOf(Planned.tiles)) = box
        BY <1>1, <3>1, KeptPlans DEF IInv
      <3> QED
        BY <1>1, <1>4, <3>2
    <2> QED
      BY <1>2, <2>1 DEF Framed
  <1>10. TilesHoldTheirPoints'
    BY <1>1, <1>3 DEF TilesHoldTheirPoints
  <1>11. Kept'
    BY <1>1, <1>2, <1>5 DEF IInv, Kept
  <1>12. Routed'
    BY <1>1, <1>2 DEF Routed
  <1> QED
    BY <1>6, <1>7, <1>8, <1>9, <1>10, <1>11, <1>12 DEF IInv

LEMMA OpenPlannedKeeps ==
  ASSUME IInv, OpenPlanned
  PROVE  IInv'
  <1>1. /\ pc = "open"
        /\ UNCHANGED <<source, stamp, original, config, identified, identity, box, counted,
                       terminal, budget, plan, written>>
    BY DEF OpenPlanned, file, request, passes, plans
  <1>2. \/ /\ LeafTiles(plan) = {}
           /\ pc' = "failed" /\ at' = at /\ expected' = expected
           /\ strayed' = strayed /\ fooled' = fooled
        \/ /\ LeafTiles(plan) # {}
           /\ pc' = "author" /\ at' = 0 /\ expected' = Len(source) /\ Look
    BY DEF OpenPlanned, Fail, OpenStream, reader, history
  <1>3. /\ fooled' = fooled /\ strayed' \in BOOLEAN
        /\ ~strayed' => ~strayed /\ (pc' = "failed" \/ source = original)
    BY <1>2, LookTells DEF IInv, Typed, Look
  <1>4. /\ written = <<>> /\ Total(terminal) = counted /\ counted \in Nat
        /\ plan = NodesOver(Planned.tiles)
    BY <1>1 DEF IInv, Measured, Accepted, Typed
  <1>5. LeafTiles(plan) = Planned.tiles /\ (Planned.tiles = {} <=> counted = 0)
    <2>1. IsCut(Planned.tiles) /\ (Planned.tiles = {} <=> counted = 0)
      BY <1>4, PlannedIsCut DEF IInv
    <2> QED
      BY <1>4, <2>1, NodesHaveTiles
  <1>6. Planned' = Planned /\ Cells' = Cells
    BY <1>1 DEF Planned, Cells
  <1>7. /\ Len(source) \in Nat /\ (Len(original) = 0 => original = <<>>)
    BY PositionsOf DEF IInv, Typed
  <1>8. Typed'
    BY <1>1, <1>2, <1>3, <1>7 DEF IInv, Typed, Stages
  <1>9. Measured'
    BY <1>1, <1>2 DEF IInv, Measured
  <1>10. Accepted'
    <2>1. pc' = "author" => plan' # Empty
      <3>1. LeafTiles(Empty) = {}
        BY DEF LeafTiles, Empty
      <3>2. ASSUME pc' = "author" PROVE LeafTiles(plan') # {}
        BY <1>1, <1>2, <3>2
      <3> QED
        BY <3>1, <3>2
    <2>2. plan' # Empty => /\ counted' > 0 /\ Total(terminal') = counted'
                           /\ Planned'.satisfied /\ budget' = Planned'.tiles
                           /\ plan' = NodesOver(budget')
      BY <1>1, <1>6 DEF IInv, Accepted
    <2>3. pc' \in {"author", "failed"} /\ written' = <<>>
      BY <1>1, <1>2, <1>4
    <2> QED
      BY <2>1, <2>2, <2>3 DEF Accepted
  <1>11. Framed'
    <2>1. pc' = "author" => counted > 0
      BY <1>2, <1>4, <1>5
    <2>2. pc' \in {"author", "failed"}
      BY <1>2
    <2> QED
      BY <1>1, <1>3, <2>1, <2>2 DEF IInv, Framed
  <1>12. TilesHoldTheirPoints'
    BY <1>1, <1>4 DEF TilesHoldTheirPoints
  <1>13. Kept'
    <2>1. pc' \in {"author", "failed"} /\ (~strayed => expected = Len(original))
      BY <1>1, <1>2 DEF IInv, Kept
    <2>2. ~strayed' => expected' = Len(original)
      BY <1>2, <1>3, <2>1
    <2> QED
      BY <1>1, <1>3, <1>6, <2>1, <2>2 DEF IInv, Kept
  <1>14. Routed'
    <2>1. ASSUME ~strayed', pc' = "failed" PROVE original' = <<>>
      <3>1. ~strayed /\ LeafTiles(plan) = {}
        BY <1>2, <1>3, <2>1
      <3>2. counted = 0 /\ counted = Len(original)
        BY <1>1, <1>5, <3>1 DEF IInv, Kept
      <3> QED
        BY <1>1, <1>7, <3>2
    <2>2. pc' = "author" => Len(written') = at'
      BY <1>1, <1>2, <1>4
    <2>3. DOMAIN written' = {} /\ pc' \in {"author", "failed"}
      BY <1>1, <1>2, <1>4
    <2> QED
      BY <2>1, <2>2, <2>3 DEF Routed
  <1> QED
    BY <1>8, <1>9, <1>10, <1>11, <1>12, <1>13, <1>14 DEF IInv

LEMMA RoutePointKeeps ==
  ASSUME IInv, RoutePoint
  PROVE  IInv'
  <1>0. /\ fooled' = fooled /\ strayed' \in BOOLEAN
        /\ ~strayed' => ~strayed /\ source = original
    BY LookTells DEF IInv, Typed, RoutePoint, Reading, Look
  <1>1. /\ pc = "author"
        /\ UNCHANGED <<source, stamp, original, config, identified, identity, expected, box, counted,
                       terminal, budget, plan>>
    BY DEF RoutePoint, file, request, passes, plans
  <1>2. PICK tile : tile = TileOf(point)
    OBVIOUS
  <1>3. \/ tile = NoTile /\ pc' = "failed" /\ at' = at /\ written' = written
        \/ /\ tile # NoTile /\ pc' = pc /\ at' = at + 1
           /\ written' = Append(written, [at |-> point, tile |-> tile])
    BY <1>2 DEF RoutePoint, Fail
  <1>4. /\ point \in Positions /\ IsPoint(point) /\ point = source[at + 1]
        /\ at + 1 \in 1..Len(source) /\ at + 1 \in 0..expected
    BY PointIs DEF IInv, RoutePoint
  <1>5. tile # NoTile =>
           /\ tile \in CellsTo(config.depth)
           /\ Hull(BoxesOf(LeafTiles(plan))) = box => InBox(point, plan[tile].box)
    BY <1>1, <1>2, <1>4, RouterAnswers DEF IInv
  <1>6. Planned' = Planned /\ Cells' = Cells
    BY <1>1 DEF Planned, Cells
  <1>7. /\ written \in Seq([at : Positions, tile : CellsTo(config.depth)])
        /\ at \in Nat
    BY DEF IInv, Typed
  <1>8. Typed'
    <2>1. written' \in Seq([at : Positions, tile : CellsTo(config.depth)])
      <3>1. PICK E : E = [at : Positions, tile : CellsTo(config.depth)]
        OBVIOUS
      <3>2. tile # NoTile => [at |-> point, tile |-> tile] \in E
        BY <1>4, <1>5, <3>1
      <3>3. PICK e : e = [at |-> point, tile |-> tile]
        OBVIOUS
      <3>4. written \in Seq(E) /\ (e \in E => Append(written, e) \in Seq(E))
        BY <1>7, <3>1
      <3> QED
        BY <1>3, <3>1, <3>2, <3>3, <3>4
    <2>2. at' \in 0..expected /\ pc' \in Stages
      BY <1>3, <1>4 DEF IInv, Typed, Stages
    <2> QED
      BY <1>0, <1>1, <2>1, <2>2 DEF IInv, Typed
  <1>9. Measured'
    BY <1>1, <1>3 DEF IInv, Measured
  <1>10. Accepted'
    BY <1>1, <1>3, <1>6 DEF IInv, Accepted
  <1>11. Framed'
    BY <1>0, <1>1, <1>3 DEF IInv, Framed
  <1>12. TilesHoldTheirPoints'
    <2>1. CASE written' = written
      BY <1>0, <1>1, <2>1 DEF IInv, TilesHoldTheirPoints
    <2>2. CASE tile # NoTile /\ written' = Append(written, [at |-> point, tile |-> tile])
      <3>1. ASSUME identified, ~fooled, NEW i \in DOMAIN written'
            PROVE  InBox(written'[i].at, plan[written'[i].tile].box)
        <4>1. \/ i \in DOMAIN written /\ written'[i] = written[i]
              \/ written'[i] = [at |-> point, tile |-> tile]
          BY <1>7, <2>2, <3>1
        <4>2. ASSUME i \in DOMAIN written, written'[i] = written[i]
              PROVE  InBox(written'[i].at, plan[written'[i].tile].box)
          BY <3>1, <4>2 DEF IInv, TilesHoldTheirPoints
        <4>3. Hull(BoxesOf(LeafTiles(plan))) = box
          BY <1>1, <3>1 DEF IInv, Framed
        <4>4. ASSUME written'[i] = [at |-> point, tile |-> tile]
              PROVE  InBox(written'[i].at, plan[written'[i].tile].box)
          BY <1>5, <2>2, <4>3, <4>4
        <4> QED
          BY <4>1, <4>2, <4>4
      <3> QED
        BY <1>0, <1>1, <3>1 DEF TilesHoldTheirPoints
    <2> QED
      BY <1>3, <2>1, <2>2
  <1>13. Kept'
    BY <1>0, <1>1, <1>3, <1>6 DEF IInv, Kept
  <1>14. Routed'
    <2>1. ASSUME ~strayed'
          PROVE  tile # NoTile /\ Leaf(tile, Cells[at + 1])
      <3>0. ~strayed /\ source = original
        BY <1>0, <2>1
      <3>1. PICK t \in budget : TileOf(source[at + 1]) = t.id /\ t.id \in PathTo(Cells[at + 1])
        BY <1>1, <1>4, <3>0, KeptRoutes DEF IInv
      <3>2. IsCell(t.id)
        <4>1. plan # Empty
          BY <1>1 DEF IInv, Accepted
        <4>2. IsCut(budget)
          BY <4>1, PlanIsTree DEF IInv
        <4> QED
          BY <4>2 DEF IsCut
      <3>3. t.id # NoTile
        BY <3>2, CellParts DEF NoTile
      <3> QED
        BY <1>2, <1>4, <3>1, <3>3 DEF Leaf
    <2>2. ASSUME ~strayed'
          PROVE  /\ Len(written') = at' /\ pc' = "author"
                 /\ \A i \in DOMAIN written' : Leaf(written'[i].tile, Cells[i])
      <3>1. /\ pc' = "author" /\ at' = at + 1
            /\ written' = Append(written, [at |-> point, tile |-> tile])
            /\ Leaf(tile, Cells[at + 1])
        BY <1>1, <1>3, <2>1, <2>2
      <3>2. Len(written) = at /\ \A i \in DOMAIN written : Leaf(written[i].tile, Cells[i])
        BY <1>0, <1>1, <2>2 DEF IInv, Routed
      <3>3. Len(written') = at'
        BY <1>7, <3>1, <3>2
      <3>4. ASSUME NEW i \in DOMAIN written' PROVE Leaf(written'[i].tile, Cells[i])
        <4>1. \/ i \in DOMAIN written /\ written'[i] = written[i]
              \/ i = at + 1 /\ written'[i] = [at |-> point, tile |-> tile]
          BY <1>7, <3>1, <3>2
        <4>2. ASSUME i \in DOMAIN written, written'[i] = written[i]
              PROVE  Leaf(written'[i].tile, Cells[i])
          BY <3>2, <4>2
        <4>3. ASSUME i = at + 1, written'[i] = [at |-> point, tile |-> tile]
              PROVE  Leaf(written'[i].tile, Cells[i])
          BY <3>1, <4>3
        <4> QED
          BY <4>1, <4>2, <4>3
      <3> QED
        BY <3>1, <3>3, <3>4
    <2>3. ASSUME ~strayed', NEW i \in DOMAIN written'
          PROVE  \E t \in budget' : t.id = written'[i].tile /\ t.id \in PathTo(Cells'[i])
      BY <1>1, <1>6, <2>2, <2>3 DEF Leaf
    <2> QED
      BY <2>2, <2>3 DEF Routed, Leaf
  <1> QED
    BY <1>8, <1>9, <1>10, <1>11, <1>12, <1>13, <1>14 DEF IInv


LEMMA EndAuthoringKeeps ==
  ASSUME IInv, EndAuthoring
  PROVE  IInv'
  <1>1. /\ pc = "author" /\ at = expected /\ pc' = "manifest"
        /\ UNCHANGED <<source, stamp, original, config, identified, identity, expected, at, box, counted,
                       terminal, budget, plan, written, strayed, fooled>>
    BY DEF EndAuthoring, file, request, reader, passes, plans, history
  <1>2. Planned' = Planned /\ Cells' = Cells
    BY <1>1 DEF Planned, Cells
  <1>3. Typed'
    BY <1>1 DEF IInv, Typed, Stages
  <1>4. Measured' /\ Framed'
    BY <1>1 DEF IInv, Measured, Framed
  <1>5. Accepted'
    BY <1>1, <1>2 DEF IInv, Accepted
  <1>6. TilesHoldTheirPoints'
    BY <1>1 DEF IInv, TilesHoldTheirPoints
  <1>7. Kept'
    BY <1>1, <1>2 DEF IInv, Kept
  <1>8. Routed'
    <2>1. ASSUME ~strayed'
          PROVE  /\ Len(written') = Len(original')
                 /\ \A i \in DOMAIN written' : Leaf(written'[i].tile, Cells'[i])
      BY <1>1, <1>2, <2>1 DEF IInv, Kept, Routed
    <2>2. ASSUME ~strayed', NEW i \in DOMAIN written'
          PROVE  \E t \in budget' : t.id = written'[i].tile /\ t.id \in PathTo(Cells'[i])
      BY <1>1, <2>1, <2>2 DEF Leaf
    <2> QED
      BY <1>1, <2>1, <2>2 DEF Routed, Leaf
  <1> QED
    BY <1>3, <1>4, <1>5, <1>6, <1>7, <1>8 DEF IInv

(* The manifest of a conversion that came this far is never refused.       *)
LEMMA ManifestIsWritten ==
  ASSUME Typed, WriteTileManifest
  PROVE  pc' = "done"
  <1>1. /\ DOMAIN written = 1..Len(written) /\ Len(written) \in Nat
    BY DEF Typed
  <1>2. IsFiniteSet(DOMAIN written)
    <2>1. PICK n \in Nat : n = Len(written)
      BY <1>1, Zenon
    <2>2. 1 \in Int /\ n \in Int
      OBVIOUS
    <2>3. IsFiniteSet(1..n)
      BY <2>2, FS_Interval
    <2> QED
      BY <1>1, <2>1, <2>3
  <1>3. ASSUME NEW e \in ManifestEntries PROVE e.count > 0
    <2>1. PICK tile \in Tiles : e = [id |-> tile, count |-> PointsIn(tile)]
      BY DEF ManifestEntries
    <2>2. PICK S \in SUBSET (DOMAIN written) : S = {i \in DOMAIN written : written[i].tile = tile}
      OBVIOUS
    <2>3. PICK i \in DOMAIN written : written[i].tile = tile
      BY DEF Tiles
    <2>4. IsFiniteSet(S) /\ i \in S
      BY <1>2, <2>2, <2>3, FS_Subset
    <2>5. Cardinality(S) \in Nat /\ Cardinality(S) # 0
      BY <2>4, FS_CardinalityType, FS_EmptySet
    <2>6. e.count = Cardinality(S)
      BY <2>1, <2>2 DEF PointsIn
    <2> QED
      BY <2>5, <2>6
  <1>4. ASSUME NEW e \in ManifestEntries, NEW f \in ManifestEntries, e.id = f.id PROVE e = f
    <2>1. PICK a \in Tiles : e = [id |-> a, count |-> PointsIn(a)]
      BY DEF ManifestEntries
    <2>2. PICK b \in Tiles : f = [id |-> b, count |-> PointsIn(b)]
      BY DEF ManifestEntries
    <2>3. a = b
      BY <1>4, <2>1, <2>2
    <2> QED
      BY <2>1, <2>2, <2>3
  <1> QED
    BY <1>3, <1>4 DEF WriteTileManifest

LEMMA WriteTileManifestKeeps ==
  ASSUME IInv, WriteTileManifest
  PROVE  IInv'
  <1>1. /\ pc = "manifest" /\ pc' = "done"
        /\ UNCHANGED <<source, stamp, original, config, identified, identity, expected, at, box, counted,
                       terminal, budget, plan, written, strayed, fooled>>
    BY ManifestIsWritten DEF IInv, WriteTileManifest, file, request, reader, passes, plans, history
  <1>2. Planned' = Planned /\ Cells' = Cells
    BY <1>1 DEF Planned, Cells
  <1>3. Typed'
    BY <1>1 DEF IInv, Typed, Stages
  <1>4. Measured' /\ Framed'
    BY <1>1 DEF IInv, Measured, Framed
  <1>5. Accepted'
    BY <1>1, <1>2 DEF IInv, Accepted
  <1>6. TilesHoldTheirPoints'
    BY <1>1 DEF IInv, TilesHoldTheirPoints
  <1>7. Kept'
    BY <1>1, <1>2 DEF IInv, Kept
  <1>8. Routed'
    <2>1. ASSUME ~strayed'
          PROVE  /\ Len(written') = Len(original')
                 /\ \A i \in DOMAIN written' : Leaf(written'[i].tile, Cells'[i])
      BY <1>1, <1>2, <2>1 DEF IInv, Routed
    <2>2. ASSUME ~strayed', NEW i \in DOMAIN written'
          PROVE  \E t \in budget' : t.id = written'[i].tile /\ t.id \in PathTo(Cells'[i])
      BY <1>1, <2>1, <2>2 DEF Leaf
    <2> QED
      BY <1>1, <2>1, <2>2 DEF Routed, Leaf
  <1> QED
    BY <1>3, <1>4, <1>5, <1>6, <1>7, <1>8 DEF IInv

LEMMA SourceChangesKeeps ==
  ASSUME IInv, SourceChanges
  PROVE  IInv'
  <1>1. /\ UNCHANGED <<original, config, identified, identity, pc, expected, at, box, counted,
                       terminal, budget, plan, written, strayed, fooled>>
        /\ \/ source' \in Replacements[original] /\ stamp' \in Stamps \ {identity}
           \/ source' = original /\ stamp' = identity
    BY DEF SourceChanges, request, reader, passes, plans, history
  <1>2. Planned' = Planned /\ Cells' = Cells
    BY <1>1 DEF Planned, Cells
  <1>3. Typed'
    <2>1. source' \in Files
      BY <1>1, FilesAre DEF IInv, Typed
    <2> QED
      BY <1>1, <2>1 DEF IInv, Typed
  <1>4. Measured' /\ Framed'
    BY <1>1 DEF IInv, Measured, Framed
  <1>5. Accepted'
    BY <1>1, <1>2 DEF IInv, Accepted
  <1>6. TilesHoldTheirPoints'
    BY <1>1 DEF IInv, TilesHoldTheirPoints
  <1>7. Kept'
    BY <1>1, <1>2 DEF IInv, Kept
  <1>8. Routed'
    BY <1>1, <1>2 DEF IInv, Routed, Leaf
  <1> QED
    BY <1>3, <1>4, <1>5, <1>6, <1>7, <1>8 DEF IInv

LEMMA Stutter ==
  ASSUME IInv, UNCHANGED vars
  PROVE  IInv'
  <1>1. UNCHANGED <<source, stamp, original, config, identified, identity, pc, expected, at, box, counted,
                    terminal, budget, plan, written, strayed, fooled>>
    BY DEF vars, file, request, reader, passes, plans, history
  <1>2. Planned' = Planned /\ Cells' = Cells
    BY <1>1 DEF Planned, Cells
  <1>3. Typed' /\ Measured' /\ Framed'
    BY <1>1 DEF IInv, Typed, Measured, Framed
  <1>4. Accepted'
    BY <1>1, <1>2 DEF IInv, Accepted
  <1>5. TilesHoldTheirPoints'
    BY <1>1 DEF IInv, TilesHoldTheirPoints
  <1>6. Kept'
    BY <1>1, <1>2 DEF IInv, Kept
  <1>7. Routed'
    BY <1>1, <1>2 DEF IInv, Routed, Leaf
  <1> QED
    BY <1>3, <1>4, <1>5, <1>6, <1>7 DEF IInv

(* The inductive invariant of a conversion with a point budget.            *)
THEOREM PlanningInvariant == Spec => []IInv
  <1>1. IInv /\ [Next]_vars => IInv'
    <2> SUFFICES ASSUME IInv, [Next]_vars PROVE IInv'
      OBVIOUS
    <2>1. CASE FirstPass
      BY <2>1, FirstPassKeeps
    <2>2. CASE EndFirstPass
      BY <2>2, EndFirstPassKeeps
    <2>3. CASE SecondPass
      BY <2>3, SecondPassKeeps
    <2>4. CASE EndSecondPass
      BY <2>4, EndSecondPassKeeps
    <2>5. CASE ReadFails
      BY <2>5, ReadFailsKeeps
    <2>6. CASE Plan
      BY <2>6, PlanKeeps
    <2>7. CASE CheckIdentity
      BY <2>7, CheckIdentityKeeps
    <2>14. CASE OpenFirst
      BY <2>14, OpenFirstKeeps
    <2>13. CASE OpenPlanned
      BY <2>13, OpenPlannedKeeps
    <2>8. CASE RoutePoint
      BY <2>8, RoutePointKeeps
    <2>9. CASE EndAuthoring
      BY <2>9, EndAuthoringKeeps
    <2>10. CASE WriteTileManifest
      BY <2>10, WriteTileManifestKeeps
    <2>11. CASE SourceChanges
      BY <2>11, SourceChangesKeeps
    <2>12. CASE UNCHANGED vars
      BY <2>12, Stutter
    <2> QED
      BY <2>1, <2>2, <2>3, <2>4, <2>5, <2>6, <2>7, <2>8, <2>9, <2>10, <2>11, <2>12, <2>13, <2>14
      DEF Next
  <1> QED
    BY <1>1, InitInv, PTL DEF Spec


-----------------------------------------------------------------------------
(* What the invariant says.                                                *)

(* The reader stays within its stream, a code is one of the cells at full  *)
(* depth, a tile is one of the tree, whatever a pass finds in the file.    *)
THEOREM PlanningTyped == Spec => []TypeOK
  <1>1. IInv => TypeOK
    <2> SUFFICES ASSUME IInv PROVE TypeOK
      OBVIOUS
    <2>1. config.depth \in Nat
      BY ConfigIs DEF IInv
    <2>2. DOMAIN terminal \subseteq 0..(2^(2 * config.depth) - 1)
      <3> SUFFICES ASSUME NEW c \in DOMAIN terminal PROVE c \in 0..(2^(2 * config.depth) - 1)
        OBVIOUS
      <3>1. PICK id \in CellsTo(config.depth) : id[1] = config.depth /\ Code(id) = c
        BY DEF IInv, Measured, IsTally
      <3>2. Code(id) \in 0..(2^(2 * id[1]) - 1)
        BY <2>1, CellsAre, CodeBound
      <3> QED
        BY <3>1, <3>2
    <2>3. DOMAIN plan \subseteq CellsTo(config.depth)
      <3>1. CASE plan = Empty
        BY <3>1 DEF Empty
      <3>2. CASE plan # Empty
        BY <3>2, PlanIsTree DEF IInv
      <3> QED
        BY <3>1, <3>2
    <2>4. \A i \in DOMAIN written : written[i].tile \in CellsTo(config.depth)
      <3>1. PICK E : E = [at : Positions, tile : CellsTo(config.depth)]
        OBVIOUS
      <3>2. written \in Seq(E)
        BY <3>1 DEF IInv, Typed
      <3>3. \A i \in DOMAIN written : written[i] \in E
        BY <3>2
      <3> QED
        BY <3>1, <3>3
    <2> QED
      BY <2>2, <2>3, <2>4 DEF IInv, Typed, Stages, TypeOK
  <1> QED
    BY <1>1, PlanningInvariant, PTL

(* The planner that keeps counts of codes and the one that keeps the       *)
(* points come to one plan and one verdict, where each look met the file   *)
(* that was identified.                                                    *)
THEOREM StreamingPlansTheSame == Spec => []PlannersAgree
  <1>1. IInv => PlannersAgree
    <2> SUFFICES ASSUME IInv, pc = "plan", ~strayed
                 PROVE  Planned = PlanInMemory(original, config)
      BY DEF PlannersAgree
    <2>1. CASE counted > 0
      BY <2>1, KeptPlans DEF IInv
    <2>2. CASE counted = 0
      <3>1. original = <<>>
        BY <2>2, PositionsOf DEF IInv, Kept, Typed
      <3> QED
        BY <2>2, <3>1 DEF Planned, PlanInMemory
    <2> QED
      BY <2>1, <2>2 DEF IInv, Typed
  <1> QED
    BY <1>1, PlanningInvariant, PTL

(* A plan that was accepted has every point of the second pass in one      *)
(* tile, each tile within the budget and none below another.               *)
THEOREM PlansAreSound == Spec => []PlanIsSound
  <1>1. IInv => PlanIsSound
    <2> SUFFICES ASSUME IInv PROVE PlanIsSound
      OBVIOUS
    <2>1. ASSUME pc = "plan" PROVE ValidateTilePlan(NodesOver(Planned.tiles))
      <3>1. IsCut(Planned.tiles)
        BY <2>1, PlannedIsCut DEF IInv, Measured
      <3> QED
        BY <3>1, NodesAreTree, TreeValidates
    <2>2. ASSUME plan # Empty
          PROVE  /\ Count(budget) = counted
                 /\ \A t \in budget :
                       /\ t.count <= config.max
                       /\ t.count >= config.min \/ t.id = Root
                       /\ \A u \in budget : u # t => t.id \notin PathTo(u.id)
                 /\ plan[Root].count = counted
      <3>1. /\ IsCut(budget) /\ budget = Planned.tiles /\ Planned.satisfied
            /\ Count(budget) = counted /\ plan[Root].count = counted /\ counted > 0
        BY <2>2, PlanIsTree DEF IInv
      <3>2. Visited(Planned, box, config, DOMAIN terminal, terminal, Codes)
        BY <3>1, PlannedIsVisit DEF IInv
      <3>3. \A t \in budget : t.count <= config.max /\ (t.count >= config.min \/ t.id = Root)
        BY <3>1, <3>2 DEF Visited
      <3>4. \A t, u \in budget : u # t => t.id \notin PathTo(u.id)
        BY <3>1 DEF IsCut
      <3> QED
        BY <3>1, <3>3, <3>4
    <2> QED
      BY <2>1, <2>2 DEF PlanIsSound
  <1> QED
    BY <1>1, PlanningInvariant, PTL

(* A compared identity keeps points out of tiles whose box does not hold   *)
(* them, however often the file is replaced, also under the last pass,     *)
(* unless the identified one was put back before it was compared.          *)
THEOREM TilesHoldWhatTheyGet == Spec => []TilesHoldTheirPoints
  <1>1. IInv => TilesHoldTheirPoints
    BY DEF IInv
  <1> QED
    BY <1>1, PlanningInvariant, PTL

(* A conversion that is done authored every tile of the budget with the    *)
(* points that were counted for it.                                        *)
LEMMA DoneIsRouted ==
  ASSUME IInv, ~strayed, pc = "done"
  PROVE  /\ Tiles = {t.id : t \in budget}
         /\ \A t \in budget : PointsIn(t.id) = t.count
  <1>1. plan # Empty
    BY DEF IInv, Accepted
  <1>2. /\ IsCut(budget) /\ budget = Planned.tiles /\ counted > 0
    BY <1>1, PlanIsTree DEF IInv
  <1>3. PICK I, ones : I = 1..Len(original) /\ ones = [i \in I |-> 1]
    OBVIOUS
  <1>4. Visited(Planned, box, config, I, ones, Cells) /\ Spans(box, I, original)
    BY <1>2, <1>3, KeptPlans DEF IInv
  <1>5. /\ \A t \in budget : /\ t.count = SumFunctionOnSet(ones, Under(I, Cells, t.id))
                             /\ \E i \in I : t.id \in PathTo(Cells[i])
    BY <1>2, <1>4 DEF Visited
  <1>6. DOMAIN written = I /\ \A i \in I : Leaf(written[i].tile, Cells[i])
    <2>1. Len(written) = Len(original)
      BY DEF IInv, Routed
    <2>2. DOMAIN written = 1..Len(written)
      BY DEF IInv, Typed
    <2> QED
      BY <1>3, <2>1, <2>2 DEF IInv, Routed
  <1>7. \A i \in I : IsCell(Cells[i])
    BY <1>3, <1>4, CellsAreCells DEF IInv, Spans
  (* Every point is below exactly one tile, the one it was written to.     *)
  <1>8. ASSUME NEW i \in I, NEW t \in budget PROVE written[i].tile = t.id <=> t.id \in PathTo(Cells[i])
    <2>1. PICK u \in budget : u.id = written[i].tile /\ u.id \in PathTo(Cells[i])
      BY <1>6 DEF Leaf
    <2>2. ASSUME t.id \in PathTo(Cells[i]) PROVE t = u
      <3>1. IsCell(t.id) /\ IsCell(u.id) /\ t.id[1] \in Nat /\ u.id[1] \in Nat
        BY <1>2, CellParts DEF IsCut
      <3>2. t.id \in PathTo(u.id) \/ u.id \in PathTo(t.id)
        <4>1. t.id[1] <= u.id[1] \/ u.id[1] <= t.id[1]
          BY <3>1
        <4> QED
          BY <1>7, <2>1, <2>2, <4>1, PathChain
      <3> QED
        BY <1>2, <3>2 DEF IsCut
    <2> QED
      BY <2>1, <2>2
  <1>9. Tiles = {t.id : t \in budget}
    <2>1. ASSUME NEW tile \in Tiles PROVE \E t \in budget : t.id = tile
      BY <1>6, <2>1 DEF Tiles, Leaf
    <2>2. ASSUME NEW t \in budget PROVE t.id \in Tiles
      <3>1. PICK i \in I : t.id \in PathTo(Cells[i])
        BY <1>5
      <3> QED
        BY <1>6, <1>8, <3>1 DEF Tiles
    <2> QED
      BY <2>1, <2>2
  <1>10. ASSUME NEW t \in budget PROVE PointsIn(t.id) = t.count
    <2>1. PICK S \in SUBSET I : S = Under(I, Cells, t.id)
      BY DEF Under
    <2>2. {i \in DOMAIN written : written[i].tile = t.id} = S
      BY <1>6, <1>8, <2>1 DEF Under
    <2>3. IsFiniteSet(I)
      BY <1>3, SourceIsFinite DEF IInv
    <2>4. IsFiniteSet(S) /\ \A i \in S : ones[i] = 1
      BY <1>3, <2>3, FS_Subset
    <2>5. SumFunctionOnSet(ones, S) = Cardinality(S)
      BY <2>4, SumOfOnes
    <2>6. PointsIn(t.id) = Cardinality(S)
      BY <2>2 DEF PointsIn
    <2> QED
      BY <1>5, <2>1, <2>5, <2>6
  <1> QED
    BY <1>9, <1>10

(* Where every look met the identified file each of its points is routed   *)
(* into the tile that counted it; the conversion fails only where the      *)
(* budget cannot be met, or where there is no point.                       *)
THEOREM PointsGoWhereTheyWereCounted == Spec => []RoutedWhereCounted
  <1>1. IInv => RoutedWhereCounted
    <2> SUFFICES ASSUME IInv, ~strayed
                 PROVE  /\ pc = "done" => /\ Tiles = {t.id : t \in budget}
                                          /\ \A t \in budget : PointsIn(t.id) = t.count
                        /\ pc = "failed" => \/ original = <<>>
                                            \/ ~PlanInMemory(original, config).satisfied
      BY DEF RoutedWhereCounted
    <2>1. ASSUME pc = "failed"
          PROVE  original = <<>> \/ ~PlanInMemory(original, config).satisfied
      BY <2>1 DEF IInv, Routed
    <2> QED
      BY <2>1, DoneIsRouted
  <1> QED
    BY <1>1, PlanningInvariant, PTL

=============================================================================
