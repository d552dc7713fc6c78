------------------------------- MODULE TilePlans -------------------------------
(***************************************************************************)
(* The tile plans of libs/usd-pointcloud-tiling: the quadtree that the     *)
(* point-budget planner splits and the router descends, and the plan of    *)
(* nodes that both it and the COPC reader hand to authoring.               *)
(*                                                                         *)
(* A tile is <<level, x, y>>; z is 0 in a point-budget plan and follows    *)
(* the same rules as x and y in a COPC one, so it is left out.  Positions  *)
(* and bounds are integers, scaled so that halving a box is exact as often *)
(* as a plan halves one.                                                   *)
(***************************************************************************)
EXTENDS Integers, Sequences, FiniteSets, FiniteSetsExt

Root   == <<0, 0, 0>>
NoTile == <<-1, 0, 0>>

Level(id) == id[1]

ParentOf(id) == <<id[1] - 1, id[2] \div 2, id[3] \div 2>>

(* A tile and its ancestors.                                               *)
PathTo(id) ==
    {<<l, id[2] \div 2^(id[1] - l), id[3] \div 2^(id[1] - l)>> : l \in 0..id[1]}

ChildrenOf(id) ==
    {<<id[1] + 1, 2 * id[2] + i, 2 * id[3] + j>> : i \in 0..1, j \in 0..1}

CellsTo(depth) ==
    UNION {{<<l, x, y>> : x \in 0..(2^l - 1), y \in 0..(2^l - 1)} : l \in 0..depth}

-----------------------------------------------------------------------------
(* Boxes: a cell is split in its middle, a point on the middle belongs to  *)
(* the upper half.                                                         *)

MidX(b) == b.minX + (b.maxX - b.minX) \div 2
MidY(b) == b.minY + (b.maxY - b.minY) \div 2

Flat(b) == b.minX = b.maxX \/ b.minY = b.maxY

Half(b, right, upper) ==
    [minX |-> IF right = 1 THEN MidX(b) ELSE b.minX,
     maxX |-> IF right = 1 THEN b.maxX ELSE MidX(b),
     minY |-> IF upper = 1 THEN MidY(b) ELSE b.minY,
     maxY |-> IF upper = 1 THEN b.maxY ELSE MidY(b)]

InBox(p, b) == p.x \in b.minX..b.maxX /\ p.y \in b.minY..b.maxY

Around(p) == [minX |-> p.x, maxX |-> p.x, minY |-> p.y, maxY |-> p.y]

Hull(boxes) ==
    [minX |-> Min({b.minX : b \in boxes}), maxX |-> Max({b.maxX : b \in boxes}),
     minY |-> Min({b.minY : b \in boxes}), maxY |-> Max({b.maxY : b \in boxes})]

(* The box of a cell of the tree over root.                                *)
BoxOf(root, id) ==
    LET box[l \in 0..id[1]] ==
            IF l = 0 THEN root
            ELSE Half(box[l - 1], (id[2] \div 2^(id[1] - l)) % 2,
                                  (id[3] \div 2^(id[1] - l)) % 2)
    IN  box[id[1]]

(* The cells a position falls into, with their boxes, root first.          *)
Descent(root, p, depth) ==
    LET cell[l \in 0..depth] ==
            IF l = 0 THEN [id |-> Root, box |-> root]
            ELSE LET up    == cell[l - 1]
                     right == IF p.x >= MidX(up.box) THEN 1 ELSE 0
                     upper == IF p.y >= MidY(up.box) THEN 1 ELSE 0
                 IN  [id  |-> <<l, 2 * up.id[2] + right, 2 * up.id[3] + upper>>,
                      box |-> Half(up.box, right, upper)]
    IN  cell

-----------------------------------------------------------------------------
(* Tile plans: a function from tiles to nodes.                             *)

NodeIsValid(node) ==
    /\ node.count > 0
    /\ node.box.minX <= node.box.maxX /\ node.box.minY <= node.box.maxY
    /\ node.isLeaf => node.children = {}

(* The tiles reached from a node through the children.                     *)
ReachedFrom(plan, id) ==
    LET reached[n \in 0..Cardinality(DOMAIN plan)] ==
            IF n = 0 THEN {id}
            ELSE reached[n - 1] \cup UNION {plan[i].children : i \in reached[n - 1]}
    IN  reached[Cardinality(DOMAIN plan)]

LinksAgree(plan, id) ==
    LET node == plan[id] IN
    /\ Level(node.parent) = -1 => node.parent = NoTile
    /\ Level(node.parent) # -1 =>
          /\ Level(id) - Level(node.parent) = 1
          /\ node.parent \in DOMAIN plan
          /\ id \in plan[node.parent].children
    /\ \A c \in node.children :
          c \in DOMAIN plan /\ Level(c) - Level(id) = 1 /\ plan[c].parent = id
    /\ node.isLeaf \/ node.children # {}

ValidateTilePlan(plan) ==
    /\ \A id \in DOMAIN plan : NodeIsValid(plan[id]) /\ LinksAgree(plan, id)
    /\ DOMAIN plan # {} =>
          \E root \in DOMAIN plan :
             /\ {id \in DOMAIN plan : Level(plan[id].parent) = -1} = {root}
             /\ ReachedFrom(plan, root) = DOMAIN plan

Count(tiles) == SumFunction([t \in tiles |-> t.count])

(* The plan over the tiles of a point budget, before it is validated.      *)
NodesOver(tiles) ==
    LET nodes     == UNION {PathTo(t.id) : t \in tiles}
        under(id) == {t \in tiles : id \in PathTo(t.id)}
    IN  [id \in nodes |->
            [count    |-> Count(under(id)),
             box      |-> Hull({t.box : t \in under(id)}),
             parent   |-> IF id = Root THEN NoTile ELSE ParentOf(id),
             children |-> {c \in nodes : Level(c) > 0 /\ ParentOf(c) = id},
             isLeaf   |-> \E t \in tiles : t.id = id]]

-----------------------------------------------------------------------------
(* The point-budget planner; counts says how many points a cell holds.     *)

CanSplit(counts, root, config, id) ==
    /\ counts[id] > config.max
    /\ Level(id) < config.depth
    /\ ~Flat(BoxOf(root, id))

Occupied(counts, id) == {c \in ChildrenOf(id) : counts[c] > 0}

Splits(counts, root, config, id) ==
    /\ CanSplit(counts, root, config, id)
    /\ Cardinality(Occupied(counts, id)) >= 2
    /\ \A c \in Occupied(counts, id) : counts[c] >= config.min

(* What visit leaves behind: the cells it stops at, and whether they all   *)
(* keep the budget - a cell that could have been split is over it.         *)
Visit(counts, root, config) ==
    LET leaves == {id \in CellsTo(config.depth) :
                      /\ counts[id] > 0
                      /\ ~Splits(counts, root, config, id)
                      /\ \A a \in PathTo(id) \ {id} : Splits(counts, root, config, a)}
    IN  [satisfied |-> \A id \in leaves : counts[id] <= config.max,
         tiles     |-> {[id |-> id, box |-> BoxOf(root, id), count |-> counts[id]] :
                           id \in leaves}]

(* BuildPointBudgetPlan over positions that are all in memory.             *)
PlanInMemory(positions, config) ==
    IF positions = <<>> THEN [satisfied |-> TRUE, tiles |-> {}]
    ELSE LET root    == Hull({Around(positions[i]) : i \in DOMAIN positions})
             cell(i) == Descent(root, positions[i], config.depth)
             counts  == [id \in CellsTo(config.depth) |->
                            Cardinality({i \in DOMAIN positions :
                                            cell(i)[Level(id)].id = id})]
         IN  Visit(counts, root, config)

(* The code of a cell: the bits of x and y interleaved, highest first.     *)
EncodeMortonPrefix(x, y, depth) ==
    LET code[n \in 0..depth] ==
            IF n = 0 THEN 0
            ELSE 4 * code[n - 1] + ((x \div 2^(depth - n)) % 2)
                                 + 2 * ((y \div 2^(depth - n)) % 2)
    IN  code[depth]

(* Mutant: the range of codes loses its last one.                          *)
CountForShort(terminal, depth, id) ==
    LET remaining == depth - Level(id)
        prefix    == EncodeMortonPrefix(id[2], id[3], Level(id))
    IN  SumFunctionOnSet(terminal,
            {c \in DOMAIN terminal : /\ c >= prefix * 2^(2 * remaining)
                                     /\ remaining > 0 => c < (prefix + 1) * 2^(2 * remaining) - 1
                                     /\ remaining = 0 => c = prefix})

(* The points of a cell, from the counts of the codes at full depth.       *)
CountFor(terminal, depth, id) ==
    LET remaining == depth - Level(id)
        prefix    == EncodeMortonPrefix(id[2], id[3], Level(id))
    IN  SumFunctionOnSet(terminal,
            {c \in DOMAIN terminal : /\ c >= prefix * 2^(2 * remaining)
                                     /\ c < (prefix + 1) * 2^(2 * remaining)})

(* The streaming planner, after its second pass.                           *)
PlanFromCounts(terminal, root, config) ==
    Visit([id \in CellsTo(config.depth) |-> CountFor(terminal, config.depth, id)],
          root, config)

-----------------------------------------------------------------------------
(* Routers.                                                                *)

LeafTiles(plan) ==
    {[id |-> id, box |-> plan[id].box, count |-> plan[id].count] :
        id \in {i \in DOMAIN plan : plan[i].isLeaf}}

(* Mutant: the upper faces of the root do not belong to it.                *)
GetTileIdHalfOpen(tiles, p, depth) ==
    LET root == Hull({t.box : t \in tiles})
        cell == Descent(root, p, depth)
        hits == {l \in 0..depth : /\ \E t \in tiles : t.id = cell[l].id
                                  /\ \A k \in 0..(l - 1) : ~Flat(cell[k].box)}
    IN  IF tiles # {} /\ InBox(p, root) /\ p.x < root.maxX /\ hits # {}
        THEN cell[Min(hits)].id
        ELSE NoTile

(* The first planned tile on the way down from the union of all tiles; a   *)
(* flat cell is not split.                                                 *)
GetTileId(tiles, p, depth) ==
    LET root == Hull({t.box : t \in tiles})
        cell == Descent(root, p, depth)
        hits == {l \in 0..depth : /\ \E t \in tiles : t.id = cell[l].id
                                  /\ \A k \in 0..(l - 1) : ~Flat(cell[k].box)}
    IN  IF tiles # {} /\ InBox(p, root) /\ hits # {} THEN cell[Min(hits)].id
        ELSE NoTile

=============================================================================
