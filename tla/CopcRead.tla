------------------------------- MODULE CopcRead -------------------------------
(***************************************************************************)
(* A COPC file as its plugin reads it (UsdGeoCopcFileFormat::Read after    *)
(* the header): CopcReader::ReadHierarchy walks the hierarchy pages, then  *)
(* the points are decoded entry by entry, or, for a tiled read,            *)
(* BuildHierarchy makes a tree of nodes, BuildTilePlan a tile plan, and    *)
(* BuildTiledAssets decodes one tile of it after the other.                *)
(*                                                                         *)
(* The hierarchy part of a file is a row of slots, one entry each; a page  *)
(* is any stretch of them, and pages may overlap.  The z of a tile follows *)
(* the rules of x and y and is left out, as in TilePlans.                  *)
(***************************************************************************)
EXTENDS TilePlans, SequencesExt

CONSTANTS
    Files,      \* [slots, root, points, chunks]
    Requests    \* [tiled, limit, keep]

(* The header has been validated: its page lies within the file.  Offsets,  *)
(* sizes and numbers of points are not negative: what is says its kind.    *)
ASSUME CopcAssumption ==
    \A f \in Files :
        /\ f.slots \in Seq(ToSet(f.slots))
        /\ \A e \in ToSet(f.slots) :
              /\ e.tile \in Int \X Int \X Int
              /\ e.kind = "page" => e.at \in Nat \ {0} /\ e.len \in Nat
              /\ e.kind = "data" => e.count \in Nat \ {0}
        /\ f.root \in [at : Nat \ {0}, len : Nat \ {0}]
        /\ f.root.at + f.root.len - 1 \in DOMAIN f.slots
        /\ f.points \in Nat

VARIABLES
    file,       \* slots, the root page, the points of the LAS header, chunks of classes
    request,    \* tiled or plain, the points memory may hold, the classes to keep
    pc,
    stack,      \* the pages being read, the innermost last
    visited,    \* the offsets of the pages that were begun
    total,      \* the points of the entries so far
    entries,    \* what the walk lists
    queue,      \* the entries still to be decoded, by number
    delivered,  \* the points read, as <<entry, point>>
    assets      \* the tiles that got points, as entries

walk == <<stack, visited, total, entries>>
load == <<queue, delivered, assets>>
vars == <<file, request, pc, walk, load>>

Nothing == [tiled |-> FALSE, limit |-> 0, keep |-> {}]

Init ==
    /\ file \in Files
    /\ request = Nothing
    /\ pc = "walk"
    /\ stack = <<[at |-> file.root.at, len |-> file.root.len, next |-> 0]>>
    /\ visited = {file.root.at}
    /\ total = 0
    /\ entries = <<>>
    /\ queue = <<>> /\ delivered = <<>> /\ assets = <<>>

-----------------------------------------------------------------------------
(* ReadHierarchy: the page of every page entry is read where it is met.    *)

PageInFile(f, page) == page.len > 0 /\ page.at + page.len - 1 <= Len(f.slots)

Top       == Last(stack)
Walking   == pc = "walk" /\ Top.next < Top.len
Entry     == file.slots[Top.at + Top.next]
Advanced  == [stack EXCEPT ![Len(stack)].next = @ + 1]

(* Data in the file, and no more points than the header still allows.      *)
DataFits(e) == e.at \in DOMAIN file.chunks /\ e.count <= file.points - total

Refuse ==
    /\ Walking
    /\ \/ Entry.kind = "bad"
       \/ Entry.kind = "page" /\ (~PageInFile(file, Entry) \/ Entry.at \in visited)
       \/ Entry.kind = "data" /\ ~DataFits(Entry)
    /\ pc' = "refused"
    /\ entries' = <<>>
    /\ UNCHANGED <<file, request, stack, visited, total, load>>

(* Mutant: a page may be read again.                                       *)
TakePageAgain ==
    /\ Walking
    /\ Entry.kind = "page" /\ PageInFile(file, Entry)
    /\ visited' = visited \cup {Entry.at}
    /\ stack' = Append(Advanced, [at |-> Entry.at, len |-> Entry.len, next |-> 0])
    /\ entries' = Append(entries, Entry)
    /\ UNCHANGED <<file, request, pc, total, load>>

TakePage ==
    /\ Walking
    /\ Entry.kind = "page" /\ PageInFile(file, Entry) /\ Entry.at \notin visited
    /\ visited' = visited \cup {Entry.at}
    /\ stack' = Append(Advanced, [at |-> Entry.at, len |-> Entry.len, next |-> 0])
    /\ entries' = Append(entries, Entry)
    /\ UNCHANGED <<file, request, pc, total, load>>

TakeData ==
    /\ Walking
    /\ Entry.kind = "data" /\ DataFits(Entry)
    /\ total' = total + Entry.count
    /\ stack' = Advanced
    /\ entries' = Append(entries, Entry)
    /\ UNCHANGED <<file, request, pc, visited, load>>

TakeEmpty ==
    /\ Walking
    /\ Entry.kind = "empty"
    /\ stack' = Advanced
    /\ entries' = Append(entries, Entry)
    /\ UNCHANGED <<file, request, pc, visited, total, load>>

LeavePage ==
    /\ pc = "walk" /\ Top.next = Top.len /\ Len(stack) > 1
    /\ stack' = Front(stack)
    /\ UNCHANGED <<file, request, pc, visited, total, entries, load>>

(* Mutant: the points of the pages are not added up.                       *)
LeaveRootUncounted ==
    /\ pc = "walk" /\ Top.next = Top.len /\ Len(stack) = 1
    /\ stack' = <<>>
    /\ pc' = "listed" /\ UNCHANGED entries
    /\ UNCHANGED <<file, request, visited, total, load>>

(* The entries must account for every point of the header.                 *)
LeaveRoot ==
    /\ pc = "walk" /\ Top.next = Top.len /\ Len(stack) = 1
    /\ stack' = <<>>
    /\ IF total = file.points
       THEN pc' = "listed" /\ UNCHANGED entries
       ELSE pc' = "refused" /\ entries' = <<>>
    /\ UNCHANGED <<file, request, visited, total, load>>

-----------------------------------------------------------------------------
(* BuildHierarchy: nodes for all entries, page entries included.           *)

Numbers     == DOMAIN entries
DataNumbers == {i \in Numbers : entries[i].kind = "data"}
Tile(i)     == entries[i].tile

InGrid(id) == id[1] \in 0..31 /\ id[2] \in 0..(2^id[1] - 1) /\ id[3] \in 0..(2^id[1] - 1)

HierarchyIsValid ==
    /\ \A i \in Numbers : InGrid(Tile(i))
    /\ \A i, j \in Numbers : Tile(i) = Tile(j) => i = j
    /\ \E i \in Numbers : Tile(i) = Root

DataTiles == {Tile(i) : i \in DataNumbers}

NodeOf(id) == CHOOSE i \in Numbers : Tile(i) = id

(* BuildTilePlan: the data tiles and their ancestors, each of which must   *)
(* have a node.                                                            *)
Required == UNION {PathTo(id) : id \in DataTiles}

AncestorsPresent == Required # {} /\ Required \subseteq {Tile(i) : i \in Numbers}

Cube == [minX |-> 0, maxX |-> 8, minY |-> 0, maxY |-> 8]

NodeFor(id, children) ==
    [count    |-> SumFunction([i \in {n \in DataNumbers : id \in PathTo(Tile(n))} |->
                                   entries[i].count]),
     box      |-> BoxOf(Cube, id),
     parent   |-> IF id = Root THEN NoTile ELSE ParentOf(id),
     children |-> children,
     isLeaf   |-> children = {}]

(* Mutant: a node's children are all of the hierarchy's.                   *)
CopcPlanOfAll ==
    [id \in Required |->
        NodeFor(id, {Tile(i) : i \in {n \in Numbers : Tile(n) \in ChildrenOf(id)}})]

CopcPlan == [id \in Required |-> NodeFor(id, ChildrenOf(id) \cap Required)]

BuildTilePlan == HierarchyIsValid /\ AncestorsPresent /\ ValidateTilePlan(CopcPlan)

(* Mutant: only the parent is looked at.                                   *)
AuthoredParentOnly(id) ==
    IF id # Root /\ ParentOf(id) \in DataTiles THEN ParentOf(id) ELSE NoTile

(* BuildTiledAssets climbs the plan to the next node with data.            *)
AuthoredParent(id) ==
    LET climb[n \in 0..Level(id)] ==
            IF n = 0 THEN CopcPlan[id].parent
            ELSE IF climb[n - 1] = NoTile \/ climb[n - 1] \in DataTiles THEN climb[n - 1]
            ELSE CopcPlan[climb[n - 1]].parent
    IN  climb[Level(id)]

AuthoredChildren(id) == {c \in DataTiles : AuthoredParent(c) = id}

(* BuildPointTiles: the deepest proper ancestor that is a point tile.      *)
PointTileChildren(id) ==
    {c \in DataTiles \ {id} :
        /\ id \in PathTo(c)
        /\ \A a \in (PathTo(c) \ {c}) \cap DataTiles : Level(a) <= Level(id)}

-----------------------------------------------------------------------------
(* The members of S in an order: the n-th has n - 1 before it.             *)
InOrder(S, before) ==
    [n \in 1..Cardinality(S) |->
        CHOOSE x \in S : Cardinality({y \in S : <<y, x>> \in before}) = n - 1]

Less(a, b) ==
    \/ a[1] < b[1]
    \/ a[1] = b[1] /\ a[2] < b[2]
    \/ a[1] = b[1] /\ a[2] = b[2] /\ a[3] < b[3]

ByNumber(S) == {p \in S \X S : p[1] < p[2]}
ByTile(S)   == {p \in S \X S : Less(Tile(p[1]), Tile(p[2]))}

(* A tiled read takes the tiles in the order of the plan.                  *)
BeginTiles ==
    /\ pc = "listed"
    /\ request' \in {r \in Requests : r.tiled}
    /\ IF BuildTilePlan /\ request'.limit > 0
       THEN pc' = "tiles" /\ queue' = InOrder(DataNumbers, ByTile(DataNumbers))
       ELSE pc' = "failed" /\ UNCHANGED queue
    /\ UNCHANGED <<file, walk, delivered, assets>>

(* A plain one the entries as the walk listed them.                        *)
BeginPlain ==
    /\ pc = "listed"
    /\ request' \in {r \in Requests : ~r.tiled}
    /\ IF request'.limit > 0
       THEN pc' = "plain" /\ queue' = InOrder(DataNumbers, ByNumber(DataNumbers))
       ELSE pc' = "failed" /\ UNCHANGED queue
    /\ UNCHANGED <<file, walk, delivered, assets>>

Decodes(i) == entries[i].count <= Len(file.chunks[entries[i].at])

(* The points of an entry that the filters keep.                           *)
Selected(i) ==
    LET kept == {n \in 1..entries[i].count : file.chunks[entries[i].at][n] \in request.keep}
        of   == InOrder(kept, ByNumber(kept))
    IN  [k \in DOMAIN of |-> <<i, of[k]>>]

(* A tile fits into memory and decodes.                                    *)
Readable(i) ==
    /\ entries[i].count <= request.limit
    /\ Decodes(i)

(* Mutant: a tile without selected points ends the read.                   *)
ReadTileOrStop ==
    /\ pc = "tiles" /\ queue # <<>>
    /\ LET i == Head(queue) IN
       /\ Readable(i)
       /\ delivered' = delivered \o Selected(i)
       /\ assets' = IF Selected(i) = <<>> THEN assets ELSE Append(assets, i)
       /\ queue' = IF Selected(i) = <<>> THEN <<>> ELSE Tail(queue)
    /\ UNCHANGED <<file, request, pc, walk>>

(* A tile is decoded as a whole, filtered, and skipped if nothing is left. *)
ReadTile ==
    /\ pc = "tiles" /\ queue # <<>>
    /\ LET i == Head(queue) IN
       /\ Readable(i)
       /\ delivered' = delivered \o Selected(i)
       /\ assets' = IF Selected(i) = <<>> THEN assets ELSE Append(assets, i)
    /\ queue' = Tail(queue)
    /\ UNCHANGED <<file, request, pc, walk>>

TileFails ==
    /\ pc = "tiles" /\ queue # <<>>
    /\ ~Readable(Head(queue))
    /\ pc' = "failed"
    /\ UNCHANGED <<file, request, walk, load>>

EndTiles ==
    /\ pc = "tiles" /\ queue = <<>>
    /\ pc' = IF assets = <<>> THEN "failed" ELSE "author"
    /\ UNCHANGED <<file, request, walk, load>>

ReadChunk ==
    /\ pc = "plain" /\ queue # <<>>
    /\ Decodes(Head(queue))
    /\ delivered' = delivered \o Selected(Head(queue))
    /\ queue' = Tail(queue)
    /\ UNCHANGED <<file, request, pc, walk, assets>>

ChunkFails ==
    /\ pc = "plain" /\ queue # <<>>
    /\ ~Decodes(Head(queue))
    /\ pc' = "failed"
    /\ UNCHANGED <<file, request, walk, load>>

(* BuildPointCloudAsset takes neither an empty point cloud nor one with    *)
(* more points than the header.                                            *)
EndPlain ==
    /\ pc = "plain" /\ queue = <<>>
    /\ pc' = IF delivered # <<>> /\ Len(delivered) <= file.points
             THEN "author" ELSE "failed"
    /\ UNCHANGED <<file, request, walk, load>>

(* Authoring fails when payloads cannot be generated or placed.            *)
Author ==
    /\ pc = "author"
    /\ pc' \in {"done", "failed"}
    /\ UNCHANGED <<file, request, walk, load>>

Next ==
    \/ Refuse \/ TakePage \/ TakeData \/ TakeEmpty \/ LeavePage \/ LeaveRoot
    \/ BeginTiles \/ ReadTile \/ TileFails \/ EndTiles
    \/ BeginPlain \/ ReadChunk \/ ChunkFails \/ EndPlain
    \/ Author

Spec == Init /\ [][Next]_vars

-----------------------------------------------------------------------------
(* Page references come from the file, yet the walk is bounded by it: the  *)
(* pages open at once, the entries it lists and their points.              *)
TypeOK ==
    /\ pc \in {"walk", "refused", "listed", "tiles", "plain", "author", "done", "failed"}
    /\ Len(stack) <= Len(file.slots)
    /\ Len(entries) <= Len(file.slots) * Cardinality(visited)
    /\ total <= file.points
    /\ visited \subseteq DOMAIN file.slots
    /\ ToSet(queue) \cup ToSet(assets) \subseteq DataNumbers

(* What a sound hierarchy is, without a walk: the pages that follow from   *)
(* the root are in the file and each is referred to once, their entries    *)
(* are valid and hold the points of the header.                            *)
SlotsOf(page) == page.at..(page.at + page.len - 1)

PagesOf(f) ==
    LET sub(page) == IF PageInFile(f, page)
                     THEN {[at |-> f.slots[i].at, len |-> f.slots[i].len] :
                              i \in {s \in SlotsOf(page) : f.slots[s].kind = "page"}}
                     ELSE {}
        pages[n \in 0..Len(f.slots)] ==
            IF n = 0 THEN {f.root} ELSE pages[n - 1] \cup UNION {sub(p) : p \in pages[n - 1]}
    IN  pages[Len(f.slots)]

WellFormed(f) ==
    LET pages == PagesOf(f)
        uses  == UNION {{<<p, i>> : i \in SlotsOf(p)} : p \in pages}
        of(k) == {u \in uses : f.slots[u[2]].kind = k}
    IN  /\ \A p \in pages : PageInFile(f, p)
        /\ of("bad") = {}
        /\ \A u \in of("data") : f.slots[u[2]].at \in DOMAIN f.chunks
        /\ \A u \in of("page") :
              /\ f.slots[u[2]].at # f.root.at
              /\ \A v \in of("page") : f.slots[u[2]].at = f.slots[v[2]].at => u = v
        /\ SumFunction([u \in of("data") |-> f.slots[u[2]].count]) = f.points

(* The walk, which stops at the first thing it does not like, accepts the  *)
(* sound hierarchies and no others.                                        *)
AcceptsWellFormed ==
    /\ pc = "listed" => WellFormed(file)
    /\ pc = "refused" => ~WellFormed(file)

(* The plan of a hierarchy that has the ancestors of its data validates    *)
(* and accounts for every point of the header, whatever page and empty     *)
(* entries lie between; the check at the end of BuildTilePlan never fails. *)
PlanAccountsForFile ==
    pc = "listed" /\ HierarchyIsValid /\ AncestorsPresent =>
        ValidateTilePlan(CopcPlan) /\ CopcPlan[Root].count = file.points

(* The library and the plugin each look for the nearest tile with points   *)
(* above a tile, in the hierarchy and in the plan: they find the same.     *)
SameForest ==
    pc = "tiles" => \A id \in DataTiles : AuthoredChildren(id) = PointTileChildren(id)

(* What is authored, tiled or not, is the selected points of the file,     *)
(* each of them once.                                                      *)
DeliversSelection ==
    pc = "author" =>
        /\ \A k, l \in DOMAIN delivered : delivered[k] = delivered[l] => k = l
        /\ ToSet(delivered) = UNION {ToSet(Selected(i)) : i \in DataNumbers}
        /\ request.tiled => \A k \in DOMAIN delivered : delivered[k][1] \in ToSet(assets)

=============================================================================
