--------------------------- MODULE MCFileFormatRead ---------------------------
(***************************************************************************)
(* The small instance of the reads: COPC sources of up to three hierarchy  *)
(* slots, every combination of the entries below and a few of more, by a   *)
(* tiled read and some by a plain one; all other reads of one source.      *)
(* Chunk 1 of a COPC source holds two points, chunk 2 one.                 *)
(***************************************************************************)
EXTENDS FileFormatRead

L1 == <<1, 0, 0>>
L2 == <<2, 1, 1>>
L2b == <<2, 0, 0>>
Outside == <<1, 2, 0>>

D(tile, at, count) == [kind |-> "data", tile |-> tile, at |-> at, len |-> 1, count |-> count]
Pg(tile, at, len)  == [kind |-> "page", tile |-> tile, at |-> at, len |-> len, count |-> 0]
Em(tile)           == [kind |-> "empty", tile |-> tile, at |-> 0, len |-> 0, count |-> 0]
Bad                == [kind |-> "bad", tile |-> Root, at |-> 0, len |-> 0, count |-> 0]

MCHierarchy ==
    {D(t, 1, 2) : t \in {Root, L1, L2}} \cup {D(t, 2, 1) : t \in {Root, L2, L2b, Outside}}
    \cup {D(L1, 2, 2), D(L1, 3, 1)}
    \cup {Pg(L1, at, len) : at \in 2..3, len \in 1..2}
    \cup {Pg(L1, 1, 1), Pg(L2, 3, 1), Pg(Root, 2, 2)}
    \cup {Em(Root), Em(L1), Bad}

F(slots, len, points) ==
    [slots |-> slots, root |-> [at |-> 1, len |-> len], points |-> points,
     chunks |-> << <<1, 2>>, <<1>> >>]

MCDeep ==
    {F(<<D(Root, 2, 1), Pg(L1, 3, 1), Pg(L2, 4, 2), D(t, 1, 2), e>>, 2, p) :
        t \in {L2b, <<3, 2, 2>>}, e \in {Em(L2b), Bad, Pg(L2b, 1, 1), D(<<3, 3, 3>>, 2, 1)},
        p \in 3..4}
    \cup {F(<<D(Root, 1, 2), Pg(L1, 3, 2), D(L2b, 2, 1), D(L2, 1, 2)>>, 2, 5)}

MCSmall == F(<<D(Root, 2, 1), D(L1, 1, 2)>>, 2, 3)

MCFiles ==
    {F(slots, len, points) : slots \in [1..3 -> MCHierarchy], len \in 1..3, points \in 2..4}
    \cup MCDeep \cup {MCSmall}

MCFew == {MCSmall}

-----------------------------------------------------------------------------
With(k, values) == {<<>>} \cup {k :> v : v \in values}
Both(A, B) == {a @@ b : a \in A, b \in B}

MCSize == 50000000
Tiled(place) == ("tileSize" :> MCSize) @@ ("payloadDirectory" :> place)

MCTiling ==
    Both(Both(With("tile", BOOLEAN), With("tileSize", {MCSize, 12, 3, 0})),
         Both(With("payloadDirectory", {"relative", "absolute"}),
              With("tileMemoryLimit", {67108864, 1000})))

MCFilters ==
    Both(Both(With("classification", {{2}, {256}}), With("bounds", {<<14, 5>>, <<4, 14>>, <<10, 30>>})),
         Both(With("rangeFirstPoint", {0, 3}), With("memoryBudgetBytes", {67108864, 100, 200, 0})))

MCSelections == With("attributes", {{"rgb"}, {"red", "returnNumber"}, {"scan"}})

MCFrame ==
    Both(With("epsg", {4978, 0}), Both(With("stageUpAxis", {"Y", "Z"}), With("linearUnit", {"foot"})))

MCArguments ==
    Both(Both(MCTiling, With("lod", {"off", "balanced"})), MCSelections)
    \cup Both(MCFilters, {<<>>, Tiled("absolute")})
    \cup {"maxPointsPerTile" :> 10, "spacing" :> 1}

Plain(format, a) ==
    [format |-> format, args |-> a, metadataOnly |-> FALSE, caching |-> FALSE, remote |-> FALSE,
     versioned |-> FALSE, points |-> 3, changing |-> FALSE]

ArgumentsOf(format) ==
    IF format = "ply" THEN Both(MCArguments, {"epsg" :> 4978}) \cup Both(MCFrame, MCSelections)
    ELSE MCArguments \cup With("epsg", {4978})

(* Every argument set, read with and without a cache.                      *)
MCAnyArguments ==
    {[Plain(f, a) EXCEPT !.caching = c] :
        f \in {"las", "copc"}, a \in ArgumentsOf("las"), c \in BOOLEAN}
    \cup {[Plain("ply", a) EXCEPT !.caching = c] : a \in ArgumentsOf("ply"), c \in BOOLEAN}

(* A few, by every kind of read of a source that changes.                  *)
MCAnySource ==
    {[format |-> f, args |-> a @@ frame, metadataOnly |-> m, caching |-> c, remote |-> r,
      versioned |-> v, points |-> p, changing |-> TRUE] :
        f \in {"las", "laz", "copc"}, frame \in {<<>>},
        a \in {<<>>, Tiled("absolute"), Tiled("relative"), "lod" :> "preview",
               Tiled("absolute") @@ ("attributes" :> {"rgb"}),
               Tiled("absolute") @@ ("bounds" :> <<14, 30>>)},
        m \in BOOLEAN, c \in BOOLEAN, r \in BOOLEAN, v \in BOOLEAN, p \in {0, 3}}

MCLocal == {r \in MCAnySource : r.remote => r.format = "copc"}

MCPlyChanging ==
    {[Plain("ply", a @@ ("epsg" :> 4978)) EXCEPT !.metadataOnly = m, !.caching = c, !.changing = TRUE] :
        a \in {<<>>, Tiled("absolute"), "lod" :> "quality"}, m \in BOOLEAN, c \in BOOLEAN}

MCLevels ==
    {[Plain("las", "lod" :> profile) EXCEPT !.points = n] : profile \in Profiles, n \in 1..20}

MCBudgets ==
    {Plain("copc", a @@ b @@ m) :
        a \in {<<>>, Tiled("absolute")},
        b \in {<<>>, "classification" :> {1}, "classification" :> {2}},
        m \in {<<>>, "memoryBudgetBytes" :> 99, "memoryBudgetBytes" :> 100}}

MCReadsOf(f) ==
    IF f = MCSmall THEN MCAnyArguments \cup MCLocal \cup MCPlyChanging \cup MCLevels
    ELSE IF Len(f.slots) > 3 \/ (f.slots[3] = Bad /\ f.root.len = 2) THEN MCBudgets
    ELSE {Plain("copc", Tiled("absolute"))}
             \cup {Plain("copc", "classification" :> {2}) : p \in {3} \cap {f.points}}

(* The values that the arguments above lead to.                            *)
MCRequests ==
    [tiled : BOOLEAN, limit : {0, 1, 2, 65536, 671088}, keep : {{1}, {2}, {1, 2}}]

-----------------------------------------------------------------------------
Las == {"xyz", "intensity", "returnNumber", "numberOfReturns", "red", "green", "blue"}

Holding(attributes, depth, reference) ==
    [sound |-> TRUE, decodes |-> TRUE, attributes |-> attributes, depth |-> depth,
     reference |-> reference]

MCRevisions ==
    [las  |-> <<Holding(Las, 16, 1), Holding(Las, 16, 1), Holding(Las \ Rgb, 16, 1)>>,
     laz  |-> <<Holding(Las, 16, 1), Holding(Las, 16, 2), [Holding(Las, 16, 2) EXCEPT !.sound = FALSE]>>,
     copc |-> <<Holding(Las, 16, 1), Holding(Las, 16, 1), Holding(Las \ Rgb, 16, 2)>>,
     ply  |-> <<Holding(Rgb, 8, 1), Holding(Rgb \cup {"xyz", "scan"}, 8, 1),
                [Holding({"xyz"}, 8, 1) EXCEPT !.decodes = FALSE]>>]

MCEntries ==
    {[format |-> f, revision |-> r, args |-> a @@ ("tile" :> TRUE) @@ ("payloadDirectory" :> "absolute")] :
        f \in {"las", "laz", "copc"}, r \in 1..3,
        a \in {"tileSize" :> MCSize, "maxPointsPerTile" :> 10,
               ("tileSize" :> MCSize) @@ ("attributes" :> {"red"}) @@ ("tileMemoryLimit" :> 1000),
               ("tileSize" :> MCSize) @@ ("attributes" :> {"rgb"}) @@ ("chunkPointLimit" :> 7),
               ("tileSize" :> MCSize) @@ ("bounds" :> <<6, 30>>)}}

=============================================================================
