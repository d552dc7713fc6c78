---------------------------- MODULE FormatArguments ----------------------------
(***************************************************************************)
(* The file-format arguments of a layer: what a read makes of them, and    *)
(* the canonical form that names the layer and its cache entry             *)
(* (libs/usd-pointcloud-core/src/FileFormatArguments.cpp).                 *)
(*                                                                         *)
(* An argument set is a function from the keys it gives to their values.   *)
(* Lists are sets, coordinates are numbers of 1/10000000, and a value that *)
(* does not parse is a number below 0.  Bounds are those of one axis.      *)
(***************************************************************************)
EXTENDS Integers, FiniteSets

Formats == {"las", "laz", "copc", "ply", "generic"}   \* generic: the converter

PlyKeys     == {"epsg", "linearUnit", "sourceUpAxis", "stageUpAxis"}
BudgetKeys  == {"maxPointsPerTile", "minPointsPerTile", "maxDepth"}
TileKeys    == BudgetKeys \cup {"tileSize", "tileMemoryLimit", "payloadDirectory"}
FilterKeys  == {"rangeFirstPoint", "rangePointCount", "bounds", "classification"}
MemoryKeys  == {"chunkPointLimit", "memoryBudgetBytes"}
KnownKeys   == PlyKeys \cup TileKeys \cup FilterKeys \cup MemoryKeys
                   \cup {"tile", "lod", "attributes"}

NumberKeys == BudgetKeys \cup MemoryKeys \cup {"tileSize", "tileMemoryLimit"}

(* The values as they are given.                                           *)
IsArgumentSet(a) ==
    /\ \A k \in DOMAIN a \cap NumberKeys : a[k] \in Int
    /\ "bounds" \in DOMAIN a => a["bounds"] \in [1..2 -> Int]
    /\ "tile" \in DOMAIN a => a["tile"] \in BOOLEAN

(* What a PointReadRequest holds before any argument.                      *)
Default == [k \in KnownKeys |->
    CASE k = "chunkPointLimit"                     -> 64 * 1024
      [] k \in {"memoryBudgetBytes", "tileMemoryLimit"} -> 64 * 1024 * 1024
      [] k = "linearUnit"                          -> "metre"
      [] k \in {"sourceUpAxis", "stageUpAxis"}     -> "Z"
      [] k = "lod"                                 -> "off"
      [] k = "tile"                                -> FALSE
      [] k \in {"classification", "attributes"}   -> {}
      [] k = "bounds"                              -> <<>>
      [] k = "payloadDirectory"                    -> ""
      [] OTHER                                     -> 0]

-----------------------------------------------------------------------------
(* IsAttributeName: PLY properties may have any name.                      *)
LasNames == {"xyz", "intensity", "returnNumber", "numberOfReturns", "rgb", "red", "green",
             "blue", "gpsTime", "waveformXt", "waveformDataFile"}
Rgb      == {"red", "green", "blue"}
Returns  == {"returnNumber", "numberOfReturns"}
Waveform == {"waveformXt", "waveformDataFile"}
Waveforms == Waveform \cup {"waveformOther"}   \* every name with this beginning

(* AddAttributeGroup: what is stored together is selected together.        *)
GroupOf(name) ==
    CASE name \in Rgb \cup {"rgb"} -> Rgb
      [] name \in Returns          -> Returns
      [] name \in Waveforms        -> Waveform
      [] OTHER                     -> {name}

AllSelected(names) == (UNION {GroupOf(n) : n \in names}) \cup {"xyz"}

Value(a, k) == IF k \in DOMAIN a THEN a[k] ELSE Default[k]

(* The keys are taken in alphabetical order: tileSize and tileMemoryLimit  *)
(* come after tile and turn tiling on, whatever tile says, and the others  *)
(* come before it and do not.                                              *)
IsTiled(a) ==
    \/ {"tileSize", "tileMemoryLimit"} \cap DOMAIN a # {}
    \/ Value(a, "tile")
    \/ "tile" \notin DOMAIN a /\ TileKeys \cap DOMAIN a # {}

Request(a) ==
    [k \in KnownKeys |->
        CASE k = "tile" -> IsTiled(a)
          [] k = "attributes" /\ k \in DOMAIN a -> AllSelected(a[k])
          [] OTHER -> Value(a, k)]

(* A value of its key's kind, by itself.                                   *)
Parses(k, value, format) ==
    CASE k \in {"epsg", "tileSize", "tileMemoryLimit", "maxPointsPerTile"} -> value > 0
      [] k \in {"minPointsPerTile", "rangeFirstPoint", "rangePointCount"} \cup MemoryKeys -> value >= 0
      [] k = "maxDepth"       -> value \in 0..31
      [] k \in {"sourceUpAxis", "stageUpAxis"} -> value \in {"X", "Y", "Z"}
      [] k = "linearUnit"     -> value # ""
      [] k = "lod"            -> value \in {"off", "preview", "balanced", "quality"}
      [] k = "classification" -> value # {} /\ value \subseteq 0..255
      [] k = "bounds"         -> value[1] <= value[2]
      [] k = "attributes"     -> /\ value # {} /\ "" \notin value
                                 /\ format = "ply" \/ value \subseteq LasNames
      [] OTHER                -> TRUE

(* Which formats take a key.                                               *)
Takes(format, k) ==
    /\ k \in KnownKeys
    /\ k \in PlyKeys => format = "ply"
    /\ k \in BudgetKeys => format = "generic"

(* The checks of NormalizeFileFormatArguments after the last key.          *)
Consistent(r) ==
    LET adaptive == r["maxPointsPerTile"] > 0 IN
    /\ \A k \in MemoryKeys : r[k] > 0
    /\ r["tile"] => (r["tileSize"] > 0 \/ adaptive) /\ r["payloadDirectory"] # ""
    /\ adaptive => r["tileSize"] = 0 /\ r["minPointsPerTile"] <= r["maxPointsPerTile"]
    /\ r["minPointsPerTile"] > 0 => adaptive
    /\ r["tile"] => r["lod"] = "off"

Accepts(a, format) ==
    /\ \A k \in DOMAIN a : Takes(format, k) /\ Parses(k, a[k], format)
    /\ Consistent(Request(a))

-----------------------------------------------------------------------------
(* std::to_string prints six decimals.                                     *)
SixDecimals(x) == ((x + 5) \div 10) * 10

Printed(k, value) ==
    CASE k = "tileSize" -> SixDecimals(value)
      [] k = "bounds"   -> [i \in DOMAIN value |-> SixDecimals(value[i])]
      [] OTHER          -> value

(* Arguments that are printed as they are given, and a tile size that is   *)
(* printed as zero.                                                        *)
IsExact(a)  == \A k \in DOMAIN a : Printed(k, a[k]) = a[k]
Vanishes(a) == "tileSize" \in DOMAIN a /\ Printed("tileSize", a["tileSize"]) = 0

(* Mutant: the tile arguments are written for every read.                  *)
ShownAlways(r, k) ==
    IF k = "payloadDirectory" THEN r[k] # ""
    ELSE IF k = "tileSize" THEN r["maxPointsPerTile"] = 0 /\ r[k] # 0
    ELSE IF k \in {"minPointsPerTile", "maxDepth"} THEN r["maxPointsPerTile"] > 0 /\ r[k] # 0
    ELSE r[k] # Default[k]

(* What differs from its default is written, of the tile arguments only    *)
(* those of the planner in use.                                            *)
Shown(r, k) ==
    /\ r[k] # Default[k]
    /\ k \in TileKeys => r["tile"]
    /\ k = "tileSize" => r["maxPointsPerTile"] = 0
    /\ k \in {"minPointsPerTile", "maxDepth"} => r["maxPointsPerTile"] > 0

Canonical(a) ==
    LET r == Request(a)
    IN  [k \in {key \in KnownKeys : Shown(r, key)} |-> Printed(k, r[k])]

(* Mutant: the attributes are not part of the key.                         *)
KeyArgumentsWithoutAttributes(a) ==
    [k \in DOMAIN Canonical(a) \ (MemoryKeys \cup {"payloadDirectory", "attributes"}) |->
        Canonical(a)[k]]

(* BuildDescriptor: the arguments that are part of a cache entry's name.   *)
KeyArguments(a) ==
    [k \in DOMAIN Canonical(a) \ (MemoryKeys \cup {"payloadDirectory"}) |-> Canonical(a)[k]]

-----------------------------------------------------------------------------
(* SelectPointDataAttributes: of the attributes of a point cloud those     *)
(* selected, where one of a group stands for all of it.                    *)
Kept(available, selected) ==
    IF selected = {} THEN available
    ELSE {n \in available :
             CASE n \in Rgb      -> "red" \in selected
               [] n \in Returns  -> "returnNumber" \in selected
               [] n \in Waveform -> "waveformXt" \in selected
               [] OTHER          -> n \in selected \cup {"xyz"}}

=============================================================================
