---------------------------- MODULE FileFormatRead ----------------------------
(***************************************************************************)
(* One read of a layer by the LAS, LAZ, COPC or PLY plugin: arguments,     *)
(* header, source identity, the look into the cache, and the direct read   *)
(* if nothing usable is found there; a COPC one is that of CopcRead.  The  *)
(* source may be replaced at any point, by renaming another file or asset  *)
(* over it, and every part of a LAS file is read from what is then at its  *)
(* path.  Where the entries of the cache come from is GeoCache's part,     *)
(* where payloads go PayloadGeneration's, how a stream becomes tiles       *)
(* StreamAuthoring's.                                                      *)
(***************************************************************************)
EXTENDS CopcRead, FormatArguments, LodLevels

CONSTANTS
    ReadsOf(_), \* the reads of a source, for COPC of one with that hierarchy
    Revisions,  \* per format, what the source holds one revision after another
    Entries,    \* what a converter left in the cache: [format, revision, args]
    Classes,    \* all classes of points
    PointBytes  \* the memory a point of a COPC read takes

ASSUME ReadAssumption ==
    /\ \A f \in Files : \A r \in ReadsOf(f) :
          /\ r.format \in Formats \ {"generic"}
          /\ IsArgumentSet(r.args)
          /\ Len(Revisions[r.format]) >= 2
    /\ \A e \in Entries : e.revision \in DOMAIN Revisions[e.format] /\ Accepts(e.args, "generic")

VARIABLES
    read,       \* format, args, metadataOnly; caching: a cache root is set; remote;
                \* versioned: the resolver has versions; points selected; changing
    step,
    revision,   \* of the source, now
    asset,      \* the revision a COPC read holds open
    header,     \* the revision whose header was read
    records,    \* the one whose variable-length records, with the CRS, were
    chunks,     \* those whose points a direct read of LAS, LAZ or PLY has
    identity,   \* the revision that was identified, 0 for none
    entry,      \* the entry that was found
    layer       \* what was authored

parts    == <<header, records, chunks>>
mine     == <<read, step, revision, asset, parts, identity, entry, layer>>
readVars == <<vars, mine>>

Blank == [kind |-> "none"]

(* The reads begin with the second revision: entries of an earlier one     *)
(* may be around.                                                          *)
ReadInit ==
    /\ Init
    /\ read \in ReadsOf(file)
    /\ step = "start"
    /\ revision = 2
    /\ asset = 0 /\ header = 0 /\ records = 0 /\ identity = 0
    /\ chunks = {}
    /\ entry = Blank /\ layer = Blank

Asked        == Request(read.args)
Source(r)    == Revisions[read.format][r]
IsLasFile    == read.format \in {"las", "laz"}
RelativePlace == Asked["payloadDirectory"] = "relative"

Kind(r) == IF r["tile"] THEN "tiles" ELSE IF r["lod"] # "off" THEN r["lod"] ELSE "points"

(* A layer of the points that the request asks for, described by a header. *)
LayerOf(r, content, crs, points, colours) ==
    [kind       |-> Kind(r),
     revision   |-> content,
     reference  |-> crs,
     points     |-> points,
     filters    |-> [k \in FilterKeys |-> r[k]],
     attributes |-> Kept(Source(content).attributes, r["attributes"]),
     depth      |-> colours]

MetadataOf(content, crs) ==
    [kind |-> "metadata", revision |-> content, reference |-> crs, points |-> {},
     attributes |-> Source(content).attributes]

(* A point cloud remembers the depth of its colours; the records of a      *)
(* spool do not, and what is read back has the depth of LAS.               *)
ColourDepth(r, content) == IF r["tile"] THEN 16 ELSE Source(content).depth

-----------------------------------------------------------------------------
(* MakeReadRequest, and what each Read refuses besides.                    *)
Acceptable ==
    /\ read.format = "ply" => ~read.metadataOnly
    /\ Accepts(read.args, read.format)
    /\ read.format = "copc" => Asked["rangeFirstPoint"] = 0 /\ Asked["rangePointCount"] = 0
    /\ read.format = "ply" => Asked["epsg"] > 0

Reject ==
    /\ step = "start" /\ ~Acceptable
    /\ step' = "failed"
    /\ UNCHANGED <<vars, read, revision, asset, parts, identity, entry, layer>>

Accept ==
    /\ step = "start" /\ Acceptable
    /\ step' = CASE read.format = "copc"                             -> "open"
                 [] read.format = "ply" /\ read.caching              -> "identify"
                 [] IsLasFile /\ (read.caching \/ read.metadataOnly) -> "inspect"
                 [] OTHER                                            -> "read"
    /\ UNCHANGED <<vars, read, revision, asset, parts, identity, entry, layer>>

(* OpenResolvedAssetSource, the bytes first.                               *)
OpenAsset ==
    /\ step = "open"
    /\ \/ asset' = revision /\ step' = "version"
       \/ asset' = asset /\ step' = "failed"
    /\ UNCHANGED <<vars, read, revision, parts, identity, entry, layer>>

(* The resolver is then asked for the version of whatever is there.        *)
AskVersion ==
    /\ step = "version"
    /\ identity' = IF read.versioned THEN revision ELSE 0
    /\ step' = "inspect"
    /\ UNCHANGED <<vars, read, revision, asset, parts, entry, layer>>

(* ReadMetadata: first the fixed header.                                   *)
Inspect ==
    /\ step = "inspect"
    /\ header' = IF read.format = "copc" THEN asset ELSE revision
    /\ step' = IF Source(header').sound THEN "records" ELSE "failed"
    /\ UNCHANGED <<vars, read, revision, asset, records, chunks, identity, entry, layer>>

(* The records behind it, for which LAS files are opened anew, LAZ files if *)
(* the records are the extended ones; they may not fit the header.         *)
TakeRecords(here, there) ==
    /\ step = here
    /\ records' \in IF IsLasFile THEN {header, revision} ELSE {header}
    /\ \/ step' = there
       \/ records' # header /\ step' = "failed"
    /\ UNCHANGED <<vars, read, revision, asset, header, chunks, identity, entry, layer>>

InspectRecords ==
    TakeRecords("records", IF read.metadataOnly THEN "metadata"
                           ELSE IF read.caching THEN "identify" ELSE "read")

AuthorMetadata ==
    /\ step = "metadata"
    /\ layer' = MetadataOf(header, records)
    /\ step' = "done"
    /\ UNCHANGED <<vars, read, revision, asset, parts, identity, entry>>

-----------------------------------------------------------------------------
(* TryBuildLocalSourceIdentity hashes the file at the path, which may fail. *)
IdentifyFile ==
    /\ step = "identify" /\ ~read.remote
    /\ \/ identity' = revision /\ step' = "lookup"
       \/ identity' = identity /\ step' = "failed"
    /\ UNCHANGED <<vars, read, revision, asset, parts, entry, layer>>

(* A remote source is looked up if the resolver had a version for it and   *)
(* the payloads have a place to go.                                        *)
IdentifyAsset ==
    /\ step = "identify" /\ read.remote
    /\ step' = IF identity # 0 /\ ~RelativePlace THEN "lookup" ELSE "read"
    /\ UNCHANGED <<vars, read, revision, asset, parts, identity, entry, layer>>

(* BuildDescriptor: the source, its reference - of the header, for PLY of  *)
(* the arguments - and the arguments.                                      *)
ReferenceOf(format, args, content) ==
    IF format = "ply" THEN {<<k, Request(args)[k]>> : k \in PlyKeys}
    ELSE Revisions[format][content].reference

Matching ==
    {e \in Entries :
        /\ e.format = read.format
        /\ e.revision = identity
        /\ ReferenceOf(e.format, e.args, e.revision) =
              ReferenceOf(read.format, read.args, records)
        /\ KeyArguments(e.args) = KeyArguments(read.args)}

Hit ==
    /\ step = "lookup"
    /\ entry' \in Matching
    /\ step' = "place"
    /\ UNCHANGED <<vars, read, revision, asset, parts, identity, layer>>

(* Also when the entry is damaged or has just gone.                        *)
Miss ==
    /\ step = "lookup"
    /\ step' = "read"
    /\ UNCHANGED <<vars, read, revision, asset, parts, identity, entry, layer>>

(* MaterializePayloads and TransferContent.                                *)
LoadEntry ==
    /\ step = "place"
    /\ layer' = LayerOf(Request(entry.args), entry.revision, entry.revision,
                        {entry.revision}, 16)
    /\ step' = "done"
    /\ UNCHANGED <<vars, read, revision, asset, parts, identity, entry>>

(* When the payloads cannot be placed the source is read after all.        *)
LoadFails ==
    /\ step = "place"
    /\ step' = "read"
    /\ UNCHANGED <<vars, read, revision, asset, parts, identity, entry, layer>>

-----------------------------------------------------------------------------
(* The direct read of a LAS, LAZ or PLY source begins with the header, the *)
(* one read before or not.                                                 *)
OpenStream ==
    /\ step = "read" /\ read.format # "copc"
    /\ header' = revision
    /\ step' = IF Source(revision).sound THEN "behind" ELSE "failed"
    /\ UNCHANGED <<vars, read, revision, asset, records, chunks, identity, entry, layer>>

StreamRecords == TakeRecords("behind", "points")

(* A PLY stream goes on where its header ends, a LAZ decoder opens the file *)
(* once for all chunks, LAS opens it for each.                             *)
ReadPoints ==
    /\ step = "points"
    /\ chunks' = CASE read.format = "ply"                   -> {header}
                   [] read.format = "laz" /\ chunks # {} -> chunks
                   [] OTHER                               -> chunks \cup {revision}
    /\ UNCHANGED <<vars, read, step, revision, asset, header, records, identity, entry, layer>>

(* A LAZ file needs a header of its own to be decoded.                     *)
Decodable(c) == Source(c).decodes /\ (read.format = "las" \/ Source(c).sound)

Authorable ==
    /\ \A c \in chunks : Decodable(c)
    /\ read.points > 0
    /\ Asked["lod"] # "off" => LodAuthored(read.points, Asked["lod"])

AuthorStream ==
    /\ step = "points" /\ chunks # {} /\ Authorable
    /\ layer' = LayerOf(Asked, header, records, chunks, ColourDepth(Asked, header))
    /\ step' = "done"
    /\ UNCHANGED <<vars, read, revision, asset, parts, identity, entry>>

(* Points of another revision than the header's may not fit its sizes and  *)
(* counts; payloads and spools may also fail to be written.                *)
StreamFails ==
    /\ step = "points"
    /\ ~Authorable \/ chunks \cup {records} # {header} \/ Asked["tile"]
    /\ step' = "failed"
    /\ UNCHANGED <<vars, read, revision, asset, parts, identity, entry, layer>>

(* That of a COPC source decodes its tiles one by one: a tile has to fit   *)
(* into the memory budget, a plain read's buffer into the chunk limit too. *)
CopcRequest(args) ==
    LET r    == Request(args)
        fits == r["memoryBudgetBytes"] \div PointBytes
    IN  [tiled |-> r["tile"],
         limit |-> IF r["tile"] \/ fits < r["chunkPointLimit"] THEN fits ELSE r["chunkPointLimit"],
         keep  |-> IF r["classification"] = {} THEN Classes ELSE r["classification"]]

(* A remote source has no directory that a relative one could be in.       *)
Placeable == ~(Asked["tile"] /\ read.remote /\ RelativePlace)

ReadCopc ==
    /\ step = "read" /\ read.format = "copc"
    /\ request' = IF pc = "listed" THEN CopcRequest(read.args) ELSE request
    /\ Next
    /\ pc' = "done" =>
          /\ Placeable
          /\ Asked["lod"] # "off" => LodAuthored(Len(delivered), Asked["lod"])
    /\ step' = CASE pc' = "done"                -> "done"
                 [] pc' \in {"failed", "refused"} -> "failed"
                 [] OTHER                       -> "read"
    /\ layer' = IF pc' = "done" THEN LayerOf(Asked, asset, asset, {asset}, 16) ELSE layer
    /\ UNCHANGED <<read, revision, asset, parts, identity, entry>>

ReplaceSource ==
    /\ step \notin {"done", "failed"}
    /\ revision < Len(Revisions[read.format])
    /\ read.changing
    /\ revision' = revision + 1
    /\ UNCHANGED <<vars, read, step, asset, parts, identity, entry, layer>>

ReadNext ==
    \/ Reject \/ Accept
    \/ OpenAsset \/ AskVersion \/ Inspect \/ InspectRecords \/ AuthorMetadata
    \/ IdentifyFile \/ IdentifyAsset \/ Hit \/ Miss \/ LoadEntry \/ LoadFails
    \/ OpenStream \/ StreamRecords \/ ReadPoints \/ AuthorStream \/ StreamFails
    \/ ReadCopc
    \/ ReplaceSource

ReadSpec == ReadInit /\ [][ReadNext]_readVars

-----------------------------------------------------------------------------
(* The types of the read's state, and the bounds of the COPC walk: page    *)
(* references come from the file, yet the pages open at once, the entries  *)
(* listed and their points are bounded by it.                              *)
ReadTypeOK ==
    /\ TypeOK
    /\ step \in {"start", "open", "version", "inspect", "records", "metadata", "identify", "lookup",
                 "place", "read", "behind", "points", "done", "failed"}
    /\ {asset, header, records, identity} \cup chunks \subseteq 0..revision
    /\ entry \in Entries \cup {Blank}
    /\ pc # "walk" => step \in {"read", "done", "failed"}

(* What an argument set asks for, from the arguments themselves.           *)
AskedFor(name) ==
    \/ name = "xyz" \/ "attributes" \notin DOMAIN read.args
    \/ \E n \in read.args["attributes"] : name \in GroupOf(n)

(* A read that succeeds has authored what its arguments ask for - the kind *)
(* of layer, the filters and the attributes the source has, up to the      *)
(* shape of the tiles - whether it came from the cache or from the source, *)
(* with a cache up to the decimals of the filters that are printed; one    *)
(* that fails has left the layer alone.  The layer is described by one     *)
(* header that the source had during the read, and is of that revision     *)
(* throughout, unless it is read from a LAS or LAZ file that was replaced  *)
(* since that header was read: then its reference and, as a whole for LAZ, *)
(* its points may be of later ones.                                        *)
ReadMatchesRequest ==
    /\ step # "done" => layer = Blank
    /\ step = "done" =>
          /\ layer.revision \in 2..revision
          /\ {layer.reference} \cup layer.points \subseteq
                layer.revision..(IF IsLasFile THEN revision ELSE layer.revision)
          /\ read.format = "laz" => \A p, q \in layer.points : p = q
          /\ layer.kind = IF read.metadataOnly THEN "metadata" ELSE Kind(Asked)
          /\ ~read.metadataOnly =>
                /\ layer.points # {}
                /\ layer.attributes = {n \in Source(layer.revision).attributes : AskedFor(n)}
                /\ \A k \in FilterKeys :
                      \/ layer.filters[k] = Value(read.args, k)
                      \/ read.caching /\ Printed(k, layer.filters[k]) = Printed(k, Value(read.args, k))

(* What a request comes to: the tile arguments only of a tiled read.       *)
Effective(r) ==
    [k \in KnownKeys |->
        IF (k \in TileKeys /\ ~r["tile"]) \/ (k = "maxDepth" /\ r["maxPointsPerTile"] = 0)
        THEN Default[k] ELSE r[k]]

Without(a, keys) == [k \in DOMAIN a \ keys |-> a[k]]
AtDefault(a)     == {k \in DOMAIN a : a[k] = Default[k]}

(* The canonical arguments are accepted where the given ones are and are   *)
(* their own canonical form, unless a tile size vanishes in them; where    *)
(* nothing is lost in printing they come to the same request: a layer that *)
(* is opened again by them is the same layer, and so is its cache entry.   *)
(* "An absent argument and an argument set to its default value produce    *)
(* identical output", but for those of tiling, which the code takes as     *)
(* turning it on or off.                                                   *)
CanonicalIsStable ==
    step = "start" /\ Acceptable =>
        LET a == read.args
            c == Canonical(a)
        IN  /\ ~Vanishes(a) =>
                  /\ Accepts(c, read.format)
                  /\ Canonical(c) = c /\ KeyArguments(c) = KeyArguments(a)
            /\ IsExact(a) => ~Vanishes(a) /\ Effective(Request(c)) = Effective(Request(a))
            /\ Canonical(Without(a, AtDefault(a) \ (TileKeys \cup {"tile"}))) = c

(* Colours are authored over the range of the source's depth.              *)
ColoursAreNormalised ==
    step = "done" /\ layer.kind # "metadata" /\ Rgb \subseteq layer.attributes =>
        layer.depth = Source(layer.revision).depth

=============================================================================
