# TLA+ models of usd-pointcloud-plugins

The plugins let USD open LAS, LAZ, PLY and COPC point clouds, and
`usd-pointcloud-convert` writes them as tiled USD assets. What can go wrong in
them goes wrong mostly on disk: several processes (converters, DCC tools that
open a layer) create, rename, reuse and remove the same directories, and any of
them may be killed between two file operations. The other half of the logic
turns a source into a layer: readers that walk through it in bounded chunks, a
planner that splits it into tiles, hierarchies that a file claims to have,
arguments that name what is asked for. Both are modelled here and checked with
TLC on small instances; what matters most is proved with TLAPS for every
instance.

Paths below are relative to the repository; `authoring/` abbreviates
`libs/usd-pointcloud-authoring/src/`.

## 1. The system

### Components

| component | state it keeps | operations | what makes it correct |
|---|---|---|---|
| converter transaction, `tools/usd-pointcloud-convert/main.cpp` | root layer, sidecar, payload directory, `<root>.transaction/` | recover, refuse what exists, mark, author or copy, rename sidecar, rename root, clean up, SIGINT | a root that is visible is complete; completed pairs and foreign files are left alone; a retry gets there |
| payload generations, `authoring/PayloadGeneration.cpp` | `<payloads>/<owner>/{g-*,c-*,.tmp-*}` | Begin (sweep), PathFor, Commit/CommitAs, Publish, Rollback | a generation appears whole; identical content is reused; no one's staging is taken away; leftovers go |
| stream authoring and spools, `authoring/PointCloudStreaming.cpp`, `libs/usd-pointcloud-tiling/src/Spool.cpp` | `.spool/<owner>/` and its tile files, buffered points | make the directory, route, flush, close, read back, remove | a payload holds the points of its own stream; buffering is bounded; spools do not pile up |
| geo cache, `libs/usd-geo-cache/src/Cache.cpp` | entries with two commit markers (root, manifest) | Inspect, Invalidate, publication by rename | an entry is committed at once or not at all |
| converter's use of the cache, `main.cpp` | a temporary entry | look up, clear, generate, publish or reuse the winner's, copy | what is delivered is whole; a whole entry is not removed |
| cache loading, `authoring/PointCloudCache.cpp` | - | look up, validate, copy, invalidate | a hit has every payload |
| point readers and streams, `libs/usd-{las,laz,copc,ply}/src` | position, decoder, pending points | read a chunk, end, error | the selected points once, in order, in bounded chunks |
| tiling planner and router, `libs/usd-pointcloud-tiling/src/Tiling.cpp` | bounds, histogram of cells, plan | two passes, split, validate, route, list the tiles | every point is in one tile, the one it is routed to; the budget is kept |
| COPC hierarchy, `libs/usd-copc/src/Copc.cpp` | pages being read, entries, nodes | walk pages, build nodes, tile plan, point tiles | only sound hierarchies are taken; the walk is bounded by the file; nothing is read twice |
| file-format arguments, `libs/usd-pointcloud-core/src/FileFormatArguments.cpp` | - | normalise, canonicalise, select attributes | the canonical form means the same; equal names mean equal layers |
| sampling and levels, `Sampling.cpp`, `Lod.cpp` | - | sample, budget, validate | every level is a sample of the right size |
| file format plugins, `plugins/pointcloud-{las,laz,ply,copc}/src` | the asset held open, the header | arguments, open, version, identify, look up, read directly | a layer is what its arguments ask for, described by one header |
| layer authoring, `authoring/PointCloudLayer.cpp` | - | prims from assets | colours, attributes and levels are those of the asset |
| formats, tools, third party | - | decoding of records | not modelled (section 8) |

### How they interact

Nothing sends messages. Processes meet in the file system only:

* A conversion (`main.cpp`) may look an asset up in the geo cache, generates
  what is missing in a temporary entry beside it, renames that into place and
  copies the entry into its own transaction. Without a cache it authors into
  its transaction directly. Both ways author through the spools.
* A FileFormat read (a plugin opening a layer) may find a cache entry, which it
  copies into a `c-<key>` generation of its layer, or else streams the source
  through spools into a `g-<hash>` generation.
* Two reads of one layer share its owner directory and its spool directory.
  Converters and reads share cache entries. Conversions of one output share
  the workspace next to it.

A FileFormat read is a sequence over all of these: arguments name the layer and
its cache entry, the source is identified (a local file by its hash, a remote
one by what the resolver says), the cache is asked, and if it has nothing the
source is read. A conversion with a point budget reads the source three
times: two passes plan the tiles, a third routes the points.

There are no threads in these parts, and no locks: what orders the processes is
`rename`, `create_directory`, and the order in which each looks and writes.
Cancellation is a flag that is polled at some points (SIGINT in the converter, a
callback in the libraries). There is no timeout except the one-hour age that
stands for the death of a staging directory's owner
(`PayloadGeneration.cpp:85`).

### What is hard here

Kills between two file operations; removals that go file by file while others
look; decisions taken on a directory listing that is out of date; renames lost
to another publisher; records and markers that are buffered and flushed
unchecked; cleanup of a cleanup that failed; chunk boundaries against ranges,
filters and decoder blocks; a source that is replaced between two passes over
it, or between its header, its identity and its points; offsets and counts
that a file only claims; points that lie exactly on the faces of cells. `PROJECT.json` lists these as hazards with their
lines, the properties that cover them, or why none does yet.

## 2. Modules

| module | models | checked as |
|---|---|---|
| `ConvertTransaction` | the workspace of one output root and `main()` around it | itself |
| `AtomicPublish` | what the output path promises: absent, published, final | property of `ConvertTransaction` |
| `ConvertTransactionProofs` | theorems about `ConvertTransaction` | TLAPS |
| `PayloadGeneration` | generations of one owner and the reads that make them | `MCPayloadGeneration`, itself |
| `StreamAuthoring` | spool directory, routing loop, writers and readers of spools | `MCStreamAuthoring` |
| `GeoCache` | the entries of one source, converters and reads that use them | `MCGeoCache` |
| `PointDelivery` | the contract of a bounded point read | property of `PointStreams` |
| `PointStreams` | the six readers and streams that promise it | itself |
| `TilePlans` | tiles, boxes, tile plans, the planner's and the router's functions | through its two users |
| `TilePlanning` | a conversion with a point budget: two passes, plan, identity, routing | `MCTilePlanning` |
| `CopcRead` | the hierarchy walk, the tile plan of a COPC file, its tiled and its plain read | through `FileFormatRead` |
| `FormatArguments` | file-format arguments, their canonical form, attribute selection | through `FileFormatRead` |
| `LodLevels` | sampling, level budgets, level hierarchies | through `FileFormatRead` |
| `FileFormatRead` | `Read` of the four plugins, composed of the three above | `MCFileFormatRead` |
| `PayloadGenerationProofs`, `GeoCacheProofs`, `PointStreamProofs`, `StreamProofs` | theorems about `PayloadGeneration`, `GeoCache`, `PointStreams`, `StreamAuthoring` | TLAPS |
| `TilePlansProofs` | lemmas about `TilePlans`, for the two modules below | TLAPS |
| `TilePlanningProofs` | theorems about `TilePlanning` | TLAPS |
| `FileFormatReadProofs` | theorems about `CopcRead`, `FileFormatRead`, `FormatArguments` and `LodLevels` | TLAPS |

The `MC` modules name the members of the small sets and define symmetry. They
add nothing to the behaviour.

The mutants (definitions whose comment starts with *Mutant*) are not part of any
`Next`. Each is a plausible mistake in the code, and shows
that the property it is listed with in `PROJECT.json` would notice it.

### ConvertTransaction

State: `files` (the output root, its sidecar and the temporaries of both, each
absent or an asset of a payload directory, partly or wholly written),
`payload[d]` (`some` for an unfinished or partly removed set of tiles, `tiles`
for all, `index` for `tiles.manifest`, `cut` for one without its end, `foreign`
for somebody else's files),
`marker` (what `<root>.transaction/` holds) and `stateDir` (the line in its
state file, `Torn` while that is not flushed). Per process: its place in
`main()`, its arguments, how it gets its payloads, its SIGINT flag. `markedFor`
is a history variable: it remembers the argument of the run that made the marker,
so that fairness can say "retried with the same arguments".

Actions, in the order of `main()`:

| actions | code |
|---|---|
| `Prepare` | `PrepareSource`; when it fails `main()` returns 1 (`main.cpp:750-753`) before it has looked at the workspace |
| `NothingToRecover` .. `BeginRecovery`, `RemoveFile`, `RemovePayload`, `RemoveMarker` | `RecoverIncompleteTransaction`, `ReadTransactionPayloadDirectory` |
| `RefuseTaken`, `AcceptFree` | the existence checks |
| `Plan` | cache lookup: choice of `direct`, `cached` or `hit` |
| `CreateMarker`, `OpenState`, `FlushState`, `CreateLayer` | `create_directory`, `WriteTransactionState`, the layer |
| `MakeSpool`, `BeginPayloads`, `FinishPayloads`, `Generate` | tiled authoring into the workspace or into the cache |
| `SaveRoot`, `SavedRoot`, `WriteIndex` | direct: layer and tile manifest |
| `ExportRoot`, `ExportedRoot`, `StartCopy`, `FinishCopy` | from the cache: `MaterializeCache` |
| `OpenManifest`, `CloseManifest`, `PublishManifest`, `PublishRoot`, `Keep` | the sidecar, the two renames, the last look at the flag |
| `Cancel`, `UndoSpool`, `UndoTiles`, the `c*` removals | cancellation and the `cleanup` lambda |
| `StepFails`, `RemoveFails`, `Interrupt`, `Kill` | any step failing, a refused removal, SIGINT, sudden death |

A file is opened and closed in two actions, because a kill in between leaves it
partly written. The sidecar and `tiles.manifest` are both checked before their
streams are flushed by their destructors (`main.cpp:659`, `683`); with
`ShortWrites` either may lose its end there and the run goes on. A recursive
removal is a step per kind of content.

### PayloadGeneration

A generation is named after its content, so content and name are one model
value; `Cached` are those copied from a cache entry (`c-`, no hash, reused if
complete), the others are authored (`g-`). `holds` says which files a directory
holds. `Begin` lists what is old, `Sweep` removes it file by file, `Stage`
makes a fresh `.tmp-<token>`, `Write` and `Commit` fill it, `Inspect`,
`Replace`, `Place`, `Rename`, `Drop` are `Publish` with its two `exists()`
looks, `List` and `Supersede` remove every other generation, `Rollback` undoes;
`Fail` is any of the errors in between, a rename that fails for reasons of its
own included. `Reuse` is a read that finds its cached copy in place.
`SourceChanges`, `HourPasses` and `Damage` are the environment. Two history
variables: `latest`, the generation published, kept or reused last, the one the
layer read last points to; and `outrun`, the reads during which another read
did so.

### StreamAuthoring

Files are inodes (`Files`) with names (`entry[k]`): a spool that another read
unlinks or truncates is still written by the handle its writer has, at the
offset that writer remembers. `RoutePoint` appends one point and lets the
writer flush itself, `FlushOne`/`Flushed` is `flushSpools`, `CloseSpool` writes
the rest and the footer, `ReadSpool` opens by name and accepts a file whose
header, records and footer agree. A record that nobody wrote, in a file another
read has truncated, is a `Hole`; the reader cannot tell it from a point, for it
looks at the length and the footer only. A flush writes whole
records in one step: reads that overlap stream one content (`~Revised`), so they write the same
bytes to the same place, and a record that a truncation has torn counts as a
hole. `left` and `alone` are history
variables: a kill has left the directory behind; no other read was active
at any time since this one began.

### GeoCache

An entry `k` is named by the plugin version of the descriptor and the revision
of the source; `entry[k]` is what is in it. `ConverterVersion` and `ReaderVersion`
are what `BuildCacheDescriptor` and `BuildDescriptor` write, and they differ
(finding 2): entries a read finds are those of `Earlier`, which an earlier
release left. `InspectRoot` and the
lookups are the two halves of `Inspect`. A converter clears what is not
committed, builds `temp`, publishes by rename, accepts a winner's entry, and
copies what it lists; a read validates, then copies, or invalidates. Removals
go part by part. `LookErrs`: a marker, tile manifest, root layer or payload
that cannot be looked at or opened counts as absent (`Cache.cpp:94-107`,
`main.cpp:959-963`, `PointCloudCache.cpp:434-443`), so the client goes on to clear
or invalidate the entry, whole or not. Entries of `Old` have no
`tiles.manifest`, like those of an earlier release that `main.cpp` makes anew.

`Casts` says which clients a history has and what its source holds at first,
`Follows` what may follow. Two history variables: `robbed`, the clients whose
entry only looked whole when they started, or lost a part to somebody else since;
`misled`, those who met an error in a lookup, or whose entry somebody else has
published since they started. Two things are abstracted: a part is present or
absent (a converter looks at nothing else; that a list may be there without its end
is `cut` in `ConvertTransaction`), and an entry is named after a revision of
which it holds the payloads: `CheckIdentity` is there, a source replaced
after it is not told apart.

### PointStreams

One behaviour is one read by one reader over one source. A point is its number
and whether it passes the filters. `ReadRange` is a chunk of `LasReader` or of the
PLY stream, `PullRange` one of `LasPointStream`, `Decode` one of the LAZ
readers, `DecodeEntry`, `OpenEntry`, `DeliverPending` the COPC stream. The LAZ
file decoder delivers what it is asked for, `LazReader` is given a decoder
that may return anything. `Contract == INSTANCE PointDelivery` maps the four
variables by name: `wanted` is defined from the request, `delivered`, `limit`
and `status` are the reader's own.

### TilePlans and TilePlanning

`TilePlans` is the arithmetic, without state: a tile is `<<level, x, y>>`, a box
has integer faces, a point on the middle of a box belongs to the upper half
(`Descent`). `Visit` is the recursion of the planner without the recursion: the
leaves are the occupied cells that do not split and all of whose ancestors do.
`PlanInMemory` counts the points of a cell by descending with each;
`PlanFromCounts` has only the counts of Morton codes at full depth and adds up
ranges of them (`CountFor`). `NodesOver` is `BuildTilePlan`, `ValidateTilePlan` the check of
the same name; `GetTileId` is the router, which rebuilds the root box from the
tiles it is given.

`TilePlanning` is `main()` with `--max-points-per-tile`. The identity of the
source is taken before anything is read; `OpenFirst`, `EndFirstPass` and
`OpenPlanned` open a stream for each pass (the header's count is taken then,
the points are read from whatever the file holds when they are read);
`FirstPass`, `SecondPass` and `RoutePoint` take one point each; `Plan` accepts or
refuses, `CheckIdentity` is `RefreshSourceIdentity`, `WriteTileManifest` the tile
index. `SourceChanges` replaces the file at any moment by one of `Replacements`,
with another `stamp` (what `SameSourceIdentity`, `main.cpp:246-252`, compares:
size, time, hash), or puts the first one back, stamp and all, as often as
anybody likes. Two history variables: `strayed`, a pass has looked and met
another file than the identified one; `fooled`, it had when the check found the
identified one back in its place.

### CopcRead

The hierarchy part of a file is a row of slots. An entry is `data` (a chunk and
a count), `page` (a stretch of slots), `empty`, or `bad`; pages may overlap,
repeat or leave the file. `stack` is the recursion of `readPage`, `visited` its
set of offsets, `total` its running sum. `TakePage`, `TakeData`, `TakeEmpty`,
`LeavePage`, `LeaveRoot` and `Refuse` are the loop; `WellFormed` says without a
walk what a sound hierarchy is. `HierarchyIsValid` is `BuildHierarchy` with
`CopcHierarchy::IsValid`, `CopcPlan` the nodes of `BuildTilePlan`,
`PointTileChildren` the library's and `AuthoredChildren` the plugin's idea of
the nearest tile below. `ReadTile` and `ReadChunk` decode one entry of a tiled and of
a plain read.

### FormatArguments, LodLevels and FileFormatRead

An argument set is a function from keys to values; `Request` is what
`NormalizeFileFormatArguments` makes of it, key by key in alphabetical order,
`Accepts` whether it does, `Canonical` what it writes back, `KeyArguments` what
of that goes into the name of a cache entry. `FileFormatRead` takes a read
through its steps: `Accept`/`Reject`, for COPC `OpenAsset` and `AskVersion` (in
that order, as `OpenResolvedAssetSource` does), `Inspect` the header and
`InspectRecords` the variable-length records with the CRS, `AuthorMetadata`,
`IdentifyFile` or `IdentifyAsset`, `Hit`/`Miss`, `LoadEntry` or `LoadFails`, and
the direct read. Of a LAS, LAZ or PLY file that is `OpenStream` (the header),
`StreamRecords`, any number of `ReadPoints` and `AuthorStream`, or
`StreamFails` anywhere: the path is opened anew for each read of a LAS file
(`RandomAccessSource.cpp:56`), once for all points of a LAZ and for all of a
PLY file. A COPC read goes step by step with `CopcRead!Next`. `ReplaceSource`
renames a new revision over the source between any two steps; an open asset
stays what it was. `Entries` are what converters have left in the cache; a
`Miss` is always possible, since an entry may be damaged or just be made. So
that reads have something to find, they are named as a converter of the
reader's version would name them (finding 2 is `GeoCache`'s).

## 3. Runs

| run | module | properties | result |
|---|---|---|---|
| `tx_recover` | `ConvertTransaction` | `TypeOK`, `PublishedRootIsBacked`, `PublishesAtomically`, `FailureLeavesNothing`, `EventuallyDelivered` | hold |
| `tx_removals` | `ConvertTransaction` | `SuccessMeansPublished`, `CompletedPairKept`, `UserDataKept` | hold |
| `gen_shared` | `MCPayloadGeneration` | `TypeOK`, `PublishedWhole`, `CompleteKept`, `LatestKept`, `StagingIsPrivate` | hold |
| `gen_swept` | `MCPayloadGeneration` | `LeftoversSwept` | holds |
| `spool_shared` | `MCStreamAuthoring` | `TypeOK`, `DeliversOwnPoints`, `MemoryIsBounded`, `SpoolsRemoved` | hold |
| `cache_shared` | `MCGeoCache` | `TypeOK`, `DeliveredWhole`, `ReaderHitIsWhole`, `EntryAppearsWhole`, `WholeKept`, `EventuallyCached` | hold |
| `cache_found` | `MCGeoCache` | `ConvertedIsFound` | **violated** |
| `streams_all` | `PointStreams` | `TypeOK`, `EndIsValidated`, `KeepsContract`, `EveryReadEnds` | hold |
| `streams_las` | `PointStreams` | `DeliversSelection` | **violated** |
| `tile_plan` | `MCTilePlanning` | `TypeOK`, `PlannersAgree`, `PlanIsSound`, `RoutedWhereCounted`, `TilesHoldTheirPoints` | hold |
| `reads` | `MCFileFormatRead` | `ReadTypeOK`, `AcceptsWellFormed`, `PlanAccountsForFile`, `SameForest`, `DeliversSelection`, `ReadMatchesRequest`, `CanonicalIsStable` | hold |
| `reads_colours` | `MCFileFormatRead` | `ColoursAreNormalised` | **violated** |

`CHECK_DEADLOCK FALSE` is set for the `streams`, `tile_plan` and `reads` runs:
there a behaviour is one read or one conversion, and it ends. Everywhere else
processes can start again, and a state without a step would be an error.

### What the runs show

* **tx_recover.** A converter may fail, be interrupted or be killed after every
  file operation, and be started again with either of two payload directories.
  A root at the output path has always a whole sidecar of the same payload directory and
  all payloads; the output path behaves like `AtomicPublish`; whoever got past
  opening the source and returns 1 has left nothing a retry would stumble over (a
  source that cannot be prepared is reported with 1 too, and leaves the
  workspace as it was); and a user who retries gets the
  asset - unless a kill came between opening and flushing the state file. Then
  every later run refuses the empty record until a person removes
  the marker.
* **tx_removals.** The same where removals may be refused, unchecked flushes
  may be lost and one of the directories held somebody's files before. Even so,
  a run that returns 0 has published, but for the ends of the two lists, a completed pair is never touched, and
  those files are - but for one case, section 4 - never removed. (A visible root is not
  necessarily backed any more there: see section 4.)
* **gen_shared.** Two processes, two contents, one payload file, a file
  somebody deletes. Reads of the same and of different content overlap in any
  way. A generation is whole from its first instant and no read touches what
  another has staged. A complete one goes by damage, by a read of other
  content that has published its own, or by a read that found it damaged and
  acts on that verdict after another read has replaced it. The last is what two publishers can do to
  each other; what they cannot: a read that nobody has overtaken removes
  nothing that the layer refers to.
* **gen_swept.** Leftovers of kills are removed once an hour has passed and the
  layer is read again, whatever failed.
* **spool_shared.** The source is replaced only while nobody reads. Two reads of
  the same content clear, truncate and overwrite
  each other's spools, in every interleaving of their file operations, fail, and are
  killed. One that succeeds has authored for every tile as many points as it should,
  each in its place - or, when another read was active meanwhile, a hole in
  its place: a writer that goes on behind a truncation leaves zeros in front of
  its records, and the spool it closes has the right length and footer. A read
  that was alone has all its points, whatever earlier reads left. The loop's
  count of buffered points is exact, and below the limit whenever the next
  point is read. Only kills leave a spool directory.
* **cache_shared.** Three kinds of histories, since converters and reads name
  their entries differently and never meet: two converters at once, one
  converter whose source changes, two reads at once whose source changes; all with errors
  of lookups, failures, kills, and a part of an entry deleted under their hands.
  Entries are committed whole. A read that reports a hit has every payload,
  a conversion that succeeds has delivered every payload and the tile manifest unless it was robbed. A
  whole entry is removed only by a client that was misled about it. When conversions
  take turns undisturbed in the end, the source gets a whole entry and keeps it - or one that looks
  whole, section 4.
* **cache_found.** Finding 2.
* **streams_all.** Every source of up to four points, every range, every filter,
  every chunk limit. All readers deliver the selection exactly
  and end; LAZ readers report the end only after the whole source was decoded.
* **streams_las.** Finding 1.
* **tile_plan.** Every multiset of up to four positions of a grid that has
  points on faces, on middles and on top of each other, every budget. Those of up to three
  points on half of the grid may be replaced and put back between any two points of any
  of the three passes, without limit. The planner that streams and the one that
  holds all points agree, on the verdict too, and every point is routed into
  the tile that counted it, where each look met the identified file; a plan is
  sound whatever the two passes saw, although only their counts are compared:
  every point counted is in one tile, every tile within the budget, none below
  another; and where the source has an identity, whatever ends up in a tile
  lies in the box that the tile claims, since the identity is taken again
  *after* the second pass - unless another file was planned from and the
  identified one was back for that look.
* **reads.** The walk over a hierarchy that may refer to itself, overlap, leave
  the file or miscount accepts exactly the sound ones and stays within the
  file; the tile plan of what it accepts validates and counts every point,
  and the library and the plugin find the same tree of tiles; tiled or plain,
  the selected points are authored once each. Over every set of arguments, kind of read and
  replacement of the source: what a read authors is what was asked for, from the
  cache or not, described by one header that the source had during the read.
  COPC and PLY layers are of one revision throughout; of a LAS or LAZ file that
  is replaced while it is read the reference and the points may be of later
  revisions (the points of a LAS file of several) than the header. Canonical
  arguments can be given in the place of the original ones, where printing
  them with six decimals loses nothing.
* **reads_colours.** Finding 3.

### Findings

1. **A pulled LAS stream with filters delivers points twice.**
   `LasStream.cpp:103` advances by the points the filters kept, not by
   those it read. A chunk of which nothing is kept is an error, although
   `docs/architecture/POINT_READER.md:23-25` says empty chunks are passed over.
2. **A plugin's read never finds what this converter cached.** The plugin
   version that is part of an entry's name is `...-display-v2` in the reads'
   `BuildDescriptor` (`authoring/PointCloudCache.cpp:63`) and `...-display-v3`
   in the converter's `BuildCacheDescriptor` (`main.cpp:476`).
   `docs/guides/BUILDING.md:140-141` says direct reads can use the same entries.
   The tests of the reads (`test_pointcloud_cache.cpp:65`,
   `test_pointcloud_copc.cpp:888`) make their entries with the reads' own
   descriptor. With equal versions `ConvertedIsFound` holds.
3. **8-bit colours come out of the spools as 16-bit ones.** A spool's schema does not
   carry `colorBitDepth`, and what is read back (`PointCloudStreaming.cpp:520`)
   has the default of 16, so a tiled read of an 8-bit PLY source is nearly
   black. `docs/releases/v0.4.0.md:28-29` lists the normalisation of 8-bit PLY
   colours.

The models met more disagreements between documents and code. They are not
runs of their own; each is a place where a property above had to be weakened,
and TLC refutes the stronger one:

* `FILE_FORMAT_ARGUMENTS.md:174-177` says publishing removes the superseded
  generations. `Publish` (`PayloadGeneration.cpp:370-390`) removes every other
  one: of two reads that overlap while the source changes, the one with the
  older content may publish last and remove the newest generation, for which
  the other's process has just authored a root. `LatestKept` excepts reads
  that were overtaken.
* `libs/usd-geo-cache/README.md:102-105` says an entry with a missing payload
  must not be reused. A conversion asks for two markers and `tiles.manifest`
  and copies what the payload directory lists (`main.cpp:957`, `523-538`).
  `DeliveredWhole` excepts converters whose entry looked whole and was not.
* `FILE_FORMAT_ARGUMENTS.md:194-195` says an absent argument and one at its
  default value give identical output. `tile=false` turns off what
  `payloadDirectory` before it has turned on, and `tileMemoryLimit` at its
  default turns tiling on (`FileFormatArguments.cpp:305-309`).
  `CanonicalIsStable` excepts the keys of tiling.
* Lines 119-121 there tell hosts to use the canonical arguments. A positive
  `tileSize` below 0.0000005 is accepted and written as `0.000000`, which is
  refused. `CanonicalIsStable` excepts it (`Vanishes`).
* Lines 69-71 say a layer cached for other bounds is never reused. Bounds that
  agree to six decimals share an entry (`FileFormatArguments.cpp:502-511`).
  `ReadMatchesRequest` compares printed filters where there is a cache.
* The document says conflicting combinations are rejected; `tile=false` with
  `tileSize` is resolved by the order of the keys.
* `POINTCLOUD_METADATA.md` calls `geo:boundsMin` stage-local; a metadata layer
  has source coordinates.

## 4. Bounds, and the limits of what holds

| run | bound | why it is enough |
|---|---|---|
| `tx_*` | one process, two payload directories | invocations take turns, so a second process is a restart of the first: what a killed process leaves is on disk only. Two directories make "the same as before" and "another one" distinct. Proved for any number of both |
| `gen_shared` | two reads, two contents (one cached), one file, two stagings | a publisher and a rival, of the same or of other content; a directory is empty, partial or whole with one file and the generation's own. `MaxDamage` 1: a second deletion only makes the same generation more incomplete. Proved for any number of all |
| `gen_swept` | the same with one content and no damage | a leftover is swept by whoever generates next, whatever the content; two stagings let both processes leave one |
| `spool_shared` | two reads, two contents, two tiles, `Limit` 2, six files | a tile that flushes itself, a flush of all, a writer two records ahead of another's in one file (four points, three of one tile), a writer closed with a point still held back and a leftover whose names mean other tiles (the other content, three points of one tile); six inodes are twice what is named and open at once, `StreamAssumption` says so. `MCView` identifies states that differ in files which have no name and are not open: no step reads those. Proved for any number of all |
| `cache_shared` | two converters of a source that stays; one converter, or two reads, of one with two revisions; one payload, one `Old` entry, one whole entry of an earlier release, `MaxDamage` 1 | a publisher and a loser, each of whom may clear what the other has made; a read and its rival; entries of different revisions meet only in what a lookup reports. A payload or a marker is deleted; every other loss is a removal cut short. Proved for any number of all and any histories |
| `cache_found` | one converter and one read of one source | one entry is enough |
| `streams_*` | `MaxPoints` 4 | chunks of 1, 2, 3 with a remainder, ranges that cut a chunk at either end or both, entries with no point. Safety is proved for sources of any length |
| `tile_plan` | up to four points on a grid of six positions, depth up to 2, budgets 1 and 2, minima 0 and 2; of those on three of the positions, all of up to three points are replaced by one of two files and put back, without a bound, with two stamps | two levels below the root: a split under a split, a split given up for one quarter, a quarter below the minimum, coinciding points that no split separates, flat boxes, points on every kind of face. A replacement may be shorter, as long with other positions, or longer. Stamps are only compared with the first one |
| `reads` | hierarchies of three slots with any of 19 entries, root pages of one to three, counts of 2 to 4, and some of five slots, three pages deep; three revisions; the argument values of `MCFileFormatRead` | a page in a page, a page that refers to itself, to the root, to part of another, out of the file; a tile two levels below the next with points; sums that are short or over by one. A header, the records behind it, an identity and each chunk can see a revision of their own. Each argument absent, at its default, at another value and malformed; bounds and tile sizes that printing rounds, to zero too |

Symmetry is used for reads, stagings and stamps, in the runs
that check safety only; no property or initial value tells them apart
(`Foremost` in `StreamAuthoring` chooses among tiles, which are not permuted,
and the choice of an unused inode is among `Files`, which are not either).

What a constant assumes can be lifted, and then something stops holding. These
are the limits of the code, not of the models:

| constant | what the passing runs assume | lifted, this fails |
|---|---|---|
| `ConvertTransaction.Serial` | conversions of one output take turns | `CompletedPairKept`: a late starter's check and its marker are two steps |
| `RemoveMayFail`, `ShortWrites` | removals and unchecked flushes succeed (`tx_recover`) | `PublishedRootIsBacked` |
| `LiveAges` | a live staging directory is written at least once an hour | `StagingIsPrivate`, and `PublishedWhole` for copies, which `CommitAs` does not look at again |
| `StreamAuthoring.Revised` | the source is replaced only between reads, not between the starts of two that overlap | `DeliversOwnPoints`: the spool directory, "exclusive" in the README of `authoring` (line 175), depends on the layer alone, and a tile may be authored from the other read's points |
| `alone`, in `DeliversOwnPoints` | reads that overlap may author holes | without the second disjunct `DeliversOwnPoints` fails for reads of one content that overlap: `TileSpoolReader` (`Spool.cpp:506-519`) looks at the footer and its count, not at where the records come from |
| `GeoCache`: conversions take turns in the end (`FairSpec`) | so `EventuallyCached` assumes | `EventuallyCached`: of two converters that keep overlapping one may, by a lookup older than the other's publication, clear the entry, and the other way round, for ever |
| `LasFilters` | no filters on a pulled LAS stream | `DeliversSelection` (finding 1) |
| `Revisions`, 8-bit PLY | `reads` does not ask for the colour range | `ColoursAreNormalised` (finding 3) |

Other limits are in the properties themselves. `UserDataKept` leaves out one
recovery: when a run was killed between its marker and its state file, recovery
(`main.cpp:412`) takes the payload directory of the *current* command line, before the
check that it must not exist. `CompleteKept`, `LatestKept`, `DeliveredWhole` and
`WholeKept` name by a history variable who may do what they otherwise exclude;
each exception is reached in the runs, and without it the property fails.
`EventuallyCached` ends in a whole entry or in a `Deceptive` one, whose payload
somebody deleted or whose removal was cut short after an error of a lookup: no later
conversion notices. `TilesHoldTheirPoints` asks for an identity (a source
without one may be planned from one file and routed from another) and that the
check was not `fooled`: the code compares two looks at the source, and what was
there in between it cannot know.

Where a COPC hierarchy has an entry for a page *and* the page its own entry for the same
tile, `BuildHierarchy` (`Copc.cpp:927`) sees a duplicate node: tiled reads
refuse the file, plain ones read it. `HierarchyIsValid` says so, and
`PlanAccountsForFile` and `SameForest` are about those it takes.

## 5. Fairness

* `ConvertTransaction!RetrySpec`: `main()` waits for nobody, so a started
  process takes its steps; the user retries until it works; from some point on
  nothing fails, and what was interrupted is retried with its own arguments.
  Without the last, two commands can refuse each other's leftovers for ever.
* `PayloadGeneration!FairSpec`: a read runs on by itself, the layer is read
  again and again, hours pass, and in the end no process is killed and no removal refused.
  Failures (rollbacks) may go on for ever.
* `GeoCache!FairSpec`: as above; the source is converted again and again. In the
  end no step fails, no lookup has an error, nobody is killed, the source does not
  change, nobody deletes anything, and a conversion starts when no other is
  running. Until then converters and reads overlap as they like, and reads do so
  for ever. The code has no lock that would make conversions take turns; section
  4 says what two that never do can do to each other.
* `PointStreams!FairSpec`: callers read on until they are told the end or an
  error, as the loops in the plugins and the converter do.

`StreamAuthoring`, `TilePlanning` and `FileFormatRead` have no liveness
property: their loops are bounded by a stream or by a walk whose bound is
an invariant (`ReadTypeOK`), and what must hold in the end is said of the states at rest.

## 6. Proofs

| theorem | says, for any constants | given |
|---|---|---|
| `ConvertTransactionProofs!TypeCorrect` | `Spec => []TypeOK` | - |
| `!RootIsBacked` | `Spec => []PublishedRootIsBacked` | `Reliable` |
| `!Atomic` | `Spec => PublishesAtomically`, the refinement of `AtomicPublish` | `Reliable` |
| `!SuccessPublished` | `Spec => SuccessMeansPublished` | `Serial` |
| `!UserDataSpared` | `Spec => UserDataKept` | `Serial` |
| `!PairKept` | `Spec => CompletedPairKept` | `Serial` |
| `!FailureFrees` | `Spec => FailureLeavesNothing` | `Reliable` |
| `PayloadGenerationProofs!TypeCorrect` | `Spec => []TypeOK` | - |
| `!StagingKept` | `Spec => StagingIsPrivate` | `~LiveAges` |
| `!AppearsWhole` | `Spec => PublishedWhole` | `~LiveAges` |
| `!LatestStays` | `Spec => LatestKept` | `~LiveAges` |
| `!CompleteStays` | `Spec => CompleteKept` | `~LiveAges` |
| `GeoCacheProofs!TypeCorrect` | `Spec => []TypeOK` | - |
| `!HitIsWhole` | `Spec => []ReaderHitIsWhole` | - |
| `!AppearsWhole` | `Spec => EntryAppearsWhole` | - |
| `!WholeIsDelivered` | `Spec => []DeliveredWhole` | - |
| `!WholeIsKept` | `Spec => WholeKept` | - |
| `StreamProofs!TypeCorrect` | `Spec => []TypeOK` | - |
| `!MemoryBounded` | `Spec => []MemoryIsBounded` | - |
| `!SpoolsGone` | `Spec => []SpoolsRemoved` | - |
| `!OwnPointsDelivered` | `Spec => []DeliversOwnPoints` | `~Revised` |
| `PointStreamProofs!TypeCorrect` | `Spec => []TypeOK` | - |
| `!EndValidated` | `Spec => []EndIsValidated` | - |
| `!ReadersKeepContract` | `Spec => KeepsContract`, the refinement of `PointDelivery` | `~LasFilters`, or no pulled LAS stream |
| `TilePlanningProofs!PlanningInvariant` | `Spec => []IInv` | - |
| `!PlanningTyped` | `Spec => []TypeOK` | - |
| `!StreamingPlansTheSame` | `Spec => []PlannersAgree` | - |
| `!PlansAreSound` | `Spec => []PlanIsSound` | - |
| `!TilesHoldWhatTheyGet` | `Spec => []TilesHoldTheirPoints` | - |
| `!PointsGoWhereTheyWereCounted` | `Spec => []RoutedWhereCounted` | - |
| `FileFormatReadProofs!TypeCorrect` | `Spec => []TypeOK` of `CopcRead`: the walk is bounded by the file | - |
| `!SelectionDelivered` | `Spec => []DeliversSelection` | - |
| `!WalkAcceptsTheSound` | `Spec => []AcceptsWellFormed` | - |
| `!PlansAccountForFiles` | `Spec => []PlanAccountsForFile` | - |
| `!ForestsAgree` | `Spec => []SameForest` | - |
| `!ReadIsSound` | the last three of `ReadSpec` | - |
| `!ReadTypeCorrect` | `ReadSpec => []ReadTypeOK` | - |
| `!RequestMatched` | `ReadSpec => []ReadMatchesRequest` | - |
| `!CanonicalStable` | `ReadSpec => []CanonicalIsStable` | - |
| `!ReadDeliversSelection` | `ReadSpec => []DeliversSelection` | - |
| `!SampleIsOrdered` | a level samples as many points as it should, none twice, in order | - |
| `!LodAlwaysAuthored` | every level profile of a source with a point gives samples and a hierarchy the authoring accepts | - |

Besides what the column says, each module's named assumption about its constants
is used (`TransactionAssumption`, `GenerationAssumption`, `CacheAssumption`,
`StreamAssumption`, `PlanningAssumption`, `CopcAssumption`, and a `ReadAssumption` each in `PointStreams` and
`FileFormatRead`): the sets are what they are called, the
sentinels are none of their members, and there are inodes enough that a new file
never needs one that is in use. `Spec` in the last group is that of `CopcRead`.

Every invariant that a run checks is proved for all constants. What is recursive
in the model is a recursive function, and what is proved of one rests on two
lemmas in place of the library's induction theorems, which take an operator as a
parameter and which no installed prover instantiates. `LeastNumber`: intervals are
well-founded under inclusion, so a set of numbers for which a claim is wrong
has a least one, and the step from the one before refutes it. `RecursionExists`:
a function with the equation exists, so it holds of the one that `CHOOSE` names.

**ConvertTransactionProofs.** `Reliable == Serial /\ ~RemoveMayFail /\
~ShortWrites`; the table of section 4 says why it cannot be dropped.
`PublishedRootIsBacked` is not inductive: that
`PublishRoot` may rename the temporary root depends on everything that came
before it. The inductive invariant is

    IInv == TypeOK /\ Alone /\ PublishedRootIsBacked /\ \A p \in Procs : Phase(p)

`Alone`: at most one process is active. `Phase(p)`: what a process at this point
of `main()` may rely on - no output before its own rename; its marker exists
while it builds; the temporary root is its own, unfinished while it is
written and whole after; its payloads and tile manifest are complete once it has made
them; the sidecar is its own once renamed. Start, recovery and set-up
(`SetupInv`), authoring and publication (`BuildInv`), and cancellation,
removal and faults (`UndoInv`) each preserve it, `OthersStay` and `AloneNext`
say that nobody else moves. The refinement then needs one case per step that
changes `Asset`: the rename of the root publishes, the removal of the marker
settles, the cancellation's removal of the root withdraws; all else stutters.

Its outcomes: `Phase` is lost once a removal can be refused or a
flush lost, so what holds of every disk has invariants of its own, each with
`TypeOK` and `Alone`, and each as weak as its theorem allows:

* `Built(p)`: what a run has made and not yet handed over - its temporary root,
  all tiles, the rest of the payload, its sidecar - by its place in `main()`. A
  flush that is lost leaves the sidecar in part (`Own(p, FALSE)`) or the tile
  manifest without its end (`cut`), which is what `SuccessMeansPublished` allows.
* `Spares(p)` and `Recording`: no foreign files are in a directory that the run has
  accepted, nor in the one the state file names. A recovery that reads no
  state file is the exception that `UserDataKept` names.
* `Holds(p)`: a run that is past the checks holds the marker. So no run is past
  them when there is a completed pair and no marker, and none changes it.

`FailureFrees` does rest on `Reliable`, and on `IInv`; its own part, `Left(p)`,
follows the order of the cleanup: what is left of the run shrinks, and the
marker goes last.

**PayloadGenerationProofs.** Two layers. The first needs only that no read lets
its staging directory age (`~LiveAges`), and admits any number of reads of any
contents at once:

    IInv == TypeOK /\ \A r \in Reads : Owns(r) /\ Building(r) /\ Removing(r)

`Owns`: nobody else has the directory or has listed it. `Building`: what is
staged and what is still to write are together all payloads. `Removing`: a
sweep is about staging directories, a superseding read about generations other than its own.
`Gentle(r)` is what every step of `r` leaves to the others; given that, one
lemma (`OthersStay`) shows their part, and each action is looked at for `r`
alone. Without `Building`, `PublishedWhole` is not inductive for a copy: `CommitAs` does not look at what
is staged. The second layer is about reads of any contents that overlap in any
way, and says what a read still knows of what it looked at:

    Knows(r) == Active(r) /\ r \notin outrun =>
                    /\ pc[r] = "replace" => ~Complete(content[r])
                    /\ pc[r] \in {"drop", "list", "supersede"} => latest = content[r]

`outrun` are the reads during which another has published or reused a
generation. Until then a verdict is as good as when it was made: what is
about to be replaced is not complete, and what has been published is the latest.
`Overtakes` says that a step which completes a generation puts everybody else at work
into `outrun`. So `LatestKept` and `CompleteKept` exclude, by name, what a read
does on a verdict that another read has made stale, and nothing else.

**GeoCacheProofs.** Two layers here as well, both for any number of clients at
once. The first adds to the types what a converter knows of its temporary
entry (`Converting`: bare until authored, whole when it is published) and
what a read has taken and has still to take (`Loading`: together every
payload). `EntriesShrink` says that everything but a publication only takes
away from an entry. The second is what the clients know of the entry:

    Known == \A c \in Clients : Knowing(c)

`Knowing(c)` has two parts. `Trusting`, of a converter that is not `robbed` (its entry was not `Deceptive` when it
started, and nobody has taken anything from it since): its entry is not `Deceptive`, what it
saw of the markers is there, and where it copies from is whole.
`Doubting`, of a client that is not `misled` (no lookup of its own went wrong
and nobody published behind its back): what it is about to clear or invalidate is not
whole. `KnowingStays` is the frame: another client's step leaves the entry as it
was, or puts those it concerns into `robbed` or `misled`. No assumption on who
runs when, or on what the user deletes, is left.

**StreamProofs.** `IInv` holds whatever overlaps, and of reads of any contents:

    IInv == Typed /\ \A r \in Reads : Writers(r)

`Writers(r)`: a read has a file for exactly the spools it is streaming to,
buffers and offsets only where there is a file, and none of them
when it is not at work on its spools. What the loop counts is what its writers
hold: the sum over the tiles is taken as the cardinality of `Held`, so a point
routed is one element more, a flush of one tile so many fewer, and no
recursion is needed. That an inode is left for the next spool
(`FreeFile`) is a count of names and handles against `StreamAssumption`.
`SpoolsGone` adds one fact, `Attended`: a spool directory that no kill left behind has a
read that will remove it, one whose place is among `Duties`. A read loses
its duty by removing the directory or by leaving it to another that is
`Spooling`.

`OwnPointsDelivered` is about reads that overlap and stream the same content
(`~Revised`). So they number their spools alike, and:

    OwnInv == Shared /\ \A r \in Reads : Streaming(r)

`Streaming(r)` follows one read: its spool of a tile has the number at which its
content first meets that tile, its writers are where its stream is, what it has
read back is right. `Shared` has what holds of the disk. `OneName`: no file goes by two
numbers, be it by its name or by a handle. `Right`: a file that any read may still write or read
has at each place the one point that belongs there, a hole, or the
footer, and that only after the last. All overlapping writers write the same
things to the same places, so each step that writes preserves this. `Cleared`
and `Current`: nothing of an earlier content survives into a read. `Unharmed`: the
files of a read that was alone from its start are as long as its offsets and
have no hole. `TypeOK` would not be enough for any of them: a truncation
in one read changes what the handle of another may write.

**PointStreamProofs.** `IInv` says where each kind of reader stands and that what it
read so far is what it delivered (`Accounted`): for a range reader the matching
points up to `next`, for a LAZ reader those up to where the range ends or the
decoder is, for COPC what was delivered followed by what is pending. A pulled LAS
stream is included as long as it has no filters (`Unfiltered`), and the
position and type invariants hold of it with filters too. `KeepsContract` follows step
by step: each chunk continues what was delivered towards `wanted` (`RangeChunk`,
`ChunkKeeps`) and is a `DeliverChunk`, or a stutter when the filters leave nothing of it; the
end is `End` because nothing is left; everything else is `Fail` or a stutter.
What this rests on is the recursion in `Among`: that a range selects
numbers of that range, as many as match, and that adjacent ranges concatenate.

**TilePlansProofs.** Facts about trees of tiles of any depth, for both modules
that use them:

* Sums. The fold behind `SumFunctionOnSet` chooses a member at a time;
  `SumSplit` says that any other order gives the same, and from it a sum over a
  union and over a partition (`SumPartition`).
* Cells and paths. What is above a cell is a chain, one cell at each level
  (`PathChain`, `PathUnique`). The descent of a point meets exactly the cells of
  a path (`DescentPath`), and each box on it holds the point if the first one
  does (`DescentHolds`). Halving, with the middle rounded down,
  leaves every box upright and within that of the root (`BoxOfWithin`).
* Morton codes. Cells of one level have different codes (`CodesDiffer`), and a
  code shifted by two bits is its parent's (`CodeShift`), so the codes below a
  cell are an interval (`CodesBelow`) - the range that the streaming planner
  counts.
* The cells that a planner stops at (`Leaves`). None is below another, each
  thing counted lies below exactly one of them (`LeavesShare`), and but for the
  root each has the points a tile needs (`LeafIsLarge`). This is said of any
  things with a weight (`Weighs`): of points, and of codes with their counts. So
  the two planners differ only in what they count, and `PlannersAgreeOn` follows
  from `TalliedWeighs`, that a code's count is the number of its points.
* Plans. `TreeValidates`: a plan with the ancestors of its tiles, linked to
  match and with boxes the right way up (`IsTree`), is one that
  `ValidateTilePlan` accepts, its search for cycles and for unreachable tiles
  included. `NodesAreTree`: the plan over any tiles of a budget is one.

**TilePlanningProofs.**

    IInv == Typed /\ Measured /\ Accepted /\ Framed
            /\ TilesHoldTheirPoints /\ Kept /\ Routed

The file may be replaced in any state, and put back, so `Measured` and `Accepted` say what is
known of the passes whatever they read: the codes sum up to the points that the
second pass met, in a box that is upright, and a plan that is there is the one
over the budget, which is what the planner makes of these codes. From these two
follow `PlanIsSound` and `TypeOK`. `Kept` is what is known while every look met
the file that was identified first (`original`, until a look `strayed`): the box is the hull
of the points so far, the codes are the
tally of the points so far - so when the plan is made the streaming planner has
counted what the one in memory counts, and `PlannersAgree`. `Framed` is why the
comparison of stamps keeps points where they belong: the router rebuilds the
box of the root from the tiles with points. If both passes saw the same points
that is the box of the first pass (`HullOfTiles`), and stamps that compare equal
say they did unless the check was `fooled`, by a source that was another in
between and is back; after the check the file may be replaced, and
`TilesHoldTheirPoints` stays. `Routed` needs both: with the same box a point
descends to the leaf that counted it (`RouterFinds`), so each tile has been
given its count when all are routed.

**FileFormatReadProofs**, the COPC read. The walk goes wherever the file sends
it. `WalkInv` holds at any point of it: no more pages are open than were begun,
each lies in the file and has been read up to its `next`, and what is listed and
what is still to be read of the open pages is together no more than the file's
slots for every page begun. What is still to be read is a sum over the stack; it
is taken as the cardinality of `Unread`, the set of the places themselves, so a
page that is entered or left adds or takes away a column. Reading follows in
`LoadInv`: `queue` holds entries with points, none twice and all that were not
decoded; what is delivered is what is selected of the others (`Reached`), none
twice; and each point that a tiled read delivered belongs to one of `assets`.
That both orders, of the plan and of the walk, lose and repeat nothing is
`InOrderIs`: a member's place is the number of those before it, so in a total
order different members have different places and all places are taken, by
counting.

`AcceptsWellFormed` compares this walk, which stops at the first thing it does
not like, with a definition that looks at the whole file at once: `PagesOf` is a
closure over generations of pages (`Chain`). The walk is followed by what it has
used of the file:

    Explored == pc = "walk" => \E P : Trail(file, P, stack, visited, total)

`P` are the pages begun, each once. A slot is used once per page it is part of
(pages may overlap), and `Taken` are the uses that are no longer pending on the
stack. Of these nothing is wrong (`Fine`), each page but the root is referred to
by one of them, and their points are `total`. A slot that the walk refuses is a
use in a file that is not well formed (`RefusedIsUnsound`). When the stack is
empty nothing is pending, so `P` is closed under references, is all of
`PagesOf`, and the file is well formed exactly if the points are the header's
(`EndIsSound`).

`PlanAccountsForFile`: `Accounted` says that `total` is what the entries hold.
The plan is a tree (`IsTree`), because the checks of the hierarchy refuse one
whose ancestors are not all there, so it validates; everything lies below the
root, so the root holds the total, which is the header's number. `SameForest`:
the climb of `BuildTiledAssets` stops at the nearest plan tile with points, and
`BuildPointTiles` takes the lowest tile with points above, in the listing; both
are `Nearest`, whatever lies between.

**FileFormatReadProofs**, the read of a plugin. `ReadIsRead`: a read moves
`CopcRead` only as `CopcRead` moves, so its theorems hold of a read through the
plugin too. `ReadInv` adds to `ReadMatchesRequest` which revisions a read has
met by when: `asset`, `header`, `records`, `identity` and each of `chunks` are
0 or revisions since the
read began, none is 0 where it is used, a metadata read never gets to the cache
or the points, and an entry that was taken is one of `Matching`. `Behind` and
`Streamed` are about a direct read, which opens the path anew for the header,
for the records behind it and for each chunk: a PLY file is one revision, because its
reader holds it; the records of a LAS or LAZ file may be of any later revision, and so may its
chunks, those of a LAZ file all of the same one, because its decoder holds it. So a layer is described by
one header, and that is all that can be said of one that is replaced
by another of the same size. That a layer from the
cache is the one that was asked for is a fact about the key
(`SameKeySameLayer`): arguments under one name show the same keys, printed
alike, so the kind of layer, the filters and the attributes are the same but for
what printing rounds; and
`KeptIsAsked`: what is kept of an attribute group by its first name (`red`,
`returnNumber`, `waveformXt`) is what the names asked for.

`CanonicalStable` is
about `FormatArguments` alone and follows a key from the arguments to the
request, to the canonical form and once more to a request: what is shown is
shown again, and printed alike (`ShownTwice`, from `SixDecimalsIs`), what is not
shown is at its default or of no effect (`SameEffect`), and the checks still
pass (`CanonicalAccepted`). It needs `IsArgumentSet`, the part of
`ReadAssumption` that says what values are. It names its two exceptions: a
`tileSize` that prints as zero (`Vanishes`) is accepted and its canonical form
refused, and arguments that are not `IsExact` to six decimals keep their key but
not their request. `ExactStays` shows that exact ones have neither problem. The theorems about
levels are about unbounded integers, from lemmas about `\div`.

## 7. Only model-checked

* All liveness (`EventuallyDelivered`, `LeftoversSwept`, `EventuallyCached`,
  `EveryReadEnds`): beyond the installed provers, as is `ENABLED`.
* What is assumed in the third column above is checked to be needed: lifting it
  makes TLC find a counterexample (section 4).

## 8. Not modelled

* Contents: decoding of records and headers, encoding of attributes, USD prims,
  their names and paths, the wording of errors. An identity, key or hash is the thing itself:
  collisions are out.
* `Tiling.cpp`: the router over a fixed grid, the JSON of the manifest and its
  path checks, and the third axis (tiles are split in x and y only).
  `BuildPointBudgetPlan` is used by tests and benchmarks only, and serves here
  as the reference for the streaming planner.
* Cache reads: rebasing of asset paths; a read without a payload directory, which opens the
  cached root in place.
* In `FileFormatRead` a direct read of LAS, LAZ or PLY is its header, what is
  behind it, and chunks, each of a revision of its own; which points a chunk has and where they
  are spooled are `PointStreams` and `StreamAuthoring`, which see one content from start to
  end. A source replaced within the passes of a converter is `TilePlanning`.
* Cancellation of a read: the plugins never set the flag. A rollback after any
  failure is modelled.
* PLY properties that describe waveforms.
* `ArAssetRandomAccessSource`, `usd-geo-core` and the binary layouts of
  `LasFormats.cpp`: no state beyond one call.
* Windows' refusal to remove open files: `RemoveMayFail` covers it in the
  converter; the spools are modelled with POSIX files.
* Third-party codecs (laz-perf, tinyply), tests, benchmarks, acceptance tools.

## 9. Plan

Done, in this order: the converter's transaction with its proofs, because it
guards the user's results; the three shared directories, with their proofs; the
readers, proved to keep their contract; planner and router, proved to agree; the COPC hierarchy, its walk, plan and reads proved; arguments and levels, with proofs;
and `Read` of the plugins, which composes them, proved to author what was asked for.

Left, most valuable first:

1. The fixed-grid router, for `tileSize`.
