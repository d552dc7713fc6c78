-------------------------------- MODULE GeoCache --------------------------------
(***************************************************************************)
(* The generated-output cache that converters and FileFormat reads share:  *)
(* libs/usd-geo-cache/src/Cache.cpp, its converter side in                 *)
(* tools/usd-pointcloud-convert/main.cpp and its reader side in            *)
(* libs/usd-pointcloud-authoring/src/PointCloudCache.cpp.                  *)
(*                                                                         *)
(* All entries here belong to one source and one set of arguments; an      *)
(* entry is named after the plugin version of its descriptor, which picks  *)
(* the generation directory, and the revision of the source.  What a       *)
(* converter does with its copy is ConvertTransaction, and how a read      *)
(* places its copy is PayloadGeneration.  A part of an entry is a file     *)
(* that exists, which is all that a lookup asks; a list that has lost its  *)
(* end in a flush is ConvertTransaction's "cut".                           *)
(***************************************************************************)
EXTENDS Naturals

CONSTANTS
    Converters,   \* conversions with --cache-root
    Readers,      \* FileFormat reads with USDGEO_CACHE_ROOT and a payloadDirectory
    Revisions,    \* what the source may hold
    Names,        \* the payloads of an entry
    Old,          \* entries from before tiles.manifest
    Earlier,      \* entries an earlier converter left whole
    Adaptive,     \* --max-points-per-tile: the identity is taken again
    Casts,        \* who is about in a history, and what the source holds first
    Follows,      \* the revisions that may follow each
    Damageable,   \* what somebody else may delete from an entry
    MaxDamage     \* how often that happens

(* BuildCacheDescriptor and BuildDescriptor name the plugin version of     *)
(* their entries differently.                                              *)
ConverterVersion == "display-v3"
ReaderVersion    == "display-v2"
Keys == {ConverterVersion, ReaderVersion} \X Revisions

Tiled == Names \cup {"tiles"}
Whole == {"dir", "root", "manifest", "payloads"} \cup Tiled

Clients == Converters \cup Readers

ASSUME CacheAssumption ==
    /\ Converters \cap Readers = {}
    /\ Names \cap {"dir", "root", "manifest", "payloads", "tiles"} = {}
    /\ Old \subseteq Keys /\ Earlier \subseteq Keys \ Old
    /\ Damageable \subseteq Whole \ {"dir", "payloads"}
    /\ Adaptive \in BOOLEAN
    /\ Casts \subseteq [clients : SUBSET Clients, source : Revisions]
    /\ Follows \in [Revisions -> SUBSET Revisions]
    /\ MaxDamage \in Nat

VARIABLES
    source,    \* the revision at the source path
    entry,     \* entry[k]: what the entry of that name holds, {} if none
    temp,      \* temp[p]: what the temporary entry of converter p holds
    pc,        \* where each client is
    key,       \* the name of its entry
    sawRoot,   \* the first half of its Inspect
    todo,      \* the payloads it has still to validate or to copy
    got,       \* those it has copied
    damages,   \* how often something was deleted
    robbed,    \* history: whose entry looked whole when they started and was
               \* not, or has lost a part to somebody else since
    misled     \* history: who met an error in a lookup, or whose entry somebody
               \* else has published since they started

control == <<pc, key, sawRoot, todo, got>>
history == <<robbed, misled>>
vars    == <<source, entry, temp, control, damages, history>>

Rest == {"idle", "away", "done", "failed",                       \* a converter's
         "hit", "miss", "changed", "invalidated"}        \* a read's
Lookup   == {"root", "manifest"}
Making   == {"check", "author", "describe", "publish", "againRoot", "againManifest", "discard"}
Clearing == {"tiles", "clear", "make", "mark"}
Taking   == {"open", "list", "copy", "cleanup"}
Reading  == {"load", "validate", "take", "invalidate"}

Version(c) == IF c \in Converters THEN ConverterVersion ELSE ReaderVersion
Entry(c, revision) == <<Version(c), revision>>

Active(c) == pc[c] \notin Rest
Committed(k) == {"root", "manifest"} \subseteq entry[k]

(* The variables keep their types, and a converter that delivers from the  *)
(* cache has no temporary entry any more.                                  *)
TypeOK ==
    /\ source \in Revisions
    /\ entry \in [Keys -> SUBSET Whole]
    /\ temp \in [Converters -> SUBSET Whole]
    /\ \A p \in Converters :
         temp[p] # {} => pc[p] \in Making \cup {"mark", "cleanup", "failed"}
    /\ \A p \in Converters : pc[p] \in Rest \cup Lookup \cup Clearing \cup Making \cup Taking
    /\ \A r \in Readers : pc[r] \in Rest \cup Lookup \cup Reading
    /\ key \in [Clients -> Keys]
    /\ \A c \in Clients : key[c][1] = Version(c)
    /\ sawRoot \in [Clients -> BOOLEAN]
    /\ todo \in [Clients -> SUBSET Tiled]
    /\ got \in [Clients -> SUBSET Tiled]
    /\ damages \in 0..MaxDamage
    /\ robbed \subseteq Clients /\ misled \subseteq Clients

Init ==
    /\ \E cast \in Casts :
         /\ source = cast.source
         /\ pc = [c \in Clients |-> IF c \in cast.clients THEN "idle" ELSE "away"]
    /\ entry = [k \in Keys |-> CASE k \in Old     -> Whole \ {"tiles"}
                                 [] k \in Earlier -> Whole
                                 [] OTHER         -> {}]
    /\ temp = [p \in Converters |-> {}]
    /\ key = [c \in Clients |-> Entry(c, source)]
    /\ sawRoot = [c \in Clients |-> FALSE]
    /\ todo = [c \in Clients |-> {}]
    /\ got = [c \in Clients |-> {}]
    /\ damages = 0
    /\ robbed = {} /\ misled = {}

-----------------------------------------------------------------------------
At(c, here) == pc[c] = here
GoTo(c, there) == pc' = [pc EXCEPT ![c] = there]
Mine(c) == entry[key[c]]
Outside == UNCHANGED <<source, damages, history>>

(* The others that are at work on the same entry.                          *)
Beside(c) == {d \in Clients \ {c} : Active(d) /\ key[d] = key[c]}

(* An entry with its markers and its tile manifest that lacks something.   *)
Deceptive(k) ==
    {"root", "manifest", "tiles"} \subseteq entry[k] /\ entry[k] # Whole

Pass(c, here, there) ==
    /\ At(c, here) /\ GoTo(c, there)
    /\ Outside /\ UNCHANGED <<entry, temp, key, sawRoot, todo, got>>

NoTemporary(p) == temp' = [temp EXCEPT ![p] = {}]

(* What a client knows of an entry while it is at work is gone after it.   *)
Forget(c) ==
    /\ sawRoot' = [sawRoot EXCEPT ![c] = FALSE]
    /\ todo' = [todo EXCEPT ![c] = {}]
    /\ got' = [got EXCEPT ![c] = {}]

Decide(c, here, there) ==
    /\ At(c, here) /\ GoTo(c, there)
    /\ Forget(c)
    /\ Outside /\ UNCHANGED <<entry, temp, key>>

(* TryBuildLocalSourceIdentity hashes the source; the hash names the entry. *)
Start(c) ==
    /\ ~Active(c) /\ ~At(c, "away")
    /\ key' = [key EXCEPT ![c] = Entry(c, source)]
    /\ Forget(c)
    /\ IF c \in Converters THEN NoTemporary(c) ELSE UNCHANGED temp
    /\ GoTo(c, "root")
    /\ robbed' = IF Deceptive(Entry(c, source)) THEN robbed \cup {c} ELSE robbed \ {c}
    /\ misled' = misled \ {c}
    /\ UNCHANGED <<source, damages, entry>>

(* Inspect asks for the root, then for the manifest.                       *)
InspectRoot(c, here, there) ==
    /\ At(c, here)
    /\ sawRoot' = [sawRoot EXCEPT ![c] = "root" \in Mine(c)]
    /\ GoTo(c, there)
    /\ Outside /\ UNCHANGED <<entry, temp, key, todo, got>>

Status(c) ==
    CASE sawRoot[c] /\ "manifest" \in Mine(c)  -> "hit"
      [] ~sawRoot[c] /\ "manifest" \notin Mine(c) -> "missing"
      [] OTHER -> "incomplete"

LookRoot(c) == InspectRoot(c, "root", "manifest")

(* One step of remove_all on an entry: what is in it first, the directory  *)
(* last.                                                                   *)
RemoveOne(k) ==
    \E part \in entry[k] \ {"dir"} :
        /\ part = "payloads" => entry[k] \cap Tiled = {}
        /\ entry' = [entry EXCEPT ![k] = @ \ {part}]

RemoveLast(k) ==
    /\ entry[k] \subseteq {"dir"}
    /\ entry' = [entry EXCEPT ![k] = {}]

RemoveEntry(c, here, there) ==
    /\ At(c, here)
    /\ \/ RemoveOne(key[c]) /\ UNCHANGED pc
       \/ RemoveLast(key[c]) /\ GoTo(c, there)
    /\ robbed' = robbed \cup Beside(c)
    /\ UNCHANGED <<source, damages, misled, temp, key, sawRoot, todo, got>>

-----------------------------------------------------------------------------
(* The converter.                                                          *)
ConverterLookup(p) ==
    Decide(p, "manifest", IF Status(p) = "hit" THEN "tiles" ELSE "clear")

(* Mutants: the tile manifest is not asked for; every entry is made anew.  *)
CheckTilesSkipped(p) == Pass(p, "tiles", "open")
CheckTilesNever(p) == Pass(p, "tiles", "clear")

CheckTiles(p) == Pass(p, "tiles", IF "tiles" \in Mine(p) THEN "open" ELSE "clear")

(* Mutant: what is left of an entry is not removed.                        *)
ClearNothing(p) == Pass(p, "clear", "make")

ClearEntry(p) == RemoveEntry(p, "clear", "make")

(* A directory of its own beside the entry.                                *)
MakeTemporary(p) ==
    /\ At(p, "make")
    /\ temp' = [temp EXCEPT ![p] = {"dir"}]
    /\ GoTo(p, "mark")
    /\ Outside /\ UNCHANGED <<entry, key, sawRoot, todo, got>>

(* The transaction marker, its state file and the layer; main() returns    *)
(* from here when one of them cannot be made.                              *)
Mark(p) == Pass(p, "mark", IF Adaptive THEN "check" ELSE "author")
RefuseMarker(p) == Pass(p, "mark", "failed")

(* RefreshSourceIdentity, after adaptive planning only.                    *)
CheckIdentity(p) == Pass(p, "check", IF key[p] = Entry(p, source) THEN "author" ELSE "cleanup")

Generate(p, parts) ==
    /\ At(p, "author")
    /\ temp' = [temp EXCEPT ![p] = @ \cup {"payloads"} \cup parts]
    /\ GoTo(p, "describe")
    /\ Outside /\ UNCHANGED <<entry, key, sawRoot, todo, got>>

(* Mutant: a payload that could not be written is passed over.             *)
AuthorInPart(p) == \E some \in SUBSET Names : Generate(p, some)

(* The payloads, of whatever the source holds by now.                      *)
Author(p) == Generate(p, Names)

(* The root layer, the tile manifest and, last, the manifest.              *)
Describe(p) ==
    /\ At(p, "describe")
    /\ temp' = [temp EXCEPT ![p] = @ \cup {"root", "tiles", "manifest"}]
    /\ GoTo(p, "publish")
    /\ Outside /\ UNCHANGED <<entry, key, sawRoot, todo, got>>

(* rename() takes the place of an absent or an empty entry only; an entry  *)
(* somebody else committed meanwhile will do as well.                      *)
PublishEntry(p) ==
    /\ At(p, "publish")
    /\ IF Mine(p) \subseteq {"dir"}
       THEN /\ entry' = [entry EXCEPT ![key[p]] = temp[p]]
            /\ misled' = misled \cup Beside(p)
            /\ NoTemporary(p)
            /\ GoTo(p, "open")
       ELSE UNCHANGED <<entry, misled, temp>> /\ GoTo(p, "againRoot")
    /\ UNCHANGED <<source, damages, robbed, key, sawRoot, todo, got>>

LookRootAgain(p) == InspectRoot(p, "againRoot", "againManifest")
LookupAgain(p) ==
    Decide(p, "againManifest", IF Status(p) = "hit" THEN "discard" ELSE "cleanup")

(* Mutant: the duplicate stays.                                            *)
DiscardNothing(p) == Pass(p, "discard", "open")

Discard(p) ==
    /\ At(p, "discard") /\ GoTo(p, "open")
    /\ NoTemporary(p)
    /\ Outside /\ UNCHANGED <<entry, key, sawRoot, todo, got>>

Cleanup(p) ==
    /\ At(p, "cleanup") /\ GoTo(p, "failed")
    /\ NoTemporary(p)
    /\ Forget(p)
    /\ Outside /\ UNCHANGED <<entry, key>>

(* MaterializeCache: the root layer is exported, and the payload directory *)
(* copied as it is listed.                                                 *)
OpenRoot(p) == Pass(p, "open", IF "root" \in Mine(p) THEN "list" ELSE "cleanup")

ListPayloads(p) ==
    /\ At(p, "list")
    /\ todo' = [todo EXCEPT ![p] = Mine(p) \cap Tiled]
    /\ GoTo(p, IF "payloads" \in Mine(p) THEN "copy" ELSE "cleanup")
    /\ Outside /\ UNCHANGED <<entry, temp, key, sawRoot, got>>

CopyOne(c, here, lost) ==
    /\ At(c, here)
    /\ \E n \in todo[c] :
          IF n \in Mine(c)
          THEN /\ got' = [got EXCEPT ![c] = @ \cup {n}]
               /\ todo' = [todo EXCEPT ![c] = @ \ {n}]
               /\ UNCHANGED <<pc, sawRoot>>
          ELSE GoTo(c, lost) /\ Forget(c)
    /\ Outside /\ UNCHANGED <<entry, temp, key>>

CopyPayload(p) == CopyOne(p, "copy", "cleanup")
Copied(p) == todo[p] = {} /\ Pass(p, "copy", "done")

-----------------------------------------------------------------------------
(* The reader.  HasSupersededIdentityEntry only words what it reports.     *)
ReaderLookup(r) ==
    Decide(r, "manifest",
           CASE Status(r) = "hit"        -> "load"
             [] Status(r) = "incomplete" -> "invalidate"
             [] OTHER ->
                  IF \E v \in Revisions : Entry(r, v) # key[r] /\ Committed(Entry(r, v))
                  THEN "changed" ELSE "miss")

Load(r) ==
    /\ At(r, "load")
    /\ todo' = [todo EXCEPT ![r] = IF "root" \in Mine(r) THEN Names ELSE {}]
    /\ GoTo(r, IF "root" \in Mine(r) THEN "validate" ELSE "invalidate")
    /\ Outside /\ UNCHANGED <<entry, temp, key, sawRoot, got>>

(* ValidateCachedPayloads opens what the root layer refers to.             *)
Validate(r) ==
    /\ At(r, "validate")
    /\ \E n \in todo[r] :
          IF n \in Mine(r)
          THEN todo' = [todo EXCEPT ![r] = @ \ {n}] /\ UNCHANGED <<pc, sawRoot, got>>
          ELSE GoTo(r, "invalidate") /\ Forget(r)
    /\ Outside /\ UNCHANGED <<entry, temp, key>>

Validated(r) ==
    /\ At(r, "validate") /\ todo[r] = {}
    /\ todo' = [todo EXCEPT ![r] = Names]
    /\ GoTo(r, "take")
    /\ Outside /\ UNCHANGED <<entry, temp, key, sawRoot, got>>

(* Mutant: a payload that cannot be copied is passed over.                 *)
TakePayloadOrNot(r) ==
    /\ At(r, "take")
    /\ \E n \in todo[r] :
          /\ got' = [got EXCEPT ![r] = @ \cup ({n} \cap Mine(r))]
          /\ todo' = [todo EXCEPT ![r] = @ \ {n}]
    /\ Outside /\ UNCHANGED <<pc, entry, temp, key, sawRoot>>

(* MaterializePayloads copies the same files one by one.                   *)
TakePayload(r) == CopyOne(r, "take", "miss")
Taken(r) == todo[r] = {} /\ Pass(r, "take", "hit")

Invalidate(r) == RemoveEntry(r, "invalidate", "invalidated")

-----------------------------------------------------------------------------
(* An error, a cancellation, a full disk; Invalidate and a failed copy of  *)
(* a read are not reported.                                                *)
Fail(c) ==
    \/ c \in Converters /\ pc[c] \in (Making \cup Taking) \ {"cleanup"} /\ Pass(c, pc[c], "cleanup")
    \/ c \in Converters /\ pc[c] \in {"clear", "make"} /\ Pass(c, pc[c], "failed")
    \/ c \in Converters /\ RefuseMarker(c)
    \/ c \in Readers /\ Decide(c, "take", "miss")
    \/ c \in Readers /\ Decide(c, "invalidate", "invalidated")

(* A file that cannot be looked at or opened, for whatever reason, is a    *)
(* missing one: of a marker (Inspect), of the tile manifest, of the root   *)
(* layer and of a payload.                                                 *)
LookErrs(c) ==
    /\ pc[c] \in {"manifest", "tiles", "load", "validate"}
    /\ GoTo(c, IF c \in Converters THEN "clear" ELSE "invalidate")
    /\ Forget(c)
    /\ misled' = misled \cup {c}
    /\ UNCHANGED <<source, damages, robbed, entry, temp, key>>

(* The process is gone.  A temporary entry it had is never looked at again. *)
Kill(c) ==
    /\ Active(c)
    /\ GoTo(c, "idle")
    /\ IF c \in Converters THEN NoTemporary(c) ELSE UNCHANGED temp
    /\ Forget(c)
    /\ Outside /\ UNCHANGED <<entry, key>>

SourceChanges ==
    /\ source' \in Follows[source] \ {source}
    /\ UNCHANGED <<entry, temp, control, damages, history>>

(* "Cache entries are derived data and may be deleted at any time", under  *)
(* the hands of a client too.                                              *)
Damage ==
    /\ damages < MaxDamage
    /\ \E k \in Keys : \E part \in entry[k] \cap Damageable :
          /\ entry' = [entry EXCEPT ![k] = @ \ {part}]
          /\ robbed' = robbed \cup {c \in Clients : Active(c) /\ key[c] = k}
    /\ damages' = damages + 1
    /\ UNCHANGED <<source, temp, control, misled>>

Convert(p) ==
    \/ LookRoot(p) \/ ConverterLookup(p) \/ CheckTiles(p) \/ ClearEntry(p) \/ MakeTemporary(p)
    \/ Mark(p) \/ CheckIdentity(p) \/ Author(p) \/ Describe(p) \/ PublishEntry(p)
    \/ LookRootAgain(p) \/ LookupAgain(p) \/ Discard(p) \/ Cleanup(p)
    \/ OpenRoot(p) \/ ListPayloads(p) \/ CopyPayload(p) \/ Copied(p)

Read(r) ==
    \/ LookRoot(r) \/ ReaderLookup(r) \/ Load(r) \/ Validate(r) \/ Validated(r)
    \/ TakePayload(r) \/ Taken(r) \/ Invalidate(r)

Next ==
    \/ \E c \in Clients : Start(c) \/ Fail(c) \/ LookErrs(c) \/ Kill(c)
    \/ \E p \in Converters : Convert(p)
    \/ \E r \in Readers : Read(r)
    \/ SourceChanges \/ Damage

Spec == Init /\ [][Next]_vars

(* Clients run on by themselves, the source is converted again and again,  *)
(* and in the end nothing else happens and conversions take turns: two     *)
(* that keep overlapping may clear what the other has published for ever.  *)
FairSpec ==
    /\ Spec
    /\ \A p \in Converters : WF_vars(Start(p)) /\ WF_vars(Convert(p))
    /\ \A r \in Readers : WF_vars(Read(r))
    /\ <>[][/\ \A c \in Clients : ~Fail(c) /\ ~LookErrs(c) /\ ~Kill(c)
            /\ \A p \in Converters : Start(p) => \A q \in Converters : ~Active(q)
            /\ ~SourceChanges /\ ~Damage]_vars

-----------------------------------------------------------------------------
(* "Interrupted conversion output is not committed": an entry is committed *)
(* by one step, with everything it refers to, whoever else publishes,      *)
(* clears, invalidates or dies at that moment.                             *)
EntryAppearsWhole ==
    [][\A k \in Keys : ~Committed(k) /\ Committed(k)' => entry'[k] = Whole]_vars

(* A read that reports a hit has a copy of every payload its root layer    *)
(* refers to, also when the entry is removed under its hands.              *)
ReaderHitIsWhole ==
    \A r \in Readers : pc[r] = "hit" => got[r] = Names

(* A conversion that delivers from the cache delivers every payload and    *)
(* the tile manifest, also when another one publishes the entry first, and *)
(* whatever errors it met - unless its entry was one that only looks       *)
(* whole, or lost a part to somebody else while it was at work: the        *)
(* converter asks for three files and copies what it finds listed.         *)
DeliveredWhole ==
    \A p \in Converters \ robbed : pc[p] = "done" => got[p] = Tiled

(* A whole entry loses a part to nobody but the user and a client that was *)
(* misled about it: by an error of its lookup, which the code takes for an *)
(* absent file, or by a lookup older than the entry itself.                *)
WholeKept ==
    [][\A k \in Keys :
         entry[k] = Whole /\ entry'[k] # Whole =>
            \/ damages' # damages
            \/ \E c \in misled : key[c] = k /\ pc[c] \in {"clear", "invalidate"}]_vars

(* Whatever failed, was killed or was deleted before, converting again     *)
(* repairs the entry of the source for good - unless it only looks whole:  *)
(* because a payload was deleted, or because the removal of a whole entry, *)
(* begun after an error of a lookup, was cut short.                        *)
EventuallyCached ==
    (\E p \in Converters : ~At(p, "away")) =>
      <>[](LET k == <<ConverterVersion, source>> IN entry[k] = Whole \/ Deceptive(k))

(* "Direct LAS, LAZ, and COPC FileFormat reads can use the same cache      *)
(* entries": no lookup of a read misses what a conversion of the same      *)
(* revision with the same arguments has committed.                         *)
ConvertedIsFound ==
    [][\A r \in Readers :
         At(r, "manifest") /\ pc'[r] \in {"miss", "changed"} =>
           \A k \in Keys : k[2] = key[r][2] => ~Committed(k)]_vars

=============================================================================
