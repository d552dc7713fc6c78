---------------------------- MODULE StreamAuthoring ----------------------------
(***************************************************************************)
(* Tiled authoring from a point stream: AuthorPointCloudTiledAssetFromStream *)
(* (libs/usd-pointcloud-authoring/src/PointCloudStreaming.cpp) over the    *)
(* tile spools of libs/usd-pointcloud-tiling/src/Spool.cpp.                *)
(*                                                                         *)
(* The reads of one layer share one spool directory,                       *)
(* <payload directory>/.spool/<owner>/, and name their files tile_<n>.bin  *)
(* in the order in which their stream reaches the tiles.  Files are POSIX  *)
(* files: one that is removed or created anew while a writer has it open   *)
(* goes on under its old handle only.                                      *)
(*                                                                         *)
(* A file is its header's tile and a sequence of records; a record is a    *)
(* point, <<content, position in the stream>>, or a footer with its count. *)
(***************************************************************************)
EXTENDS Naturals, Sequences, FiniteSets, SequencesExt, FiniteSetsExt

CONSTANTS
    Reads,      \* processes that read the layer
    Contents,   \* what the source may hold
    Route,      \* Route[c]: the tile of each point of content c, in order
    Files,      \* inodes, enough of them
    Limit,      \* tileMemoryLimitBytes, counted in points
    Revised,    \* the source may also be replaced while it is read
    None        \* no file

Tiles  == UNION {ToSet(Route[c]) : c \in Contents}
Slots  == 1..Cardinality(Tiles)
Points == UNION {{c} \X (1..Len(Route[c])) : c \in Contents}
Hole   == <<None, 0>>

ASSUME StreamAssumption ==
    /\ \A c \in Contents : Route[c] \in Seq(Tiles)
    /\ IsFiniteSet(Reads) /\ IsFiniteSet(Tiles) /\ IsFiniteSet(Files)
    /\ Cardinality(Files) >= (Cardinality(Reads) + 1) * Cardinality(Slots)
    /\ Limit \in Nat \ {0}
    /\ Revised \in BOOLEAN
    /\ None \notin Reads \cup Files \cup Tiles \cup Contents
    /\ "footer" \notin Contents \cup {None}

VARIABLES
    left,       \* a read was killed since the directory was last removed
    source,     \* the content a read that starts now will stream
    space,      \* the spool directory exists
    marker,     \* its .usdgeo-spool: "none", "empty" or "whole"
    entry,      \* entry[k]: the file named tile_k.bin, or None
    header,     \* header[f]: the tile in the header of file f
    records,    \* records[f]: what follows it
    alone,      \* alone[r]: no other read was at work since r started
    pc,         \* where each read is
    content,    \* what it streams
    position,   \* how many of its points it has routed
    slot,       \* slot[r][t]: the number in the name of t's spool, 0 for none
    file,       \* file[r][t]: the file its writer has open
    buffer,     \* buffer[r][t]: the points the writer holds back
    offset,     \* offset[r][t]: the records it has written
    buffered,   \* bufferedBytes, as the loop counts them
    tiles       \* tiles[r][t]: the points authored as payload t

disk    == <<space, marker, entry, header, records, left>>
writers == <<slot, file, buffer, offset, buffered>>
vars    == <<source, disk, alone, pc, content, position, writers, tiles>>

Rest    == {"idle", "done", "failed"}
Opening == {"space", "clear", "make", "mark", "marking"}
Working == {"stream", "flush", "close", "read"}
Ending  == {"remove", "commit", "cleanup", "unmarked"}

Active(r) == pc[r] \notin Rest
Spooling(r) == pc[r] \in Working \cup {"mark", "marking"}
Spooled(r) == {t \in Tiles : slot[r][t] # 0}
Footer(n) == <<"footer", n>>
Records == Points \cup {Hole} \cup ({"footer"} \X Nat)

(* The variables keep their types; a spool's writer holds a file until it  *)
(* is closed.                                                              *)
TypeOK ==
    /\ source \in Contents
    /\ {left, space} \subseteq BOOLEAN
    /\ marker \in {"none", "empty", "whole"}
    /\ entry \in [Slots -> Files \cup {None}]
    /\ header \in [Files -> Tiles \cup {None}]
    /\ records \in [Files -> Seq(Records)]
    /\ alone \in [Reads -> BOOLEAN]
    /\ pc \in [Reads -> Rest \cup Opening \cup Working \cup Ending]
    /\ content \in [Reads -> Contents]
    /\ \A r \in Reads : position[r] \in 0..Len(Route[content[r]])
    /\ slot \in [Reads -> [Tiles -> Slots \cup {0}]]
    /\ file \in [Reads -> [Tiles -> Files \cup {None}]]
    /\ \A r \in Reads : pc[r] \in {"stream", "flush"} =>
         \A t \in Tiles : file[r][t] # None <=> t \in Spooled(r)
    /\ buffer \in [Reads -> [Tiles -> Seq(Points)]]
    /\ offset \in [Reads -> [Tiles -> Nat]]
    /\ buffered \in [Reads -> Nat]
    /\ tiles \in [Reads -> [Tiles -> Seq(Points \cup {Hole})]]

Init ==
    /\ source \in Contents
    /\ left = FALSE
    /\ space = FALSE
    /\ marker = "none"
    /\ entry = [k \in Slots |-> None]
    /\ header = [f \in Files |-> None]
    /\ records = [f \in Files |-> <<>>]
    /\ alone = [r \in Reads |-> FALSE]
    /\ pc = [r \in Reads |-> "idle"]
    /\ content \in [Reads -> {source}]
    /\ position = [r \in Reads |-> 0]
    /\ slot = [r \in Reads |-> [t \in Tiles |-> 0]]
    /\ file = [r \in Reads |-> [t \in Tiles |-> None]]
    /\ buffer = [r \in Reads |-> [t \in Tiles |-> <<>>]]
    /\ offset = [r \in Reads |-> [t \in Tiles |-> 0]]
    /\ buffered = [r \in Reads |-> 0]
    /\ tiles = [r \in Reads |-> [t \in Tiles |-> <<>>]]

-----------------------------------------------------------------------------
At(r, here) == pc[r] = here
GoTo(r, there) == pc' = [pc EXCEPT ![r] = there]
Keep == UNCHANGED <<source, alone, content>>

(* Mutant: the writers' files stay open.                                   *)
DropWritersOpen(r) ==
    /\ slot' = [slot EXCEPT ![r] = [t \in Tiles |-> 0]]
    /\ buffer' = [buffer EXCEPT ![r] = [t \in Tiles |-> <<>>]]
    /\ offset' = [offset EXCEPT ![r] = [t \in Tiles |-> 0]]
    /\ buffered' = [buffered EXCEPT ![r] = 0]
    /\ UNCHANGED file

(* The writers of r are gone, and with them what they held back.           *)
DropWriters(r) ==
    /\ slot' = [slot EXCEPT ![r] = [t \in Tiles |-> 0]]
    /\ file' = [file EXCEPT ![r] = [t \in Tiles |-> None]]
    /\ buffer' = [buffer EXCEPT ![r] = [t \in Tiles |-> <<>>]]
    /\ offset' = [offset EXCEPT ![r] = [t \in Tiles |-> 0]]
    /\ buffered' = [buffered EXCEPT ![r] = 0]

(* A read that comes to nothing has neither writers nor payloads.          *)
DropRead(r) ==
    /\ DropWriters(r)
    /\ position' = [position EXCEPT ![r] = 0]
    /\ tiles' = [tiles EXCEPT ![r] = [t \in Tiles |-> <<>>]]
    /\ alone' = [alone EXCEPT ![r] = FALSE]

Start(r) ==
    /\ ~Active(r)
    /\ content' = [content EXCEPT ![r] = source]
    /\ position' = [position EXCEPT ![r] = 0]
    /\ tiles' = [tiles EXCEPT ![r] = [t \in Tiles |-> <<>>]]
    /\ GoTo(r, "space")
    /\ alone' = [q \in Reads |-> IF q = r THEN \A p \in Reads : ~Active(p)
                                 ELSE alone[q] /\ ~Active(q)]
    /\ UNCHANGED <<source, disk, writers>>

(* MakeSpoolDirectory: a marked directory is emptied, any other refused.   *)
InspectSpace(r) ==
    /\ At(r, "space")
    /\ GoTo(r, IF ~space THEN "make"
               ELSE IF marker = "whole" THEN "clear" ELSE "failed")
    /\ Keep /\ UNCHANGED <<disk, position, writers, tiles>>

(* One step of remove_all on the spool directory, which goes last - unless *)
(* another read has removed it by then.                                    *)
RemoveOne ==
    /\ \/ \E k \in Slots :
             entry[k] # None /\ entry' = [entry EXCEPT ![k] = None] /\ UNCHANGED marker
       \/ marker # "none" /\ marker' = "none" /\ UNCHANGED entry
    /\ UNCHANGED <<space, header, records, left>>

RemoveLast ==
    /\ marker = "none" /\ \A k \in Slots : entry[k] = None
    /\ space' = FALSE /\ left' = FALSE
    /\ UNCHANGED <<marker, entry, header, records>>

RemoveSpace(r, here, there) ==
    /\ At(r, here)
    /\ \/ RemoveOne /\ UNCHANGED pc
       \/ RemoveLast /\ GoTo(r, there)
    /\ Keep /\ UNCHANGED <<position, writers, tiles>>

Clear(r) == RemoveSpace(r, "clear", "make")

MakeSpace(r) ==
    /\ At(r, "make")
    /\ space' = TRUE
    /\ GoTo(r, "mark")
    /\ Keep /\ UNCHANGED <<left, marker, entry, header, records, position, writers, tiles>>

(* The marker's one line is written when its stream is destroyed.          *)
OpenMarker(r) ==
    /\ At(r, "mark")
    /\ IF space THEN marker' = "empty" /\ GoTo(r, "marking")
                ELSE UNCHANGED marker /\ GoTo(r, "unmarked")
    /\ Keep /\ UNCHANGED <<left, space, entry, header, records, position, writers, tiles>>

FlushMarker(r) ==
    /\ At(r, "marking")
    /\ marker' = IF marker = "none" THEN "none" ELSE "whole"
    /\ GoTo(r, "stream")
    /\ Keep /\ UNCHANGED <<left, space, entry, header, records, position, writers, tiles>>

-----------------------------------------------------------------------------
(* New records overwrite what is at a writer's offset in the file, whole   *)
(* ones and those of a flush in one step; before the first of them the     *)
(* stream still held the header back.                                      *)
Overwrite(old, at, new) ==
    [i \in 1..Max({Len(old), at + Len(new)}) |->
       IF i \in at+1 .. at+Len(new) THEN new[i - at]
       ELSE IF i <= Len(old) THEN old[i] ELSE Hole]

WriteOut(r, t, new) ==
    LET f == file[r][t]
    IN  /\ records' = [records EXCEPT ![f] = Overwrite(@, offset[r][t], new)]
        /\ header' = [header EXCEPT ![f] = IF offset[r][t] = 0 THEN t ELSE @]

Busy == {entry[k] : k \in Slots} \cup {file[r][t] : r \in Reads, t \in Tiles}

(* TileSpoolWriter::Open creates the next file, or truncates one that      *)
(* another read has put under its name.                                    *)
OpenSpool(r) ==
    LET t == Route[content[r]][position[r] + 1]
        k == Cardinality(Spooled(r)) + 1
        f == IF entry[k] # None THEN entry[k] ELSE CHOOSE x \in Files : x \notin Busy
    IN  /\ At(r, "stream") /\ position[r] < Len(Route[content[r]])
        /\ t \notin Spooled(r)
        /\ IF space
           THEN /\ entry' = [entry EXCEPT ![k] = f]
                /\ header' = [header EXCEPT ![f] = None]
                /\ records' = [records EXCEPT ![f] = <<>>]
                /\ slot' = [slot EXCEPT ![r][t] = k]
                /\ file' = [file EXCEPT ![r][t] = f]
                /\ UNCHANGED pc
           ELSE /\ GoTo(r, "cleanup")
                /\ UNCHANGED <<entry, header, records, slot, file>>
        /\ Keep
        /\ UNCHANGED <<left, space, marker, position, buffer, offset, buffered, tiles>>

(* One point is routed and appended.  Its writer writes its buffer out     *)
(* when that alone reaches the limit; the loop counts what is still held.  *)
RoutePoint(r) ==
    LET t == Route[content[r]][position[r] + 1]
        held == Append(buffer[r][t], <<content[r], position[r] + 1>>)
        out == Len(held) >= Limit
    IN  /\ At(r, "stream") /\ position[r] < Len(Route[content[r]])
        /\ t \in Spooled(r)
        /\ position' = [position EXCEPT ![r] = @ + 1]
        /\ buffer' = [buffer EXCEPT ![r][t] = IF out THEN <<>> ELSE held]
        /\ buffered' = [buffered EXCEPT ![r] =
                          IF out THEN @ - Len(buffer[r][t]) ELSE @ + 1]
        /\ IF out
           THEN WriteOut(r, t, held) /\ offset' = [offset EXCEPT ![r][t] = @ + Len(held)]
           ELSE UNCHANGED <<header, records, offset>>
        /\ GoTo(r, IF buffered'[r] >= Limit THEN "flush" ELSE "stream")
        /\ Keep /\ UNCHANGED <<left, space, marker, entry, slot, file, tiles>>

(* The spools are gone through in the order of their keys.                 *)
Foremost(these) == CHOOSE t \in these : TRUE

(* flushSpools: every writer writes its buffer out.                        *)
FlushOne(r) ==
    /\ At(r, "flush")
    /\ LET held == {t \in Tiles : buffer[r][t] # <<>>}
           t == Foremost(held)
       IN /\ held # {}
          /\ WriteOut(r, t, buffer[r][t])
          /\ offset' = [offset EXCEPT ![r][t] = @ + Len(buffer[r][t])]
          /\ buffer' = [buffer EXCEPT ![r][t] = <<>>]
    /\ Keep
    /\ UNCHANGED <<pc, left, space, marker, entry, position, slot, file, buffered, tiles>>

(* Mutant: the loop's count survives the flush.                            *)
FlushedKeepingCount(r) ==
    /\ At(r, "flush") /\ \A t \in Tiles : buffer[r][t] = <<>>
    /\ GoTo(r, "stream")
    /\ Keep /\ UNCHANGED <<disk, position, slot, file, buffer, offset, buffered, tiles>>

Flushed(r) ==
    /\ At(r, "flush") /\ \A t \in Tiles : buffer[r][t] = <<>>
    /\ buffered' = [buffered EXCEPT ![r] = 0]
    /\ GoTo(r, "stream")
    /\ Keep /\ UNCHANGED <<disk, position, slot, file, buffer, offset, tiles>>

(* The stream's End; one that produced no point is an error.               *)
EndStream(r) ==
    /\ At(r, "stream") /\ position[r] = Len(Route[content[r]])
    /\ GoTo(r, IF Spooled(r) = {} THEN "cleanup" ELSE "close")
    /\ Keep /\ UNCHANGED <<disk, position, writers, tiles>>

(* Mutant: the footer is written over the points still held back.          *)
CloseSpoolUnflushed(r) ==
    /\ At(r, "close")
    /\ LET t == Foremost({x \in Tiles : file[r][x] # None})
       IN /\ WriteOut(r, t, <<Footer(offset[r][t])>>)
          /\ file' = [file EXCEPT ![r][t] = None]
          /\ buffer' = [buffer EXCEPT ![r][t] = <<>>]
          /\ offset' = [offset EXCEPT ![r][t] = 0]
    /\ GoTo(r, IF \A t \in Tiles : file'[r][t] = None THEN "read" ELSE "close")
    /\ Keep
    /\ UNCHANGED <<left, space, marker, entry, position, slot, buffered, tiles>>

(* TileSpoolWriter::Close: the rest of the points, then the footer.        *)
CloseSpool(r) ==
    /\ At(r, "close")
    /\ LET t == Foremost({x \in Tiles : file[r][x] # None})
       IN /\ WriteOut(r, t, Append(buffer[r][t],
                                   Footer(offset[r][t] + Len(buffer[r][t]))))
          /\ file' = [file EXCEPT ![r][t] = None]
          /\ buffer' = [buffer EXCEPT ![r][t] = <<>>]
          /\ offset' = [offset EXCEPT ![r][t] = 0]
    /\ GoTo(r, IF \A t \in Tiles : file'[r][t] = None THEN "read" ELSE "close")
    /\ Keep
    /\ UNCHANGED <<left, space, marker, entry, position, slot, buffered, tiles>>

(* TileSpoolReader, by name: the header's tile, records up to the footer   *)
(* at the end of the file, and the footer's count have to agree.           *)
Readable(k, t) ==
    /\ entry[k] # None
    /\ header[entry[k]] = t
    /\ LET data == records[entry[k]]
       IN  /\ Len(data) > 1
           /\ Last(data) = Footer(Len(data) - 1)
           /\ \A i \in 1..Len(data) - 1 : data[i] \in Points \cup {Hole}

ReadSpool(r) ==
    /\ At(r, "read")
    /\ LET unread == {t \in Spooled(r) : tiles[r][t] = <<>>}
           t == Foremost(unread)
       IN /\ unread # {}
          /\ IF Readable(slot[r][t], t)
             THEN /\ tiles' = [tiles EXCEPT ![r][t] = Front(records[entry[slot[r][t]]])]
                  /\ UNCHANGED pc
             ELSE GoTo(r, "cleanup") /\ UNCHANGED tiles
    /\ Keep /\ UNCHANGED <<disk, position, writers>>

(* Mutant: a successful read leaves its spools.                            *)
AuthoredKeepingSpools(r) ==
    /\ At(r, "read") /\ \A t \in Spooled(r) : tiles[r][t] # <<>>
    /\ GoTo(r, "commit")
    /\ Keep /\ UNCHANGED <<disk, position, writers, tiles>>

Authored(r) ==
    /\ At(r, "read") /\ \A t \in Spooled(r) : tiles[r][t] # <<>>
    /\ GoTo(r, "remove")
    /\ Keep /\ UNCHANGED <<disk, position, writers, tiles>>

RemoveSpools(r) == RemoveSpace(r, "remove", "commit")

(* CommitTilePayloads, then the layer gets the stage's content.            *)
Commit(r) ==
    /\ At(r, "commit")
    /\ GoTo(r, "done")
    /\ DropWriters(r)
    /\ Keep /\ UNCHANGED <<disk, position, tiles>>

(* The cleanup lambda: the spool directory, the writers, the payloads.  It *)
(* does not look at the error of a removal that another read gets in the   *)
(* way of.                                                                 *)
Cleanup(r) ==
    /\ At(r, "cleanup")
    /\ \/ RemoveOne /\ UNCHANGED <<pc, alone, position, writers, tiles>>
       \/ /\ \/ RemoveLast
             \/ (\E q \in Reads \ {r} : Spooling(q)) /\ UNCHANGED disk
          /\ GoTo(r, "failed")
          /\ DropRead(r)
    /\ UNCHANGED <<source, content>>

(* MakeSpoolDirectory undoes a directory it could not mark.                *)
Unmarked(r) == RemoveSpace(r, "unmarked", "failed")

(* The stream ends in an error, the read is cancelled, a point is outside  *)
(* the plan, or a write, a spool or a payload fails.                       *)
Fail(r) ==
    /\ \/ pc[r] \in Working \cup {"remove", "commit"} /\ GoTo(r, "cleanup")
       \/ pc[r] \in {"clear", "make"} /\ GoTo(r, "failed")
       \/ pc[r] \in {"mark", "marking"} /\ GoTo(r, "unmarked")
    /\ Keep /\ UNCHANGED <<disk, position, writers, tiles>>

(* The process is gone; what it left on disk stays.                        *)
Kill(r) ==
    /\ Active(r)
    /\ GoTo(r, "idle")
    /\ DropRead(r)
    /\ left' = (left \/ space)
    /\ UNCHANGED <<source, content, space, marker, entry, header, records>>

(* The source is replaced; a read that has begun keeps the one it opened.   *)
SourceChanges ==
    /\ Revised \/ \A r \in Reads : ~Active(r)
    /\ source' \in Contents \ {source}
    /\ UNCHANGED <<disk, alone, pc, content, position, writers, tiles>>

Step(r) ==
    \/ InspectSpace(r) \/ Clear(r) \/ MakeSpace(r) \/ OpenMarker(r) \/ FlushMarker(r)
    \/ OpenSpool(r) \/ RoutePoint(r) \/ FlushOne(r) \/ Flushed(r) \/ EndStream(r)
    \/ CloseSpool(r) \/ ReadSpool(r) \/ Authored(r) \/ RemoveSpools(r) \/ Commit(r)
    \/ Cleanup(r) \/ Unmarked(r)

Next ==
    \/ \E r \in Reads : Start(r) \/ Step(r) \/ Fail(r) \/ Kill(r)
    \/ SourceChanges

Spec == Init /\ [][Next]_vars

-----------------------------------------------------------------------------
(* How many of the first n points of content c go to tile t; the place of  *)
(* the n-th point in its tile.                                             *)
Routed(c, t, n) == Cardinality({i \in 1..n : Route[c][i] = t})
Rank(c, n) == Routed(c, Route[c][n], n)

(* A read that succeeds has authored, for every tile, as many points as    *)
(* its own stream routed there, and each of them in its place - whatever   *)
(* was flushed when, and whatever earlier reads left.  Where other reads   *)
(* cleared, truncated or overwrote its spools meanwhile, a point may be    *)
(* missing: its record is a hole.                                          *)
DeliversOwnPoints ==
    \A r \in Reads : pc[r] = "done" =>
        LET c == content[r]
        IN  /\ \A t \in Tiles : Len(tiles[r][t]) = Routed(c, t, Len(Route[c]))
            /\ \A n \in 1..Len(Route[c]) :
                 \/ tiles[r][Route[c][n]][Rank(c, n)] = <<c, n>>
                 \/ tiles[r][Route[c][n]][Rank(c, n)] = Hole /\ ~alone[r]

(* The points r's writers hold back, by tile and place.                    *)
Held(r) == UNION {{t} \X DOMAIN buffer[r][t] : t \in Tiles}

(* bufferedBytes of the loop is what the writers really hold, and once the *)
(* loop is back for the next point that is less than the limit.            *)
MemoryIsBounded ==
    \A r \in Reads : At(r, "stream") =>
        /\ buffered[r] = Cardinality(Held(r))
        /\ buffered[r] < Limit

(* When every read has come to its end, successful or failed, the spool    *)
(* directory on disk is at most one that a killed read has left.           *)
SpoolsRemoved ==
    (\A r \in Reads : ~Active(r)) /\ space => left

=============================================================================
