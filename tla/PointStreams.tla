----------------------------- MODULE PointStreams -----------------------------
(***************************************************************************)
(* How the readers of the repository go through a source: the LAS and LAZ  *)
(* readers that call back (LasReader.cpp, Laz.cpp) and the LAS, LAZ, COPC  *)
(* and PLY streams that are pulled (LasStream.cpp, Laz.cpp, Copc.cpp,      *)
(* Ply.cpp).  A behaviour is one read by one of them.                      *)
(*                                                                         *)
(* A source is its points, numbered in the order in which it holds them -  *)
(* for COPC the order of its hierarchy entries - and of a point only       *)
(* matters whether it passes the filters of the request.                   *)
(***************************************************************************)
EXTENDS Integers, Sequences, FiniteSets, SequencesExt

CONSTANTS
    Kinds,        \* the readers
    MaxPoints,    \* the most points a source has
    LasFilters    \* a pulled LAS stream may be given filters

Ranged  == {"LasReader", "LasPointStream", "PlyPointStream"}
Decoded == {"LazReader", "LazPointStream"}

ASSUME ReadAssumption ==
    /\ Kinds \subseteq Ranged \cup Decoded \cup {"CopcPointStream"}
    /\ MaxPoints \in Nat \ {0}
    /\ LasFilters \in BOOLEAN

VARIABLES
    kind,        \* which reader it is
    count,       \* the points of the source
    matches,     \* those that pass the filters
    first,       \* the points before the requested range
    last,        \* its last point
    limit,       \* chunkPointLimit, within the memory budget
    entries,     \* COPC: the points of each hierarchy entry
    next,        \* the points read or decoded so far
    complete,    \* LAZ: the decoder has said that it is done
    entry,       \* COPC: the entries opened so far
    left,        \* COPC: what the open entry's decoder still has
    pending,     \* COPC: decoded points that are not delivered yet
    delivered,   \* what the consumer was given
    status       \* "reading", "end" or "error"

request == <<kind, count, matches, first, last, limit, entries>>
copc    == <<entry, left, pending>>
vars    == <<request, next, complete, copc, delivered, status>>

(* The members of S among from+1 .. to, in order.                          *)
Among(S, from, to) ==
    LET upTo[n \in Nat] ==
          IF n <= from THEN <<>>
          ELSE IF n \in S THEN Append(upTo[n - 1], n) ELSE upTo[n - 1]
    IN  upTo[to]

Matching(from, to) == Among(matches, from, to)

wanted == Matching(first, last)

(* The position stays within the source, what COPC holds back is at most   *)
(* one chunk, and nothing is delivered that is not a point.                *)
TypeOK ==
    /\ kind \in Kinds
    /\ next \in 0..count
    /\ complete \in BOOLEAN
    /\ entry \in 0..Len(entries)
    /\ left \in 0..count
    /\ pending \in Seq(1..count) /\ Len(pending) <= limit
    /\ delivered \in Seq(1..count)
    /\ status \in {"reading", "end", "error"}

(* pointCount 0 asks for everything from firstPoint on.  COPC takes no     *)
(* range.                                                                  *)
Init ==
    /\ kind \in Kinds
    /\ count \in 0..MaxPoints
    /\ limit \in 1..MaxPoints
    /\ matches \in SUBSET (1..count)
    /\ kind = "LasPointStream" /\ ~LasFilters => matches = 1..count
    /\ first \in 0..count
    /\ last \in first..count
    /\ last = first => last = count
    /\ IF kind = "CopcPointStream"
       THEN /\ <<first, last>> = <<0, count>>
            /\ entries \in {e \in [1..2 -> 0..count] : e[1] + e[2] = count}
       ELSE entries = <<>>
    /\ next = IF kind \in Ranged THEN first ELSE 0
    /\ complete = FALSE
    /\ entry = 0 /\ left = 0 /\ pending = <<>>
    /\ delivered = <<>>
    /\ status = "reading"

-----------------------------------------------------------------------------
Least(a, b) == IF a < b THEN a ELSE b
Most(a, b) == IF a > b THEN a ELSE b

Reading(these) == status = "reading" /\ kind \in these
Deliver(points) == delivered' = delivered \o points
UpTo(end) == Least(next + limit, end)

(* Mutant: the position advances by the points that were kept.             *)
ReadRangeByKept ==
    /\ Reading({"LasReader", "PlyPointStream"})
    /\ next < last
    /\ Deliver(Matching(next, UpTo(last)))
    /\ next' = next + Len(Matching(next, UpTo(last)))
    /\ UNCHANGED <<request, complete, copc, status>>

(* One chunk of LasReader::ReadPoints or of a PLY stream; it is not        *)
(* delivered when the filters leave nothing of it.                         *)
ReadRange ==
    /\ Reading({"LasReader", "PlyPointStream"})
    /\ next < last
    /\ Deliver(Matching(next, UpTo(last)))
    /\ next' = UpTo(last)
    /\ UNCHANGED <<request, complete, copc, status>>

(* LasPointStream::ReadNext reads one chunk through its LasReader and      *)
(* advances by the points it got from it.                                  *)
PullRange ==
    /\ Reading({"LasPointStream"})
    /\ next < last
    /\ LET kept == Matching(next, UpTo(last))
       IN /\ Deliver(kept)
          /\ next' = next + Len(kept)
          /\ status' = IF kept = <<>> THEN "error" ELSE status
    /\ UNCHANGED <<request, complete, copc>>

(* The decoder of a LAZ file decodes as many points as it is asked for;    *)
(* LazReader takes any decoder, and believes it nothing.                   *)
Decodes(n, done) ==
    \/ kind = "LazReader"
    \/ n = UpTo(count) - next /\ done = (next + n = count)

(* Mutant: the decoder is trusted with the number of points.               *)
Trusted(n, done) == n > 0 \/ done

Plausible(n, done) == (n > 0 \/ done) /\ n <= limit /\ n <= count - next

(* What of a decoded chunk lies in the range and passes the filters.       *)
Selected(n) == Matching(Most(next, first), Least(next + n, last))

(* One chunk of LazReader::Read or LazPointStream::ReadNext.               *)
Decode ==
    /\ Reading(Decoded)
    /\ ~complete
    /\ \E n \in 0..limit + 1, done \in BOOLEAN :
          /\ Decodes(n, done)
          /\ IF Plausible(n, done)
             THEN /\ Deliver(Selected(n))
                  /\ next' = next + n
                  /\ complete' = done
                  /\ UNCHANGED status
             ELSE /\ status' = "error"
                  /\ UNCHANGED <<next, complete, delivered>>
    /\ UNCHANGED <<request, copc>>

-----------------------------------------------------------------------------
(* CopcPointStream::ReadNext.                                              *)
DeliverPending ==
    /\ Reading({"CopcPointStream"})
    /\ pending # <<>>
    /\ LET n == Least(limit, Len(pending))
       IN /\ Deliver(SubSeq(pending, 1, n))
          /\ pending' = SubSeq(pending, n + 1, Len(pending))
    /\ UNCHANGED <<request, next, complete, entry, left, status>>

(* Mutant: the decoder is dropped after its first chunk.                   *)
DecodeEntryOnce ==
    /\ Reading({"CopcPointStream"})
    /\ pending = <<>> /\ left > 0
    /\ pending' = Matching(next, next + Least(limit, left))
    /\ next' = next + left
    /\ left' = 0
    /\ UNCHANGED <<request, complete, entry, delivered, status>>

DecodeEntry ==
    /\ Reading({"CopcPointStream"})
    /\ pending = <<>> /\ left > 0
    /\ LET n == Least(limit, left)
       IN /\ pending' = Matching(next, next + n)
          /\ next' = next + n
          /\ left' = left - n
    /\ UNCHANGED <<request, complete, entry, delivered, status>>

(* The next entry; one without points has no decoder.                      *)
OpenEntry ==
    /\ Reading({"CopcPointStream"})
    /\ pending = <<>> /\ left = 0 /\ entry < Len(entries)
    /\ entry' = entry + 1
    /\ left' = entries[entry + 1]
    /\ UNCHANGED <<request, next, complete, pending, delivered, status>>

-----------------------------------------------------------------------------
(* Nothing is left to read.                                                *)
Exhausted ==
    \/ kind \in Ranged /\ next >= last
    \/ kind \in Decoded /\ complete
    \/ kind = "CopcPointStream" /\ pending = <<>> /\ left = 0 /\ entry = Len(entries)

(* Mutant: what the decoder decoded is not compared with the header.       *)
FinishUncounted ==
    /\ status = "reading" /\ Exhausted
    /\ status' = "end"
    /\ UNCHANGED <<request, next, complete, copc, delivered>>

(* LAZ: the header's count has to be what was decoded.                     *)
Finish ==
    /\ status = "reading" /\ Exhausted
    /\ status' = IF kind \in Decoded /\ next # count THEN "error" ELSE "end"
    /\ UNCHANGED <<request, next, complete, copc, delivered>>

(* The read is cancelled, the source cannot be read or decoded, or the     *)
(* consumer rejects a chunk.  Callers read no further.                     *)
Fail ==
    /\ status = "reading" /\ ~Exhausted
    /\ status' = "error"
    /\ UNCHANGED <<request, next, complete, copc, delivered>>

Read == ReadRange \/ PullRange \/ Decode \/ DeliverPending \/ DecodeEntry \/ OpenEntry \/ Finish

Next == Read \/ Fail

Spec == Init /\ [][Next]_vars

(* Callers go on reading until they are told the end or an error.          *)
FairSpec == Spec /\ WF_vars(Read)

-----------------------------------------------------------------------------
Contract == INSTANCE PointDelivery

(* Every reader keeps the contract of docs/architecture/POINT_READER.md:   *)
(* the selected points, once and in order, and the end after the last one. *)
KeepsContract == Contract!Spec

(* No point is delivered twice or out of order, and none is skipped.       *)
DeliversSelection == IsPrefix(delivered, wanted)

(* A reader that reports the end of a LAZ source has validated the whole   *)
(* source, also what follows the requested range.                          *)
EndIsValidated ==
    status = "end" /\ kind \in Decoded => next = count

(* A read comes to its end, whatever the filters leave of its chunks.      *)
EveryReadEnds == <>(status # "reading")

=============================================================================
