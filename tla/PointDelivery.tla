----------------------------- MODULE PointDelivery -----------------------------
(***************************************************************************)
(* The contract of a bounded point read, PointStream::ReadNext of          *)
(* libs/usd-pointcloud-core and the chunk callbacks of the LAS and LAZ     *)
(* readers: the points of the selected range that pass the filters are     *)
(* delivered once, in order, in chunks of at most chunkPointLimit points;  *)
(* the end is reported when nothing is left to deliver.  A read may fail   *)
(* before that.                                                            *)
(***************************************************************************)
EXTENDS Naturals, Sequences

VARIABLES
    wanted,      \* the selected points
    limit,       \* the most points a chunk may have
    delivered,   \* the points of the chunks so far
    status       \* "reading", "end" or "error"

Init ==
    /\ delivered = <<>>
    /\ status = "reading"

DeliverChunk ==
    /\ status = "reading"
    /\ \E n \in 1..limit :
          /\ Len(delivered) + n <= Len(wanted)
          /\ delivered' = SubSeq(wanted, 1, Len(delivered) + n)
    /\ UNCHANGED <<wanted, limit, status>>

End ==
    /\ status = "reading" /\ delivered = wanted
    /\ status' = "end"
    /\ UNCHANGED <<wanted, limit, delivered>>

Fail ==
    /\ status = "reading"
    /\ status' = "error"
    /\ UNCHANGED <<wanted, limit, delivered>>

Next == DeliverChunk \/ End \/ Fail

Spec == Init /\ [][Next]_<<wanted, limit, delivered, status>>

=============================================================================
