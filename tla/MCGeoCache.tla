------------------------------ MODULE MCGeoCache ------------------------------
(***************************************************************************)
(* Clients, revisions and payloads of the small instances.  Converters and *)
(* reads name their entries differently and never meet, so each history    *)
(* has those of one side: two converters of a source that stays, one of a  *)
(* source that changes, and two reads of one.                              *)
(***************************************************************************)
EXTENDS GeoCache

CONSTANTS p1, p2, r1, r2, k1, k2, k3, a, b

MCCasts ==
    {[clients |-> {p1, p2}, source |-> k1], [clients |-> {p1}, source |-> k2],
     [clients |-> {r1, r2}, source |-> k2]}

MCFollows == [k \in Revisions |-> IF k = k1 THEN {} ELSE Revisions \ {k1, k}]
MCOld == {<<ConverterVersion, k3>>}
MCEarlier == {<<ReaderVersion, k2>>}

(* A converter and a read of one source.                                   *)
MCPair == {[clients |-> {p1, r1}, source |-> k1]}

=============================================================================
