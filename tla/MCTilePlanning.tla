---------------------------- MODULE MCTilePlanning ----------------------------
(***************************************************************************)
(* Sources of the small instances: the multisets of a few positions, as    *)
(* sequences in a fixed order.  Coordinates are multiples of 4, the boxes  *)
(* of a plan of depth 2 are integers.                                      *)
(***************************************************************************)
EXTENDS TilePlanning

P(x, y) == [x |-> x, y |-> y]

Multisets(grid, sizes) ==
    {[i \in DOMAIN s |-> grid[s[i]]] :
        s \in UNION {{t \in [1..n -> 1..Len(grid)] : \A i \in 1..(n - 1) : t[i] <= t[i + 1]} :
                        n \in sizes}}

(* All of up to four points on a grid of six, which stay; all of up to     *)
(* three on some of them, which are replaced: by points in other tiles of  *)
(* the same box, and by a shorter file.                                    *)
MCReplaced == Multisets(<<P(0, 0), P(4, 0), P(16, 16)>>, 0..3)

MCSources ==
    Multisets(<<P(0, 0), P(4, 0), P(16, 0), P(0, 16), P(4, 16), P(16, 16)>>, 0..4)

MCReplacements ==
    [s \in MCSources |->
        IF s \in MCReplaced THEN {<<P(13, 0), P(9, 0), P(13, 16)>>, <<P(16, 0), P(4, 16)>>}
                            ELSE {}]

MCConfigs ==
    {c \in [max : {1, 2}, min : {0, 2}, depth : 0..2] : c.min <= c.max}

(* Identities are only compared with each other.                           *)
MCStampSymmetry == Permutations(Stamps)

=============================================================================
