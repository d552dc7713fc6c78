------------------------- MODULE MCPayloadGeneration -------------------------
(***************************************************************************)
(* Reads, payload files and staging directories of the small instances;    *)
(* which read or staging directory is which makes no difference.           *)
(***************************************************************************)
EXTENDS PayloadGeneration, TLC

CONSTANTS r1, r2, g1, g2, a, s1, s2

MCSymmetry == Permutations(Reads) \cup Permutations(Stagings)

=============================================================================
