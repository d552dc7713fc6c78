-------------------------- MODULE MCStreamAuthoring --------------------------
(***************************************************************************)
(* Two revisions of a source: one whose points go to a tile, to another,   *)
(* and to the first twice more, so that a writer can be two records ahead  *)
(* of another read's; and one whose only tile has a name the first gives   *)
(* to another, and whose last point is still held back at the end.         *)
(***************************************************************************)
EXTENDS StreamAuthoring, TLC

CONSTANTS r1, r2, c1, c2, t1, t2   \* reads, revisions, tiles

MCRoute == [c \in Contents |-> IF c = c1 THEN <<t1, t2, t1, t1>> ELSE <<t2, t2, t2>>]

MCSymmetry == Permutations(Reads)

(* What is in a file that has no name and that nobody has open is lost:    *)
(* no step reads it, and OpenSpool truncates it before it is used again.   *)
MCView ==
    LET Kept(what) == [f \in Busy \ {None} |-> what[f]]
    IN  <<source, left, space, marker, entry, Kept(header), Kept(records),
          alone, pc, content, position, writers, tiles>>

=============================================================================
