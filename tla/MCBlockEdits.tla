---------------------------- MODULE MCBlockEdits ----------------------------
(* Instances of BlockEdits for TLC: a row of columns, a view of two. *)
EXTENDS BlockEdits

CONSTANTS s1, s2, s3, west, middle, east

\* One cell per column; players spawn beside the west one, which is outside the world border,
\* and a step over the border between columns loads the east one, edited meanwhile or not.
MCCells   == {west, middle, east}
MCChunkOf == [c \in MCCells |-> c]
MCView    == <<{west, middle}, {middle, east}>>
=============================================================================
