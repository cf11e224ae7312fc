---------------------------- MODULE MCWorldStore ----------------------------
(* Instances of SavedWorld for TLC: two region files, one of them with two chunks. *)
EXTENDS SavedWorld, TLC

CONSTANTS home, near, far

MCRegionOf == home :> 1 @@ near :> 1 @@ far :> 2

MCWidth  == [byte |-> 1, short |-> 2, int |-> 3, long |-> 2, uuid |-> 2, signature |-> 2]
MCLayers == [floor |-> 7, rock |-> 1, soil |-> 1, top |-> 2]
MCMinY   == -2

\* Flat ground that fills the lowest section, and a slope with a gap under air.
MCSurface == 0 :> <<-1, -1, -1, -1>> @@ 7 :> <<0, -1, 2, 1>>

\* Digging and building anywhere over two corners, and clearing a whole section.
Spots     == [x : {0, -1}, y : MCMinY - 1 .. MCMinY + 6, z : {1}, state : {Air, 3}]
Cleared   == [i \in 1 .. 8 |-> [x |-> i % 2, y |-> (i - 1) \div 4, z |-> ((i - 1) \div 2) % 2, state |-> Air]]
MCChanges == [1 .. 2 -> Spots] \cup {Cleared, Cleared \o <<[x |-> 1, y |-> 1, z |-> 0, state |-> 3]>>}

\* The first and the last slot of a region west and north of the origin, and a chunk of
\* the region after it.
MCPosition == home :> <<-2, -2>> @@ near :> <<-1, -1>> @@ far :> <<0, 0>>
=============================================================================
