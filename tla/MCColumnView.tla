---------------------------- MODULE MCColumnView ----------------------------
(* An instance of ColumnView for TLC: sections of eight blocks. *)
EXTENDS ColumnView

MCWidth    == [byte |-> 1, short |-> 2, int |-> 3, long |-> 2, uuid |-> 2, signature |-> 2]
MCLayers   == [floor |-> 7, rock |-> 1, soil |-> 1, top |-> 2]
MCMinY     == -2
MCSurfaces == {<<-1, -1, -1, -1>>, <<0, -1, 2, 1>>}
MCSpots    == [x : {0, 1}, y : MCMinY + 1 .. MCMinY + 5, z : {1}]
=============================================================================
