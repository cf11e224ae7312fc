---------------------------- MODULE MCMobTicker -----------------------------
(* Instances of MobTicker for TLC: a short row of places. *)
EXTENDS MobTicker

CONSTANTS s1, pig, zombie

\* Each mob is spawned in the same column as the players.
MCHome == [m \in Mobs |-> 0]
=============================================================================
