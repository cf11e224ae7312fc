-------------------------- MODULE MCPlayerRegistry --------------------------
(* Instances of PlayerRegistry for TLC. *)
EXTENDS PlayerRegistry, TLC

CONSTANTS s1, s2, s3, alice, bob

MCSpawn == [pos |-> 0, yaw |-> 0]

\* Two players, one of whom leaves and comes back.
RejoinUuidOf == s1 :> alice @@ s2 :> bob @@ s3 :> alice
=============================================================================
