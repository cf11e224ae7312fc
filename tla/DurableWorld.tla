---------------------------- MODULE DurableWorld ----------------------------
(***************************************************************************)
(* What the persistence of the world promises, without files: players      *)
(* change a live world, parts of it are written from time to time, and a   *)
(* server that stops, however it stops, comes back with what is durable.   *)
(* The server knows which chunks it would lose (`risk`): every other chunk *)
(* is durable as it is.  Only the part that is being written can get lost. *)
(***************************************************************************)
CONSTANTS
  Chunks,   \* chunk columns
  Content   \* what a chunk may hold

VARIABLES
  up,       \* is the server running?
  live,     \* the world players see; the durable world while the server is down
  durable,  \* the world the next start comes up with
  risk,     \* the chunks a crash would set back
  writing   \* the part that is being written

vars == <<up, live, durable, risk, writing>>

Init ==
  /\ up = FALSE
  /\ live \in [Chunks -> Content]
  /\ durable = live
  /\ risk = {}
  /\ writing = {}

\* A chunk that cannot be read, or is generated from another seed, is at risk at once.
Start ==
  /\ ~up
  /\ up' = TRUE
  /\ live' \in [Chunks -> Content]
  /\ risk' \in SUBSET Chunks
  /\ \A c \in Chunks \ risk' : live'[c] = durable[c]
  /\ UNCHANGED <<durable, writing>>

Edit(c) ==
  /\ up
  /\ writing = {}
  /\ live' \in [Chunks -> Content]
  /\ \A d \in Chunks \ {c} : live'[d] = live[d]
  /\ risk' = risk \cup {c}
  /\ UNCHANGED <<up, durable, writing>>

\* The part being written becomes something else.
Written ==
  /\ durable' \in [Chunks -> Content]
  /\ \A c \in Chunks \ writing : durable'[c] = durable[c]

\* A write ends, well or not, and another one may begin.  The server feels safe about a
\* chunk only when that is durable as it is.
Write ==
  /\ up
  /\ Written
  /\ risk' \in SUBSET (risk \cup writing)
  /\ \A c \in (risk \cup writing) \ risk' : durable'[c] = live[c]
  /\ writing' \in SUBSET Chunks
  /\ UNCHANGED <<up, live>>

Stop ==
  /\ up
  /\ up' = FALSE
  /\ Written
  /\ live' = durable'
  /\ risk' = {}
  /\ writing' = {}

Next ==
  \/ Start
  \/ \E c \in Chunks : Edit(c)
  \/ Write
  \/ Stop

Spec == Init /\ [][Next]_vars
=============================================================================
