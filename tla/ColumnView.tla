----------------------------- MODULE ColumnView -----------------------------
(***************************************************************************)
(* A chunk column that players change and a client that is sent it         *)
(* (loadstone-net play.rs: build_map_chunk, encode_chunks).  The client    *)
(* reads the column with the decoder of the protocol crate, the reader for *)
(* which chunk.rs names encode.rs as the writer.                           *)
(***************************************************************************)
EXTENDS ChunkColumns

CONSTANTS
  Surfaces,  \* bound: the surface heights of the ground
  Spots,     \* bound: where players dig and build, [x, y, z]
  Biome,     \* the id of the biome sent for every section
  Nothing    \* no packet has been sent yet

VARIABLES
  column,    \* the cached chunk
  sent,      \* the column as it was when it was sent
  received   \* the chunk data of the packet

vars == <<column, sent, received>>

Init ==
  /\ column \in {Ground(surface) : surface \in Surfaces}
  /\ sent = Nothing
  /\ received = Nothing

\* handle_frame: a block becomes air, or air becomes a block.
Edit ==
  /\ \E at \in Spots :
       column' = SetBlock(column, at.x, at.y, at.z,
                          IF GetBlock(column, at.x, at.y, at.z) = Air
                          THEN Layers.rock ELSE Air)
  /\ UNCHANGED <<sent, received>>

SendColumn ==
  /\ sent' = column
  /\ received' = EncodeColumn(column, Biome)
  /\ UNCHANGED column

Next == Edit \/ SendColumn

Spec == Init /\ [][Next]_vars

-----------------------------------------------------------------------------
(* Properties *)

\* A client reads the column it was sent: each section with its count and its blocks,
\* one biome everywhere, and no byte left over.
ColumnReadable ==
  received # Nothing =>
    DecodeColumn(received) =
      Got([i \in 1 .. SectionCount |->
             [non_air |-> sent[i].non_air,
              blocks  |-> [b \in 1 .. Volume |-> State(sent[i], b)],
              biomes  |-> Uniform(Biome, BiomeCount)]], <<>>)
=============================================================================
