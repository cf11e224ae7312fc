----------------------------- MODULE SavedWorld -----------------------------
(***************************************************************************)
(* WorldStore down to the bytes of its chunks: SavedColumns with the NBT   *)
(* that SavedRegions takes as a chunk's data.                              *)
(***************************************************************************)
EXTENDS SavedRegions, SavedColumns, ChunkNbt

-----------------------------------------------------------------------------
(* Properties *)

\* Saved as NBT and read again, the column is the same.
Kept(sections) ==
  LET saved == ChunkToNbt([x |-> -1, z |-> 1, sections |-> sections])
      read  == ReadRoot(ToNamed(<<>>, saved))
      back  == ChunkFromNbt(read.value.of)
  IN  /\ read.ok /\ read.rest = <<>> /\ back.x = -1 /\ back.z = 1
      /\ \A y \in Heights, x \in Across, z \in Across :
           GetBlock(back.sections, x, y, z) = GetBlock(sections, x, y, z)
      /\ \A i \in 1 .. SectionCount :
           /\ back.sections[i].non_air = sections[i].non_air
           /\ sections[i].non_air =
                Cardinality({<<y, x, z>> \in Across \X Across \X Across :
                               State(sections[i], Index(y, z, x)) # Air})

KeptShapes == {shape \in Shapes : \A sections \in ColumnsOf(shape) : Kept(sections)}

\* What is on a region file comes back as it was in memory: every column has the blocks it
\* had, and counts those that are not air as they are, through digging up whole sections,
\* the last block of one, and building into one that was empty.
ColumnsKept ==
  \A r \in Regions : \A c \in DOMAIN regions[r] : Shape(regions[r][c]) \in KeptShapes
=============================================================================
