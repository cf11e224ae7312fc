---------------------------- MODULE SavedColumns ----------------------------
(***************************************************************************)
(* WorldStore down to the blocks of its chunks: a chunk of the store       *)
(* stands for every column its terrain and its edits may make of it; what  *)
(* is right for all of those is computed once.                             *)
(***************************************************************************)
EXTENDS WorldStore, ChunkColumns

CONSTANTS
  Surface,  \* the surface heights each seed yields
  Changes   \* bound: the lists of edits that may have been made, [x, y, z, state]

ASSUME SurfaceType == Surface \in [Seeds -> [1 .. Side * Side -> Int]]
ASSUME ChangesType == Changes \subseteq Seq([x : Int, y : Int, z : Int, state : Nat])

\* What tells columns apart: the terrain, and whether players have changed it.
Shape(content) == [terrain |-> content.terrain, edited |-> content.edit # 0]
Shapes         == {[terrain |-> s, edited |-> e] : s \in Seeds, e \in BOOLEAN}

\* The columns players may have made of the ground.
Column(surface, changes) ==
  LET chunk[k \in 0 .. Len(changes)] ==
        IF k = 0 THEN Ground(surface)
        ELSE SetBlock(chunk[k - 1], changes[k].x, changes[k].y, changes[k].z, changes[k].state)
  IN  chunk[Len(changes)]

ColumnsOf(shape) ==
  {Column(Surface[shape.terrain], changes) : changes \in IF shape.edited THEN Changes ELSE {<<>>}}

-----------------------------------------------------------------------------
(* Properties *)

Heights == MinY .. MinY + SectionCount * Side - 1
Across  == 0 .. Side - 1

\* The height map tells, in the order of the protocol, where the topmost block is.
Mapped(sections) ==
  LET map == Heightmap(PackHeightmap(ColumnHeights(sections)))
  IN  \A x \in Across, z \in Across :
        /\ map[z * Side + x + 1] \in 0 .. SectionCount * Side
        /\ \A y \in Heights :
             /\ y >= MinY + map[z * Side + x + 1] => GetBlock(sections, x, y, z) = Air
             /\ y = MinY + map[z * Side + x + 1] - 1 => GetBlock(sections, x, y, z) # Air

MappedShapes == {shape \in Shapes : \A sections \in ColumnsOf(shape) : Mapped(sections)}

\* The height map computed for any chunk in memory, to be sent or saved, is right, whatever
\* sections of it have been dug empty.
HeightsRight == \A c \in DOMAIN cache : Shape(cache[c]) \in MappedShapes
=============================================================================
