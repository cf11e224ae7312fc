---------------------------- MODULE SavedRegions ----------------------------
(***************************************************************************)
(* WorldStore down to the sectors of its region files: what it takes for   *)
(* granted of a region file, that it holds the chunks written to it, and   *)
(* of a write that is interrupted, that it leaves some of them whole and   *)
(* none changed, follows from the format of RegionFiles.  What is right    *)
(* for a set of chunks is computed once.                                   *)
(***************************************************************************)
EXTENDS WorldStore, RegionFiles

CONSTANTS
  Position,  \* the position of each chunk
  Sizes      \* bound: how many bytes zlib may make of a chunk

ASSUME PlacedType == /\ IsFiniteSet(Chunks)
                     /\ Position \in [Chunks -> Int \X Int]
                     /\ \A c, d \in Chunks :
                          /\ Position[c] = Position[d] => c = d
                          /\ RegionOf[c] = RegionOf[d] <=> RegionAt(Position[c]) = RegionAt(Position[d])

\* A chunk of this world is under 100 KiB: its length fits its four bytes, and the number
\* of its sectors the one byte it has.
ASSUME SizesType == /\ Sizes \subseteq Nat \ {0}
                    /\ \A size \in Sizes :
                         /\ size + 1 < Word
                         /\ DivUp(Width["int"] + size + 1, SectorSize) < Radix

\* What write_region may be given for a set of chunks: they come in the order of a hash
\* map, and zlib makes something of each.
WritesOf(chunks) ==
  {[i \in DOMAIN order |-> [pos |-> Position[order[i]], data |-> order[i], size |-> sizes[order[i]]]] :
     order \in Bijection(1 .. Cardinality(chunks), chunks), sizes \in [chunks -> Sizes]}

-----------------------------------------------------------------------------
(* Properties *)

\* Wherever the write of a region file stops, the file can be read and yields chunks that
\* were written to it, unchanged; all of them when the write came to its end.
ReadBack(written) ==
  LET file == RegionFile(written)
      data == {c.data : c \in Range(written)}
  IN  /\ ReadRegion(file) = Got(data, <<>>)
      /\ \A n \in 0 .. FileLength(file) :
           /\ ReadRegion(CutShort(file, n)).ok
           /\ ReadRegion(CutShort(file, n)).value \subseteq data

Parts       == {chunks \cap ChunksOf(r) : chunks \in SUBSET Chunks, r \in Regions}
SafeToWrite == {chunks \in Parts : \A written \in WritesOf(chunks) : ReadBack(written)}

\* Whatever chunks a save is about to write to a region file, the file yields them: all of
\* them, or whole ones among them when the write is interrupted.
RegionsReadBack ==
  (Saving /\ NextFile \in Regions) => DOMAIN RegionPart(NextFile) \in SafeToWrite
=============================================================================
