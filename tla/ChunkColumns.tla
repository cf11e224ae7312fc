---------------------------- MODULE ChunkColumns ----------------------------
(***************************************************************************)
(* A chunk column: its blocks and how they are changed (loadstone-world    *)
(* lib.rs), what of them is sent to clients (encode.rs), and the reader of *)
(* that format which the protocol crate checks against a captured vanilla  *)
(* chunk (loadstone-protocol chunk.rs).                                    *)
(***************************************************************************)
EXTENDS Primitives, FiniteSets

CONSTANTS
  Side,          \* blocks along each axis of a section (16)
  SectionCount,  \* sections of a column (24)
  MinY,          \* the lowest block's height (-64)
  BiomeCount,    \* biomes of a section (64)
  Layers,        \* the block states of the ground: floor, rock, soil, top
  DirtDepth,     \* thickness of the soil (3)
  MinBits,       \* narrowest palette index (4)
  MaxBits,       \* widest one; beyond, ids are written as they are (8)
  DirectBits,    \* width of an id (15)
  LongBits       \* bits of a long (64)

ASSUME SectionType == {Side, SectionCount, BiomeCount} \subseteq Nat \ {0} /\ MinY \in Int
ASSUME LayersType  == Layers \in [{"floor", "rock", "soil", "top"} -> Nat \ {0}]
                      /\ DirtDepth \in Nat
ASSUME LongBitsType == LongBits \in Nat \ {0}

\* 1 << b
Pow2[b \in 0 .. LongBits] == IF b = 0 THEN 1 ELSE 2 * Pow2[b - 1]

\* A long has its bits, and more than enough of them for a height.
ASSUME PackingType == /\ {MinBits, MaxBits, DirectBits} \subseteq 1 .. LongBits
                      /\ Pow2[LongBits] = Span(Width["long"])[Width["long"]]
                      /\ SectionCount * Side < Pow2[LongBits]

Air    == 0
Volume == Side * Side * Side

\* A section: its block states, none of which are kept while all of it is air, and how
\* many of them are not air.
EmptySection == [states |-> <<>>, non_air |-> 0]

\* Chunk::empty
EmptyChunk == [i \in 1 .. SectionCount |-> EmptySection]

Index(y, z, x) == ((y * Side + z) * Side + x) + 1

State(section, i) == IF section.states = <<>> THEN Air ELSE section.states[i]

Count(states) == Cardinality({i \in DOMAIN states : states[i] # Air})

\* ChunkSection::set
WithState(section, i, state) ==
  IF section.states = <<>> /\ state = Air THEN section
  ELSE LET states == [[j \in 1 .. Volume |-> State(section, j)] EXCEPT ![i] = state]
       IN  [states |-> states, non_air |-> Count(states)]

\* section_at: the section of a height, if the column reaches there.
Inside(y)    == (y - MinY) \div Side \in 0 .. SectionCount - 1
SectionAt(y) == ((y - MinY) \div Side) + 1

Local(x, y, z) == Index((y - MinY) % Side, z % Side, x % Side)

GetBlock(chunk, x, y, z) ==
  IF Inside(y) THEN State(chunk[SectionAt(y)], Local(x, y, z)) ELSE Air

SetBlock(chunk, x, y, z, state) ==
  IF Inside(y) THEN [chunk EXCEPT ![SectionAt(y)] = WithState(@, Local(x, y, z), state)]
  ELSE chunk

\* TerrainGenerator::block: the layers of a column of ground.
LayerAt(y, surface) ==
  CASE y = MinY                                      -> Layers.floor
    [] y > MinY /\ y > surface                        -> Air
    [] y > MinY /\ y = surface                        -> Layers.top
    [] y > MinY /\ y \in surface - DirtDepth .. surface - 1 -> Layers.soil
    [] y > MinY /\ y < surface - DirtDepth            -> Layers.rock

\* TerrainGenerator::chunk, for the surface heights its noise yields: sections that
\* are all air keep no states.
Ground(surface) ==
  [i \in 1 .. SectionCount |->
     LET states == [b \in 1 .. Volume |->
                      LayerAt(MinY + (i - 1) * Side + ((b - 1) \div (Side * Side)),
                              surface[((b - 1) % (Side * Side)) + 1])]
     IN  IF Count(states) = 0 THEN EmptySection
         ELSE [states |-> states, non_air |-> Count(states)]]

-----------------------------------------------------------------------------
(* Packing *)

\* The values in the order they first occur.
Palette(states) ==
  FoldLeft(LAMBDA p, s : IF Contains(p, s) THEN p ELSE Append(p, s), <<>>, states)

PositionIn(palette, state) == SelectInSeq(palette, LAMBDA s : s = state) - 1

\* The narrowest width, of those allowed, that tells n values apart.
BitsFor(n, least) == CHOOSE b \in least .. LongBits :
                       Pow2[b] >= n /\ (b = least \/ Pow2[b - 1] < n)

\* As many bits of each value one after the other, the first one lowest.
Packed(values, bits) ==
  LET n == Len(values)
      word[k \in 0 .. n] ==
        IF k = 0 THEN 0 ELSE word[k - 1] * Pow2[bits] + (values[n + 1 - k] % Pow2[bits])
  IN  word[n]

\* Longs of whole values.
PackPerLong(values, bits) ==
  LET per == LongBits \div bits
  IN  [w \in 1 .. DivUp(Len(values), per) |->
         Packed(SubSeq(values, (w - 1) * per + 1,
                       IF w * per < Len(values) THEN w * per ELSE Len(values)), bits)]

\* n values of such longs; 0 where they end too soon.
UnpackPerLong(longs, bits, n) ==
  LET per == LongBits \div bits
      long(i) == ((i - 1) \div per) + 1
  IN  [i \in 1 .. n |->
         IF long(i) > Len(longs) THEN 0
         ELSE (longs[long(i)] \div Pow2[((i - 1) % per) * bits]) % Pow2[bits]]

\* n values of one stream of bits, which may straddle two longs.
UnpackSpanning(longs, bits, n) ==
  LET bit(j) == (longs[(j \div LongBits) + 1] \div Pow2[j % LongBits]) % 2
  IN  [i \in 1 .. n |->
         FoldRight(LAMBDA b, acc : acc * 2 + bit((i - 1) * bits + b),
                   [b \in 1 .. bits |-> b - 1], 0)]

Longs(words) == FlattenSeq([w \in DOMAIN words |-> Number(Width["long"], words[w])])

ReadLongs(n, s) ==
  As(LAMBDA bytes :
       [k \in 1 .. n |-> Natural(SubSeq(bytes, (k - 1) * Width["long"] + 1, k * Width["long"]))],
     Bytes(n * Width["long"], s))

-----------------------------------------------------------------------------
(* The chunk data of a map chunk packet *)

Single(value) == Number(Width["byte"], 0) \o VarInt(value)

BlockBits(n) == IF BitsFor(n, MinBits) > MaxBits THEN DirectBits ELSE BitsFor(n, MinBits)

\* write_paletted_container, without the biomes that follow; pack_indices.
BlockContainer(states) ==
  LET palette == Palette(states)
      bits    == BlockBits(Len(palette))
      indices == [i \in DOMAIN states |->
                    IF bits = DirectBits THEN states[i] ELSE PositionIn(palette, states[i])]
  IN  IF Len(palette) <= 1 THEN Single(IF palette = <<>> THEN Air ELSE palette[1])
      ELSE Number(Width["byte"], bits)
             \o (IF bits = DirectBits THEN <<>>
                 ELSE VarInt(Len(palette))
                        \o FlattenSeq([k \in DOMAIN palette |-> VarInt(palette[k])]))
             \o Longs(PackPerLong(indices, bits))

\* encode_chunk_column: the count of blocks, and a second count that is always zero.
EncodeSection(section, biome) ==
  Number(Width["short"], section.non_air) \o Number(Width["short"], 0)
    \o BlockContainer(section.states) \o Single(biome)

EncodeColumn(chunk, biome) ==
  FlattenSeq([i \in DOMAIN chunk |-> EncodeSection(chunk[i], biome)])

Uniform(value, n) == [i \in 1 .. n |-> value]

ReadPalette(n, s) ==
  FoldLeft(LAMBDA read, k : Then(read, LAMBDA ids, rest :
                              As(LAMBDA id : Append(ids, id), ReadVarInt(rest))),
           Got(<<>>, s), [k \in 1 .. n |-> k])

\* PalettedContainer::decode
ReadContainer(n, s) ==
  Then(Bytes(1, s), LAMBDA first, rest :
    LET bits == first[1].byte
        size == DivUp(n * bits, LongBits)
    IN  CASE bits = 0 -> As(LAMBDA value : Uniform(value, n), ReadVarInt(rest))
          [] bits > MaxBits ->
               As(LAMBDA longs : UnpackSpanning(longs, bits, n), ReadLongs(size, rest))
          [] bits \in 1 .. MaxBits ->
               Then(ReadVarInt(rest), LAMBDA len, ids :
                 IF len <= 0 THEN Failed
                 ELSE Then(ReadPalette(len, ids), LAMBDA palette, data :
                        As(LAMBDA longs :
                             LET indices == UnpackSpanning(longs, bits, n)
                             IN  [i \in 1 .. n |-> IF indices[i] < len
                                                   THEN palette[indices[i] + 1] ELSE Air],
                           ReadLongs(size, data)))))

\* chunk.rs ChunkSection::decode
ReadSection(s) ==
  Then(As(Integer, Bytes(Width["short"], s)), LAMBDA non_air, blocks :
    Then(ReadContainer(Volume, blocks), LAMBDA states, biomes :
      As(LAMBDA of : [non_air |-> non_air, blocks |-> states, biomes |-> of],
         ReadContainer(BiomeCount, biomes))))

\* Sections are read until the buffer runs out.
DecodeColumn(s) ==
  FoldLeft(LAMBDA read, k :
             Then(read, LAMBDA sections, rest :
               IF rest = <<>> THEN read
               ELSE As(LAMBDA section : Append(sections, section), ReadSection(rest))),
           Got(<<>>, s), [k \in 1 .. Len(s) |-> k])

-----------------------------------------------------------------------------
(* Heights *)

\* Faulty variant: the columns are ordered the other way round.
Transposed(k) == [z |-> (k - 1) % Side, x |-> (k - 1) \div Side]

ColumnAt(k) == [z |-> (k - 1) \div Side, x |-> (k - 1) % Side]

\* column_heights: from the topmost section that is not all air downwards.
HeightOf(chunk, z, x) ==
  LET section(h) == chunk[((h - 1) \div Side) + 1]
      tops == {h \in 1 .. SectionCount * Side :
                 /\ section(h).non_air # 0
                 /\ section(h).states[Index((h - 1) % Side, z, x)] # Air}
  IN  IF tops = {} THEN 0 ELSE CHOOSE h \in tops : \A g \in tops : g <= h

ColumnHeights(chunk) ==
  [k \in 1 .. Side * Side |-> HeightOf(chunk, ColumnAt(k).z, ColumnAt(k).x)]

HeightBits == BitsFor(SectionCount * Side + 1, 1)

PackHeightmap(heights) == PackPerLong(heights, HeightBits)

\* chunk.rs Heightmap::from_packed
Heightmap(longs) == UnpackPerLong(longs, HeightBits, Side * Side)
=============================================================================
