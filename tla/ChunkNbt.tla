------------------------------ MODULE ChunkNbt ------------------------------
(***************************************************************************)
(* A saved chunk as NBT (loadstone-world anvil.rs: chunk_to_nbt,           *)
(* chunk_from_nbt).  Fields that are the same for every chunk are left     *)
(* out.                                                                    *)
(***************************************************************************)
EXTENDS ChunkColumns, NbtTags

CONSTANT Supported  \* SUPPORTED_BLOCKS: the block states with a name

ASSUME SupportedType == Supported \subseteq Nat /\ Air \in Supported

Key == [xPos |-> 1, zPos |-> 2, Heightmaps |-> 3, sections |-> 4, Y |-> 5,
        block_states |-> 6, palette |-> 7, data |-> 8, Name |-> 9]

Entry(key, tag) == [name |-> <<Byte(Key[key])>>, of |-> tag]
Compound(entries) == [tag |-> "compound", value |-> entries]
ListOf(tags)      == [tag |-> "list", value |-> tags]
IntTag(n)         == [tag |-> "int", value |-> Number(Width["int"], n)]
ByteTag(n)        == [tag |-> "byte", value |-> Number(Width["byte"], n)]
LongArray(words)  ==
  [tag |-> "longs", value |-> [w \in DOMAIN words |-> Number(Width["long"], words[w])]]

\* blocks.rs: a name per supported state; any other state is written as air.
NameTag(state) ==
  [tag |-> "string", value |-> <<Byte(IF state \in Supported THEN state ELSE Air)>>]

StateNamed(name) == IF name[1].byte \in Supported THEN name[1].byte ELSE Air

\* block_states_to_nbt, pack_palette
BlockStates(section) ==
  LET found   == Palette(section.states)
      palette == IF found = <<>> THEN <<Air>> ELSE found
      indices == [i \in DOMAIN section.states |-> PositionIn(palette, section.states[i])]
  IN  Compound(
        <<Entry("palette", ListOf([k \in DOMAIN palette |->
                                     Compound(<<Entry("Name", NameTag(palette[k]))>>)]))>>
        \o (IF Len(palette) = 1 THEN <<>>
            ELSE <<Entry("data", LongArray(PackPerLong(indices, BitsFor(Len(palette), MinBits))))>>))

\* Faulty variant: the sections are numbered from zero.
FromZero(i) == i - 1

SectionY(i) == (MinY \div Side) + i - 1

\* chunk_to_nbt
ChunkToNbt(chunk) ==
  Compound(<<Entry("xPos", IntTag(chunk.x)), Entry("zPos", IntTag(chunk.z)),
             Entry("Heightmaps", LongArray(PackHeightmap(ColumnHeights(chunk.sections)))),
             Entry("sections", ListOf([i \in DOMAIN chunk.sections |->
                Compound(<<Entry("Y", ByteTag(SectionY(i))),
                           Entry("block_states", BlockStates(chunk.sections[i]))>>)]))>>)

\* compound_get and the *_field helpers: the value of the first entry of that name.
Has(tag, key)   == \E i \in DOMAIN tag.value : tag.value[i].name = <<Byte(Key[key])>>
Field(tag, key) ==
  tag.value[SelectInSeq(tag.value, LAMBDA e : e.name = <<Byte(Key[key])>>)].of.value

\* unpack_palette and what chunk_from_nbt makes of the indices.
StatesFrom(block_states) ==
  LET names  == Field(block_states, "palette")
      states == [k \in DOMAIN names |-> StateNamed(Field(names[k], "Name"))]
      words  == [w \in DOMAIN Field(block_states, "data") |->
                   Natural(Field(block_states, "data")[w])]
      index  == UnpackPerLong(words, BitsFor(Len(states), MinBits), Volume)
  IN  IF Len(states) = 1 THEN Uniform(states[1], Volume)
      ELSE [i \in 1 .. Volume |-> IF index[i] < Len(states) THEN states[index[i] + 1] ELSE Air]

SectionFrom(block_states) ==
  LET states == StatesFrom(block_states)
  IN  IF Count(states) = 0 THEN EmptySection ELSE [states |-> states, non_air |-> Count(states)]

\* chunk_from_nbt: sections whose Y is not of this world are dropped.
ChunkFromNbt(tag) ==
  LET of(section) == Integer(Field(section, "Y")) - (MinY \div Side) + 1
      saved       == Field(tag, "sections")
      place(sections, section) ==
        IF of(section) \notin DOMAIN sections THEN sections
        ELSE [sections EXCEPT ![of(section)] =
                SectionFrom([tag |-> "compound", value |-> Field(section, "block_states")])]
  IN  [x |-> Integer(Field(tag, "xPos")), z |-> Integer(Field(tag, "zPos")),
       sections |-> FoldLeft(place, EmptyChunk, saved)]
=============================================================================
