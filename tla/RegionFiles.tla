---------------------------- MODULE RegionFiles ----------------------------
(***************************************************************************)
(* A region file (loadstone-world anvil.rs): its header says for each      *)
(* chunk at which sector its record begins and how many sectors it takes.  *)
(*                                                                         *)
(* Zlib turns bytes into as many symbols as its result has bytes; only all *)
(* of them together yield the bytes again.  A file never comes near the    *)
(* 64 GiB at which the three bytes of an offset would be too few.          *)
(***************************************************************************)
EXTENDS Primitives

CONSTANTS
  RegionSize,  \* chunks along a side of a region (32)
  SectorSize   \* bytes of a sector (4096)

ASSUME SectorType == {RegionSize, SectorSize} \subseteq Nat \ {0}

\* region_of
RegionAt(pos) == <<pos[1] \div RegionSize, pos[2] \div RegionSize>>

Slot(pos) == (pos[1] % RegionSize) + (pos[2] % RegionSize) * RegionSize

Slots == 0 .. RegionSize * RegionSize - 1

HeaderSectors == 2
Zlib          == <<Byte(2)>>

\* A chunk to write is [pos, data, size]: where, its bytes, and how many of them zlib
\* makes.
Compressed(chunk) ==
  [k \in 1 .. chunk.size |-> [byte |-> 0, deflated |-> <<chunk.data, chunk.size, k>>]]

\* Faulty variant: the announced length leaves out the compression id.
BareLength(chunk) == chunk.size

RecordLength(chunk) == chunk.size + 1

Record(chunk) == Number(Width["int"], RecordLength(chunk)) \o Zlib \o Compressed(chunk)

Sectors(chunk) == DivUp(Len(Record(chunk)), SectorSize)

Padded(chunk) ==
  Record(chunk) \o [i \in 1 .. Sectors(chunk) * SectorSize - Len(Record(chunk)) |-> Byte(0)]

NoEntry == [offset |-> 0, sectors |-> 0]

EmptyFile ==
  [header |-> [slot \in Slots |-> NoEntry], body |-> <<>>, next_sector |-> HeaderSectors]

\* One pass of write_region: the header keeps one byte of the sectors.
WithChunk(file, chunk) ==
  [header      |-> [file.header EXCEPT ![Slot(chunk.pos)] =
                      [offset |-> file.next_sector, sectors |-> Sectors(chunk) % Radix]],
   body        |-> file.body \o Padded(chunk),
   next_sector |-> file.next_sector + Sectors(chunk)]

\* write_region
RegionFile(chunks) ==
  LET file[i \in 0 .. Len(chunks)] ==
        IF i = 0 THEN EmptyFile ELSE WithChunk(file[i - 1], chunks[i])
  IN  file[Len(chunks)]

FileLength(file) == HeaderSectors * SectorSize + Len(file.body)

\* What a write that was interrupted after n bytes leaves.
CutShort(file, n) ==
  IF n < HeaderSectors * SectorSize THEN EmptyFile
  ELSE [file EXCEPT !.body = SubSeq(@, 1, n - HeaderSectors * SectorSize)]

\* The bytes at a place of the file, if it has them.
Slice(file, at, n) ==
  Bytes(n, SubSeq(file.body, at - HeaderSectors * SectorSize + 1, Len(file.body)))

\* decompress
Inflated(s) ==
  IF s # <<>> /\ s[1].deflated # <<>> /\ s = Compressed([data |-> s[1].deflated[1],
                                                        size |-> s[1].deflated[2]])
  THEN Got(s[1].deflated[1], <<>>)
  ELSE Failed

\* read_region for one slot: nothing where the record is missing or cut short.
ReadSlot(file, slot) ==
  LET entry  == file.header[slot]
      at     == entry.offset * SectorSize
      head   == Slice(file, at, Width["int"] + 1)
      length == Natural(SubSeq(head.value, 1, Width["int"]))
      record == Slice(file, at + Width["int"], length)
  IN  IF entry.offset = 0 \/ entry.sectors = 0 THEN Got(<<>>, <<>>)
      ELSE IF ~head.ok THEN Got(<<>>, <<>>)
      ELSE IF length = 0 \/ ~record.ok THEN Got(<<>>, <<>>)
      ELSE IF SubSeq(record.value, 1, 1) # Zlib THEN Failed
      ELSE As(LAMBDA data : <<data>>, Inflated(Tail(record.value)))

\* read_region: one record that cannot be read fails the whole file.
ReadRegion(file) ==
  LET reads == [slot \in Slots |-> ReadSlot(file, slot)]
  IN  IF \E slot \in Slots : ~reads[slot].ok THEN Failed
      ELSE Got(UNION {Range(reads[slot].value) : slot \in Slots}, <<>>)
=============================================================================
