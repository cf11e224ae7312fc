--------------------------- MODULE PacketLayouts ---------------------------
(***************************************************************************)
(* What the encoders and decoders of packets do with the fields of a       *)
(* packet.  A layout is a sequence of named fields; Put writes the fields  *)
(* of a value in that order, Take reads them back.                         *)
(***************************************************************************)
EXTENDS NbtTags

CONSTANTS
  XZ,  \* values of x and of z in a packed position (2^26)
  Y    \* values of y in a packed position (2^12)

ASSUME PositionType == XZ % 2 = 0 /\ Y % 2 = 0 /\ XZ * XZ * Y = Radix ^ Width["long"]

Each(type, names) == [i \in DOMAIN names |-> [name |-> names[i], type |-> type]]

Whole(w)   == [kind |-> "integer", width |-> w]
Raw(n)     == [kind |-> "raw", width |-> n]

\* Fields of the types the packets are made of.  A float is its bits, a string its bytes.
I8(names)     == Each(Whole(Width["byte"]), names)
I16(names)    == Each(Whole(Width["short"]), names)
I32(names)    == Each(Whole(Width["int"]), names)
I64(names)    == Each(Whole(Width["long"]), names)
U8(names)     == Each(Raw(Width["byte"]), names)
U16(names)    == Each(Raw(Width["short"]), names)
F32(names)    == Each(Raw(Width["int"]), names)
F64(names)    == Each(Raw(Width["long"]), names)
Uuid(names)   == Each(Raw(Width["uuid"]), names)
Signature(names) == Each(Raw(Width["signature"]), names)
VarI(names)   == Each([kind |-> "varint"], names)
Bool(names)   == Each([kind |-> "bool"], names)
Str(names)    == Each([kind |-> "bytes"], names)
Buf(names)    == Each([kind |-> "bytes"], names)

\* An anonymous NBT tag, or one that may be absent.
Component(names) == Each([kind |-> "component"], names)
Nbt(names)       == Each([kind |-> "nbt"], names)

\* All that is left of the packet, or all but its last byte.
Rest(names)   == Each([kind |-> "rest"], names)
ButOne(names) == Each([kind |-> "but_one"], names)

\* A counted list of structures, and a structure behind a flag.
List(name, of)  == Each([kind |-> "list", of |-> of], <<name>>)
Maybe(name, of) == Each([kind |-> "maybe", of |-> of], <<name>>)

\* A packed block position, a low-precision velocity.
Position(names) == Each([kind |-> "position"], names)
Velocity(names) == Each([kind |-> "velocity"], names)

\* A counted list of entries that share one mask of the parts each of them has.
Masked(name, always, parts) ==
  Each([kind |-> "masked", always |-> always, parts |-> parts], <<name>>)

-----------------------------------------------------------------------------
(* Two packed types *)

InRange(range, n) == IF n < range \div 2 THEN n ELSE n - range

\* pack_position, unpack_position: x in the high bits, z, and y in the low ones.
PackPosition(p)   == Number(Width["long"], ((p.x % XZ) * XZ + (p.z % XZ)) * Y + (p.y % Y))
UnpackPosition(s) ==
  LET n == Natural(s)
  IN  [x |-> InRange(XZ, n \div (Y * XZ)), z |-> InRange(XZ, (n \div Y) % XZ),
       y |-> InRange(Y, n % Y)]

\* write_lp_vec3, read_lp_vec3: a still entity is one zero byte; otherwise three bits
\* tell the scale, or its remainder and that a VarInt with the rest follows the
\* components.  They are one number and five bytes here, never looked into.
Still == [scale |-> 0, low |-> 0, high |-> <<>>]
LongScale == 4

PackVelocity(v) ==
  IF v.scale = 0 THEN <<Byte(0)>>
  ELSE <<Byte((v.scale % 4) + (IF v.scale > 3 THEN LongScale ELSE 0) + 8 * v.low)>> \o v.high
         \o (IF v.scale > 3 THEN VarInt(v.scale \div 4) ELSE <<>>)

ReadVelocity(s) ==
  Then(Bytes(1, s), LAMBDA a, more :
    LET flags == a[1].byte
    IN  IF flags = 0 THEN Got(Still, more)
        ELSE Then(Bytes(5, more), LAMBDA high, rest :
               LET Moving(n) == [scale |-> (flags % 4) + 4 * n, low |-> flags \div 8, high |-> high]
               IN  IF (flags \div LongScale) % 2 = 1 THEN As(Moving, ReadVarInt(rest))
                   ELSE Got(Moving(0), rest)))

-----------------------------------------------------------------------------
(* Writing *)

\* PlayerInfoEntry::actions: the parts an entry has.
Actions(type, entry) == {i \in DOMAIN type.parts : type.parts[i].name \in DOMAIN entry}

\* The eight flags of a mask take two of the model's smaller bytes.
Mask(actions) == Number(2, FoldSet(LAMBDA i, sum : sum + 2 ^ (i - 1), 0, actions))
Flags(s)      == {i \in 1 .. 8 : (Natural(s) \div 2 ^ (i - 1)) % 2 = 1}

RECURSIVE Put(_, _), PutField(_, _)
Put(layout, value) ==
  FlattenSeq([i \in DOMAIN layout |-> PutField(layout[i].type, value[layout[i].name])])

PutField(type, v) ==
  CASE type.kind = "integer"  -> Number(type.width, v)
    [] type.kind = "varint"   -> VarInt(v)
    [] type.kind = "bool"     -> WriteBool(v)
    [] type.kind = "bytes"    -> WriteBytes(v)
    [] type.kind = "nbt"      -> IF v = <<>> THEN <<Byte(0)>> ELSE v[1]
    [] type.kind = "list"     -> VarInt(Len(v)) \o FlattenSeq([i \in DOMAIN v |-> Put(type.of, v[i])])
    [] type.kind = "maybe"    -> WriteBool(v # <<>>) \o FlattenSeq([i \in DOMAIN v |-> Put(type.of, v[i])])
    [] type.kind = "position" -> PackPosition(v)
    [] type.kind = "velocity" -> PackVelocity(v)
    [] type.kind = "masked"   ->
         Mask(UNION {Actions(type, v[i]) : i \in DOMAIN v}) \o VarInt(Len(v))
           \o FlattenSeq([i \in DOMAIN v |-> Put(type.always, v[i]) \o
                FlattenSeq([k \in DOMAIN type.parts |->
                              IF k \in Actions(type, v[i])
                              THEN Put(type.parts[k].of, v[i][type.parts[k].name]) ELSE <<>>])])
    [] OTHER                  -> v

-----------------------------------------------------------------------------
(* Reading *)

Nothing == [n \in {} |-> n]

RECURSIVE Take(_, _), TakeField(_, _), TakeMany(_, _, _), TakeParts(_, _, _), TakeEntries(_, _, _, _)
Take(layout, s) ==
  IF layout = <<>> THEN Got(Nothing, s)
  ELSE Then(TakeField(Head(layout).type, s), LAMBDA v, rest :
         As(LAMBDA others : (Head(layout).name :> v) @@ others, Take(Tail(layout), rest)))

TakeField(type, s) ==
  CASE type.kind = "integer"   -> As(Integer, Bytes(type.width, s))
    [] type.kind = "raw"       -> Bytes(type.width, s)
    [] type.kind = "varint"    -> ReadVarInt(s)
    [] type.kind = "bool"      -> ReadBool(s)
    [] type.kind = "bytes"     -> ReadBytes(s)
    [] type.kind = "rest"      -> Got(s, <<>>)
    [] type.kind = "but_one"   -> Bytes(Len(s) - 1, s)
    [] type.kind = "nbt"       -> ReadAnonymous(s)
    [] type.kind = "component" ->
         Then(ReadAnonymous(s), LAMBDA tag, rest : IF tag = <<>> THEN Failed ELSE Got(tag[1], rest))
    [] type.kind = "list"      -> Then(ReadVarInt(s), LAMBDA n, rest : TakeMany(n, type.of, rest))
    [] type.kind = "maybe"     ->
         Then(ReadBool(s), LAMBDA b, rest : TakeMany(IF b THEN 1 ELSE 0, type.of, rest))
    [] type.kind = "position"  -> As(UnpackPosition, Bytes(Width["long"], s))
    [] type.kind = "velocity"  -> ReadVelocity(s)
    [] type.kind = "masked"    ->
         Then(As(Flags, Bytes(2, s)), LAMBDA flags, counted :
           Then(ReadVarInt(counted), LAMBDA n, rest : TakeEntries(n, flags, type, rest)))

TakeMany(n, layout, s) ==
  IF n < 0 THEN Failed
  ELSE IF n = 0 THEN Got(<<>>, s)
  ELSE Then(Take(layout, s), LAMBDA v, rest :
         As(LAMBDA others : <<v>> \o others, TakeMany(n - 1, layout, rest)))

\* The parts that the mask of the packet announces, whoever they are of.
TakeParts(flags, parts, s) ==
  IF flags = {} THEN Got(Nothing, s)
  ELSE LET k == Min(flags)
       IN  Then(Take(parts[k].of, s), LAMBDA v, rest :
             As(LAMBDA others : (parts[k].name :> v) @@ others, TakeParts(flags \ {k}, parts, rest)))

TakeEntries(n, flags, type, s) ==
  IF n < 0 THEN Failed
  ELSE IF n = 0 THEN Got(<<>>, s)
  ELSE Then(Take(type.always, s), LAMBDA v, rest :
         Then(TakeParts(flags, type.parts, rest), LAMBDA parts, more :
           As(LAMBDA others : <<v @@ parts>> \o others, TakeEntries(n - 1, flags, type, more))))
=============================================================================
