--------------------------- MODULE MCPacketStream ---------------------------
(* An instance of PacketStream for TLC: two values of every packet. *)
EXTENDS PacketStream

MCWidth == [byte |-> 1, short |-> 2, int |-> 3, long |-> 4, uuid |-> 5, signature |-> 6]

Tag(k) ==
  [tag |-> "compound", value |->
     <<[name |-> <<Byte(1)>>, of |->
          [tag |-> "list", value |-> <<[tag |-> "string", value |-> <<Byte(k % Radix)>>]>>]],
       [name |-> <<>>, of |-> [tag |-> "bytes", value |-> <<<<Byte(0)>>, <<Byte(k % Radix)>>>>]],
       [name |-> <<Byte(2)>>, of |-> [tag |-> "compound", value |-> <<>>]],
       [name |-> <<Byte(3)>>, of |->
          [tag |-> "long", value |-> [i \in 1 .. Width["long"] |-> Byte(i)]]]>>]

Some(k, w) == [i \in 1 .. w |-> Byte((k + i) % Radix)]

\* Variant 1 is negative and empty, variant 2 filled; k keeps the fields apart.
RECURSIVE SampleOf(_, _, _), SampleField(_, _, _)
SampleOf(layout, k, v) ==
  [n \in {layout[i].name : i \in DOMAIN layout} |->
     LET i == CHOOSE i \in DOMAIN layout : layout[i].name = n
     IN  SampleField(layout[i].type, k + i, v)]

SampleField(type, k, v) ==
  CASE type.kind = "integer"   -> IF v = 1 THEN -1 - (k % 8)
                                  ELSE (37 * k) % (Radix ^ type.width \div 2)
    [] type.kind = "raw"       -> Some(v * k, type.width)
    [] type.kind = "varint"    -> IF v = 1 THEN -k ELSE 9 * k
    [] type.kind = "bool"      -> (k + v) % 2 = 0
    [] type.kind = "bytes"     -> IF v = 1 THEN <<>> ELSE Some(k, 1 + (k % 2))
    [] type.kind = "nbt"       -> IF v = 1 THEN <<>> ELSE <<ToAnonymous(Tag(k))>>
    [] type.kind = "component" -> ToAnonymous(Tag(k))
    [] type.kind = "rest"      -> IF v = 1 THEN <<>> ELSE ToAnonymous(Tag(k))
    [] type.kind = "list"      -> IF v = 1 THEN <<>>
                                  ELSE <<SampleOf(type.of, k, 1), SampleOf(type.of, k + 1, 2)>>
    [] type.kind = "maybe"     -> IF v = 1 THEN <<>> ELSE <<SampleOf(type.of, k, 2)>>
    [] type.kind = "position"  -> IF v = 1 THEN [x |-> -k, y |-> -1, z |-> k]
                                  ELSE [x |-> k, y |-> 3, z |-> -k]
    [] type.kind = "velocity"  -> IF v = 1 THEN Still
                                  ELSE [scale |-> 6, low |-> 1, high |-> Some(k, 5)]
    [] type.kind = "masked"    ->
         LET parts == {i \in DOMAIN type.parts : v = 2 \/ i \in {1, 4, 8}}
             entry(m) == [n \in {type.parts[i].name : i \in parts} |->
                            LET i == CHOOSE i \in parts : type.parts[i].name = n
                            IN  SampleOf(type.parts[i].of, k + i + m, 1 + ((v + m) % 2))]
         IN  [m \in 1 .. 2 |-> SampleOf(type.always, k + m, v) @@ entry(m)]

GroupNames ==
  <<"serverbound_handshake", "serverbound_status", "clientbound_status", "serverbound_login",
    "clientbound_login", "serverbound_configuration", "clientbound_configuration",
    "serverbound_play", "clientbound_play">>

MCSamples ==
  FlattenSeq([g \in DOMAIN GroupNames |->
    FlattenSeq([i \in DOMAIN Groups[GroupNames[g]] |->
      LET packet == Groups[GroupNames[g]][i]
      IN  [v \in 1 .. 2 |-> [group |-> GroupNames[g], packet |-> packet,
                             value |-> SampleOf(packet.encode, i, v)]]])])

\* An empty payload, one that looks like a length, and one that does not.
Small == {[id |-> 1, payload |-> <<>>],
          [id |-> 0, payload |-> <<Byte(3), Byte(1)>>],
          [id |-> 2, payload |-> <<Byte(0)>>]}

\* A length of two digits.
Longer == [id |-> 9, payload |-> [i \in 1 .. 7 |-> Byte(i)]]

MCCut == [1 .. 2 -> Small] \cup {<<Longer>>, [i \in 1 .. 3 |-> [id |-> 2, payload |-> <<Byte(0)>>]]}

\* A block cipher: every byte of the register tells.
MCEncryptBlock ==
  [register \in [1 .. BlockLen -> 0 .. 2 * Base - 1] |->
     FoldLeft(LAMBDA acc, b : (3 * acc + b + 1) % (2 * Base), 0, register)]

\* As large as a packet may be, one byte less and one byte more.
Sized(n) == [id |-> 3, payload |-> [i \in 1 .. n - 1 |-> Byte(i % Radix)]]

\* TLC evaluates it once, and what a constant stands for at every use.
AllScripts ==
  MCCut \cup {<<Encoded(MCSamples[i])>> : i \in DOMAIN MCSamples}
        \cup {<<Sized(n), Longer>> : n \in {MaxPacket - 1, MaxPacket, MaxPacket + 1}}
MCScripts == AllScripts
=============================================================================
