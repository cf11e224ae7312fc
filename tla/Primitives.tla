----------------------------- MODULE Primitives -----------------------------
(***************************************************************************)
(* Reading and writing the fields packets are made of (loadstone-protocol  *)
(* read.rs: PacketReader; write.rs: PacketWriter).  A read yields a value  *)
(* and what is left of the buffer, or fails where the buffer ends too soon *)
(* or holds something else; the code returns that error from the decoder.  *)
(***************************************************************************)
EXTENDS VarInts

CONSTANT Width  \* bytes of a byte, short, int, long, uuid and signature (1, 2, 4, 8, 16, 256)

Radix == 2 * Base

\* How many values k bytes have, for each k up to w.
Span(w) == LET span[k \in 0 .. w] == IF k = 0 THEN 1 ELSE span[k - 1] * Radix IN span

ASSUME WidthType ==
  /\ Width \in [{"byte", "short", "int", "long", "uuid", "signature"} -> Nat \ {0}]
  /\ Width["byte"] = 1
  /\ Span(Width["int"])[Width["int"]] = Word

\* What is left to write of n after k bytes, of w in all (n >> 8k).
Shifted(w, n) ==
  LET left[k \in 0 .. w] == IF k = 0 THEN n ELSE left[k - 1] \div Radix IN left

\* The big-endian bytes of a number, negative ones in two's complement.
Number(w, n) == [k \in 1 .. w |-> Byte(Shifted(w, n)[w - k] % Radix)]

Natural(s) ==
  LET from[k \in 0 .. Len(s)] == IF k = 0 THEN 0 ELSE from[k - 1] * Radix + s[k].byte
  IN  from[Len(s)]

Integer(s) ==
  LET n == Natural(s)
      range == Span(Len(s))[Len(s)]
  IN  IF n < range \div 2 THEN n ELSE n - range

DivUp(n, m) == (n + m - 1) \div m

Failed == [ok |-> FALSE]

Got(value, rest) == [ok |-> TRUE, value |-> value, rest |-> rest]

\* PacketReader::take.
Bytes(n, s) ==
  IF n < 0 \/ Len(s) < n THEN Failed ELSE Got(SubSeq(s, 1, n), SubSeq(s, n + 1, Len(s)))

\* A value read, as something else.
As(Op(_), read) == IF read.ok THEN Got(Op(read.value), read.rest) ELSE Failed

\* A read that goes on from what another one left.
Then(read, Op(_, _)) == IF read.ok THEN Op(read.value, read.rest) ELSE Failed

ReadVarInt(s) ==
  LET n == VarIntLen(s)
  IN  IF n = 0 THEN Failed ELSE As(Value, Bytes(n, s))

ReadBool(s) ==
  Then(Bytes(1, s), LAMBDA b, rest :
         IF b[1].byte \in {0, 1} THEN Got(b[1].byte = 1, rest) ELSE Failed)

WriteBool(b) == <<Byte(IF b THEN 1 ELSE 0)>>

\* A string, or a byte array: a VarInt and as many bytes.
WriteBytes(s) == VarInt(Len(s)) \o s
ReadBytes(s)  == Then(ReadVarInt(s), Bytes)
=============================================================================
