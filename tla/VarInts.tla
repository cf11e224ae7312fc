------------------------------ MODULE VarInts ------------------------------
(***************************************************************************)
(* Bytes and VarInts (loadstone-protocol varint.rs; loadstone-net codec.rs *)
(* for the byte-wise reader).  A VarInt is an i32, least significant digit *)
(* first, each digit in a byte with a flag that says whether more follow.  *)
(***************************************************************************)
EXTENDS Integers, Sequences, SequencesExt

CONSTANTS
  Base,       \* values a VarInt byte carries besides its continuation flag (128)
  MaxDigits,  \* bytes a VarInt may have (5)
  Word        \* values of an i32 (2^32)

\* What is left to write of n after k digits (v >>= 7).
Remaining(n) ==
  LET left[k \in 0 .. MaxDigits] == IF k = 0 THEN n ELSE left[k - 1] \div Base IN left

ASSUME VarIntType == /\ Base \in Nat /\ Base > 1 /\ MaxDigits \in Nat \ {0} /\ Word \in Nat \ {0}
                     /\ Word % 2 = 0 /\ Remaining(Word - 1)[MaxDigits - 1] < Base

\* What travels: a byte, or a whole deflated packet, which zlib turns into one
\* symbol here.  A byte is its value; the continuation flag adds Base to it.
Byte(b)    == [byte |-> b, deflated |-> <<>>]
Deflate(s) == <<[byte |-> 0, deflated |-> s]>>

\* An i32 as the u32 it is written as, and back.
Unsigned(n) == n % Word
Signed(u)   == IF u % Word < Word \div 2 THEN u % Word ELSE (u % Word) - Word

Digits(n) ==
  CHOOSE k \in 1 .. MaxDigits :
    Remaining(n)[k - 1] < Base /\ \A j \in 1 .. k - 1 : Remaining(n)[j - 1] >= Base

\* write_varint: the least significant digit first, a flag on all but the last.
VarInt(i) ==
  LET left   == Remaining(Unsigned(i))
      digits == Digits(Unsigned(i))
  IN  [k \in 1 .. digits |->
         Byte((left[k - 1] % Base) + (IF k < digits THEN Base ELSE 0))]

IsLast(b) == b.byte < Base
Low(b)    == b.byte % Base

\* What the bytes of one VarInt stand for.
Value(s) ==
  LET from[k \in 0 .. Len(s)] ==
        IF k = 0 THEN 0 ELSE from[k - 1] * Base + Low(s[Len(s) + 1 - k])
  IN  Signed(from[Len(s)])

\* read_varint on a buffer: how many of its bytes the VarInt takes; 0 if it ends
\* before the VarInt does, or the VarInt goes on for too long.
VarIntLen(s) ==
  IF \E i \in DOMAIN s : i <= MaxDigits /\ IsLast(s[i]) THEN SelectInSeq(s, IsLast) ELSE 0
=============================================================================
