--------------------------- MODULE MCFrameReader ----------------------------
(* Instances of FrameReader for TLC. *)
EXTENDS FrameReader

\* An empty payload, one that looks like a length, and one that does not.
MCPackets == {[id |-> 1, payload |-> <<>>],
              [id |-> 0, payload |-> <<Byte(3), Byte(1)>>],
              [id |-> 2, payload |-> <<Byte(0)>>]}
\* A block cipher: every byte of the register tells.
MCEncryptBlock ==
  [register \in [1 .. BlockLen -> 0 .. 2 * Base - 1] |->
     FoldLeft(LAMBDA acc, b : (3 * acc + b + 1) % (2 * Base), 0, register)]

MCScripts == [1 .. 2 -> MCPackets] \cup {[i \in 1 .. 3 |-> [id |-> 2, payload |-> <<Byte(0)>>]]}
=============================================================================
