----------------------------- MODULE FrameReader -----------------------------
(***************************************************************************)
(* Packets over a byte stream: framing (loadstone-net codec.rs),           *)
(* encryption (crypto.rs: EncryptedStream) and the reader's place in the   *)
(* connection (connection.rs: read_packet; play.rs: play_loop).            *)
(*                                                                         *)
(* A frame is a VarInt length and that many bytes: the packet itself, or,  *)
(* once compression is on, a VarInt and the packet, deflated or raw.  The  *)
(* socket takes a frame in pieces and TCP delivers bytes, not frames, so   *)
(* the reader may be left waiting at any byte.  In Login and Configuration *)
(* the connection waits for nothing else.  In Play the read is one branch  *)
(* of a select! with the channel and the keep-alive timer: when another    *)
(* branch wins, the read future is dropped, with what it has read so far.  *)
(*                                                                         *)
(* Both ends run this code, as in the tests of the crate; compression and  *)
(* encryption have been switched on before (LoginFlow) or are off.         *)
(***************************************************************************)
EXTENDS VarInts

CONSTANTS
  MaxPacket,      \* MAX_PACKET_SIZE
  Scripts,        \* what senders send: sequences of packets [id, payload]
  Thresholds,     \* compression thresholds a connection may run with
  Uncompressed,   \* compression_threshold is None
  Encrypted,      \* Transport::Encrypted: the settings a connection may run with
  BlockLen,       \* bytes in the cipher's register (16)
  EncryptBlock,   \* the block cipher under the key: any function of the register
  Interruptible,  \* TRUE: Play (select!); FALSE: the states before it
  MaxWrites,      \* bound on packets the reading side writes
  Cut             \* bound: the scripts whose frames the socket may take in pieces

\* The shared secret: any bytes will do.
Values == 2 * Base
Secret == [i \in 1 .. BlockLen |-> i % Values]

INSTANCE StreamCipher

\* A packet, none of 2 GiB and more: lengths are written as i32.
Plain    == [byte : Octets, deflated : {<<>>}]
Payloads == {s \in Seq(Plain) : Len(s) + MaxDigits + 1 < Word \div 2}
Packets  == [id : {Signed(u) : u \in 0 .. Word - 1}, payload : Payloads]

ASSUME PacketType     == MaxPacket \in Nat /\ MaxPacket < Word \div 2
ASSUME ScriptsType    == Scripts \subseteq Seq(Packets)
ASSUME ThresholdsType == Uncompressed \notin Nat /\ Thresholds \subseteq Nat \cup {Uncompressed}
ASSUME SwitchType     == Interruptible \in BOOLEAN /\ Encrypted \subseteq BOOLEAN
ASSUME BoundsType     == BlockLen \in Nat \ {0} /\ MaxWrites \in Nat /\ Cut \subseteq Scripts

\* Bytes are made of bits, so that combining two yields another.
ASSUME CipherType == /\ EncryptBlock \in [Registers -> Octets]
                     /\ \A a, b \in Octets : Xor[a][b] \in Octets

VARIABLES
  threshold,  \* Connection.compression_threshold
  encrypted,  \* Transport::Encrypted
  script,     \* the packets the sender has still to write
  todo,       \* what write_all has not handed over of the sender's current frame
  pending,    \* EncryptedStream.write_pending of the sender
  encrypt,    \* the register of the sender's EncryptedStream.encrypt
  wire,       \* symbols the socket took and the reader has not read yet
  decrypt,    \* the register of the reader's EncryptedStream.decrypt
  reader,     \* the read_frame future: its stage, the body length, what it has read
  handled,    \* the packets read_packet has returned
  failed,     \* read_packet returned an error: the connection ends
  sent,       \* the packets the sender has begun to write
  writes      \* packets the reading side wrote (bounds the model only)

fixed  == <<threshold, encrypted>>
sender == <<script, todo, pending, encrypt, sent>>
vars   == <<fixed, sender, wire, decrypt, reader, handled, failed, writes>>

-----------------------------------------------------------------------------
(* Frames *)

AnnouncedSize(data) == Len(data)

\* The body write_frame puts after the length.
Body(data) ==
  IF threshold = Uncompressed THEN data
  ELSE IF Len(data) >= threshold THEN VarInt(AnnouncedSize(data)) \o Deflate(data)
  ELSE VarInt(0) \o data

Data(p)  == VarInt(p.id) \o p.payload
Framed(body) == VarInt(Len(body)) \o body

Invalid == <<>>

\* The packet data in a frame's body, Invalid where read_frame returns an error.
Inflate(body) ==
  LET n == VarIntLen(body)
      size == Value(SubSeq(body, 1, n))
      rest == SubSeq(body, n + 1, Len(body))
  IN  IF threshold = Uncompressed THEN body
      ELSE IF n = 0 THEN Invalid
      ELSE IF size = 0 THEN rest
      ELSE IF size \in 1 .. MaxPacket /\ Len(rest) = 1 /\ rest[1].byte = 0
              /\ Len(rest[1].deflated) = size
           THEN rest[1].deflated
      ELSE Invalid

Packet(data) ==
  LET n == VarIntLen(data)
  IN  [id |-> Value(SubSeq(data, 1, n)), payload |-> SubSeq(data, n + 1, Len(data))]

-----------------------------------------------------------------------------
Fresh == [stage |-> "length", size |-> 0, got |-> <<>>]

Init ==
  /\ threshold \in Thresholds
  /\ encrypted \in Encrypted
  /\ script \in Scripts
  /\ todo = <<>>
  /\ pending = <<>>
  /\ encrypt = Secret
  /\ wire = <<>>
  /\ decrypt = Secret
  /\ reader = Fresh
  /\ handled = <<>>
  /\ failed = FALSE
  /\ sent = <<>>
  /\ writes = 0

-----------------------------------------------------------------------------
(* The sender: write_packet *)

\* write_frame begins once the one before it was written and flushed.
StartFrame ==
  /\ script # <<>>
  /\ todo = <<>>
  /\ pending = <<>>
  /\ \E body \in {Body(Data(Head(script)))} : todo' = Framed(body)
  /\ sent' = Append(sent, Head(script))
  /\ script' = Tail(script)
  /\ UNCHANGED <<fixed, pending, encrypt, wire, decrypt, reader, handled, failed, writes>>

\* How much of n symbols the socket may take: between least and all of them.
Taken(least, n) == IF sent \o script \in Cut THEN least .. n ELSE {n}

\* A plain socket takes some of what write_all offers it.
WritePlain ==
  /\ ~encrypted
  /\ todo # <<>>
  /\ \E n \in Taken(1, Len(todo)) :
       /\ wire' = wire \o SubSeq(todo, 1, n)
       /\ todo' = SubSeq(todo, n + 1, Len(todo))
  /\ UNCHANGED <<fixed, script, pending, encrypt, sent, decrypt, reader, handled, failed, writes>>

\* Faulty variant: poll_write reports what the socket took, and write_all offers the
\* rest again.
OnlyFlushed(offered, flushed) == flushed

Accepted(offered, flushed) == offered

\* EncryptedStream::poll_write: the whole slice is encrypted, what the socket does not
\* take of it waits in write_pending.
WriteEncrypted ==
  /\ encrypted
  /\ todo # <<>>
  /\ \E step \in {Transform(TRUE, encrypt, todo)} :
       LET ready == pending \o step.out
       IN  \E n \in Taken(0, Len(ready)) :
             /\ wire' = wire \o SubSeq(ready, 1, n)
             /\ pending' = SubSeq(ready, n + 1, Len(ready))
             /\ todo' = SubSeq(todo, Accepted(Len(todo), n) + 1, Len(todo))
             /\ encrypt' = step.register
  /\ UNCHANGED <<fixed, script, sent, decrypt, reader, handled, failed, writes>>

\* EncryptedStream::poll_flush, after write_all.
Flush ==
  /\ todo = <<>>
  /\ pending # <<>>
  /\ \E n \in Taken(1, Len(pending)) :
       /\ wire' = wire \o SubSeq(pending, 1, n)
       /\ pending' = SubSeq(pending, n + 1, Len(pending))
  /\ UNCHANGED <<fixed, script, todo, encrypt, sent, decrypt, reader, handled, failed, writes>>

Write == StartFrame \/ WritePlain \/ WriteEncrypted \/ Flush

-----------------------------------------------------------------------------
(* The reader: read_packet *)

\* What a read of n symbols yields, and the register after it.
Arriving(n) ==
  IF encrypted THEN Transform(FALSE, decrypt, SubSeq(wire, 1, n))
  ELSE [out |-> SubSeq(wire, 1, n), register |-> decrypt]

\* read_frame ends: with a packet, after which the next read begins, or with an error.
Finish(body) ==
  \E data \in {Inflate(body)} :
    IF VarIntLen(data) > 0
    THEN /\ handled' = Append(handled, Packet(data))
         /\ reader' = Fresh
         /\ UNCHANGED failed
    ELSE /\ failed' = TRUE
         /\ UNCHANGED <<handled, reader>>

\* The length goes on after MaxDigits bytes, is negative, or is more than a frame may have.
Refused(got) ==
  IF IsLast(got[Len(got)]) THEN Value(got) \notin 0 .. MaxPacket ELSE Len(got) >= MaxDigits

\* One byte of the length arrives (read_varint_async).
ReadLength ==
  /\ ~failed
  /\ reader.stage = "length"
  /\ wire # <<>>
  /\ wire' = Tail(wire)
  /\ \E read \in {Arriving(1)} : \E got \in {reader.got \o read.out} :
       /\ decrypt' = read.register
       /\ \/ /\ Refused(got)
             /\ failed' = TRUE
             /\ UNCHANGED <<handled, reader>>
          \/ /\ ~Refused(got) /\ ~IsLast(got[Len(got)])
             /\ reader' = [reader EXCEPT !.got = got]
             /\ UNCHANGED <<handled, failed>>
          \/ /\ ~Refused(got) /\ IsLast(got[Len(got)])
             /\ IF Value(got) = 0 THEN Finish(<<>>)
                ELSE /\ reader' = [stage |-> "body", size |-> Value(got), got |-> <<>>]
                     /\ UNCHANGED <<handled, failed>>
  /\ UNCHANGED <<fixed, sender, writes>>

\* Faulty variant: read_exact waits for one byte too many.
OneMore(size, got) == size + 1 - Len(got)

Missing(size, got) == size - Len(got)

\* Some of the body arrives (read_exact): what is there of what is missing.
ReadBody ==
  /\ ~failed
  /\ reader.stage = "body"
  /\ wire # <<>>
  /\ LET want == Missing(reader.size, reader.got)
         n == IF Len(wire) < want THEN Len(wire) ELSE want
     IN  /\ wire' = SubSeq(wire, n + 1, Len(wire))
         /\ \E read \in {Arriving(n)} : \E got \in {reader.got \o read.out} :
              /\ decrypt' = read.register
              /\ IF n = want THEN Finish(got)
                 ELSE reader' = [reader EXCEPT !.got = got] /\ UNCHANGED <<handled, failed>>
  /\ UNCHANGED <<fixed, sender, writes>>

\* The reading side writes a packet, and then reads anew.  Before Play it does so
\* between two reads.  In Play, another branch of the select! (a frame in the channel,
\* the keep-alive timer) may be ready first, wherever the read stands.
WritePacket ==
  /\ Interruptible \/ reader = Fresh
  /\ ~failed
  /\ writes < MaxWrites
  /\ writes' = writes + 1
  /\ reader' = Fresh
  /\ UNCHANGED <<fixed, sender, wire, decrypt, handled, failed>>

Read == ReadLength \/ ReadBody

Next == Write \/ Read \/ WritePacket

\* The sender's task is polled when the socket takes bytes, the reader's when they arrive.
Spec == Init /\ [][Next]_vars /\ WF_vars(Write) /\ WF_vars(Read)

-----------------------------------------------------------------------------
(* Properties *)

TypeOK ==
  /\ threshold \in Thresholds
  /\ encrypted \in Encrypted
  /\ {todo, pending, wire} \subseteq Seq(Symbol)
  /\ {encrypt, decrypt} \subseteq [1 .. BlockLen -> 0 .. 2 * Base - 1]
  /\ reader \in [stage : {"length", "body"}, size : 0 .. MaxPacket, got : Seq(Symbol)]
  /\ reader.stage = "length" => Len(reader.got) < MaxDigits
  /\ reader.stage = "body" => Len(reader.got) < reader.size
  /\ sent \o script \in Scripts
  /\ failed \in BOOLEAN
  /\ writes \in 0 .. MaxWrites

\* However writes and reads are cut into segments, encrypted or not, and whatever else
\* the connection does meanwhile, the packets handled are those sent, unchanged, in
\* order, none skipped; the only packet refused is one too large for a frame.
FramesIntact ==
  /\ IsPrefix(handled, sent)
  /\ failed => /\ Len(handled) < Len(sent)
               /\ LET data == Data(sent[Len(handled) + 1])
                  IN  Len(Body(data)) > MaxPacket \/ Len(data) > MaxPacket

\* What waits in the buffers of an encrypted connection is, byte for byte, what CFB8
\* makes of the stream of frames since encryption began, as another implementation at
\* the other end expects it: no frame, partial write or flush restarts it.
WireIsCfb8 ==
  encrypted =>
    LET frames == FlattenSeq([i \in DOMAIN sent |-> Framed(Body(Data(sent[i])))])
        stream == Cfb8(SubSeq(frames, 1, Len(frames) - Len(todo)))
        queued == wire \o pending
    IN  queued = SubSeq(stream, Len(stream) - Len(queued) + 1, Len(stream))

\* Every packet sent is handled, unless one was refused: the server never waits
\* for a byte that will not come.
EveryFrameHandled ==
  \A n \in 1 .. 3 : Len(sent) >= n ~> Len(handled) >= n \/ failed
=============================================================================
