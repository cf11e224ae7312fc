---------------------------- MODULE PacketStream ----------------------------
(***************************************************************************)
(* The packets of the protocol over the byte stream: FrameReader with the  *)
(* layouts of LoginPackets and PlayPackets.  A packet is written by its    *)
(* encoder, framed, encrypted and cut up by the sender; the receiver knows *)
(* the state of the connection and the direction, takes the id for one of  *)
(* the packets of those, and runs that packet's decoder.                   *)
(***************************************************************************)
EXTENDS FrameReader, LoginPackets, PlayPackets

CONSTANT Samples  \* bound: packets that travel, [group, packet, value]

\* The packets that may travel in a state and a direction, whose ids are told apart.
Groups ==
  [serverbound_handshake     |-> ServerboundHandshake,
   serverbound_status        |-> ServerboundStatus,
   clientbound_status        |-> ClientboundStatus,
   serverbound_login         |-> ServerboundLogin,
   clientbound_login         |-> ClientboundLogin,
   serverbound_configuration |-> ServerboundConfiguration,
   clientbound_configuration |-> ClientboundConfiguration,
   serverbound_play          |-> ServerboundPlay,
   clientbound_play          |-> ClientboundPlay]

\* Packet::to_payload: what write_packet is given.
Encoded(sample) ==
  [id |-> sample.packet.id, payload |-> Put(sample.packet.encode, sample.value)]

\* The packets of a group that a handled packet may be taken for.
Known(group, p) == {i \in DOMAIN Groups[group] : Groups[group][i].id = p.id}

-----------------------------------------------------------------------------
(* Properties *)

Encodings == [i \in DOMAIN Samples |-> Encoded(Samples[i])]

\* Whatever packet of the protocol was sent, its receiver takes it for that packet and no
\* other, and its decoder gives back every field, with no byte left over: encoders and
\* decoders agree on ids, order, widths, signs, counts and what is optional.
PacketsUnderstood ==
  \A i \in DOMAIN handled : \A k \in DOMAIN Samples :
    sent[i] = Encodings[k] =>
      \E known \in DOMAIN Groups[Samples[k].group] :
        /\ Known(Samples[k].group, handled[i]) = {known}
        /\ Take(Groups[Samples[k].group][known].decode, handled[i].payload)
             = Got(Samples[k].value, <<>>)
=============================================================================
