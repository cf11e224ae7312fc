---------------------------- MODULE LoginPackets ----------------------------
(***************************************************************************)
(* The packets of the states before Play (loadstone-protocol               *)
(* packets/handshake.rs, status.rs, login.rs, configuration.rs): the id,   *)
(* the fields encode writes and the fields decode reads, in their order.   *)
(* A sequence of packets for each state and direction: ids repeat between  *)
(* them.                                                                   *)
(***************************************************************************)
EXTENDS PacketLayouts

-----------------------------------------------------------------------------
(* Handshake, client to server *)

\* encode goes through an i16: the same two bytes.
Handshake == [id |-> \h00,
  encode |-> VarI(<<"protocol_version">>) \o Str(<<"server_address">>) \o U16(<<"server_port">>)
     \o VarI(<<"next_state">>),
  decode |-> VarI(<<"protocol_version">>) \o Str(<<"server_address">>) \o U16(<<"server_port">>)
     \o VarI(<<"next_state">>)]

ServerboundHandshake == <<Handshake>>

-----------------------------------------------------------------------------
(* Status, client to server *)

StatusRequest == [id |-> \h00, encode |-> <<>>, decode |-> <<>>]

StatusPingRequest == [id |-> \h01,
  encode |-> I64(<<"payload">>),
  decode |-> I64(<<"payload">>)]

ServerboundStatus == <<StatusRequest, StatusPingRequest>>

-----------------------------------------------------------------------------
(* Status, server to client *)

StatusResponse == [id |-> \h00, encode |-> Str(<<"json">>), decode |-> Str(<<"json">>)]

\* PongResponse is PingRequest.
ClientboundStatus == <<StatusResponse, StatusPingRequest>>

-----------------------------------------------------------------------------
(* Login, client to server *)

LoginStart == [id |-> \h00,
  encode |-> Str(<<"name">>) \o Uuid(<<"uuid">>),
  decode |-> Str(<<"name">>) \o Uuid(<<"uuid">>)]

EncryptionResponse == [id |-> \h01,
  encode |-> Buf(<<"shared_secret", "verify_token">>),
  decode |-> Buf(<<"shared_secret", "verify_token">>)]

LoginAcknowledged == [id |-> \h03, encode |-> <<>>, decode |-> <<>>]

ServerboundLogin == <<LoginStart, EncryptionResponse, LoginAcknowledged>>

-----------------------------------------------------------------------------
(* Login, server to client *)

LoginDisconnect == [id |-> \h00,
  encode |-> Str(<<"reason">>),
  decode |-> Str(<<"reason">>)]

EncryptionRequest == [id |-> \h01,
  encode |-> Str(<<"server_id">>) \o Buf(<<"public_key", "verify_token">>)
     \o Bool(<<"should_authenticate">>),
  decode |-> Str(<<"server_id">>) \o Buf(<<"public_key", "verify_token">>)
     \o Bool(<<"should_authenticate">>)]

LoginSuccess == [id |-> \h02,
  encode |-> Uuid(<<"uuid">>) \o Str(<<"username">>)
     \o List("properties", Str(<<"name", "value">>) \o Maybe("signature", Str(<<"signature">>))),
  decode |-> Uuid(<<"uuid">>) \o Str(<<"username">>)
     \o List("properties", Str(<<"name", "value">>) \o Maybe("signature", Str(<<"signature">>)))]

SetCompression == [id |-> \h03,
  encode |-> VarI(<<"threshold">>),
  decode |-> VarI(<<"threshold">>)]

ClientboundLogin == <<LoginDisconnect, EncryptionRequest, LoginSuccess, SetCompression>>

-----------------------------------------------------------------------------
(* Configuration, client to server *)

ClientInformation == [id |-> \h00,
  encode |-> Str(<<"locale">>) \o I8(<<"view_distance">>) \o VarI(<<"chat_flags">>)
     \o Bool(<<"chat_colors">>) \o U8(<<"skin_parts">>) \o VarI(<<"main_hand">>)
     \o Bool(<<"text_filtering", "server_listing">>) \o VarI(<<"particle_status">>),
  decode |-> Str(<<"locale">>) \o I8(<<"view_distance">>) \o VarI(<<"chat_flags">>)
     \o Bool(<<"chat_colors">>) \o U8(<<"skin_parts">>) \o VarI(<<"main_hand">>)
     \o Bool(<<"text_filtering", "server_listing">>) \o VarI(<<"particle_status">>)]

WriteKnownPack == Str(<<"namespace", "id", "version">>)
ReadKnownPack  == Str(<<"namespace", "id", "version">>)

ServerboundKnownPacks == [id |-> \h07,
  encode |-> List("packs", WriteKnownPack),
  decode |-> List("packs", ReadKnownPack)]

AcknowledgeFinishConfiguration == [id |-> \h03, encode |-> <<>>, decode |-> <<>>]

ConfigurationKeepAliveResponse == [id |-> \h04,
  encode |-> I64(<<"id">>),
  decode |-> I64(<<"id">>)]

ConfigurationPong == [id |-> \h05, encode |-> I32(<<"id">>), decode |-> I32(<<"id">>)]

ServerboundConfiguration == <<ClientInformation, ServerboundKnownPacks,
  AcknowledgeFinishConfiguration, ConfigurationKeepAliveResponse, ConfigurationPong>>

-----------------------------------------------------------------------------
(* Configuration, server to client *)

CustomPayload == [id |-> \h01,
  encode |-> Str(<<"channel">>) \o Buf(<<"data">>),
  decode |-> Str(<<"channel">>) \o Buf(<<"data">>)]

ConfigurationDisconnect == [id |-> \h02,
  encode |-> Rest(<<"reason">>),
  decode |-> Rest(<<"reason">>)]

FinishConfiguration == [id |-> \h03, encode |-> <<>>, decode |-> <<>>]

ConfigurationKeepAlive == [id |-> \h04,
  encode |-> I64(<<"id">>),
  decode |-> I64(<<"id">>)]

ConfigurationPing == [id |-> \h05, encode |-> I32(<<"id">>), decode |-> I32(<<"id">>)]

RegistryData == [id |-> \h07,
  encode |-> Str(<<"registry_id">>) \o List("entries", Str(<<"name">>) \o Nbt(<<"data">>)),
  decode |-> Str(<<"registry_id">>) \o List("entries", Str(<<"name">>) \o Nbt(<<"data">>))]

FeatureFlags == [id |-> \h0C,
  encode |-> List("features", Str(<<"feature">>)),
  decode |-> List("features", Str(<<"feature">>))]

UpdateTags == [id |-> \h0D,
  encode |-> List("registries", Str(<<"registry">>) \o List("tags", Str(<<"name">>) \o
            List("entries", VarI(<<"id">>)))),
  decode |-> List("registries", Str(<<"registry">>) \o List("tags", Str(<<"name">>) \o
            List("entries", VarI(<<"id">>))))]

ClientboundKnownPacks == [id |-> \h0E,
  encode |-> List("packs", WriteKnownPack),
  decode |-> List("packs", ReadKnownPack)]

ClientboundConfiguration == <<CustomPayload, ConfigurationDisconnect,
  FinishConfiguration, ConfigurationKeepAlive, ConfigurationPing, RegistryData,
  FeatureFlags, UpdateTags, ClientboundKnownPacks>>
=============================================================================
