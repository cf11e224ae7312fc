---------------------------- MODULE PlayPackets -----------------------------
(***************************************************************************)
(* The packets of the Play state (loadstone-protocol packets/play.rs): the *)
(* id, the fields encode writes and the fields decode reads, in their      *)
(* order.  A packed position travels as an i64, which the code packs and   *)
(* unpacks where it uses it.                                               *)
(***************************************************************************)
EXTENDS PacketLayouts

-----------------------------------------------------------------------------
(* Server to client *)

EncodeSpawnInfo ==
  VarI(<<"dimension_id">>) \o Str(<<"dimension_name">>) \o I64(<<"hashed_seed">>)
     \o I8(<<"gamemode">>) \o U8(<<"previous_gamemode">>) \o Bool(<<"is_debug", "is_flat">>)
     \o Maybe("death", Str(<<"dimension">>) \o I64(<<"location">>))
     \o VarI(<<"portal_cooldown", "sea_level">>)

DecodeSpawnInfo ==
  VarI(<<"dimension_id">>) \o Str(<<"dimension_name">>) \o I64(<<"hashed_seed">>)
     \o I8(<<"gamemode">>) \o U8(<<"previous_gamemode">>) \o Bool(<<"is_debug", "is_flat">>)
     \o Maybe("death", Str(<<"dimension">>) \o I64(<<"location">>))
     \o VarI(<<"portal_cooldown", "sea_level">>)

PlayLogin == [id |-> \h30,
  encode |-> I32(<<"entity_id">>) \o Bool(<<"is_hardcore">>)
     \o List("world_names", Str(<<"name">>))
     \o VarI(<<"max_players", "view_distance", "simulation_distance">>)
     \o Bool(<<"reduced_debug_info", "enable_respawn_screen", "do_limited_crafting">>)
     \o EncodeSpawnInfo \o Bool(<<"enforces_secure_chat">>),
  decode |-> I32(<<"entity_id">>) \o Bool(<<"is_hardcore">>)
     \o List("world_names", Str(<<"name">>))
     \o VarI(<<"max_players", "view_distance", "simulation_distance">>)
     \o Bool(<<"reduced_debug_info", "enable_respawn_screen", "do_limited_crafting">>)
     \o DecodeSpawnInfo \o Bool(<<"enforces_secure_chat">>)]

PlayKeepAlive == [id |-> \h2B,
  encode |-> I64(<<"keep_alive_id">>),
  decode |-> I64(<<"keep_alive_id">>)]

ChunkBatchStart == [id |-> \h0C, encode |-> <<>>, decode |-> <<>>]

ChunkBatchFinished == [id |-> \h0B,
  encode |-> VarI(<<"batch_size">>),
  decode |-> VarI(<<"batch_size">>)]

SetChunkCacheCenter == [id |-> \h5C,
  encode |-> VarI(<<"chunk_x", "chunk_z">>),
  decode |-> VarI(<<"chunk_x", "chunk_z">>)]

\* Faulty variant: a decoder that reads x before z.
XBeforeZ == [id |-> \h25, encode |-> I32(<<"chunk_z", "chunk_x">>),
             decode |-> I32(<<"chunk_x", "chunk_z">>)]

UnloadChunk == [id |-> \h25,
  encode |-> I32(<<"chunk_z", "chunk_x">>),
  decode |-> I32(<<"chunk_z", "chunk_x">>)]

MapChunk == [id |-> \h2C,
  encode |-> I32(<<"x", "z">>)
     \o List("heightmaps", VarI(<<"ty">>) \o List("data", I64(<<"word">>)))
     \o Buf(<<"chunk_data">>)
     \o List("block_entities", U8(<<"packed_xz">>) \o I16(<<"y">>) \o VarI(<<"ty">>) \o
            Nbt(<<"nbt_data">>))
     \o List("sky_light_mask", I64(<<"word">>)) \o List("block_light_mask", I64(<<"word">>))
     \o List("empty_sky_light_mask", I64(<<"word">>))
     \o List("empty_block_light_mask", I64(<<"word">>)) \o List("sky_light", Buf(<<"section">>))
     \o List("block_light", Buf(<<"section">>)),
  decode |-> I32(<<"x", "z">>)
     \o List("heightmaps", VarI(<<"ty">>) \o List("data", I64(<<"word">>)))
     \o Buf(<<"chunk_data">>)
     \o List("block_entities", U8(<<"packed_xz">>) \o I16(<<"y">>) \o VarI(<<"ty">>) \o
            Nbt(<<"nbt_data">>))
     \o List("sky_light_mask", I64(<<"word">>)) \o List("block_light_mask", I64(<<"word">>))
     \o List("empty_sky_light_mask", I64(<<"word">>))
     \o List("empty_block_light_mask", I64(<<"word">>)) \o List("sky_light", Buf(<<"section">>))
     \o List("block_light", Buf(<<"section">>))]

BlockChange == [id |-> \h08,
  encode |-> Position(<<"location">>) \o VarI(<<"block_state">>),
  decode |-> Position(<<"location">>) \o VarI(<<"block_state">>)]

SpawnPosition == [id |-> \h5F,
  encode |-> Str(<<"dimension_name">>) \o Position(<<"position">>) \o F32(<<"yaw", "pitch">>),
  decode |-> Str(<<"dimension_name">>) \o Position(<<"position">>) \o F32(<<"yaw", "pitch">>)]

ClientPosition == [id |-> \h46,
  encode |-> VarI(<<"teleport_id">>) \o F64(<<"x", "y", "z", "dx", "dy", "dz">>)
     \o F32(<<"yaw", "pitch">>) \o I32(<<"flags">>),
  decode |-> VarI(<<"teleport_id">>) \o F64(<<"x", "y", "z", "dx", "dy", "dz">>)
     \o F32(<<"yaw", "pitch">>) \o I32(<<"flags">>)]

\* What an entry of the tab list may have, in the order of the bits of the mask.  Every
\* entry has the first; the decoder expects of each what any of them has.
EntryParts == <<
  [name |-> "add_player", of |-> Str(<<"name">>)
     \o List("properties", Str(<<"name", "value">>) \o Maybe("signature", Str(<<"signature">>)))],
  [name |-> "initialize_chat", of |->
     Maybe("session", Uuid(<<"session_id">>) \o I64(<<"expires_at_millis">>)
                        \o Buf(<<"public_key", "public_key_signature">>))],
  [name |-> "gamemode",      of |-> VarI(<<"gamemode">>)],
  [name |-> "listed",        of |-> VarI(<<"listed">>)],
  [name |-> "latency",       of |-> VarI(<<"latency">>)],
  [name |-> "display_name",  of |-> Maybe("component", Component(<<"component">>))],
  [name |-> "list_priority", of |-> VarI(<<"list_priority">>)],
  [name |-> "show_hat",      of |-> Bool(<<"show_hat">>)]>>

PlayerInfoUpdate == [id |-> \h44,
  encode |-> Masked("entries", Uuid(<<"uuid">>), EntryParts),
  decode |-> Masked("entries", Uuid(<<"uuid">>), EntryParts)]

Abilities == [id |-> \h3E,
  encode |-> I8(<<"flags">>) \o F32(<<"flying_speed", "walking_speed">>),
  decode |-> I8(<<"flags">>) \o F32(<<"flying_speed", "walking_speed">>)]

UpdateHealth == [id |-> \h66,
  encode |-> F32(<<"health">>) \o VarI(<<"food">>) \o F32(<<"food_saturation">>),
  decode |-> F32(<<"health">>) \o VarI(<<"food">>) \o F32(<<"food_saturation">>)]

Experience == [id |-> \h65,
  encode |-> F32(<<"experience_bar">>) \o VarI(<<"level", "total_experience">>),
  decode |-> F32(<<"experience_bar">>) \o VarI(<<"level", "total_experience">>)]

UpdateTime == [id |-> \h6F,
  encode |-> I64(<<"age", "time">>) \o Bool(<<"tick_day_time">>),
  decode |-> I64(<<"age", "time">>) \o Bool(<<"tick_day_time">>)]

ServerData == [id |-> \h54,
  encode |-> Component(<<"motd">>) \o Maybe("icon", Buf(<<"icon">>)),
  decode |-> Component(<<"motd">>) \o Maybe("icon", Buf(<<"icon">>))]

SystemChat == [id |-> \h77,
  encode |-> Rest(<<"content">>) \o Bool(<<"is_action_bar">>),
  decode |-> ButOne(<<"content">>) \o Bool(<<"is_action_bar">>)]

PlayPing == [id |-> \h3B, encode |-> I32(<<"id">>), decode |-> I32(<<"id">>)]

PlayPong == [id |-> \h3C, encode |-> I64(<<"id">>), decode |-> I64(<<"id">>)]

PlayDisconnect == [id |-> \h20,
  encode |-> Rest(<<"reason">>),
  decode |-> Rest(<<"reason">>)]

SpawnEntity == [id |-> \h01,
  encode |-> VarI(<<"entity_id">>) \o Uuid(<<"uuid">>) \o VarI(<<"entity_type">>)
     \o F64(<<"x", "y", "z">>) \o Velocity(<<"velocity">>) \o I8(<<"pitch", "yaw", "head_yaw">>)
     \o VarI(<<"data">>),
  decode |-> VarI(<<"entity_id">>) \o Uuid(<<"uuid">>) \o VarI(<<"entity_type">>)
     \o F64(<<"x", "y", "z">>) \o Velocity(<<"velocity">>) \o I8(<<"pitch", "yaw", "head_yaw">>)
     \o VarI(<<"data">>)]

RemoveEntities == [id |-> \h4B,
  encode |-> List("entity_ids", VarI(<<"id">>)),
  decode |-> List("entity_ids", VarI(<<"id">>))]

PlayerRemove == [id |-> \h43,
  encode |-> List("players", Uuid(<<"uuid">>)),
  decode |-> List("players", Uuid(<<"uuid">>))]

SyncEntityPosition == [id |-> \h23,
  encode |-> VarI(<<"entity_id">>) \o F64(<<"x", "y", "z", "vx", "vy", "vz">>)
     \o F32(<<"yaw", "pitch">>) \o Bool(<<"on_ground">>),
  decode |-> VarI(<<"entity_id">>) \o F64(<<"x", "y", "z", "vx", "vy", "vz">>)
     \o F32(<<"yaw", "pitch">>) \o Bool(<<"on_ground">>)]

EntityHeadRotation == [id |-> \h51,
  encode |-> VarI(<<"entity_id">>) \o I8(<<"head_yaw">>),
  decode |-> VarI(<<"entity_id">>) \o I8(<<"head_yaw">>)]

EntityLook == [id |-> \h36,
  encode |-> VarI(<<"entity_id">>) \o I8(<<"yaw", "pitch">>) \o Bool(<<"on_ground">>),
  decode |-> VarI(<<"entity_id">>) \o I8(<<"yaw", "pitch">>) \o Bool(<<"on_ground">>)]

EntityMetadata == [id |-> \h61,
  encode |-> VarI(<<"entity_id">>) \o Rest(<<"blob">>),
  decode |-> VarI(<<"entity_id">>) \o Rest(<<"blob">>)]

BundleDelimiter == [id |-> \h00, encode |-> <<>>, decode |-> <<>>]

ClientboundPlay == <<PlayLogin, PlayKeepAlive, ChunkBatchStart, ChunkBatchFinished,
  SetChunkCacheCenter, UnloadChunk, MapChunk, BlockChange, SpawnPosition, ClientPosition,
  PlayerInfoUpdate, Abilities, UpdateHealth, Experience, UpdateTime, ServerData,
  SystemChat, PlayPing, PlayPong, PlayDisconnect, SpawnEntity, RemoveEntities,
  PlayerRemove, SyncEntityPosition, EntityHeadRotation, EntityLook, EntityMetadata,
  BundleDelimiter>>

-----------------------------------------------------------------------------
(* Client to server *)

PlayKeepAliveResponse == [id |-> \h1B,
  encode |-> I64(<<"keep_alive_id">>),
  decode |-> I64(<<"keep_alive_id">>)]

ChatMessage == [id |-> \h08,
  encode |-> Str(<<"message">>) \o I64(<<"timestamp", "salt">>)
     \o Maybe("signature", Signature(<<"signature">>)) \o VarI(<<"offset">>)
     \o U8(<<"seen1", "seen2", "seen3", "checksum">>),
  decode |-> Str(<<"message">>) \o I64(<<"timestamp", "salt">>)
     \o Maybe("signature", Signature(<<"signature">>)) \o VarI(<<"offset">>)
     \o U8(<<"seen1", "seen2", "seen3", "checksum">>)]

ChatCommand == [id |-> \h06, encode |-> Str(<<"command">>), decode |-> Str(<<"command">>)]

ChatCommandSigned == [id |-> \h07,
  encode |-> Str(<<"command">>) \o I64(<<"timestamp", "salt">>)
     \o List("argument_signatures", Str(<<"name">>) \o Signature(<<"signature">>))
     \o VarI(<<"message_count">>) \o U8(<<"seen1", "seen2", "seen3">>) \o I8(<<"checksum">>),
  decode |-> Str(<<"command">>) \o I64(<<"timestamp", "salt">>)
     \o List("argument_signatures", Str(<<"name">>) \o Signature(<<"signature">>))
     \o VarI(<<"message_count">>) \o U8(<<"seen1", "seen2", "seen3">>) \o I8(<<"checksum">>)]

ChatSessionUpdate == [id |-> \h09,
  encode |-> Uuid(<<"session_uuid">>) \o I64(<<"expire_time">>)
     \o Buf(<<"public_key", "signature">>),
  decode |-> Uuid(<<"session_uuid">>) \o I64(<<"expire_time">>)
     \o Buf(<<"public_key", "signature">>)]

PlayerLoaded == [id |-> \h2B, encode |-> <<>>, decode |-> <<>>]

ChunkBatchReceived == [id |-> \h0A,
  encode |-> F32(<<"chunks_per_tick">>),
  decode |-> F32(<<"chunks_per_tick">>)]

TeleportConfirm == [id |-> \h00,
  encode |-> VarI(<<"teleport_id">>),
  decode |-> VarI(<<"teleport_id">>)]

PlayerPosition == [id |-> \h1D,
  encode |-> F64(<<"x", "y", "z">>) \o U8(<<"flags">>),
  decode |-> F64(<<"x", "y", "z">>) \o U8(<<"flags">>)]

PlayerPositionLook == [id |-> \h1E,
  encode |-> F64(<<"x", "y", "z">>) \o F32(<<"yaw", "pitch">>) \o U8(<<"flags">>),
  decode |-> F64(<<"x", "y", "z">>) \o F32(<<"yaw", "pitch">>) \o U8(<<"flags">>)]

PlayerLook == [id |-> \h1F,
  encode |-> F32(<<"yaw", "pitch">>) \o U8(<<"flags">>),
  decode |-> F32(<<"yaw", "pitch">>) \o U8(<<"flags">>)]

PlayerFlying == [id |-> \h20, encode |-> U8(<<"flags">>), decode |-> U8(<<"flags">>)]

PingRequest == [id |-> \h25, encode |-> I64(<<"id">>), decode |-> I64(<<"id">>)]

PlayPongResponse == [id |-> \h2C, encode |-> I32(<<"id">>), decode |-> I32(<<"id">>)]

MessageAcknowledgement == [id |-> \h05,
  encode |-> VarI(<<"count">>),
  decode |-> VarI(<<"count">>)]

ClientCommand == [id |-> \h0B,
  encode |-> VarI(<<"action_id">>),
  decode |-> VarI(<<"action_id">>)]

PlayConfigurationAcknowledged == [id |-> \h0F, encode |-> <<>>, decode |-> <<>>]

ClientCustomPayload == [id |-> \h15,
  encode |-> Str(<<"channel">>) \o Rest(<<"data">>),
  decode |-> Str(<<"channel">>) \o Rest(<<"data">>)]

TickEnd == [id |-> \h0C, encode |-> <<>>, decode |-> <<>>]

ArmAnimation == [id |-> \h3C, encode |-> VarI(<<"hand">>), decode |-> VarI(<<"hand">>)]

PlayerAbilities == [id |-> \h27, encode |-> I8(<<"flags">>), decode |-> I8(<<"flags">>)]

BlockDig == [id |-> \h28,
  encode |-> VarI(<<"status">>) \o Position(<<"location">>) \o I8(<<"face">>)
     \o VarI(<<"sequence">>),
  decode |-> VarI(<<"status">>) \o Position(<<"location">>) \o I8(<<"face">>)
     \o VarI(<<"sequence">>)]

EntityAction == [id |-> \h29,
  encode |-> VarI(<<"entity_id", "action_id", "jump_boost">>),
  decode |-> VarI(<<"entity_id", "action_id", "jump_boost">>)]

BlockPlace == [id |-> \h3F,
  encode |-> VarI(<<"hand">>) \o Position(<<"location">>) \o VarI(<<"direction">>)
     \o F32(<<"cursor_x", "cursor_y", "cursor_z">>)
     \o Bool(<<"inside_block", "world_border_hit">>) \o VarI(<<"sequence">>),
  decode |-> VarI(<<"hand">>) \o Position(<<"location">>) \o VarI(<<"direction">>)
     \o F32(<<"cursor_x", "cursor_y", "cursor_z">>)
     \o Bool(<<"inside_block", "world_border_hit">>) \o VarI(<<"sequence">>)]

UseItem == [id |-> \h40,
  encode |-> VarI(<<"hand", "sequence">>) \o F32(<<"rotation_x", "rotation_y">>),
  decode |-> VarI(<<"hand", "sequence">>) \o F32(<<"rotation_x", "rotation_y">>)]

HeldItemSlot == [id |-> \h34,
  encode |-> I16(<<"slot_id">>),
  decode |-> I16(<<"slot_id">>)]

ServerboundPlay == <<PlayKeepAliveResponse, ChatMessage, ChatCommand, ChatCommandSigned,
  ChatSessionUpdate, PlayerLoaded, ChunkBatchReceived, TeleportConfirm, PlayerPosition,
  PlayerPositionLook, PlayerLook, PlayerFlying, PingRequest, PlayPongResponse,
  MessageAcknowledgement, ClientCommand, PlayConfigurationAcknowledged,
  ClientCustomPayload, TickEnd, ArmAnimation, PlayerAbilities, BlockDig, EntityAction,
  BlockPlace, UseItem, HeldItemSlot>>
=============================================================================
