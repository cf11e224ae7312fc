# LoadstoneMC in TLA+

A verification development for LoadstoneMC, a Minecraft server in Rust. The
modules model the parts of the server where several actors meet: the connections'
tasks, their clients, the autosave, the operator and the disk. TLC checks them on
small instances; TLAPS proves the theorems of the `...Proofs` modules for every
instance. `PROJECT.json` lists the runs, the mutants each property was tried
against, the source lines behind every definition, the hazards and the findings.

    tlasany M.tla                          parse
    tlc -workers 2 -config X.cfg M         model-check
    tlapm MProofs.tla                      check the proofs about M

## The system

One process on a multi-threaded tokio runtime. `main.rs` loads the world, starts an
autosave task and a mob ticker, and spawns one task per accepted connection. The
shared state is three mutexes, none held across an await: the player registry
(`ServerState`), the world (`World`) and the mobs (`EntityStore`). Tasks talk to one
another only through the unbounded channel each registry entry holds.

| Component | State | Operations | Talks to |
|---|---|---|---|
| Play sessions (`play.rs`) | registry entry, channel, view | register, introduce, move, dig, place, stream chunks, leave | registry, world, other sessions' channels |
| Connection lifecycle (`connection.rs`) | position in the protocol, transport, threshold | handshake, status, login, configuration | client, session server |
| Framing (`codec.rs`) | a half-read frame | read, write, cancelled read | client's byte stream |
| Encryption (`crypto.rs`) | two cipher registers, unsent ciphertext | encrypt on write, decrypt on read, flush | transport |
| Keys, session check (`auth.rs`) | none | decrypt, digest, ask `hasJoined` | session server |
| World (`world.rs`, `anvil.rs`) | cached chunks, dirty set, region files, seed file | generate, edit, save, load | sessions, mobs, disk |
| Mobs (`entity.rs`, `tick_entities`) | positions, who sees which mob | tick | world, registry, channels |
| Start and stop (`main.rs`) | phase of the process | load, autosave, signal, final save | world, properties, logs |
| Properties, logs, EULA | three files | load, save, rotate, agree | operator, other processes |
| Packets, NBT, chunks, terrain, registries | none | encode, decode, generate | everything above |

What makes it hard: the registry lock is released between registering and announcing
a player; an edit, its echo and its broadcast are three separate steps; channels
carry old news while snapshots are taken; a `select!` drops half-read frames; a save
is many file writes, each of which may stop half-way; a login switches cipher and
compression in mid-conversation; the cipher runs ahead of what the socket takes; the
mobs are stepped between two looks at the players; two processes may be started in one
directory; every write may fail and every client may leave at any await.

What makes each component correct:

- sessions: everybody sees exactly those who are in the world, where they are, and
  hears of nobody before their spawn or after their departure;
- edits: once edits cease, every client shows the world's blocks;
- world: what a completed save wrote survives any crash, and everything else is known
  to be at risk; every edit is saved in the end;
- framing, encryption: packets arrive unchanged and in order however the stream is cut;
- packets and chunks: decoders read what encoders wrote, to the last byte;
- mobs: a client is told of each mob in its view once, where it is, and of no other;
- start: files the operator cares for survive any number of starts and kills;
- lifecycle: both ends always read in the mode the other wrote in; only verified
  players get in; everybody else is told why not; Play starts after Configuration.

## Modules

| Module | Models | Composes |
|---|---|---|
| `PlayerRegistry` | registry, channels, sessions, what clients show | |
| `PlayerRegistryProofs` | theorems about it | `PlayerRegistry`, `CommonLemmas` |
| `BlockEdits` | dig, place, chunk snapshots, channels | |
| `BlockEditsProofs` | theorems about it | `BlockEdits`, `CommonLemmas` |
| `MobTicker` | mobs, the ticking task, views, channels | |
| `MobTickerProofs` | theorems about it | `MobTicker`, `CommonLemmas` |
| `DurableWorld` | abstract: what persistence promises | |
| `WorldStore` | chunks in memory, region files, seed file, saves, crashes | instantiates `DurableWorld` |
| `WorldStoreProofs` | theorems about it, the refinement among them, and about the two below | `SavedRegions`, `SavedColumns`, `CommonLemmas` |
| `Primitives`, `VarInts` | fields of packets, operators | |
| `NbtTags` | NBT tags, written, read, skipped | `Primitives` |
| `ChunkColumns` | sections, palettes, packing, height maps, the wire format | `Primitives` |
| `ChunkNbt` | a chunk as NBT | `ChunkColumns`, `NbtTags` |
| `RegionFiles` | a region file in sectors | `Primitives` |
| `SavedRegions` | the store down to the sectors of its files | `WorldStore`, `RegionFiles` |
| `SavedColumns` | the store down to the blocks of its chunks | `WorldStore`, `ChunkColumns` |
| `SavedWorld` | both, and the NBT in between | `SavedRegions`, `SavedColumns`, `ChunkNbt` |
| `ColumnView` | a column that changes and a client that is sent it | `ChunkColumns` |
| `StreamCipher` | CFB8 | |
| `FrameReader` | frames, partial writes, encryption, byte-wise reading | `VarInts`, instantiates `StreamCipher` |
| `FrameReaderProofs` | theorems about them | `FrameReader`, `CommonLemmas` |
| `PacketLayouts` | layouts of fields, writing and reading them | `NbtTags` |
| `LoginPackets`, `PlayPackets` | every packet: id, what `encode` writes, what `decode` reads | `PacketLayouts` |
| `PacketStream` | packets over the stream, told apart and decoded | `FrameReader`, the packets |
| `LoginFlow` | one connection from handshake to Play | |
| `LoginFlowProofs` | theorems about it | `LoginFlow` |
| `ServerFiles` | a start: log rotation, properties, agreement, port | |
| `ServerFilesProofs` | theorems about it | `ServerFiles`, `CommonLemmas` |
| `CommonLemmas` | lemmas several proofs need: extremes of finite sets of integers, induction, recursive functions, flattened sequences, quotients | |
| `MC...` | model values, samples and functions for TLC | one module each |

A definition named `...` under "Faulty variant" is not part of a specification: it is
the form a plausible mistake in the code would give its neighbour, and shows that the
properties notice.

### PlayerRegistry

A session is one run of `play_phase`; `pc` says where its task stands: `configuring`
(before it), `joining` (registered, lines 144-178), `announcing` (existing players
sent), `entering` (join broadcast), `playing` (the loop), `leaving` (`run_play` has
returned), `gone`. One action is what a task does under one acquisition of the
registry's mutex or between two, so any other task may act in between. A movement is
two steps, `RecordMovement` and then one `BroadcastExcept` per frame it leads to (a
sync, or a look and a head rotation). Frames queued under one lock are one message.
The client is part of the model: `entities` and `tab` are what it shows, and the
properties speak of what it will show once its channel is drained (`WillKnow`,
`WillShow`), so that they hold at every moment.

`Exclusive` says whether a player may log in while another session of the same player
is in the world. The code allows it. What needs `Exclusive = TRUE` is stated so.

- `rejoin` (three sessions of two players, one leaves and returns; two positions, two
  rotations, two movement frames): `MovementAfterSpawn`, `NobodyMissing`, `PosesConverge`,
  `TabListExact`, `StaysRegistered`.
- `shared_identity` (the same players, `Exclusive = FALSE`): `NoGhosts`, and the
  liveness properties `ReplacedSessionEnds` and `DepartedForgotten`.
- `logged_in_twice` is a finding: the first session's departure removes the entry of
  the second (`leave_world` removes by identity, play.rs:470).

### BlockEdits

Blocks are air or stone; a cell lies in a column, a player in a column with a view.
`Edit` is the critical section of the world mutex (test and set); `EchoAndBroadcast`
is what follows. `SendInitialChunks` and `StreamChunks` take snapshots of the world.
Writing the bodies of a snapshot is taken together with encoding them: only the
session's own task writes to its client, and the channel is not drained meanwhile.

`Contend = FALSE` is an assumption about players, not about the code: nobody edits a
cell while an earlier edit of it is on its way. Under it `block_edits` (three
sessions, three columns in a row with a view of two, three edits in the two columns to the
east, one border crossing, which may load a column that has been edited)
shows that snapshots and queued changes always add up: `NobodyLeftBehind`, and, once
edits stop, `ClientsConverge`. Without it `contended_edits` finds a client left with
the wrong block. `EchoMayFail` adds the case of a connection that dies between an edit
and its broadcast, which loses the broadcast; no run includes it.

### MobTicker

`ticker` is the task `spawn_entity_ticker` starts. A tick is three actions, one per lock
that `tick_entities` takes: `Observe` reads where players are, `StepMobs` moves the mobs,
`Stream` queues for every player the removals, spawns and movements it should hear of and
notes in `visible` what it knows from then on. Joining, walking, streaming chunks and
leaving may fall between any two of them. A mob's step is `Entity::step` on a row of
places: the nearest player in reach for a hostile one, otherwise the leash, otherwise a
walk that goes on, ends or starts, with a block in the way or not. The random numbers of
the walk are a choice. Height, gravity and steps below the threshold of `moved` are left
out.

- `MobsInOrder`: nothing is said of a mob a client does not know, and none is introduced
  twice.
- `ViewsExact`: `visible` is what the client will show, each mob where it is.
- `MobsAppear`, `MobsVanish`: the ticker goes by the registry's position and the loop by
  the frames it handles, so a mob may be introduced for a view that is not loaded yet or
  no longer. What stays in the loaded view is shown in the end, what stays out of it is
  dropped.

`mobs` has two mobs, one of them hostile, and one player who may leave and return. Players
meet in this component only as targets of the mobs, and a mob may choose among the
directions that one player or none gives it anyway, so a second player adds no other
behaviour to what one client is told.

### WorldStore, DurableWorld, SavedRegions, SavedColumns, SavedWorld

`phase` is the process (`down`, `running`, `stopping`, `final`, `exiting`); `todo` the
files the save under way has yet to write, regions in ascending order and the seed
file last. A save holds the world mutex throughout, so `Edit` and `Generate` wait for
it, while `Crash` and `SaveFails` may fall between any two files, or within one: `Torn`
is what `fs::write`, which truncates first, may leave of it (anvil.rs:140). Edits go on
during shutdown, as connections do. A start may find region files it cannot read
(main.rs:257) and may be given another seed than the saved one (main.rs:252).

`DurableWorld` has no files: a live world, a durable one, the set of chunks a crash would
set back (`risk`) and the part that is being written. The mapping reads the durable
world off the files (`Reloaded`). `AtRisk` is what the program and its operator know: the
dirty set, and the chunks of `suspect` files. `suspect` is a history variable: files whose
last write was cut short, or that the start could not read or overrode.

`world_store` (three chunks in two regions, two seeds, two edits, two starts, two faults)
checks that `WorldStore` implements `DurableWorld` (`ImplementsDurableWorld`): whatever
is not at risk is durable as players see it (`OnlyRiskedLost`), only the part being
written can get worse, and no edit stays at risk for ever (`EditsReachDisk`).

Three modules account for what `WorldStore` takes for granted. In `SavedRegions` a chunk has
a position and zlib makes some number of bytes of it: a file written for the chunks of a
region, stopped at any byte, must yield whole chunks of those and no others
(`RegionsReadBack`). In `SavedColumns` a chunk of the store stands for every column that its
terrain and any edits may make of it: the height map of every chunk in memory must be right
(`HeightsRight`). `SavedWorld` adds that what a region file holds comes back from its NBT as
it was (`ColumnsKept`). These are computed once for all columns and looked up in every state.

### ChunkColumns, ColumnView

A section keeps no array while it is all air, and a count of its other blocks: `Count`,
`State`, `HeightOf` and the encoders each rely on another one of the three.
`EncodeColumn` is `encode_chunk_column`; `DecodeColumn` is the decoder of the protocol
crate, which says that it reads what `encode.rs` writes. `chunk_wire` is a finding: it
does not. Every section carries a second count (encode.rs:90) that the decoder, tested
against a captured vanilla chunk, has no place for. The two packing schemes (whole values
per long against one stream of bits, encode.rs:68) are both here; they differ only for
widths that do not divide 64, which eight supported blocks do not reach.

### FrameReader, StreamCipher, PacketStream

A byte carries one of `Base` values and a continuation flag. `todo` is what `write_all`
has still to hand over of a frame, `pending` the ciphertext the socket did not take
(`write_pending`), `encrypt` and `decrypt` the two registers. The socket takes any part of
what it is offered; TCP delivers symbols one by one. `reader` is the future of
`read_frame`: its stage and what it has read. zlib turns a packet into one symbol. The
block cipher is some function of the whole register: CFB8 is right for any.

`frames` puts two values of every packet in `LoginPackets` and `PlayPackets` through this,
one negative and empty, one filled, with and without encryption, without compression
and with thresholds on both sides of the lengths, and frames at, below and above the
size limit. It checks that packets come out as they went in, refusing only what is too
large (`FramesIntact`); that what was put on the wire is CFB8 of the frames by its
definition, although it was encrypted in pieces (`WireIsCfb8`); that every packet is
taken for what it is and decoded to its fields with no byte left over
(`PacketsUnderstood`); and that none is waited for in vain (`EveryFrameHandled`).

A packet is a record of its id, the layout `encode` writes and the layout `decode` reads,
each from its own method in the code: the two are written separately and may disagree.

In Play the read is one branch of a `select!` (`Interruptible`). When another branch
wins, the future goes, and with it the bytes it had taken from the socket:
`frames_in_play` is a finding.

### LoginFlow

`server` is the await point of the connection's task, `out` the packets it has yet to
write before it reads again, `mode` whether it encrypts and compresses. Packets carry
the mode they were written in. All eight combinations of online mode, status and
compression are initial states. The client answers as a vanilla one does, with right
or wrong secrets, tokens, versions and packs, may send up to two unasked packets (among them
the acknowledgement of a Configuration state that has not ended), and may leave at any moment. TCP's reset of a connection closed over unread bytes is an
action (`Reset`).

`login` checks `Readable` (both switches, both directions), `OnlyVerifiedPlay`,
`PlayAfterConfiguration` and the liveness property `LoginAnswered`, which leaves out
clients that know no pack at all: the code waits for a second list for ever
(connection.rs:605). A client is `orderly` as long as it has sent nothing out of place: what
the server may count on from its packets is stated for such clients. One that acknowledges
early brings the server into Play at once; `PlayAfterConfiguration` then says that the rest of
the data and the end of the state (`RestQueued`) are in the socket already, ahead of any Play
packet, so that no client reads a Play packet in the Configuration state.

### ServerFiles

`proc` says at which step of `main` each process is. A start rolls `latest.log` aside
(look for a free name, rename, create: three steps), loads `server.properties`, truncates
and rewrites it, records or checks the agreement, and binds the port; a second process
in the same directory does all of that before it finds the port taken. `Kill` may fall
between any two steps. A properties file is a sequence of lines, and `Loaded` and `Rendered`
are what `properties.rs` does with them: `Parsed` takes one line after the other with
`Inserted`, `Completed` adds one missing default after the other, and `Unescape` reads a
value symbol by symbol, each as the loop of the code it stands for. `Meaning` says the same
the way an operator would, without a loop: the last line of a key counts.

`wanted`, `given`, `logged`, `agreed` are history variables: what the last author of the
properties chose and what any author has, which runs opened a log, whether the agreement was
written. Two more record what the code does not handle, as narrowly as it can be said. `risked`
holds runs: when a start comes to the logs while others are there, the log that is the latest
then and those of the starts that meet; and the log left in place by a rename that failed.
`doubt` holds files: the properties after a kill in the middle of their write, a start that
read them while another one rewrote them, or an edit made under a start that had read them
already; the agreement after a kill in the middle of its write. A kill in the middle of a
write leaves any beginning of it (`Torn`).

- `PropertiesKept`: without a doubt the properties say what their last author said, at every
  write and on file. With one, every key still has a value that some author or the defaults
  gave it, or the beginning of one (`Heard`), in the process and on file: this holds in every
  state, also in the middle of a write and after a kill there. `Settled`: a file once written
  is written again line for line. Values that still hold an escape once they are unescaped are
  left out of both: they lose one level at every start (properties.rs:300 against :219).
- `LogsKept`: no run's log is lost but those in `risked`. Logs rolled aside before are never
  at risk: the name a start finds can only be taken meanwhile by a start it meets.
- `AgreementKept`: the agreement is on file once it was given, unless a start is about to give
  it again or was killed before it could; and what a kill leaves is never taken for one: a
  start goes on to the port only after it was given in full.
- `EveryStartDecides`: a start comes up or gives up.

## Bounds

Instances are the smallest in which the interesting cases happen: two players and a
return for identities against entity ids; three for a snapshot, a broadcast and a
departure at once; two regions so that a save has a middle; a row of three places with a
column each and a view of one, so that a mob and a player can be in and out of each
other's sight; three starts of two processes so that a log is rolled twice.

| Run | Instance | What grows without end, and its bound |
|---|---|---|
| `rejoin`, `shared_identity` | 3 sessions, 2 identities, 2 positions, 2 rotations | `MaxFrames` 2, 1 |
| `block_edits` | 3 sessions, 3 columns, a view of 2 | `MaxEdits` 3, `MaxMoves` 1 |
| `world_store` | 3 chunks, 2 regions, 2 seeds | `MaxEdits`, `MaxStarts`, `MaxFaults`, 2 each |
| `frames` | every packet twice, `Cut` for scripts the socket cuts up | `MaxWrites` 1, scripts of at most 3 packets |
| `login` | 1 connection, 8 configurations | `MaxStrays` 2 |
| `mobs` | 2 mobs, 1 player, 3 places | `MaxQueue` 0: a tick starts when the client has caught up |
| `server_files` | 2 processes, 2 texts | `MaxStarts` 3, `MaxEdits` 1, `MaxFaults` 1 |

Each bound is a guard of the action it counts, except `MaxQueue`, which makes the ticker
wait for slow clients; the frames of one tick still wait in the channel while the player
walks and leaves.

Data is scaled down, with the boundaries kept. A byte has 8 values and a flag instead of
128 (`Base`), a long two or four of them (`Width`), a section 8 blocks (`Side` 2), a
column 3 sections, palette widths start at 2 bits of 8 instead of 4 of 64, a sector has 8
bytes, and `MaxPacket` is 126: large enough that every packet fits and a VarInt has two
digits. Columns are two kinds of ground, changed by any two edits over both borders of
the column or by clearing a section. Records end one byte before a sector's end, at it and
one after it.

Only scripts in `Cut` are taken by the socket in arbitrary pieces, since what happens to a
frame cut in two does not depend on which packet it is; the others are read symbol by
symbol all the same.

Deadlock is not checked: a session ends, a bounded client stops, and a server may stay
down. `chunk_wire` has no end and checks it.

## Fairness

- `PlayerRegistry`, `BlockEdits`: weak fairness of each session's task. tokio polls
  every woken task; writes have no timeout, so this assumes that the client keeps
  reading. What clients decide (to join, move, edit, leave) is not fair.
- `MobTicker`: weak fairness of the ticker, whose interval fires for ever, and of each
  task; strong fairness of `Deliver`, because `select!` chooses at random among the
  branches that are ready, and a client that keeps moving keeps another branch ready.
- `WorldStore`: weak fairness of the saves together: the interval goes on ticking
  (`--save-interval` is not 0) and a save that has begun goes on. Faults are bounded, so
  retries succeed in the end.
- `FrameReader`: weak fairness of writing and of reading when bytes are there.
- `LoginFlow`: weak fairness of the server (the session check has a timeout of 8
  seconds) and of a client that stays; leaving and stray packets are not fair.
- `ServerFiles`: weak fairness of each start, which is one thread that waits for nobody.

## Proofs

The theorems hold for every value of the constants that the named assumptions of the
module allow: any number of sessions, chunks, mobs, servers, faults. Those
assumptions give types to the constants, and, in `BlockEdits`, a theorem states two
hypotheses of its own. Each proof has the same shape: the initial states satisfy an
invariant, each action preserves it (one step, or one lemma, per action), it implies the
property. TLC checked the invariants of the modules, on the instances of their runs,
before they were proved.

What several proofs need of queues is that the *last* frame about a thing decides. The
models pick it with CHOOSE; `CommonLemmas` proves that a finite set of integers has a least
and a greatest element, so that the choice is one.

The library's induction theorems take an operator as a parameter, which the prover cannot
instantiate; `CommonLemmas!Induction` states induction for a set of naturals instead.
`Recursion`, `StepsStay` and `RecursionSteps` derive from it that a function defined by recursion
up to a bound is what its definition says, and `FlattenSteps` what `FlattenSeq` yields, one sequence at a time.

### PlayerRegistryProofs

- `TypeCorrect`: `TypeOK`. It is inductive as it stands because it says that every id
  drawn lies below the counter.
- `StaysRegisteredWhenExclusive`, through `RegistryInv`: ids of running sessions are
  distinct; every entry belongs to a session in the world that drew its id; and, in
  exclusive use, a session in the world has its own entry. The last part alone is not
  inductive: a departure might remove an entry of another session under the identity.
- `NeverGhosts`, `NobodyMissingWhenExclusive` and `MovementAfterSpawnWhenExclusive`,
  through `KnowledgeInv`. All three speak of what a client knows after the frames in its
  channel. Two lemmas reduce this to one frame: `KnowsAppend` (a frame at the end
  decides for its entity) and `KnowsTail` (delivering the first changes nothing). Each
  step then leaves a session's channel alone, appends to it or delivers from it
  (`SameKnows`, `GainsKnows`, `DeliversKnows`). `NoGhosts` needs no exclusive use:
  a departure is announced with the id the session drew itself.
- `PosesConvergeWhenExclusive` and `TabListExactWhenExclusive`, through `ViewsInv`.

`PosesConverge` speaks of players at rest and is not inductive: a movement is recorded
first and broadcast later, as one frame or two, and after the first of two a client is
right about one part of the pose and not about the other. `PosesShown` therefore speaks of
each part of a pose on its own, position and rotation, and excuses a part as long as a
frame that sets it has still to be broadcast (`Announced`); `PendingPose` adds that such
a frame carries the registry's pose, and `LeavesGone` that no removal in a channel names
a live session's figure. `TabInv` is `TabListExact` with the client's list before its
spawn bundle taken into account.

### BlockEditsProofs

`TypeCorrect`; and `NobodyLeftBehindAlways`, which assumes that `Contend` and `EchoMayFail`
are both FALSE: the first because `contended_edits` refutes the property without
it, the second because an echo that fails skips the broadcast (see Findings). In `EditInv`,
`PendingRight` says that a change between edit and broadcast is the world's block and the
only one of its cell, and `QueuedRight` that the last queued change of a cell says what the
world holds. The latter must be said of every cell and not only of loaded ones: a column
may be loaded while changes of it wait in the channel, and these overwrite the snapshot
afterwards.

### WorldStoreProofs

- `TypeCorrect`.
- `OnlyRiskedLostAlways`, through `StoreInv`. That a save may clear the dirty set at its end
  needs `WrittenAsCached`: the regions the save under way is past hold every cached chunk
  as it is in memory. It is preserved because edits wait for the save. `FilesCached` and
  `SeedSaved` say what a start leaves in memory of files that are not suspect.
- `StoreImplementsDurableWorld`: the same invariant shows that every step of the store is a
  step of `DurableWorld` or a stutter: a start takes the durable world for the live one save
  for what it puts at risk, an edit changes one chunk and puts it at risk, a file written,
  in whole or in part, touches only the part being written, an exit or a crash leaves what
  is durable. Generating a chunk and the signal are stutters.
  `EditsReachDisk`, a liveness property, stays with TLC.
- `RegionsReadBackAlways`, from `PlacedType` (there are finitely many chunks, no two in one place,
  and their region is where their place says) and `SizesType` (a record's length fits its four
  bytes and the number of its sectors the one byte it has; the program's chunks stay under
  100 KiB, far below the limit of 255 sectors). `NumberRead` is the round trip of a number
  through its bytes; `RecordShape` and `PaddedShape` say what the bytes of a record are.
  `Built`, by induction on the chunks, says where in the body each record lies, that the header
  points there, and that other slots are empty: the chunks of a region have slots of their
  own (`SlotsOfRegion`). `SlotReads` then covers a body cut anywhere: a slot yields its chunk if
  the whole record is there and nothing otherwise, and never fails, because the compression
  is looked at only in a record that is whole.
- `HeightsRightAlways`, for any surface, any list of edits, and any size of sections and longs
  with which heights fit a long (`PackingType`). Packing: `PackedValue` finds the j-th value of a
  long behind the j - 1 before it, because shifting is dividing by a power of two (`Pow2Sum`,
  `DivDiv`), and `UnpacksPacked` does so across longs. Counting: `ColumnIsColumn`, by induction on
  the edits, says that a section keeps no states or counts those that are not air, on which
  the height map relies when it skips sections that count none (`SectionStates`). Heights:
  `HeightIs` says that the topmost block is just below the height, and `BlockAbove` that it is
  the one `GetBlock` yields. Type correctness carries this to every chunk in memory.

### LoginFlowProofs

`TypeCorrect`, `AlwaysReadable`, `OnlyVerifiedPlayAlways` and `PlayAfterConfigurationAlways`,
through `FlowInv`. `Readable` compares the first packet in a socket with its reader's mode;
an invariant has to speak of all packets. `Stream` is what is on its way to the client, in
the socket or about to be written; `ModesHandedOver` says that each packet of it is written
in the mode in which the one before leaves the client, up to the server's own mode.
`AnswersInMode` is the other direction: for clients that keep to the protocol, nothing is
under way to the server while its mode changes. `Ahead` says that what a client lacks of the
registries and tags comes in one piece, followed by the end of the state; it stays true when
the server enters Play, where nothing is left to write, so that then the piece is in the
socket (`RestQueued`). `Together` says where server and client can be at the same time; what
depends on packets from the client, such as an acknowledgement, it says of orderly clients.

### MobTickerProofs

`TypeCorrect`, `MobsInOrderAlways` and `ViewsExactAlways`, through `MobInv`: a client that takes
its frames never meets one it has no place for (`Ordered`), shows the registry's `visible`
in the end, and shows every mob where it is, save those a tick under way has moved and not
yet told of. What a client shows is a fold over its channel, and what a tick queues is a
flattened sequence of sequences; `FoldSteps`, `FoldTrail` and `FlattenSteps` prove what
`FoldLeft` and `FlattenSeq` compute here, one element at a time. `BatchTold` goes through the
frames of one player in the order `Stream` queues them: removals, spawns, movements.

### FrameReaderProofs

`TypeCorrect` (`TypeOK`) and `CipherIsOneStream` (`WireIsCfb8`) in Play and before it, and
`FramesArrive` (`FramesIntact`) where no read is cancelled (`Interruptible = FALSE`):
`frames_in_play` refutes it otherwise. They hold for any packets of less than 2 GiB, base,
word size, threshold and limit, any way the socket cuts what it is offered, and any block
cipher; the assumptions are that a word has no more digits than a VarInt may have, and that
combining two bytes yields a byte.

- `Transit` says where the stream of frames is. There are numbers `W` and `R` such that the
  sender has written the first `W` bytes of it, the reader has read the first `R`, `todo` is
  what comes after `W`, and `wire \o pending` is what lies between, enciphered by
  the definition of CFB8 if the connection is encrypted; and both registers hold the
  `BlockLen` bytes of ciphertext before `W` and before `R`. `Inv` adds the types. It says
  nothing of what the reader makes of the bytes, so it holds however reads are cancelled.
- Encrypting in pieces is encrypting once because what comes out depends on the register
  alone: `TransformResumed`, by induction on the piece. Deciphering undoes it
  because combining a byte twice with another gives it back (`XorTwice`, by induction on bits).
- `Placement` adds `ReadInv`: `handled` is a prefix of `sent`, and `R` lies in the frame of
  the next packet, in its length (`AtLength`) or in its body (`AtBody`), with what is before
  it in the reader's hands. `LengthPlaced` and `BodyPlaced` are the two reads, `FramePlace`
  says where in the stream each frame is, and `VarIntValue`, `FrameFacts` and `DataFacts` that
  the digits of a VarInt stand for the number they were made from, that no shorter piece
  of it looks complete, and that a frame is inflated and decoded to what went into it.

### ServerFilesProofs

`LogsKeptAlways`, through `LogInv`: runs are numbered from one, so that a file nobody wrote is
never taken for a run's log; names are taken without a gap, and the one a start has found is
in use or the next. `AtRisk` ties this to `risked`: where two starts are at the logs, the
latest log and theirs are at risk; the log that a start which creates one would truncate, and
the one whose name a rename would take, are at risk or not there. `AgreementKeptAlways`, through
`AgreementInv`: what is on file as an agreement was given. It needs that the three contents of
`eula.txt` differ, which `TextsType` assumes of the constant `NoFile`.

`PropertiesKeptAlways` and `SettledAlways`, for any texts, defaults with one line a key, and
set of symbols that may be escaped. First what the operators compute, by induction on lines
and symbols: `StableStays` (a value without an escape is unescaped to itself), `ParsedMeans`
(taking line after line, the last one of a key counts), `CompletedMeans` (the defaults take
nothing from what is there), and from these `LoadedMeans` (what a load yields is what the
text means), `SaveSettles` and `SaveSays` (what a save leaves for the next load). Then
`PropsInv`: what is on file is lines, there since a start truncated it; whoever has loaded
properties has every vanilla key, and every key once; and without a doubt, what it has
loaded says what the last author said, and so does the file unless somebody is in the middle of
its write. The two parts of that need each other: a load passes the file's meaning to the
process, a write passes it back. `PropertiesKept` speaks of the write only, and is not
inductive without the load. The second part of the property is `HeardInv`, which needs no
assumption on doubts: `Begins` says that a text has the first lines of another, each
whole or cut short, `TornBegins` that a kill leaves such a text, and `SaveHeard` that every
beginning of what a save writes says what was heard.

`TypeCorrect` (`TypeOK`) needs `TypeInv`: that runs and slots stay within `MaxStarts`
follows from counting logs (`Counted`). Those rolled aside, the latest, and those that the
starts at their logs are still to make are no more than the starts there were; so a free
name is always found within the number of starts. `KeyPerLine` is the count of keys.

### Model-checked only

- All liveness (`ReplacedSessionEnds`, `DepartedForgotten`, `ClientsConverge`, `EditsReachDisk`,
  `MobsAppear`, `MobsVanish`, `EveryFrameHandled`, `LoginAnswered`, `EveryStartDecides`): beyond
  the prover.
- `PacketsUnderstood`, `ColumnsKept`: what the encoders and decoders of packets and NBT compute.
  Tags hold tags, so `NbtTags` and `PacketLayouts` use RECURSIVE operators, with which the prover
  loses its arithmetic: they, and what extends them (`ChunkNbt`, `SavedWorld`, `LoginPackets`,
  `PlayPackets`, `PacketStream`), are for TLC alone.

## Findings

| Run | What the code does |
|---|---|
| `logged_in_twice` | play.rs:470: a departing session removes its successor's entry |
| `contended_edits` | play.rs:819: echo and broadcast are not ordered with the edit |
| `frames_in_play` | play.rs:649: a cancelled read loses bytes |
| `chunk_wire` | encode.rs:90: a second count per section, which the decoder does not have |

Known as well, and stated where the models exclude or count them:

- anvil.rs:140: region files are rewritten in place, so a crash within the write loses
  chunks saved before. `WorldStore` counts the file's chunks as at risk.
- main.rs:257: a region file that cannot be read is logged, and overwritten by the next
  save. Counted as at risk.
- connection.rs:637: a client without `minecraft:core` is logged and served, where
  README.md:402-403 of the repository promises a disconnection.
- play.rs:819: a failed echo skips the broadcast (`EchoMayFail` in `BlockEdits`).
- properties.rs:300: backslashes are consumed at every start, and comments and lines
  without `=` are dropped, where properties.rs:8-10 says that nothing is.
- logging.rs:263: the error of the rename is ignored and the log truncated.
- world.rs:176 says that generated chunks without edits are not written; `save` writes
  every cached chunk.
- nbt.rs:70 (protocol): the length of an NBT string is cut to 16 bits. Chat is echoed and
  broadcast as NBT text (play.rs:750-759) and limited only by the frame, so a message of more
  than 65,535 bytes goes out behind a wrong length. The samples of `frames` are short.

## Not modelled

- Floating point: the noise of the terrain, mob physics, the quantisation of velocities.
  TLC has no reals; the models keep the decisions made on them.
- RSA, SHA-1, AES, zlib: library calls. Their results are symbols or any function.
- Chat, ping and keep-alive, which write to the own client or relay a line.
- Console, arguments, banner, log formatting, the conversion of property values.
- Registries and tags: bundled data.
- Packets that neither side of this program sends or handles, and light masks, which are
  constant.

## Plan

1. `PlayerRegistry`, `BlockEdits`, `WorldStore` with `DurableWorld`, `LoginFlow`, `MobTicker`: done; every
   invariant their passing runs check is proved.
2. `ServerFiles`: done; every invariant its run checks is proved.
3. `FrameReader`, `StreamCipher`: done; every invariant the `frames` run checks of them is proved.
4. `RegionFiles`, `ChunkColumns` with `SavedRegions`, `SavedColumns`: done, and proved.
   The packets, `ChunkNbt`, `SavedWorld`: done, and for TLC alone.
5. Chat and keep-alive with the channel's limits, and Java's signed hexadecimal digest,
   are small modules that could follow.
