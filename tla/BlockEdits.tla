----------------------------- MODULE BlockEdits -----------------------------
(***************************************************************************)
(* Block edits on the shared world and what every client ends up seeing    *)
(* (loadstone-net play.rs: handle_frame's dig and place handlers,          *)
(* encode_chunks, stream_chunks; loadstone-world world.rs).                *)
(*                                                                         *)
(* A handler changes the block under the world mutex, then writes the      *)
(* change to its own client, then queues it for everyone else under the    *)
(* registry mutex.  Nothing ties the two critical sections together, and   *)
(* the write between them may fail.  A client sees a chunk as a snapshot   *)
(* taken under the world mutex and then the changes its channel carries.   *)
(***************************************************************************)
EXTENDS Integers, Sequences, FiniteSets

CONSTANTS
  Sessions,      \* connections that reach the Play state, each with its own identity
  Cells,         \* block positions
  Editable,      \* those inside the border and the build height (allow_editing)
  Chunks,        \* chunk columns
  ChunkOf,       \* the column of each cell
  Centers,       \* chunk positions a player can stand in
  View,          \* the columns around each of them (visible_chunks)
  SpawnCenter,   \* where players start
  Contend,       \* may players edit a cell before an earlier edit of it is settled?
  EchoMayFail,   \* may the connection die between an edit and its broadcast?
  MaxEdits,      \* bound on edits
  MaxMoves       \* bound on chunk-border crossings

ASSUME EditableType == Editable \subseteq Cells
ASSUME ChunkOfType  == ChunkOf \in [Cells -> Chunks]
ASSUME ViewType     == View \in [Centers -> SUBSET Chunks]
ASSUME SpawnType    == SpawnCenter \in Centers
ASSUME SwitchesType == Contend \in BOOLEAN /\ EchoMayFail \in BOOLEAN
ASSUME BoundsType   == MaxEdits \in Nat /\ MaxMoves \in Nat

Block == {"air", "stone"}                    \* BLOCK_AIR; anything else
Change == [cell : Cells, block : Block]      \* BlockChange

VARIABLES
  world,   \* the block at each cell (World.chunks)
  pc,      \* "outside", "joining", "playing", "gone"
  rx,      \* the changes waiting in each session's channel
  pend,    \* the change a session's handler has made but not yet told anyone
  center,  \* the column each player stands in
  shown,   \* what each client shows: a block for each cell of a loaded column
  edits,   \* edits made so far (bounds the model only)
  moves    \* border crossings so far (bounds the model only)

vars == <<world, pc, rx, pend, center, shown, edits, moves>>

NoChange == <<>>

Registered(s) == pc[s] \in {"joining", "playing"}

CellsIn(columns) == {c \in Cells : ChunkOf[c] \in columns}
Loaded(s)        == CellsIn(View[center[s]])

Init ==
  /\ world \in [Cells -> Block]
  /\ pc = [s \in Sessions |-> "outside"]
  /\ rx = [s \in Sessions |-> <<>>]
  /\ pend = [s \in Sessions |-> NoChange]
  /\ center = [s \in Sessions |-> SpawnCenter]
  /\ shown = [s \in Sessions |-> <<>>]
  /\ edits = 0
  /\ moves = 0

-----------------------------------------------------------------------------
(* Joining and moving *)

\* play_phase registers the channel before run_play sends any chunk.
Register(s) ==
  /\ pc[s] = "outside"
  /\ pc' = [pc EXCEPT ![s] = "joining"]
  /\ UNCHANGED <<world, rx, pend, center, shown, edits, moves>>

\* Faulty variant: the columns are generated afresh, without the edits.
Regenerated(cells) == [c \in cells |-> "stone"]

\* encode_chunks: the blocks of the given cells, under one world lock.
Snapshot(cells) == [c \in cells |-> world[c]]

\* run_play: the first view is encoded and written; the changes made since the
\* registration wait in the channel until the loop drains it.
SendInitialChunks(s) ==
  /\ pc[s] = "joining"
  /\ shown' = [shown EXCEPT ![s] = Snapshot(Loaded(s))]
  /\ pc' = [pc EXCEPT ![s] = "playing"]
  /\ UNCHANGED <<world, rx, pend, center, edits, moves>>

AtSelect(s) == pc[s] = "playing" /\ pend[s] = NoChange

\* Faulty variant: columns that left the view are not unloaded.
Everything(s, d) == DOMAIN shown[s]

\* The cells the client keeps when the player steps into column d.
Staying(s, d) == DOMAIN shown[s] \cap CellsIn(View[d])

\* stream_chunks: load the columns that came into view from the world, forget
\* those that left it, keep the rest as the client has them.
StreamChunks(s) ==
  /\ AtSelect(s)
  /\ moves < MaxMoves
  /\ moves' = moves + 1
  /\ \E d \in Centers \ {center[s]} :
       LET fresh == CellsIn(View[d]) \ Staying(s, d)
       IN  /\ shown' = [shown EXCEPT ![s] =
                 [c \in Staying(s, d) \cup fresh |->
                    IF c \in fresh THEN Snapshot(fresh)[c] ELSE shown[s][c]]]
           /\ center' = [center EXCEPT ![s] = d]
  /\ UNCHANGED <<world, pc, rx, pend, edits>>

-----------------------------------------------------------------------------
(* Editing *)

\* What the client does with a BlockChange: outside its columns, nothing.
Apply(blocks, change) ==
  [c \in DOMAIN blocks |-> IF c = change.cell THEN change.block ELSE blocks[c]]

\* Nobody else is between changing this cell and announcing the change.
Quiet(c) == \A t \in Sessions : pend[t] # NoChange => pend[t].cell # c

\* Every earlier edit of the cell has been announced and has reached this client:
\* what the code takes for granted, and nothing enforces.
Settled(s, c) == Quiet(c) /\ \A i \in DOMAIN rx[s] : rx[s][i].cell # c

\* The check and the change are one critical section of the world mutex.
Edit(s, c, from, to) ==
  /\ AtSelect(s)
  /\ edits < MaxEdits
  /\ Contend \/ Settled(s, c)
  /\ c \in Editable
  /\ world[c] = from
  /\ world' = [world EXCEPT ![c] = to]
  /\ pend' = [pend EXCEPT ![s] = [cell |-> c, block |-> to]]
  /\ edits' = edits + 1
  /\ UNCHANGED <<pc, rx, center, shown, moves>>

\* BlockDig with status 2: is_breakable, then set_block(air).
Dig(s)   == \E c \in Cells : Edit(s, c, "stone", "air")
\* BlockPlace: is_empty at the cell the face points to, then set_block(cobblestone).
Place(s) == \E c \in Cells : Edit(s, c, "air", "stone")

\* Faulty variant: block changes overtake what is already queued.
TellFirst(s) ==
  [t \in Sessions |-> IF t # s /\ Registered(t) THEN <<pend[s]>> \o rx[t] ELSE rx[t]]

\* broadcast_except, under the registry mutex.
TellOthers(s) ==
  [t \in Sessions |-> IF t # s /\ Registered(t) THEN Append(rx[t], pend[s]) ELSE rx[t]]

\* The handler's write to its own client succeeds, then it tells the others.
\* Only this task writes to this client, so the write may be taken together with
\* the broadcast that follows it.
EchoAndBroadcast(s) ==
  /\ pc[s] = "playing"
  /\ pend[s] # NoChange
  /\ shown' = [shown EXCEPT ![s] = Apply(shown[s], pend[s])]
  /\ rx' = TellOthers(s)
  /\ pend' = [pend EXCEPT ![s] = NoChange]
  /\ UNCHANGED <<world, pc, center, edits, moves>>

Deliver(s) ==
  /\ AtSelect(s)
  /\ rx[s] # <<>>
  /\ shown' = [shown EXCEPT ![s] = Apply(shown[s], Head(rx[s]))]
  /\ rx' = [rx EXCEPT ![s] = Tail(rx[s])]
  /\ UNCHANGED <<world, pc, pend, center, edits, moves>>

-----------------------------------------------------------------------------
(* Leaving *)

\* A read or write fails and leave_world drops the registry entry.  When it is
\* the handler's own write that fails, the broadcast after it is skipped.
Disconnect(s) ==
  /\ pc[s] = "joining" \/ pc[s] = "playing"
  /\ EchoMayFail \/ pend[s] = NoChange
  /\ pc' = [pc EXCEPT ![s] = "gone"]
  /\ pend' = [pend EXCEPT ![s] = NoChange]
  /\ rx' = [rx EXCEPT ![s] = <<>>]
  /\ shown' = [shown EXCEPT ![s] = <<>>]
  /\ UNCHANGED <<world, center, edits, moves>>

Task(s) == SendInitialChunks(s) \/ EchoAndBroadcast(s) \/ Deliver(s)

Client(s) == Register(s) \/ StreamChunks(s) \/ Dig(s) \/ Place(s) \/ Disconnect(s)

Next == \E s \in Sessions : Task(s) \/ Client(s)

\* Each task runs and its client reads what it is sent.
Spec == Init /\ [][Next]_vars /\ \A s \in Sessions : WF_vars(Task(s))

-----------------------------------------------------------------------------
(* Properties *)

TypeOK ==
  /\ world \in [Cells -> Block]
  /\ pc \in [Sessions -> {"outside", "joining", "playing", "gone"}]
  /\ rx \in [Sessions -> Seq(Change)]
  /\ pend \in [Sessions -> Change \cup {NoChange}]
  /\ center \in [Sessions -> Centers]
  /\ DOMAIN shown = Sessions
  /\ \A s \in Sessions :
       shown[s] \in [IF pc[s] = "playing" THEN Loaded(s) ELSE {} -> Block]
  /\ edits \in 0 .. MaxEdits
  /\ moves \in 0 .. MaxMoves

\* The block the client of s will show at c once its channel is drained: the
\* last change of the channel that concerns c, or what it shows (or is about to
\* load) now.
WillShow(s, c) ==
  LET about == {i \in DOMAIN rx[s] : rx[s][i].cell = c}
  IN  IF about # {} THEN rx[s][CHOOSE i \in about : \A j \in about : j <= i].block
      ELSE IF pc[s] = "joining" THEN world[c] ELSE shown[s][c]

\* No client is left with a wrong block: whatever order snapshots, old changes
\* still queued and new changes reach it in, it ends up with the world's block
\* at every cell nobody is still announcing a change of.
NobodyLeftBehind ==
  \A s \in Sessions : Registered(s) =>
    \A c \in Loaded(s) : Quiet(c) => WillShow(s, c) = world[c]

\* Once the edits stop, every client comes to show the world as it is.
ClientsConverge ==
  \A s \in Sessions :
    <>[](pc[s] = "playing" => \A c \in Loaded(s) : shown[s][c] = world[c])
=============================================================================
