-------------------------- MODULE BlockEditsProofs --------------------------
(***************************************************************************)
(* Proofs about BlockEdits, for any sessions, cells, views and number of   *)
(* edits: snapshots and queued changes add up to the world as long as      *)
(* nobody edits a cell whose last edit is still on its way, and no handler *)
(* dies between an edit and its broadcast.                                 *)
(***************************************************************************)
EXTENDS BlockEdits, CommonLemmas

-----------------------------------------------------------------------------
(* The inductive invariant *)

\* The changes of c that wait in the session's channel.
About(s, c) == {i \in DOMAIN rx[s] : rx[s][i].cell = c}

\* A channel exists only while its session is registered.
ChannelsOpen == \A s \in Sessions : ~Registered(s) => rx[s] = <<>>

\* A change under way is what the world holds, it is the only one of its cell, and its own
\* session has no older change of the cell to apply.
PendingRight ==
  \A s \in Sessions, m \in Change : pend[s] = m =>
    /\ pc[s] = "playing"
    /\ world[m.cell] = m.block
    /\ About(s, m.cell) = {}
    /\ \A t \in Sessions \ {s} : pend[t] # NoChange => pend[t].cell # m.cell

\* The last change a channel carries of a cell is what the world holds, whether or not its
\* client has the cell's column: it may load the column before it takes the change.
QueuedRight ==
  \A s \in Sessions, c \in Cells : Quiet(c) =>
    \A i \in About(s, c) :
      (\A j \in About(s, c) : j <= i) => rx[s][i].block = world[c]

\* A cell no change of which is on its way is shown as it is.
ShownRight ==
  \A s \in Sessions : pc[s] = "playing" =>
    \A c \in Loaded(s) : Quiet(c) /\ About(s, c) = {} => shown[s][c] = world[c]

EditInv == ChannelsOpen /\ PendingRight /\ QueuedRight /\ ShownRight

-----------------------------------------------------------------------------
(* Changes and channels *)

\* A change is not the absence of one.
LEMMA ChangeIsChange == \A c, b : [cell |-> c, block |-> b] # NoChange
<1>. SUFFICES ASSUME NEW c, NEW b, [cell |-> c, block |-> b] = NoChange PROVE FALSE
  OBVIOUS
<1>1. DOMAIN [cell |-> c, block |-> b] = {"cell", "block"} /\ DOMAIN <<>> = {}
  OBVIOUS
<1>. QED BY <1>1 DEF NoChange

\* The absence of a change is not a change.
LEMMA ChangesAre == \A m \in Change : m # NoChange
BY ChangeIsChange DEF Change

\* A queued change is the last of its channel, and the only new one.
LEMMA AppendAbout ==
  ASSUME TypeOK, NEW s \in Sessions, NEW m \in Change, rx'[s] = Append(rx[s], m)
  PROVE  /\ rx'[s] \in Seq(Change)
         /\ \A i \in DOMAIN rx[s] : i \in DOMAIN rx'[s] /\ rx'[s][i] = rx[s][i]
         /\ \A c : c # m.cell => About(s, c)' = About(s, c)
         /\ Len(rx[s]) + 1 \in About(s, m.cell)' /\ rx'[s][Len(rx[s]) + 1] = m
         /\ \A i \in About(s, m.cell)' : i <= Len(rx[s]) + 1
<1>. DEFINE q == rx[s]
            r == rx'[s]
<1>1. q \in Seq(Change) /\ r = Append(q, m)
  BY DEF TypeOK
<1>. HIDE DEF q, r
<1>2. /\ r \in Seq(Change) /\ Len(r) = Len(q) + 1 /\ Len(q) \in Nat
      /\ \A i \in 1 .. Len(q) : r[i] = q[i]
      /\ r[Len(q) + 1] = m
      /\ DOMAIN r = 1 .. Len(q) + 1 /\ DOMAIN q = 1 .. Len(q)
  BY <1>1
<1>3. \A c : c # m.cell => {i \in DOMAIN r : r[i].cell = c} = {i \in DOMAIN q : q[i].cell = c}
  BY <1>2
<1>4. \A c : About(s, c) = {i \in DOMAIN q : q[i].cell = c}
  BY DEF About, q
<1>5. \A c : About(s, c)' = {i \in DOMAIN r : r[i].cell = c}
  BY DEF About, r
<1>6. Len(q) + 1 \in About(s, m.cell)' /\ \A i \in About(s, m.cell)' : i <= Len(q) + 1
  BY <1>2, <1>5
<1>7. \A c : c # m.cell => About(s, c)' = About(s, c)
  BY <1>3, <1>4, <1>5
<1>8. \A i \in DOMAIN q : i \in DOMAIN r /\ r[i] = q[i]
  BY <1>2
<1>9. r \in Seq(Change) /\ r[Len(q) + 1] = m
  BY <1>2
<1>. QED BY <1>6, <1>7, <1>8, <1>9 DEF q, r

\* Taking a change moves the others up.
LEMMA TailAbout ==
  ASSUME TypeOK, NEW s \in Sessions, rx[s] # <<>>, rx'[s] = Tail(rx[s])
  PROVE  /\ rx'[s] \in Seq(Change) /\ Head(rx[s]) \in Change
         /\ Head(rx[s]) = rx[s][1] /\ 1 \in DOMAIN rx[s]
         /\ \A i \in DOMAIN rx'[s] : i \in Nat /\ i + 1 \in DOMAIN rx[s] /\ rx'[s][i] = rx[s][i + 1]
         /\ \A i \in DOMAIN rx[s] : i \in Nat /\ (i = 1 \/ i - 1 \in DOMAIN rx'[s])
<1>. DEFINE q == rx[s]
            r == rx'[s]
<1>1. q \in Seq(Change) /\ r = Tail(q) /\ q # <<>>
  BY DEF TypeOK
<1>. HIDE DEF q, r
<1>2. /\ r \in Seq(Change) /\ Len(r) = Len(q) - 1 /\ Len(q) \in Nat /\ Len(q) > 0
      /\ \A i \in 1 .. Len(r) : r[i] = q[i + 1]
      /\ DOMAIN r = 1 .. Len(r) /\ DOMAIN q = 1 .. Len(q)
      /\ Head(q) = q[1] /\ q[1] \in Change
  BY <1>1
<1>. QED BY <1>2 DEF q, r

-----------------------------------------------------------------------------
(* Type correctness *)

\* A snapshot shows a block for every cell.
LEMMA SnapshotType ==
  ASSUME TypeOK, NEW cells \in SUBSET Cells
  PROVE  Snapshot(cells) \in [cells -> Block]
BY DEF TypeOK, Snapshot

\* A player's columns hold cells.
LEMMA CellsInType == \A columns : CellsIn(columns) \in SUBSET Cells
BY DEF CellsIn

\* Every step keeps the state's shape: in the loop a client shows a block for each cell of the
\* columns around it and for no other.
LEMMA TypesKept ==
  ASSUME TypeOK, [Next]_vars
  PROVE  TypeOK'
<1>. USE DEF TypeOK
<1>1. ASSUME NEW s \in Sessions, Register(s)
      PROVE  TypeOK'
  <2>1. pc' \in [Sessions -> {"outside", "joining", "playing", "gone"}]
    BY <1>1 DEF Register
  <2>2. \A t \in Sessions : shown'[t] \in [IF pc'[t] = "playing" THEN Loaded(t)' ELSE {} -> Block]
    BY <1>1 DEF Register, Loaded
  <2>. QED BY <1>1, <2>1, <2>2 DEF Register
<1>2. ASSUME NEW s \in Sessions, SendInitialChunks(s)
      PROVE  TypeOK'
  <2>1. pc' \in [Sessions -> {"outside", "joining", "playing", "gone"}]
    BY <1>2 DEF SendInitialChunks
  <2>2. Loaded(s)' = Loaded(s) /\ Snapshot(Loaded(s)) \in [Loaded(s) -> Block]
    BY <1>2, SnapshotType, CellsInType DEF SendInitialChunks, Loaded
  <2>3. \A t \in Sessions : shown'[t] \in [IF pc'[t] = "playing" THEN Loaded(t)' ELSE {} -> Block]
    BY <1>2, <2>2 DEF SendInitialChunks, Loaded
  <2>. QED BY <1>2, <2>1, <2>3 DEF SendInitialChunks
<1>3. ASSUME NEW s \in Sessions, StreamChunks(s)
      PROVE  TypeOK'
  <2>1. PICK d \in Centers \ {center[s]} :
          LET fresh == CellsIn(View[d]) \ Staying(s, d)
          IN  /\ shown' = [shown EXCEPT ![s] =
                    [c \in Staying(s, d) \cup fresh |->
                       IF c \in fresh THEN Snapshot(fresh)[c] ELSE shown[s][c]]]
              /\ center' = [center EXCEPT ![s] = d]
    BY <1>3 DEF StreamChunks
  <2>. DEFINE fresh == CellsIn(View[d]) \ Staying(s, d)
              now == [c \in Staying(s, d) \cup fresh |->
                        IF c \in fresh THEN Snapshot(fresh)[c] ELSE shown[s][c]]
  <2>2. center' \in [Sessions -> Centers] /\ center'[s] = d
        /\ \A t \in Sessions \ {s} : center'[t] = center[t]
    BY <2>1
  <2>3. Staying(s, d) \cup fresh = CellsIn(View[d])
    BY DEF Staying
  <2>4. fresh \in SUBSET Cells
    BY CellsInType
  <2>5. pc[s] = "playing" /\ shown[s] \in [Loaded(s) -> Block]
    BY <1>3 DEF StreamChunks, AtSelect
  <2>6. \A c \in Staying(s, d) : shown[s][c] \in Block
    BY <2>5 DEF Staying
  <2>7. now \in [CellsIn(View[d]) -> Block]
    <3>1. Snapshot(fresh) \in [fresh -> Block]
      BY <2>4, SnapshotType
    <3>. HIDE DEF fresh
    <3>. QED BY <2>3, <2>6, <3>1
  <2>8. /\ DOMAIN shown' = Sessions /\ shown'[s] = now
        /\ \A t \in Sessions \ {s} : shown'[t] = shown[t]
    BY <2>1
  <2>. HIDE DEF now
  <2>9. \A t \in Sessions : shown'[t] \in [IF pc'[t] = "playing" THEN Loaded(t)' ELSE {} -> Block]
    BY <1>3, <2>2, <2>5, <2>7, <2>8 DEF StreamChunks, Loaded
  <2>10. moves' \in 0 .. MaxMoves
    BY <1>3, BoundsType DEF StreamChunks
  <2>. QED BY <1>3, <2>2, <2>8, <2>9, <2>10 DEF StreamChunks
<1>4. ASSUME NEW s \in Sessions, Dig(s) \/ Place(s)
      PROVE  TypeOK'
  <2>1. PICK c \in Cells, from \in Block, to \in Block : Edit(s, c, from, to)
    BY <1>4 DEF Dig, Place, Block
  <2>2. world' \in [Cells -> Block]
    BY <2>1 DEF Edit
  <2>3. pend' \in [Sessions -> Change \cup {NoChange}]
    BY <2>1 DEF Edit, Change
  <2>4. edits' \in 0 .. MaxEdits
    BY <2>1, BoundsType DEF Edit
  <2>5. \A t \in Sessions : shown'[t] \in [IF pc'[t] = "playing" THEN Loaded(t)' ELSE {} -> Block]
    BY <2>1 DEF Edit, Loaded
  <2>. QED BY <2>1, <2>2, <2>3, <2>4, <2>5 DEF Edit
<1>5. ASSUME NEW s \in Sessions, EchoAndBroadcast(s)
      PROVE  TypeOK'
  <2>1. pend[s] \in Change /\ pc[s] = "playing"
    BY <1>5 DEF EchoAndBroadcast
  <2>2. rx' \in [Sessions -> Seq(Change)]
    BY <1>5, <2>1 DEF EchoAndBroadcast, TellOthers
  <2>3. pend' \in [Sessions -> Change \cup {NoChange}]
    BY <1>5 DEF EchoAndBroadcast
  <2>4. Apply(shown[s], pend[s]) \in [Loaded(s) -> Block]
    BY <2>1 DEF Apply, Change
  <2>5. \A t \in Sessions : shown'[t] \in [IF pc'[t] = "playing" THEN Loaded(t)' ELSE {} -> Block]
    BY <1>5, <2>1, <2>4 DEF EchoAndBroadcast, Loaded
  <2>. QED BY <1>5, <2>2, <2>3, <2>5 DEF EchoAndBroadcast
<1>6. ASSUME NEW s \in Sessions, Deliver(s)
      PROVE  TypeOK'
  <2>1. pc[s] = "playing" /\ rx'[s] \in Seq(Change) /\ Head(rx[s]) \in Change
    BY <1>6, TailAbout DEF Deliver, AtSelect
  <2>2. rx' \in [Sessions -> Seq(Change)]
    BY <1>6, <2>1 DEF Deliver
  <2>3. Apply(shown[s], Head(rx[s])) \in [Loaded(s) -> Block]
    BY <2>1 DEF Apply, Change
  <2>4. \A t \in Sessions : shown'[t] \in [IF pc'[t] = "playing" THEN Loaded(t)' ELSE {} -> Block]
    BY <1>6, <2>1, <2>3 DEF Deliver, Loaded
  <2>. QED BY <1>6, <2>2, <2>4 DEF Deliver
<1>7. ASSUME NEW s \in Sessions, Disconnect(s)
      PROVE  TypeOK'
  <2>1. /\ pc' \in [Sessions -> {"outside", "joining", "playing", "gone"}]
        /\ pend' \in [Sessions -> Change \cup {NoChange}]
    BY <1>7 DEF Disconnect
  <2>2. rx' \in [Sessions -> Seq(Change)]
    BY <1>7 DEF Disconnect
  <2>3. \A t \in Sessions : shown'[t] \in [IF pc'[t] = "playing" THEN Loaded(t)' ELSE {} -> Block]
    <3>1. <<>> \in [{} -> Block]
      OBVIOUS
    <3>. QED BY <1>7, <3>1 DEF Disconnect, Loaded
  <2>. QED BY <1>7, <2>1, <2>2, <2>3 DEF Disconnect
<1>8. CASE UNCHANGED vars
  BY <1>8 DEF vars, Loaded
<1>. QED BY <1>1, <1>2, <1>3, <1>4, <1>5, <1>6, <1>7, <1>8 DEF Next, Task, Client

-----------------------------------------------------------------------------
(* The invariant holds *)

\* It holds before anybody has joined.
LEMMA EditInvStarts == Init => TypeOK /\ EditInv
<1>. SUFFICES ASSUME Init PROVE TypeOK /\ EditInv
  OBVIOUS
<1>. USE DEF Init
<1>1. TypeOK
  BY SpawnType, BoundsType DEF TypeOK
<1>2. \A s \in Sessions : \A c : About(s, c) = {}
  BY DEF About
<1>3. PendingRight /\ ChannelsOpen
  BY ChangesAre DEF PendingRight, ChannelsOpen
<1>4. QueuedRight /\ ShownRight
  BY <1>2 DEF QueuedRight, ShownRight
<1>. QED BY <1>1, <1>3, <1>4 DEF EditInv

\* Joining: the first view is the world's, and only the changes made since wait behind it.
LEMMA JoinKeeps ==
  ASSUME TypeOK, EditInv, NEW s \in Sessions, Register(s) \/ SendInitialChunks(s)
  PROVE  EditInv'
<1>1. /\ UNCHANGED <<world, rx, pend, center>>
      /\ DOMAIN pc = Sessions /\ pc' = [pc EXCEPT ![s] = pc'[s]]
      /\ \/ pc[s] = "outside" /\ pc'[s] = "joining" /\ shown' = shown
         \/ /\ pc[s] = "joining" /\ pc'[s] = "playing"
            /\ shown' = [shown EXCEPT ![s] = Snapshot(Loaded(s))]
  BY DEF Register, SendInitialChunks, TypeOK
<1>2. /\ \A t \in Sessions : \A c : About(t, c)' = About(t, c)
      /\ \A c : Quiet(c)' = Quiet(c)
      /\ \A t \in Sessions : Loaded(t)' = Loaded(t)
  BY <1>1 DEF About, Quiet, Loaded
<1>3. ChannelsOpen'
  BY <1>1 DEF EditInv, ChannelsOpen, Registered
<1>4. PendingRight'
  <2>1. pend[s] = NoChange
    <3>1. pend[s] \notin Change
      BY <1>1 DEF EditInv, PendingRight
    <3>. QED BY <3>1 DEF TypeOK
  <2>. QED BY <1>1, <1>2, <2>1 DEF EditInv, PendingRight
<1>5. QueuedRight'
  BY <1>1, <1>2 DEF EditInv, QueuedRight
<1>6. ShownRight'
  <2>. SUFFICES ASSUME NEW t \in Sessions, pc'[t] = "playing", NEW c \in Loaded(t),
                       Quiet(c), About(t, c) = {}
                PROVE  shown'[t][c] = world[c]
    BY <1>1, <1>2 DEF ShownRight
  <2>1. CASE t = s
    BY <1>1, <2>1 DEF Snapshot, TypeOK
  <2>2. CASE t # s
    <3>1. shown'[t] = shown[t] /\ pc[t] = "playing"
      BY <1>1, <2>2 DEF TypeOK
    <3>. QED BY <3>1 DEF EditInv, ShownRight
  <2>. QED BY <2>1, <2>2
<1>. QED BY <1>3, <1>4, <1>5, <1>6 DEF EditInv

\* Moving: a column that comes into view is the world's, behind which the changes still
\* queued lead to the same blocks.
LEMMA MoveKeeps ==
  ASSUME TypeOK, EditInv, NEW s \in Sessions, StreamChunks(s)
  PROVE  EditInv'
<1>1. PICK d \in Centers \ {center[s]} :
        LET fresh == CellsIn(View[d]) \ Staying(s, d)
        IN  /\ shown' = [shown EXCEPT ![s] =
                  [c \in Staying(s, d) \cup fresh |->
                     IF c \in fresh THEN Snapshot(fresh)[c] ELSE shown[s][c]]]
            /\ center' = [center EXCEPT ![s] = d]
  BY DEF StreamChunks
<1>. DEFINE fresh == CellsIn(View[d]) \ Staying(s, d)
            now == [c \in Staying(s, d) \cup fresh |->
                      IF c \in fresh THEN Snapshot(fresh)[c] ELSE shown[s][c]]
<1>2. UNCHANGED <<world, pc, rx, pend>> /\ pc[s] = "playing"
  BY DEF StreamChunks, AtSelect
<1>3. /\ \A t \in Sessions : \A c : About(t, c)' = About(t, c)
      /\ \A c : Quiet(c)' = Quiet(c)
      /\ \A t \in Sessions \ {s} : Loaded(t)' = Loaded(t) /\ shown'[t] = shown[t]
      /\ Loaded(s)' = CellsIn(View[d]) /\ shown'[s] = now
  BY <1>1, <1>2 DEF About, Quiet, Loaded, TypeOK
<1>4. ChannelsOpen' /\ PendingRight' /\ QueuedRight'
  BY <1>2, <1>3 DEF EditInv, ChannelsOpen, PendingRight, QueuedRight, Registered
<1>5. ShownRight'
  <2>. SUFFICES ASSUME NEW t \in Sessions, pc[t] = "playing", NEW c \in Loaded(t)',
                       Quiet(c), About(t, c) = {}
                PROVE  shown'[t][c] = world[c]
    BY <1>2, <1>3 DEF ShownRight
  <2>1. CASE t # s
    BY <1>3, <2>1 DEF EditInv, ShownRight
  <2>2. CASE t = s
    <3>1. CASE c \in fresh
      <4>1. now[c] = Snapshot(fresh)[c]
        BY <3>1
      <4>2. Snapshot(fresh)[c] = world[c]
        BY <3>1 DEF Snapshot
      <4>. QED BY <1>3, <2>2, <4>1, <4>2
    <3>2. CASE c \notin fresh
      <4>1. c \in Staying(s, d)
        BY <1>3, <2>2, <3>2
      <4>2. now[c] = shown[s][c]
        BY <3>2, <4>1
      <4>3. c \in Loaded(s)
        BY <1>2, <4>1 DEF Staying, TypeOK
      <4>. QED BY <1>2, <1>3, <2>2, <4>2, <4>3 DEF EditInv, ShownRight
    <3>. QED BY <3>1, <3>2
  <2>. QED BY <2>1, <2>2
<1>. QED BY <1>4, <1>5 DEF EditInv

\* An edit waits for the cell's earlier one to be announced and to have reached the editor.
LEMMA EditKeeps ==
  ASSUME Contend = FALSE, TypeOK, EditInv, NEW s \in Sessions, Dig(s) \/ Place(s)
  PROVE  EditInv'
<1>1. PICK k \in Cells, from \in Block, to \in Block : Edit(s, k, from, to)
  BY DEF Dig, Place, Block
<1>2. /\ pc[s] = "playing" /\ pend[s] = NoChange /\ Settled(s, k)
      /\ world' = [world EXCEPT ![k] = to]
      /\ pend' = [pend EXCEPT ![s] = [cell |-> k, block |-> to]]
      /\ UNCHANGED <<pc, rx, center, shown>>
  BY <1>1 DEF Edit, AtSelect
<1>3. /\ \A t \in Sessions : \A c : About(t, c)' = About(t, c)
      /\ \A t \in Sessions : Loaded(t)' = Loaded(t)
      /\ About(s, k) = {} /\ Quiet(k)
  BY <1>2 DEF About, Loaded, Settled
<1>4. /\ pend'[s] = [cell |-> k, block |-> to] /\ pend'[s] # NoChange
      /\ pend'[s].cell = k /\ pend'[s].block = to
      /\ \A t \in Sessions \ {s} : pend'[t] = pend[t]
      /\ world'[k] = to /\ \A c \in Cells \ {k} : world'[c] = world[c]
  BY <1>2, ChangeIsChange DEF TypeOK
<1>5. ~Quiet(k)' /\ \A c : Quiet(c)' => Quiet(c)
  BY <1>2, <1>4 DEF Quiet
<1>6. ChannelsOpen'
  BY <1>2 DEF EditInv, ChannelsOpen, Registered
<1>7. PendingRight'
  <2>. SUFFICES ASSUME NEW t \in Sessions, NEW m \in Change, pend'[t] = m
                PROVE  /\ pc[t] = "playing" /\ world'[m.cell] = m.block
                       /\ About(t, m.cell)' = {}
                       /\ \A r \in Sessions \ {t} : pend'[r] # NoChange => pend'[r].cell # m.cell
    BY <1>2 DEF PendingRight
  <2>1. CASE t = s
    <3>1. \A r \in Sessions \ {s} : pend[r] # NoChange => pend[r].cell # k
      BY <1>3 DEF Quiet
    <3>2. About(s, k)' = {} /\ m.cell = k /\ m.block = to
      BY <1>3, <1>4, <2>1
    <3>. QED BY <1>2, <1>4, <2>1, <3>1, <3>2
  <2>2. CASE t # s
    <3>1. pend[t] = m /\ m # NoChange /\ m.cell # k /\ m.cell \in Cells
      <4>1. m # NoChange /\ m.cell \in Cells
        BY ChangeIsChange DEF Change
      <4>. QED BY <1>3, <1>4, <2>2, <4>1 DEF Quiet
    <3>2. /\ pc[t] = "playing" /\ world[m.cell] = m.block
          /\ About(t, m.cell) = {}
          /\ \A r \in Sessions \ {t} : pend[r] # NoChange => pend[r].cell # m.cell
      BY <3>1 DEF EditInv, PendingRight
    <3>3. \A r \in Sessions \ {t} : pend'[r] # NoChange => pend'[r].cell # m.cell
      BY <1>4, <3>1, <3>2
    <3>. QED BY <1>3, <1>4, <3>1, <3>2, <3>3
  <2>. QED BY <2>1, <2>2
<1>8. QueuedRight' /\ ShownRight'
  <2>1. \A t \in Sessions : Loaded(t) \subseteq Cells
    BY DEF Loaded, CellsIn
  <2>2. QueuedRight'
    BY <1>2, <1>3, <1>4, <1>5 DEF EditInv, QueuedRight
  <2>3. ShownRight'
    BY <1>2, <1>3, <1>4, <1>5, <2>1 DEF EditInv, ShownRight
  <2>. QED BY <2>2, <2>3
<1>. QED BY <1>6, <1>7, <1>8 DEF EditInv

\* The broadcast puts the cell's block behind everything the others have not taken yet.
LEMMA BroadcastKeeps ==
  ASSUME TypeOK, EditInv, NEW s \in Sessions, EchoAndBroadcast(s)
  PROVE  EditInv'
<1>0. PICK m \in Change : m = pend[s]
  BY DEF EchoAndBroadcast, TypeOK
<1>1. /\ pc[s] = "playing" /\ pend[s] = m
      /\ shown' = [shown EXCEPT ![s] = Apply(shown[s], m)]
      /\ rx' = TellOthers(s)
      /\ pend' = [pend EXCEPT ![s] = NoChange]
      /\ UNCHANGED <<world, pc, center>>
      /\ m.cell \in Cells
  BY <1>0 DEF EchoAndBroadcast, Change
<1>2. /\ world[m.cell] = m.block /\ About(s, m.cell) = {}
      /\ \A t \in Sessions \ {s} : pend[t] # NoChange => pend[t].cell # m.cell
  BY <1>1 DEF EditInv, PendingRight
<1>3. /\ \A t \in Sessions : Loaded(t)' = Loaded(t)
      /\ \A t \in Sessions \ {s} : pend'[t] = pend[t] /\ shown'[t] = shown[t]
      /\ pend'[s] = NoChange
      /\ \A c : Quiet(c)' /\ c # m.cell => Quiet(c)
      /\ rx'[s] = rx[s]
      /\ \A t \in Sessions \ {s} : ~Registered(t) => rx'[t] = <<>>
      /\ \A t \in Sessions \ {s} : Registered(t) => rx'[t] = Append(rx[t], m)
  BY <1>1 DEF Loaded, TypeOK, Quiet, TellOthers, EditInv, ChannelsOpen
<1>4. \A t \in Sessions : \A c : c # m.cell => About(t, c)' = About(t, c)
  <2>. SUFFICES ASSUME NEW t \in Sessions PROVE \A c : c # m.cell => About(t, c)' = About(t, c)
    OBVIOUS
  <2>1. CASE t = s
    BY <1>3, <2>1 DEF About
  <2>2. CASE t # s /\ Registered(t)
    BY <1>1, <1>3, <2>2, AppendAbout
  <2>3. CASE t # s /\ ~Registered(t)
    <3>1. rx'[t] = rx[t]
      BY <1>3, <2>3 DEF EditInv, ChannelsOpen
    <3>. QED BY <3>1 DEF About
  <2>. QED BY <2>1, <2>2, <2>3
<1>5. ChannelsOpen'
  <2>1. Registered(s)'
    BY <1>1 DEF Registered
  <2>. QED BY <1>1, <1>3, <2>1 DEF ChannelsOpen, Registered
<1>6. PendingRight'
  <2>. SUFFICES ASSUME NEW t \in Sessions, NEW n \in Change, pend'[t] = n
                PROVE  /\ pc[t] = "playing" /\ world[n.cell] = n.block
                       /\ About(t, n.cell)' = {}
                       /\ \A r \in Sessions \ {t} : pend'[r] # NoChange => pend'[r].cell # n.cell
    BY <1>1 DEF PendingRight
  <2>1. t # s /\ pend[t] = n /\ n # NoChange
    <3>1. n # NoChange
      BY ChangeIsChange DEF Change
    <3>. QED BY <1>3, <3>1
  <2>2. /\ pc[t] = "playing" /\ world[n.cell] = n.block
        /\ About(t, n.cell) = {}
        /\ \A r \in Sessions \ {t} : pend[r] # NoChange => pend[r].cell # n.cell
        /\ n.cell # m.cell
    BY <1>2, <2>1 DEF EditInv, PendingRight
  <2>3. About(t, n.cell)' = {}
    BY <1>4, <2>2
  <2>4. \A r \in Sessions \ {t} : pend'[r] # NoChange => pend'[r].cell # n.cell
    BY <1>3, <2>2
  <2>. QED BY <2>2, <2>3, <2>4
<1>7. \A t \in Sessions \ {s} : Registered(t) =>
        /\ About(t, m.cell)' # {}
        /\ \A i \in About(t, m.cell)' :
             (\A j \in About(t, m.cell)' : j <= i) => rx'[t][i] = m
  <2>. SUFFICES ASSUME NEW t \in Sessions \ {s}, Registered(t)
                PROVE  /\ About(t, m.cell)' # {}
                       /\ \A i \in About(t, m.cell)' :
                            (\A j \in About(t, m.cell)' : j <= i) => rx'[t][i] = m
    OBVIOUS
  <2>1. /\ Len(rx[t]) + 1 \in About(t, m.cell)' /\ rx'[t][Len(rx[t]) + 1] = m
        /\ \A i \in About(t, m.cell)' : i <= Len(rx[t]) + 1
        /\ rx'[t] \in Seq(Change)
    BY <1>1, <1>3, AppendAbout
  <2>2. About(t, m.cell)' \subseteq Int /\ Len(rx[t]) + 1 \in Int
    BY <2>1 DEF About, TypeOK
  <2>. QED BY <2>1, <2>2
<1>8. QueuedRight'
  <2>. SUFFICES ASSUME NEW t \in Sessions, NEW c \in Cells, Quiet(c)',
                       NEW i \in About(t, c)', (\A j \in About(t, c) : j <= i)'
                PROVE  rx'[t][i].block = world[c]
    BY <1>1 DEF QueuedRight
  <2>1. CASE c = m.cell
    <3>1. t # s /\ Registered(t)
      BY <1>2, <1>3, <2>1 DEF About
    <3>. QED BY <1>2, <1>7, <2>1, <3>1
  <2>2. CASE c # m.cell
    <3>1. i \in About(t, c) /\ (\A j \in About(t, c) : j <= i) /\ Quiet(c)
      BY <1>3, <1>4, <2>2
    <3>2. rx'[t][i] = rx[t][i]
      <4>1. i \in DOMAIN rx[t]
        BY <3>1 DEF About
      <4>2. CASE t # s /\ Registered(t)
        BY <1>1, <1>3, <4>1, <4>2, AppendAbout
      <4>3. CASE t # s /\ ~Registered(t)
        BY <1>3, <4>1, <4>3 DEF EditInv, ChannelsOpen
      <4>4. CASE t = s
        BY <1>3, <4>4
      <4>. QED BY <4>2, <4>3, <4>4
    <3>. QED BY <3>1, <3>2 DEF EditInv, QueuedRight
  <2>. QED BY <2>1, <2>2
<1>9. ShownRight'
  <2>. SUFFICES ASSUME NEW t \in Sessions, pc[t] = "playing", NEW c \in Loaded(t),
                       Quiet(c)', About(t, c)' = {}
                PROVE  shown'[t][c] = world[c]
    BY <1>1, <1>3 DEF ShownRight
  <2>1. Registered(t)
    BY DEF Registered
  <2>2. CASE t # s
    <3>1. c # m.cell
      BY <1>7, <2>1, <2>2
    <3>. QED BY <1>3, <1>4, <2>2, <3>1 DEF EditInv, ShownRight
  <2>3. CASE t = s
    <3>1. shown'[s] = Apply(shown[s], m) /\ c \in DOMAIN shown[s]
      BY <1>1, <2>3 DEF TypeOK
    <3>2. CASE c = m.cell
      BY <1>2, <2>3, <3>1, <3>2 DEF Apply
    <3>3. CASE c # m.cell
      <4>1. shown'[s][c] = shown[s][c]
        BY <3>1, <3>3 DEF Apply
      <4>. QED BY <1>1, <1>3, <1>4, <2>3, <3>3, <4>1 DEF EditInv, ShownRight
    <3>. QED BY <3>2, <3>3
  <2>. QED BY <2>2, <2>3
<1>. QED BY <1>5, <1>6, <1>8, <1>9 DEF EditInv

\* The change a client takes is the world's block, or another of the cell is behind it.
LEMMA DeliverKeeps ==
  ASSUME TypeOK, EditInv, NEW s \in Sessions, Deliver(s)
  PROVE  EditInv'
<1>1. /\ pc[s] = "playing" /\ pend[s] = NoChange /\ rx[s] # <<>>
      /\ shown' = [shown EXCEPT ![s] = Apply(shown[s], Head(rx[s]))]
      /\ rx' = [rx EXCEPT ![s] = Tail(rx[s])]
      /\ UNCHANGED <<world, pc, pend, center>>
  BY DEF Deliver, AtSelect
<1>2. /\ \A t \in Sessions : Loaded(t)' = Loaded(t)
      /\ \A c : Quiet(c)' = Quiet(c)
      /\ \A t \in Sessions \ {s} : rx'[t] = rx[t] /\ shown'[t] = shown[t]
      /\ rx'[s] = Tail(rx[s]) /\ shown'[s] = Apply(shown[s], Head(rx[s]))
  BY <1>1 DEF Loaded, Quiet, TypeOK
<1>3. \A t \in Sessions \ {s} : \A c : About(t, c)' = About(t, c)
  BY <1>2 DEF About
<1>4. /\ Head(rx[s]) = rx[s][1] /\ 1 \in DOMAIN rx[s]
      /\ \A i \in DOMAIN rx'[s] : i \in Nat /\ i + 1 \in DOMAIN rx[s] /\ rx'[s][i] = rx[s][i + 1]
      /\ \A i \in DOMAIN rx[s] : i \in Nat /\ (i = 1 \/ i - 1 \in DOMAIN rx'[s])
  BY <1>1, <1>2, TailAbout
<1>5. /\ \A c : \A i \in About(s, c)' : i \in Nat /\ i + 1 \in About(s, c)
      /\ \A c : \A i \in About(s, c) : i \in Nat /\ (i = 1 \/ i - 1 \in About(s, c)')
  BY <1>4 DEF About
<1>6. ChannelsOpen'
  <2>1. Registered(s)
    BY <1>1 DEF Registered
  <2>. QED BY <1>1, <1>2, <2>1 DEF EditInv, ChannelsOpen, Registered
<1>7. PendingRight'
  <2>1. \A t \in Sessions : \A m \in Change : pend[t] = m => t # s
    BY <1>1, ChangesAre
  <2>. SUFFICES ASSUME NEW t \in Sessions, NEW m \in Change, pend'[t] = m
                PROVE  /\ pc[t] = "playing" /\ world[m.cell] = m.block
                       /\ About(t, m.cell)' = {}
                       /\ \A r \in Sessions \ {t} : pend'[r] # NoChange => pend'[r].cell # m.cell
    BY <1>1 DEF PendingRight
  <2>2. t # s /\ pend[t] = m
    BY <1>1, <2>1
  <2>3. About(t, m.cell)' = About(t, m.cell)
    BY <1>3, <2>2
  <2>4. /\ pc[t] = "playing" /\ world[m.cell] = m.block /\ About(t, m.cell) = {}
        /\ \A r \in Sessions \ {t} : pend[r] # NoChange => pend[r].cell # m.cell
    BY <2>2 DEF EditInv, PendingRight
  <2>. QED BY <1>1, <2>3, <2>4
<1>8. QueuedRight'
  <2>. SUFFICES ASSUME NEW t \in Sessions, NEW c \in Cells, Quiet(c)',
                       NEW i \in About(t, c)', (\A j \in About(t, c) : j <= i)'
                PROVE  rx'[t][i].block = world[c]
    BY <1>1 DEF QueuedRight
  <2>1. CASE t # s
    BY <1>2, <1>3, <2>1 DEF EditInv, QueuedRight
  <2>2. CASE t = s
    <3>1. i \in Nat /\ i + 1 \in About(s, c)
      BY <1>5, <2>2
    <3>2. \A j \in About(s, c) : j <= i + 1
      <4>. SUFFICES ASSUME NEW j \in About(s, c) PROVE j <= i + 1
        OBVIOUS
      <4>1. j \in Nat /\ (j = 1 \/ j - 1 \in About(s, c)')
        BY <1>5
      <4>2. j - 1 \in About(s, c)' => j - 1 <= i
        BY <2>2
      <4>. QED BY <3>1, <4>1, <4>2
    <3>3. rx[s][i + 1].block = world[c]
      BY <1>2, <3>1, <3>2 DEF EditInv, QueuedRight
    <3>4. rx'[s][i] = rx[s][i + 1]
      BY <1>4, <2>2 DEF About
    <3>. QED BY <2>2, <3>3, <3>4
  <2>. QED BY <2>1, <2>2
<1>9. ShownRight'
  <2>. SUFFICES ASSUME NEW t \in Sessions, pc[t] = "playing", NEW c \in Loaded(t),
                       Quiet(c), About(t, c)' = {}
                PROVE  shown'[t][c] = world[c]
    BY <1>1, <1>2 DEF ShownRight
  <2>1. CASE t # s
    BY <1>2, <1>3, <2>1 DEF EditInv, ShownRight
  <2>2. CASE t = s
    <3>1. c \in DOMAIN shown[s] /\ c \in Cells
      BY <2>2 DEF TypeOK, Loaded, CellsIn
    <3>2. \A j \in About(s, c) : j = 1
      BY <1>5, <2>2
    <3>3. CASE Head(rx[s]).cell = c
      <4>1. 1 \in About(s, c)
        BY <1>4, <3>3 DEF About
      <4>2. rx[s][1].block = world[c]
        BY <3>1, <3>2, <4>1 DEF EditInv, QueuedRight
      <4>. QED BY <1>2, <1>4, <2>2, <3>1, <3>3, <4>2 DEF Apply
    <3>4. CASE Head(rx[s]).cell # c
      <4>1. About(s, c) = {}
        BY <1>4, <3>2, <3>4 DEF About
      <4>2. shown'[s][c] = shown[s][c]
        BY <1>2, <3>1, <3>4 DEF Apply
      <4>. QED BY <1>1, <2>2, <4>1, <4>2 DEF EditInv, ShownRight
    <3>. QED BY <3>3, <3>4
  <2>. QED BY <2>1, <2>2
<1>. QED BY <1>6, <1>7, <1>8, <1>9 DEF EditInv

\* A session that leaves owes nobody a broadcast.
LEMMA DisconnectKeeps ==
  ASSUME EchoMayFail = FALSE, TypeOK, EditInv, NEW s \in Sessions, Disconnect(s)
  PROVE  EditInv'
<1>1. /\ pend[s] = NoChange /\ pend' = pend
      /\ pc' = [pc EXCEPT ![s] = "gone"]
      /\ rx' = [rx EXCEPT ![s] = <<>>]
      /\ shown' = [shown EXCEPT ![s] = <<>>]
      /\ UNCHANGED <<world, center>>
  BY DEF Disconnect, TypeOK
<1>2. /\ \A t \in Sessions : Loaded(t)' = Loaded(t)
      /\ \A c : Quiet(c)' = Quiet(c)
      /\ \A t \in Sessions \ {s} : rx'[t] = rx[t] /\ shown'[t] = shown[t] /\ pc'[t] = pc[t]
      /\ rx'[s] = <<>> /\ pc'[s] = "gone"
  BY <1>1 DEF Loaded, Quiet, TypeOK
<1>3. /\ \A t \in Sessions \ {s} : \A c : About(t, c)' = About(t, c)
      /\ \A c : About(s, c)' = {}
  BY <1>2 DEF About
<1>4. ChannelsOpen'
  BY <1>2 DEF EditInv, ChannelsOpen, Registered
<1>5. PendingRight'
  <2>1. \A t \in Sessions : \A m \in Change : pend[t] = m => t # s
    BY <1>1, ChangesAre
  <2>. QED BY <1>1, <1>2, <1>3, <2>1 DEF EditInv, PendingRight
<1>6. QueuedRight'
  BY <1>1, <1>2, <1>3 DEF EditInv, QueuedRight
<1>7. ShownRight'
  BY <1>1, <1>2, <1>3 DEF EditInv, ShownRight
<1>. QED BY <1>4, <1>5, <1>6, <1>7 DEF EditInv

-----------------------------------------------------------------------------
(* The theorems *)

\* Every state is well formed: in the loop a client shows a block for each cell of the columns
\* around it and for no other (play.rs stream_chunks, TrackedChunks).
THEOREM TypeCorrect == Spec => []TypeOK
<1>1. Init => TypeOK
  BY EditInvStarts
<1>. QED BY <1>1, TypesKept, PTL DEF Spec

\* However snapshots, queued changes and new ones interleave, no client is left with a wrong
\* block: true as long as players edit settled cells only and no handler dies before its
\* broadcast, which the code takes for granted (play.rs handle_frame, broadcast_except).
THEOREM NobodyLeftBehindAlways ==
  ASSUME Contend = FALSE, EchoMayFail = FALSE
  PROVE  Spec => []NobodyLeftBehind
<1>1. TypeOK /\ EditInv /\ [Next]_vars => EditInv'
  <2>. SUFFICES ASSUME TypeOK, EditInv, [Next]_vars PROVE EditInv'
    OBVIOUS
  <2>1. CASE UNCHANGED vars
    BY <2>1 DEF vars, EditInv, ChannelsOpen, PendingRight, QueuedRight, ShownRight, Registered,
                Quiet, About, Loaded
  <2>2. CASE Next
    BY <2>2, JoinKeeps, MoveKeeps, EditKeeps, BroadcastKeeps, DeliverKeeps, DisconnectKeeps
       DEF Next, Task, Client
  <2>. QED BY <2>1, <2>2
<1>2. TypeOK /\ EditInv => NobodyLeftBehind
  <2>. SUFFICES ASSUME TypeOK, EditInv, NEW s \in Sessions, Registered(s),
                       NEW c \in Loaded(s), Quiet(c)
                PROVE  WillShow(s, c) = world[c]
    BY DEF NobodyLeftBehind
  <2>1. c \in Cells
    BY DEF Loaded, CellsIn
  <2>2. WillShow(s, c) =
          IF About(s, c) # {}
          THEN rx[s][CHOOSE i \in About(s, c) : \A j \in About(s, c) : j <= i].block
          ELSE IF pc[s] = "joining" THEN world[c] ELSE shown[s][c]
    BY DEF WillShow, About
  <2>3. CASE About(s, c) # {}
    <3>1. About(s, c) \in SUBSET (1 .. Len(rx[s])) /\ Len(rx[s]) \in Nat
      BY DEF About, TypeOK
    <3>2. \E i \in About(s, c) : \A j \in About(s, c) : j <= i
      BY <2>3, <3>1, LastExists
    <3>. DEFINE last == CHOOSE i \in About(s, c) : \A j \in About(s, c) : j <= i
    <3>3. last \in About(s, c) /\ \A j \in About(s, c) : j <= last
      BY <3>2
    <3>. HIDE DEF last
    <3>4. rx[s][last].block = world[c]
      BY <2>1, <3>3 DEF EditInv, QueuedRight
    <3>. QED BY <2>2, <2>3, <3>4 DEF last
  <2>4. CASE About(s, c) = {}
    BY <2>2, <2>4 DEF EditInv, ShownRight, Registered
  <2>. QED BY <2>3, <2>4
<1>. QED BY <1>1, <1>2, EditInvStarts, TypesKept, PTL DEF Spec

=============================================================================
