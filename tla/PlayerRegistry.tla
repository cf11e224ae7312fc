--------------------------- MODULE PlayerRegistry ---------------------------
(***************************************************************************)
(* The player registry of the Play state (loadstone-net, play.rs): one     *)
(* table of players behind a mutex, and one task per connection that       *)
(* registers itself, introduces itself, relays its movements and removes   *)
(* itself.  The tasks talk to each other only through the unbounded        *)
(* channel each registry entry carries (`out`), which the owning task      *)
(* drains in its play loop.                                                *)
(*                                                                         *)
(* An action is what a task does under one acquisition of the state mutex, *)
(* or between two of them: tasks run on a multi-threaded runtime, so any   *)
(* other task may act between two actions of this one.                     *)
(*                                                                         *)
(* What a client shows is part of the state: the entities it was told to   *)
(* spawn, with their poses, and its tab list.                              *)
(***************************************************************************)
EXTENDS Integers, Sequences, FiniteSets

CONSTANTS
  Sessions,   \* connections that finish Configuration (one run of play_phase each)
  Uuids,      \* player identities
  UuidOf,     \* the identity each session logged in with
  Positions,  \* coordinates a movement packet may carry
  Yaws,       \* rotations a movement packet may carry
  Spawn,      \* the pose every player starts in
  Absent,     \* a registry slot without a player
  Exclusive,  \* TRUE: nobody logs in under an identity that is still in the world
  MaxFrames   \* bound on movement frames, over all clients

Pose  == [pos : Positions, yaw : Yaws]
Entry == [entity_id : Nat, pose : Pose, out : Sessions]

ASSUME UuidOfType    == UuidOf \in [Sessions -> Uuids]
ASSUME SpawnType     == Spawn \in Pose
ASSUME AbsentType    == Absent \notin Entry
ASSUME ExclusiveType == Exclusive \in BOOLEAN
ASSUME MaxFramesType == MaxFrames \in Nat

VARIABLES
  next_entity_id,  \* ServerState.next_entity_id
  players,         \* ServerState.players, Absent where the map has no key
  pc,              \* where the session's task stands in play_phase
  entity_id,       \* the id play_phase drew for the session
  existing,        \* the snapshot of the others play_phase took when registering
  rx,              \* the frames waiting in the session's channel
  pend,            \* frames of the handler under way, not yet broadcast
  entities,        \* what the session's client shows: entity id -> pose
  tab,             \* the identities in the client's tab list
  frames           \* movement frames handled so far (bounds the model only)

vars == <<next_entity_id, players, pc, entity_id, existing, rx, pend, entities,
          tab, frames>>

-----------------------------------------------------------------------------
(* Frames that pass through the channels.  The five frames of a join and   *)
(* the two of a departure are queued under one lock and drained in order:  *)
(* one message stands for each group.                                      *)

JoinMsg  == [kind : {"join"}, eid : Nat, uuid : Uuids, pose : Pose]
SyncMsg  == [kind : {"sync"}, eid : Nat, pose : Pose]   \* SyncEntityPosition
LookMsg  == [kind : {"look"}, eid : Nat, yaw : Yaws]    \* EntityLook
HeadMsg  == [kind : {"head"}, eid : Nat, yaw : Yaws]    \* EntityHeadRotation
LeaveMsg == [kind : {"leave"}, eid : Nat, uuid : Uuids] \* PlayerRemove, RemoveEntities

MoveMsg == SyncMsg \cup LookMsg \cup HeadMsg
Message == JoinMsg \cup MoveMsg \cup LeaveMsg
Other   == [uuid : Uuids, eid : Nat, pose : Pose]       \* ExistingPlayer

InWorld == {"joining", "announcing", "entering", "playing", "leaving"}
PCs     == InWorld \cup {"configuring", "gone"}

\* Faulty variant: a channel only accepts frames once the play loop runs.
InPlayLoop(s) == pc[s] = "playing"

\* The session's receiver exists from registration to the end of run_play.
Receiving(s) == pc[s] \in InWorld \ {"leaving"}

\* The sender of the session's channel lives in its registry entry.
Registered(s) == players[UuidOf[s]] # Absent /\ players[UuidOf[s]].out = s

\* One frame to every registered player but those under identity `source`:
\* a send to a channel whose receiver is gone is dropped.
Broadcast(source, msg) ==
  rx' = [t \in Sessions |->
           IF Registered(t) /\ UuidOf[t] # source /\ Receiving(t)
           THEN Append(rx[t], msg) ELSE rx[t]]

Init ==
  /\ next_entity_id = 0
  /\ players = [u \in Uuids |-> Absent]
  /\ pc = [s \in Sessions |-> "configuring"]
  /\ entity_id = [s \in Sessions |-> 0]
  /\ existing = [s \in Sessions |-> {}]
  /\ rx = [s \in Sessions |-> <<>>]
  /\ pend = [s \in Sessions |-> <<>>]
  /\ entities = [s \in Sessions |-> <<>>]
  /\ tab = [s \in Sessions |-> {}]
  /\ frames = 0

-----------------------------------------------------------------------------
(* Joining *)

\* The identity is free: no session of the same player is anywhere in Play.
Free(u) == \A t \in Sessions : pc[t] \in InWorld => UuidOf[t] # u

\* Faulty variant: the counter is read but not advanced.
IdUnchanged(id) == id

IdAfter(id) == id + 1

\* Faulty variant: the newcomer counts on join broadcasts alone.
NoSnapshot(u) == {}

\* Faulty variant: the snapshot places everyone at the spawn point.
SnapshotAtSpawn(u) ==
  {[uuid |-> v, eid |-> players[v].entity_id, pose |-> Spawn] :
     v \in {w \in Uuids \ {u} : players[w] # Absent}}

\* Everyone in the registry but the newcomer.
Snapshot(u) ==
  {[uuid |-> v, eid |-> players[v].entity_id, pose |-> players[v].pose] :
     v \in {w \in Uuids \ {u} : players[w] # Absent}}

\* play_phase, first lock: draw an entity id, insert the entry (an entry under
\* the same identity is replaced, and its sender dropped), snapshot the others.
Register(s) ==
  /\ pc[s] = "configuring"
  /\ Exclusive => Free(UuidOf[s])
  /\ entity_id' = [entity_id EXCEPT ![s] = next_entity_id]
  /\ next_entity_id' = IdAfter(next_entity_id)
  /\ players' = [players EXCEPT ![UuidOf[s]] =
                   [entity_id |-> next_entity_id, pose |-> Spawn, out |-> s]]
  /\ existing' = [existing EXCEPT ![s] = Snapshot(UuidOf[s])]
  /\ pc' = [pc EXCEPT ![s] = "joining"]
  /\ UNCHANGED <<rx, pend, entities, tab, frames>>

\* The entities the bundle of send_existing_players spawns.
Introduced(s) ==
  [e \in {o.eid : o \in existing[s]} |-> (CHOOSE o \in existing[s] : o.eid = e).pose]

\* run_play up to send_existing_players: the login sequence and the client's own
\* tab entry, then everyone in the snapshot, in one bundle the client applies
\* as a whole.
SendExisting(s) ==
  /\ pc[s] = "joining"
  /\ entities' = [entities EXCEPT ![s] = Introduced(s)]
  /\ tab' = [tab EXCEPT ![s] = {UuidOf[s]} \cup {o.uuid : o \in existing[s]}]
  /\ existing' = [existing EXCEPT ![s] = {}]
  /\ pc' = [pc EXCEPT ![s] = "announcing"]
  /\ UNCHANGED <<next_entity_id, players, entity_id, rx, pend, frames>>

BroadcastJoin(s) ==
  /\ pc[s] = "announcing"
  /\ Broadcast(UuidOf[s], [kind |-> "join", eid |-> entity_id[s],
                           uuid |-> UuidOf[s], pose |-> Spawn])
  /\ pc' = [pc EXCEPT ![s] = "entering"]
  /\ UNCHANGED <<next_entity_id, players, entity_id, existing, pend, entities,
                 tab, frames>>

\* The rest of run_play's writes (abilities, health, time, welcome), none of
\* which touches the registry, then the play loop.
EnterLoop(s) ==
  /\ pc[s] = "entering"
  /\ pc' = [pc EXCEPT ![s] = "playing"]
  /\ UNCHANGED <<next_entity_id, players, entity_id, existing, rx, pend,
                 entities, tab, frames>>

-----------------------------------------------------------------------------
(* The play loop: frames from the client *)

\* The loop is at its select!: no handler is under way.
AtSelect(s) == pc[s] = "playing" /\ pend[s] = <<>>

\* The broadcasts a movement leads to: a look alone is relayed as two frames.
Frames(turnOnly, e, pose) ==
  IF turnOnly THEN <<[kind |-> "look", eid |-> e, yaw |-> pose.yaw],
                     [kind |-> "head", eid |-> e, yaw |-> pose.yaw]>>
              ELSE <<[kind |-> "sync", eid |-> e, pose |-> pose]>>

\* record_movement: under one lock, write the pose of whatever entry the
\* identity has; the broadcasts follow, each under a lock of its own.
RecordMovement(s, pose, turnOnly) ==
  LET u == UuidOf[s]
  IN  /\ AtSelect(s)
      /\ frames < MaxFrames
      /\ frames' = frames + 1
      /\ \/ players[u] = Absent /\ UNCHANGED <<players, pend>>
         \/ /\ players[u] # Absent
            /\ players' = [players EXCEPT ![u] = [@ EXCEPT !.pose = pose]]
            /\ pend' = [pend EXCEPT ![s] = Frames(turnOnly, players[u].entity_id, pose)]
      /\ UNCHANGED <<next_entity_id, pc, entity_id, existing, rx, entities, tab>>

\* The pose the registry holds for the session's identity, if it holds one.
PoseOf(s) == IF players[UuidOf[s]] = Absent THEN Spawn ELSE players[UuidOf[s]].pose

HandlePosition(s) ==
  \E p \in Positions : RecordMovement(s, [PoseOf(s) EXCEPT !.pos = p], FALSE)

HandlePositionLook(s) ==
  \E p \in Positions, y \in Yaws : RecordMovement(s, [pos |-> p, yaw |-> y], FALSE)

HandleLook(s) ==
  \E y \in Yaws : RecordMovement(s, [PoseOf(s) EXCEPT !.yaw = y], TRUE)

BroadcastExcept(s) ==
  /\ pend[s] # <<>>
  /\ Broadcast(UuidOf[s], Head(pend[s]))
  /\ pend' = [pend EXCEPT ![s] = Tail(pend[s])]
  /\ UNCHANGED <<next_entity_id, players, pc, entity_id, existing, entities,
                 tab, frames>>

-----------------------------------------------------------------------------
(* The play loop: frames from the others *)

\* What the client does with a frame.  It ignores a movement of an entity it was
\* never told to spawn.
ShowEntities(shown, m) ==
  CASE m.kind = "join"  -> [e \in DOMAIN shown \cup {m.eid} |->
                              IF e = m.eid THEN m.pose ELSE shown[e]]
    [] m.kind = "leave" -> [e \in DOMAIN shown \ {m.eid} |-> shown[e]]
    [] m.kind = "sync"  -> [e \in DOMAIN shown |->
                              IF e = m.eid THEN m.pose ELSE shown[e]]
    [] m.kind = "look"  -> [e \in DOMAIN shown |->
                              IF e = m.eid THEN [shown[e] EXCEPT !.yaw = m.yaw] ELSE shown[e]]
    [] m.kind = "head"  -> shown

ShowTab(names, m) ==
  CASE m.kind = "join"  -> names \cup {m.uuid}
    [] m.kind = "leave" -> names \ {m.uuid}
    [] OTHER            -> names

\* rx.recv() returns Some: the frame is written to the client.
Deliver(s) ==
  /\ AtSelect(s)
  /\ rx[s] # <<>>
  /\ entities' = [entities EXCEPT ![s] = ShowEntities(entities[s], Head(rx[s]))]
  /\ tab' = [tab EXCEPT ![s] = ShowTab(tab[s], Head(rx[s]))]
  /\ rx' = [rx EXCEPT ![s] = Tail(rx[s])]
  /\ UNCHANGED <<next_entity_id, players, pc, entity_id, existing, pend, frames>>

-----------------------------------------------------------------------------
(* Leaving *)

\* run_play returns: the receiver and the client's connection are gone.
EndRun(s) ==
  /\ pc' = [pc EXCEPT ![s] = "leaving"]
  /\ rx' = [rx EXCEPT ![s] = <<>>]
  /\ existing' = [existing EXCEPT ![s] = {}]
  /\ entities' = [entities EXCEPT ![s] = <<>>]
  /\ tab' = [tab EXCEPT ![s] = {}]
  /\ UNCHANGED <<next_entity_id, players, entity_id, pend, frames>>

\* Faulty variant: the loop goes on after None.
IgnoreClosed(s) == FALSE

\* rx.recv() returns None: the channel is drained and its sender was dropped.
RecvClosed(s) ==
  /\ AtSelect(s)
  /\ rx[s] = <<>>
  /\ ~Registered(s)
  /\ EndRun(s)

\* A read or a write of the connection fails (the client closed it, or sent
\* what cannot be decoded), at any await: never inside a handler's broadcasts.
ConnError(s) ==
  /\ pc[s] \in {"joining", "entering"} \/ AtSelect(s)
  /\ EndRun(s)

\* Faulty variant: the departure is announced but the entry stays.
WithoutRemoval(u) == players

\* Faulty variant: one departure empties the registry.
WithoutAnyone(u) == [v \in Uuids |-> Absent]

\* The registry without the identity's entry, whoever owns it.
Without(u) == [players EXCEPT ![u] = Absent]

\* leave_world: remove the entry and tell everyone still registered.
LeaveWorld(s) ==
  /\ pc[s] = "leaving"
  /\ players' = Without(UuidOf[s])
  /\ Broadcast(UuidOf[s], [kind |-> "leave", eid |-> entity_id[s], uuid |-> UuidOf[s]])
  /\ pc' = [pc EXCEPT ![s] = "gone"]
  /\ UNCHANGED <<next_entity_id, entity_id, existing, pend, entities, tab, frames>>

-----------------------------------------------------------------------------
\* The session's task runs: every step but those its client takes.
Task(s) ==
  \/ SendExisting(s)
  \/ BroadcastJoin(s)
  \/ EnterLoop(s)
  \/ BroadcastExcept(s)
  \/ Deliver(s)
  \/ RecvClosed(s)
  \/ LeaveWorld(s)

Client(s) ==
  \/ Register(s)
  \/ HandlePosition(s)
  \/ HandlePositionLook(s)
  \/ HandleLook(s)
  \/ ConnError(s)

Next == \E s \in Sessions : Task(s) \/ Client(s)

Fairness == \A s \in Sessions : WF_vars(Task(s))

Spec == Init /\ [][Next]_vars /\ Fairness
-----------------------------------------------------------------------------
(* Properties.  They speak of what a client will show once its channel is   *)
(* drained, so that they hold at every moment and not only at rest.         *)

\* The state's shape.  The ids drawn so far all lie below the counter.
TypeOK ==
  /\ next_entity_id \in Nat
  /\ players \in [Uuids -> Entry \cup {Absent}]
  /\ pc \in [Sessions -> PCs]
  /\ entity_id \in [Sessions -> Nat]
  /\ existing \in [Sessions -> SUBSET Other]
  /\ rx \in [Sessions -> Seq(Message)]
  /\ pend \in [Sessions -> Seq(MoveMsg)]
  /\ DOMAIN entities = Sessions
  /\ \A s \in Sessions : /\ DOMAIN entities[s] \subseteq Nat
                         /\ entities[s] \in [DOMAIN entities[s] -> Pose]
  /\ tab \in [Sessions -> SUBSET Uuids]
  /\ frames \in 0 .. MaxFrames
  /\ \A s \in Sessions : pc[s] # "configuring" => entity_id[s] < next_entity_id

\* What the client shows, or will show when the spawn bundle reaches it.
Shown(s) == IF pc[s] = "joining" THEN Introduced(s) ELSE entities[s]

\* A client that knows the entities in `known` knows entity e once the first n
\* frames of the channel q are delivered: the last it is told of e is a spawn.
Knows(known, q, e, n) ==
  LET Told(i, kind) == q[i].kind = kind /\ q[i].eid = e
  IN  \/ e \in known /\ \A i \in 1 .. n : ~Told(i, "leave")
      \/ \E i \in 1 .. n : Told(i, "join") /\ \A j \in i + 1 .. n : ~Told(j, "leave")

WillKnow(s, e) == Knows(DOMAIN Shown(s), rx[s], e, Len(rx[s]))

\* Every movement reaches a client that was told to spawn the entity before and
\* not yet to remove it, however joins, departures and movements of different
\* players interleave between the registry's locks.
MovementAfterSpawn ==
  \A s \in Sessions : \A i \in DOMAIN rx[s] :
    rx[s][i].kind \in {"sync", "look", "head"} =>
      Knows(DOMAIN Shown(s), rx[s], rx[s][i].eid, i - 1)

\* No client is left with the figure of a player who is gone: each entity it
\* will show belongs to another session that is still in the world.
NoGhosts ==
  \A s \in Sessions : Receiving(s) /\ Registered(s) =>
    \A e \in 0 .. next_entity_id - 1 :
      WillKnow(s, e) => \E t \in Sessions \ {s} : entity_id[t] = e /\ pc[t] \in InWorld

\* No client misses a player: whoever has announced itself will be shown by
\* everyone in the world, even by those that were registering meanwhile.
NobodyMissing ==
  \A s, t \in Sessions :
    s # t /\ Receiving(s) /\ pc[t] \in {"entering", "playing"} => WillKnow(s, entity_id[t])

\* The last frame of the session's channel that satisfies a test; 0 if none.
LastThat(s, Test(_)) ==
  LET hits == {i \in DOMAIN rx[s] : Test(rx[s][i])}
  IN  IF hits = {} THEN 0 ELSE CHOOSE i \in hits : \A j \in hits : j <= i

WillShow(s, e) ==
  LET p == LastThat(s, LAMBDA m : m.eid = e /\ m.kind \in {"join", "sync"})
      y == LastThat(s, LAMBDA m : m.eid = e /\ m.kind \in {"join", "sync", "look"})
  IN  [pos |-> IF p = 0 THEN Shown(s)[e].pos ELSE rx[s][p].pose.pos,
       yaw |-> IF y = 0 THEN Shown(s)[e].yaw
               ELSE IF rx[s][y].kind = "look" THEN rx[s][y].yaw ELSE rx[s][y].pose.yaw]

\* Every client ends up showing a player where the registry has it, once the
\* player's own broadcasts are out: a movement recorded while someone joins is
\* neither lost nor overtaken by an older pose.
PosesConverge ==
  \A s, t \in Sessions :
    s # t /\ Receiving(s) /\ pc[t] \in {"entering", "playing"} /\ pend[t] = <<>> =>
      WillShow(s, entity_id[t]) = players[UuidOf[t]].pose

\* The tab list is keyed by identity where figures are keyed by entity id: when
\* a player leaves and comes back, the removal of the old session may not erase
\* the new one's line, nor a line outlive its player.
TabListExact ==
  \A s \in Sessions : Receiving(s) =>
    LET here   == {UuidOf[t] : t \in {t \in Sessions : pc[t] \in InWorld}}
        inLoop == {UuidOf[t] : t \in {t \in Sessions : pc[t] \in {"entering", "playing"}}}
        first  == IF pc[s] = "joining"
                  THEN {UuidOf[s]} \cup {o.uuid : o \in existing[s]} ELSE tab[s]
        Listed(u) ==
          LET i == LastThat(s, LAMBDA m : m.kind \in {"join", "leave"} /\ m.uuid = u)
          IN  IF i = 0 THEN u \in first ELSE rx[s][i].kind = "join"
    IN  \A u \in Uuids : (u \in inLoop => Listed(u)) /\ (Listed(u) => u \in here)

\* The session a player logged in with last stays registered for as long as it
\* runs, so that others see it and it hears from them.
StaysRegistered ==
  \A s \in Sessions :
    Receiving(s)
    /\ (\A t \in Sessions \ {s} :
          UuidOf[t] = UuidOf[s] /\ pc[t] # "configuring" => entity_id[t] < entity_id[s])
    => Registered(s)

\* Everyone forgets a player that left, for good.
DepartedForgotten ==
  \A s, t \in Sessions :
    s # t => [](pc[t] = "gone" => <>[](entity_id[t] \notin DOMAIN entities[s]))

\* A session whose entry was taken over or removed by another session of the
\* same player notices (its channel closes) and ends.
ReplacedSessionEnds ==
  \A s \in Sessions : pc[s] \in InWorld /\ ~Registered(s) ~> pc[s] = "gone"
=============================================================================
