----------------------------- MODULE MobTicker ------------------------------
(***************************************************************************)
(* The mobs and how their movements reach the clients (loadstone-world     *)
(* entity.rs; loadstone-net play.rs: tick_entities, record_movement,       *)
(* stream_chunks; loadstone-server main.rs: spawn_entity_ticker).          *)
(*                                                                         *)
(* One task ticks the mobs.  A tick takes three locks one after another:   *)
(* the registry, for the players' positions; the world and the mobs, to    *)
(* step them; the registry again, to queue for every player what changed   *)
(* in the part of the world it sees.  Players join, walk and leave in      *)
(* between.  What a player has been told of is kept in its registry entry  *)
(* (visible_entities); what its client shows follows when the play loop    *)
(* drains the channel.                                                     *)
(*                                                                         *)
(* The world is a row of places, ChunkSize to a chunk column.  Height, and *)
(* turns and drifts too small for the `moved` flag, are left out.          *)
(***************************************************************************)
EXTENDS Integers, Sequences, FiniteSets, SequencesExt, Functions

CONSTANTS
  Sessions,      \* connections that reach Play, each with its own identity
  Mobs,          \* INITIAL_MOBS
  Hostile,       \* those that chase players (EntityKind::hostile)
  Home,          \* where each of them was spawned
  Width,         \* places in the row
  ChunkSize,     \* places in a chunk column (16)
  ViewDistance,  \* VIEW_DISTANCE
  ChaseRadius,   \* CHASE_RADIUS
  LeashRadius,   \* LEASH_RADIUS
  SpawnPlace,    \* where players enter the world
  MaxQueue       \* bound on the frames that wait in a channel when a tick starts

Places == 0 .. Width - 1

ASSUME MobsType  == IsFiniteSet(Mobs) /\ Hostile \subseteq Mobs /\ Home \in [Mobs -> Places]
ASSUME PlaceType == Width \in Nat /\ SpawnPlace \in Places /\ ChunkSize \in Nat \ {0}
ASSUME RadiiType == {ViewDistance, ChaseRadius, LeashRadius, MaxQueue} \subseteq Nat

VARIABLES
  mobs,     \* EntityStore.mobs: where each mob is, where it faces, whether it walks
  ticker,   \* the ticking task: its stage, the positions it read, the mobs that moved
  pc,       \* per session: "outside", "joining", "playing", "crossing", "leaving"
  place,    \* the position in its registry entry
  visible,  \* visible_entities of its registry entry
  loaded,   \* the column its loop has streamed chunks around
  rx,       \* the frames about mobs in its channel
  shown     \* the mobs its client shows, each as last told

vars == <<mobs, ticker, pc, place, visible, loaded, rx, shown>>

Yaw  == {-1, 1}
Pose == [at : Places, yaw : Yaw]
Mob  == [at : Places, yaw : Yaw, walking : BOOLEAN]

PoseOf(m) == [at |-> mobs[m].at, yaw |-> mobs[m].yaw]

Column(p)     == p \div ChunkSize
Distance(p,q) == IF p < q THEN q - p ELSE p - q
InView(c, p)  == Distance(c, Column(p)) <= ViewDistance

Registered == {s \in Sessions : pc[s] # "outside"}
Nothing    == <<>>
Idle       == [stage |-> "idle", targets |-> {}, moved |-> {}]

Init ==
  /\ mobs = [m \in Mobs |-> [at |-> Home[m], yaw |-> 1, walking |-> FALSE]]
  /\ ticker = Idle
  /\ pc = [s \in Sessions |-> "outside"]
  /\ place = [s \in Sessions |-> SpawnPlace]
  /\ visible = [s \in Sessions |-> {}]
  /\ loaded = [s \in Sessions |-> Column(SpawnPlace)]
  /\ rx = [s \in Sessions |-> <<>>]
  /\ shown = [s \in Sessions |-> Nothing]

-----------------------------------------------------------------------------
(* A mob's step *)

\* nearest_target: the closest players within reach, either of them on a tie.
Nearest(m, targets) ==
  LET near == {t \in targets : Distance(t, mobs[m].at) < ChaseRadius}
  IN  {t \in near : \A u \in near : Distance(t, mobs[m].at) <= Distance(u, mobs[m].at)}

\* Faulty variant: the distance is taken for the direction.
NotNormalised(m, p) == p - mobs[m].at

Face(m, p) == IF p = mobs[m].at THEN mobs[m].yaw ELSE IF p > mobs[m].at THEN 1 ELSE -1

\* A walk goes on, or its time is up and it rolls for another one.
Wander(m) ==
  {[yaw |-> mobs[m].yaw, walking |-> w] : w \in {mobs[m].walking, FALSE}}
    \cup {[yaw |-> y, walking |-> TRUE] : y \in Yaw}

\* A mob that drifted too far from where it was spawned turns back.
Leashed(m) ==
  IF Distance(Home[m], mobs[m].at) > LeashRadius
  THEN {[yaw |-> Face(m, Home[m]), walking |-> TRUE]}
  ELSE Wander(m)

\* Where it ends when it goes ahead: a block may be in the way.
Ahead(m, yaw) == {mobs[m].at, mobs[m].at + yaw} \cap Places

\* Entity::step
Steps(m, targets) ==
  LET prey == IF m \in Hostile THEN Nearest(m, targets) ELSE {}
  IN  IF prey # {}
      THEN {[at |-> p, yaw |-> y, walking |-> mobs[m].walking] :
              p \in UNION {Ahead(m, Face(m, t)) : t \in prey}, y \in {Face(m, t) : t \in prey}}
      ELSE UNION {{[at |-> p, yaw |-> g.yaw, walking |-> g.walking] :
                     p \in IF g.walking THEN Ahead(m, g.yaw) ELSE {mobs[m].at}} : g \in Leashed(m)}

\* Faulty variant: a mob that only turns is not reported.
ChangedPlace(m, next) == next.at # mobs[m].at

Moved(m, next) == next.at # mobs[m].at \/ next.yaw # mobs[m].yaw

-----------------------------------------------------------------------------
(* The ticker *)

\* tick_entities, first lock: nothing happens while nobody is in the world.
Observe ==
  /\ ticker = Idle
  /\ Registered # {}
  /\ \A s \in Sessions : Len(rx[s]) <= MaxQueue
  /\ ticker' = [stage |-> "step", targets |-> {place[s] : s \in Registered}, moved |-> {}]
  /\ UNCHANGED <<mobs, pc, place, visible, loaded, rx, shown>>

\* Second lock: every mob takes a step; the loop keeps a copy of them.
StepMobs ==
  /\ ticker.stage = "step"
  /\ mobs' \in [Mobs -> UNION {Steps(m, ticker.targets) : m \in Mobs}]
  /\ \A m \in Mobs : mobs'[m] \in Steps(m, ticker.targets)
  /\ ticker' = [stage |-> "stream", targets |-> {},
                moved |-> {m \in Mobs : Moved(m, mobs'[m])}]
  /\ UNCHANGED <<pc, place, visible, loaded, rx, shown>>

RemoveEntities(ms)    == [kind |-> "remove", mobs |-> ms, pose |-> Nothing]
SpawnEntity(m)        == [kind |-> "spawn", mobs |-> {m}, pose |-> PoseOf(m)]
SyncEntityPosition(m) == [kind |-> "sync", mobs |-> {m}, pose |-> PoseOf(m)]

\* Faulty variant: sight is taken from where the player entered the world.
SeenFromSpawn(s) == {m \in Mobs : InView(Column(SpawnPlace), mobs[m].at)}

Sees(s) == {m \in Mobs : InView(Column(place[s]), mobs[m].at)}

\* Faulty variant: what went out of sight is never withdrawn.
NothingLost(s) == {}

Lost(s) == visible[s] \ Sees(s)

\* What one mob in sight makes the ticker queue: it is introduced once.
Update(s, m) ==
  (IF m \in visible[s] THEN <<>> ELSE <<SpawnEntity(m)>>)
    \o (IF m \in ticker.moved THEN <<SyncEntityPosition(m)>> ELSE <<>>)

\* All the frames of one tick for one player; mobs come in the order of the hash map,
\* the same for everyone.
Batch(s, order) ==
  (IF Lost(s) = {} THEN <<>> ELSE <<RemoveEntities(Lost(s))>>)
    \o FlattenSeq([i \in DOMAIN order |->
                     IF order[i] \in Sees(s) THEN Update(s, order[i]) ELSE <<>>])

Orders == {o \in [1 .. Cardinality(Mobs) -> Mobs] : Range(o) = Mobs}

\* Third lock: queue the batch for every player and record what it now knows.  A
\* player whose loop has ended no longer receives.
Stream ==
  /\ ticker.stage = "stream"
  /\ \E order \in Orders :
       rx' = [s \in Sessions |->
                IF s \in Registered /\ pc[s] # "leaving" THEN rx[s] \o Batch(s, order) ELSE rx[s]]
  /\ visible' = [s \in Sessions |-> IF s \in Registered THEN Sees(s) ELSE visible[s]]
  /\ ticker' = Idle
  /\ UNCHANGED <<mobs, pc, place, loaded, shown>>

Ticker == Observe \/ StepMobs \/ Stream

-----------------------------------------------------------------------------
(* The players *)

\* Faulty variant: an entry starts with the mobs of the player's last session.
KeptVisible(s) == visible[s]

FreshVisible(s) == {}

\* play_phase registers a fresh entry at the spawn point, with a fresh channel.
Register(s) ==
  /\ pc[s] = "outside"
  /\ pc' = [pc EXCEPT ![s] = "joining"]
  /\ place' = [place EXCEPT ![s] = SpawnPlace]
  /\ visible' = [visible EXCEPT ![s] = FreshVisible(s)]
  /\ UNCHANGED <<mobs, ticker, loaded, rx, shown>>

\* run_play has sent the first chunks and starts the loop.
EnterLoop(s) ==
  /\ pc[s] = "joining"
  /\ pc' = [pc EXCEPT ![s] = "playing"]
  /\ loaded' = [loaded EXCEPT ![s] = Column(SpawnPlace)]
  /\ UNCHANGED <<mobs, ticker, place, visible, rx, shown>>

\* A movement: record_movement updates the entry under the lock; a border crossed is
\* streamed afterwards, without it.
Move(s) ==
  /\ pc[s] = "playing"
  /\ \E p \in Places :
       /\ Distance(p, place[s]) = 1
       /\ place' = [place EXCEPT ![s] = p]
       /\ pc' = [pc EXCEPT ![s] = IF Column(p) = loaded[s] THEN "playing" ELSE "crossing"]
  /\ UNCHANGED <<mobs, ticker, visible, loaded, rx, shown>>

StreamChunks(s) ==
  /\ pc[s] = "crossing"
  /\ pc' = [pc EXCEPT ![s] = "playing"]
  /\ loaded' = [loaded EXCEPT ![s] = Column(place[s])]
  /\ UNCHANGED <<mobs, ticker, place, visible, rx, shown>>

\* What a client does with a frame about mobs: it adds or replaces one, drops some,
\* and ignores movements of those it does not know.
Show(entities, msg) ==
  CASE msg.kind = "remove" -> Restrict(entities, DOMAIN entities \ msg.mobs)
    [] msg.kind = "spawn"  -> [m \in DOMAIN entities \cup msg.mobs |->
                                 IF m \in msg.mobs THEN msg.pose ELSE entities[m]]
    [] msg.kind = "sync"   -> [m \in DOMAIN entities |->
                                 IF m \in msg.mobs THEN msg.pose ELSE entities[m]]

\* The loop's select! takes a frame from the channel and writes it.
Deliver(s) ==
  /\ pc[s] = "playing"
  /\ rx[s] # <<>>
  /\ shown' = [shown EXCEPT ![s] = Show(shown[s], Head(rx[s]))]
  /\ rx' = [rx EXCEPT ![s] = Tail(rx[s])]
  /\ UNCHANGED <<mobs, ticker, pc, place, visible, loaded>>

\* run_play ends, on any error: the channel's receiver is dropped.
EndRun(s) ==
  /\ pc[s] \in {"joining", "playing", "crossing"}
  /\ pc' = [pc EXCEPT ![s] = "leaving"]
  /\ rx' = [rx EXCEPT ![s] = <<>>]
  /\ shown' = [shown EXCEPT ![s] = Nothing]
  /\ UNCHANGED <<mobs, ticker, place, visible, loaded>>

\* leave_world drops the entry.
LeaveWorld(s) ==
  /\ pc[s] = "leaving"
  /\ pc' = [pc EXCEPT ![s] = "outside"]
  /\ UNCHANGED <<mobs, ticker, place, visible, loaded, rx, shown>>

Task(s) == EnterLoop(s) \/ StreamChunks(s) \/ LeaveWorld(s)

Client(s) == Register(s) \/ Move(s) \/ EndRun(s)

Next == Ticker \/ \E s \in Sessions : Task(s) \/ Deliver(s) \/ Client(s)

\* The ticker's interval fires for ever and each task is scheduled; select! picks at
\* random among the branches that are ready, so a queued frame is not passed over for ever.
Fairness ==
  /\ WF_vars(Ticker)
  /\ \A s \in Sessions : WF_vars(Task(s)) /\ SF_vars(Deliver(s))

Spec == Init /\ [][Next]_vars /\ Fairness

-----------------------------------------------------------------------------
(* Properties *)

Message == [kind : {"remove", "spawn", "sync"}, mobs : SUBSET Mobs, pose : Pose \cup {Nothing}]

TypeOK ==
  /\ mobs \in [Mobs -> Mob]
  /\ ticker \in [stage : {"idle", "step", "stream"}, targets : SUBSET Places,
                 moved : SUBSET Mobs]
  /\ pc \in [Sessions -> {"outside", "joining", "playing", "crossing", "leaving"}]
  /\ place \in [Sessions -> Places]
  /\ visible \in [Sessions -> SUBSET Mobs]
  /\ loaded \in [Sessions -> 0 .. Column(Width - 1)]
  /\ rx \in [Sessions -> Seq(Message)]
  /\ DOMAIN shown = Sessions
  /\ \A s \in Sessions : shown[s] \in [DOMAIN shown[s] -> Pose] /\ DOMAIN shown[s] \subseteq Mobs

Receiving == {s \in Sessions : pc[s] \in {"joining", "playing", "crossing"}}

\* What the client of s shows once it has received the first n frames that wait.
After(s, n) == FoldLeft(Show, shown[s], SubSeq(rx[s], 1, n))

\* Each mob is introduced once before anything else is said of it, and withdrawn only
\* where it was introduced, through departures, returns and walks between the ticker's
\* locks.
MobsInOrder ==
  \A s \in Receiving : \A i \in DOMAIN rx[s] :
    LET known == DOMAIN After(s, i - 1)
    IN  IF rx[s][i].kind = "spawn" THEN rx[s][i].mobs \cap known = {}
        ELSE rx[s][i].mobs \subseteq known

\* What the registry believes a client knows is what it will know: the same mobs, and,
\* between two ticks, each of them exactly where it is.
ViewsExact ==
  \A s \in Receiving :
    LET final == After(s, Len(rx[s]))
    IN  /\ DOMAIN final = visible[s]
        /\ ticker.stage # "stream" => \A m \in visible[s] : final[m] = PoseOf(m)

InLoadedView(s, m) == pc[s] = "playing" /\ InView(loaded[s], mobs[m].at)
OutOfView(s, m)    == pc[s] = "playing" /\ ~InView(loaded[s], mobs[m].at)

\* A mob that stays in the columns a client has loaded comes to be shown there.
MobsAppear ==
  \A s \in Sessions, m \in Mobs :
    InLoadedView(s, m) ~> (m \in DOMAIN shown[s] \/ ~InLoadedView(s, m))

\* A mob introduced for a view the player has left since does not stay behind: as long
\* as it is out of the loaded columns, the client is bound to drop it.
MobsVanish ==
  \A s \in Sessions, m \in Mobs :
    OutOfView(s, m) ~> (m \notin DOMAIN shown[s] \/ ~OutOfView(s, m))
=============================================================================
