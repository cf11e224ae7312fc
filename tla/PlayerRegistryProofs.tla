------------------------ MODULE PlayerRegistryProofs ------------------------
(***************************************************************************)
(* Proofs about PlayerRegistry, for any sessions, identities, poses and    *)
(* number of movement frames: the registry and the queues first, then what *)
(* each session knows of the others, and last what the clients come to     *)
(* show when no player is in the world twice: everyone where the registry  *)
(* has them, and in the tab list exactly the players of the world.         *)
(***************************************************************************)
EXTENDS PlayerRegistry, CommonLemmas

-----------------------------------------------------------------------------
(* Type correctness *)

\* A broadcast of a well-formed frame leaves well-formed channels.
LEMMA BroadcastType ==
  ASSUME NEW source, NEW msg \in Message, rx \in [Sessions -> Seq(Message)],
         Broadcast(source, msg)
  PROVE  rx' \in [Sessions -> Seq(Message)]
BY DEF Broadcast

\* The snapshot a newcomer takes holds well-formed players.
LEMMA SnapshotType ==
  ASSUME NEW u \in Uuids, players \in [Uuids -> Entry \cup {Absent}]
  PROVE  Snapshot(u) \subseteq Other
BY DEF Snapshot, Entry, Other

\* The figures introduced to a newcomer have poses.
LEMMA IntroducedType ==
  ASSUME NEW s \in Sessions, existing[s] \in SUBSET Other
  PROVE  /\ DOMAIN Introduced(s) \subseteq Nat
         /\ Introduced(s) \in [DOMAIN Introduced(s) -> Pose]
<1>1. DOMAIN Introduced(s) = {o.eid : o \in existing[s]}
  BY DEF Introduced
<1>2. ASSUME NEW e \in {o.eid : o \in existing[s]}
      PROVE  (CHOOSE o \in existing[s] : o.eid = e).pose \in Pose
  <2>1. \E o \in existing[s] : o.eid = e
    OBVIOUS
  <2>2. (CHOOSE o \in existing[s] : o.eid = e) \in existing[s]
    BY <2>1
  <2>. QED BY <2>2 DEF Other
<1>. QED BY <1>1, <1>2 DEF Introduced, Other

\* A client that shows figures in their poses still does after one more frame.
LEMMA ShowType ==
  ASSUME NEW shown, DOMAIN shown \subseteq Nat, shown \in [DOMAIN shown -> Pose],
         NEW m \in Message
  PROVE  LET after == ShowEntities(shown, m)
         IN  DOMAIN after \subseteq Nat /\ after \in [DOMAIN after -> Pose]
<1>1. CASE m \in JoinMsg
  BY <1>1 DEF JoinMsg, ShowEntities
<1>2. CASE m \in SyncMsg
  BY <1>2 DEF SyncMsg, ShowEntities
<1>3. CASE m \in LookMsg
  BY <1>3 DEF LookMsg, ShowEntities, Pose
<1>4. CASE m \in HeadMsg
  BY <1>4 DEF HeadMsg, ShowEntities
<1>5. CASE m \in LeaveMsg
  BY <1>5 DEF LeaveMsg, ShowEntities
<1>. QED BY <1>1, <1>2, <1>3, <1>4, <1>5 DEF Message, MoveMsg

\* The tab list stays a set of identities.
LEMMA ShowTabType ==
  ASSUME NEW names \in SUBSET Uuids, NEW m \in Message
  PROVE  ShowTab(names, m) \in SUBSET Uuids
BY DEF ShowTab, Message, JoinMsg, MoveMsg, SyncMsg, LookMsg, HeadMsg, LeaveMsg

\* The broadcasts of a movement are movement frames.
LEMMA FramesType ==
  ASSUME NEW turnOnly \in BOOLEAN, NEW e \in Nat, NEW pose \in Pose
  PROVE  Frames(turnOnly, e, pose) \in Seq(MoveMsg)
<1>1. pose.yaw \in Yaws
  BY DEF Pose
<1>2. /\ [kind |-> "look", eid |-> e, yaw |-> pose.yaw] \in MoveMsg
      /\ [kind |-> "head", eid |-> e, yaw |-> pose.yaw] \in MoveMsg
  BY <1>1 DEF MoveMsg, LookMsg, HeadMsg
<1>3. [kind |-> "sync", eid |-> e, pose |-> pose] \in MoveMsg
  BY DEF MoveMsg, SyncMsg
<1>4. ASSUME NEW a \in MoveMsg, NEW b \in MoveMsg
      PROVE  <<a>> \in Seq(MoveMsg) /\ <<a, b>> \in Seq(MoveMsg)
  OBVIOUS
<1>. QED BY <1>2, <1>3, <1>4 DEF Frames

\* A movement starts from a well-formed pose.
LEMMA PoseOfType ==
  ASSUME NEW s \in Sessions, players \in [Uuids -> Entry \cup {Absent}]
  PROVE  PoseOf(s) \in Pose
BY UuidOfType, SpawnType DEF PoseOf, Entry

\* Recording a movement keeps the types, whatever well-formed frames it leads to.
LEMMA HandlersType ==
  ASSUME TypeOK, NEW s \in Sessions,
         HandlePosition(s) \/ HandlePositionLook(s) \/ HandleLook(s)
  PROVE  TypeOK'
<1>1. PICK pose \in Pose, turnOnly \in BOOLEAN : RecordMovement(s, pose, turnOnly)
  <2>1. PoseOf(s) \in Pose
    BY PoseOfType DEF TypeOK
  <2>. QED BY <2>1 DEF HandlePosition, HandlePositionLook, HandleLook, Pose
<1>. DEFINE u == UuidOf[s]
<1>2. u \in Uuids
  BY UuidOfType
<1>3. frames' \in 0 .. MaxFrames
  BY <1>1, MaxFramesType DEF RecordMovement, TypeOK
<1>4. CASE players[u] = Absent
  BY <1>1, <1>3, <1>4 DEF RecordMovement, TypeOK
<1>5. CASE players[u] # Absent
  <2>1. players[u] \in Entry
    BY <1>2, <1>5 DEF TypeOK
  <2>2. [players[u] EXCEPT !.pose = pose] \in Entry
    BY <2>1 DEF Entry
  <2>3. players' \in [Uuids -> Entry \cup {Absent}]
    <3>. DEFINE entry == [players[u] EXCEPT !.pose = pose]
    <3>1. players' = [players EXCEPT ![u] = entry]
      BY <1>1, <1>5 DEF RecordMovement
    <3>. HIDE DEF entry, u
    <3>. QED BY <1>2, <2>2, <3>1 DEF TypeOK, entry
  <2>4. Frames(turnOnly, players[u].entity_id, pose) \in Seq(MoveMsg)
    BY <2>1, FramesType DEF Entry
  <2>5. pend' \in [Sessions -> Seq(MoveMsg)]
    BY <1>1, <1>5, <2>4 DEF RecordMovement, TypeOK
  <2>. QED BY <1>1, <1>3, <2>3, <2>5 DEF RecordMovement, TypeOK
<1>. QED BY <1>4, <1>5

\* TypeOK holds in every reachable state: the registry, the channels and the
\* clients' views only ever hold well-formed data, and an id that was drawn lies
\* below the counter for good.
THEOREM TypeCorrect == Spec => []TypeOK
<1>1. Init => TypeOK
  BY MaxFramesType DEF Init, TypeOK, PCs, InWorld
<1>2. TypeOK /\ [Next]_vars => TypeOK'
  <2>. SUFFICES ASSUME TypeOK, [Next]_vars PROVE TypeOK'
    OBVIOUS
  <2>1. CASE UNCHANGED vars
    BY <2>1 DEF TypeOK, vars
  <2>2. ASSUME NEW s \in Sessions, Register(s) PROVE TypeOK'
    <3>1. players' \in [Uuids -> Entry \cup {Absent}]
      BY <2>2, UuidOfType, SpawnType DEF Register, TypeOK, Entry
    <3>2. existing' \in [Sessions -> SUBSET Other]
      BY <2>2, UuidOfType, SnapshotType DEF Register, TypeOK
    <3>3. \A t \in Sessions : pc'[t] # "configuring" => entity_id'[t] < next_entity_id'
      BY <2>2 DEF Register, TypeOK, IdAfter
    <3>. QED BY <2>2, <3>1, <3>2, <3>3 DEF Register, TypeOK, IdAfter, PCs, InWorld
  <2>3. ASSUME NEW s \in Sessions, SendExisting(s) PROVE TypeOK'
    <3>1. /\ DOMAIN Introduced(s) \subseteq Nat
          /\ Introduced(s) \in [DOMAIN Introduced(s) -> Pose]
      BY IntroducedType DEF TypeOK
    <3>2. tab' \in [Sessions -> SUBSET Uuids]
      <4>. DEFINE listed == {UuidOf[s]} \cup {o.uuid : o \in existing[s]}
      <4>1. listed \in SUBSET Uuids
        BY UuidOfType DEF TypeOK, Other
      <4>2. tab' = [tab EXCEPT ![s] = listed]
        BY <2>3 DEF SendExisting
      <4>. HIDE DEF listed
      <4>. QED BY <4>1, <4>2 DEF TypeOK
    <3>3. \A t \in Sessions : /\ DOMAIN entities'[t] \subseteq Nat
                              /\ entities'[t] \in [DOMAIN entities'[t] -> Pose]
      BY <2>3, <3>1 DEF SendExisting, TypeOK
    <3>. QED BY <2>3, <3>2, <3>3 DEF SendExisting, TypeOK, PCs, InWorld
  <2>4. ASSUME NEW s \in Sessions, BroadcastJoin(s) PROVE TypeOK'
    <3>1. [kind |-> "join", eid |-> entity_id[s], uuid |-> UuidOf[s], pose |-> Spawn]
            \in Message
      BY UuidOfType, SpawnType DEF TypeOK, Message, JoinMsg
    <3>2. rx' \in [Sessions -> Seq(Message)]
      BY <2>4, <3>1, BroadcastType DEF BroadcastJoin, TypeOK
    <3>. QED BY <2>4, <3>2 DEF BroadcastJoin, TypeOK, PCs, InWorld
  <2>5. ASSUME NEW s \in Sessions, EnterLoop(s) PROVE TypeOK'
    BY <2>5 DEF EnterLoop, TypeOK, PCs, InWorld
  <2>6. ASSUME NEW s \in Sessions,
               HandlePosition(s) \/ HandlePositionLook(s) \/ HandleLook(s)
        PROVE  TypeOK'
    BY <2>6, HandlersType
  <2>7. ASSUME NEW s \in Sessions, BroadcastExcept(s) PROVE TypeOK'
    <3>1. Head(pend[s]) \in Message /\ Tail(pend[s]) \in Seq(MoveMsg)
      BY <2>7 DEF BroadcastExcept, TypeOK, Message
    <3>2. rx' \in [Sessions -> Seq(Message)]
      BY <2>7, <3>1, BroadcastType DEF BroadcastExcept, TypeOK
    <3>. QED BY <2>7, <3>1, <3>2 DEF BroadcastExcept, TypeOK
  <2>8. ASSUME NEW s \in Sessions, Deliver(s) PROVE TypeOK'
    <3>. DEFINE m == Head(rx[s])
    <3>1. m \in Message /\ Tail(rx[s]) \in Seq(Message)
      BY <2>8 DEF Deliver, TypeOK
    <3>2. /\ DOMAIN ShowEntities(entities[s], m) \subseteq Nat
          /\ ShowEntities(entities[s], m) \in [DOMAIN ShowEntities(entities[s], m) -> Pose]
      BY <3>1, ShowType DEF TypeOK
    <3>3. ShowTab(tab[s], m) \in SUBSET Uuids
      BY <3>1, ShowTabType DEF TypeOK
    <3>4. \A t \in Sessions : /\ DOMAIN entities'[t] \subseteq Nat
                              /\ entities'[t] \in [DOMAIN entities'[t] -> Pose]
      BY <2>8, <3>2 DEF Deliver, TypeOK
    <3>. QED BY <2>8, <3>1, <3>3, <3>4 DEF Deliver, TypeOK
  <2>9. ASSUME NEW s \in Sessions, EndRun(s), pc[s] # "configuring" PROVE TypeOK'
    <3>1. \A t \in Sessions : /\ DOMAIN entities'[t] \subseteq Nat
                              /\ entities'[t] \in [DOMAIN entities'[t] -> Pose]
      BY <2>9 DEF EndRun, TypeOK
    <3>2. rx' \in [Sessions -> Seq(Message)]
      BY <2>9 DEF EndRun, TypeOK
    <3>3. /\ pc' \in [Sessions -> PCs]
          /\ \A t \in Sessions : pc'[t] # "configuring" => entity_id[t] < next_entity_id
      BY <2>9 DEF EndRun, TypeOK, PCs, InWorld
    <3>. QED BY <2>9, <3>1, <3>2, <3>3 DEF EndRun, TypeOK
  <2>10. ASSUME NEW s \in Sessions, LeaveWorld(s) PROVE TypeOK'
    <3>1. [kind |-> "leave", eid |-> entity_id[s], uuid |-> UuidOf[s]] \in Message
      BY UuidOfType DEF TypeOK, Message, LeaveMsg
    <3>2. rx' \in [Sessions -> Seq(Message)]
      BY <2>10, <3>1, BroadcastType DEF LeaveWorld, TypeOK
    <3>3. players' \in [Uuids -> Entry \cup {Absent}]
      BY <2>10 DEF LeaveWorld, Without, TypeOK
    <3>. QED BY <2>10, <3>2, <3>3 DEF LeaveWorld, TypeOK, PCs, InWorld
  <2>. QED
    BY <2>1, <2>2, <2>3, <2>4, <2>5, <2>6, <2>7, <2>8, <2>9, <2>10
       DEF Next, Task, Client, RecvClosed, ConnError, AtSelect
<1>. QED BY <1>1, <1>2, PTL DEF Spec

-----------------------------------------------------------------------------
(* Who is in the registry *)

\* Ids are drawn once: no two sessions ever share one.
IdsDistinct ==
  \A s, t \in Sessions :
    s # t /\ pc[s] # "configuring" /\ pc[t] # "configuring" => entity_id[s] # entity_id[t]

\* An entry belongs to a session of its identity that is in the world.
EntriesOwned ==
  \A u \in Uuids : players[u] # Absent =>
    /\ pc[players[u].out] \in InWorld
    /\ UuidOf[players[u].out] = u
    /\ players[u].entity_id = entity_id[players[u].out]

\* Every session in the world owns the entry of its identity.
SessionsRegistered == \A s \in Sessions : pc[s] \in InWorld => Registered(s)

RegistryInv ==
  /\ IdsDistinct
  /\ EntriesOwned
  /\ Exclusive => SessionsRegistered

\* A movement rewrites the pose in an entry and nothing else in the registry.
LEMMA MovementKeepsOwners ==
  ASSUME TypeOK, NEW s \in Sessions,
         HandlePosition(s) \/ HandlePositionLook(s) \/ HandleLook(s)
  PROVE  /\ UNCHANGED <<pc, entity_id, next_entity_id, rx, existing, entities, tab>>
         /\ pc[s] = "playing"
         /\ \A u \in Uuids :
              /\ players'[u] = Absent <=> players[u] = Absent
              /\ players[u] # Absent => /\ players'[u].out = players[u].out
                                       /\ players'[u].entity_id = players[u].entity_id
         /\ \/ UNCHANGED pend
            \/ /\ players[UuidOf[s]] # Absent
               /\ \E pose \in Pose, turnOnly \in BOOLEAN :
                    pend' = [pend EXCEPT ![s] =
                              Frames(turnOnly, players[UuidOf[s]].entity_id, pose)]
<1>1. PICK pose \in Pose, turnOnly \in BOOLEAN : RecordMovement(s, pose, turnOnly)
  <2>1. PoseOf(s) \in Pose
    BY PoseOfType DEF TypeOK
  <2>. QED BY <2>1 DEF HandlePosition, HandlePositionLook, HandleLook, Pose
<1>. DEFINE u == UuidOf[s]
<1>2. u \in Uuids
  BY UuidOfType
<1>3. CASE players[u] = Absent
  BY <1>1, <1>3 DEF RecordMovement, AtSelect
<1>4. CASE players[u] # Absent
  <2>. DEFINE entry == [players[u] EXCEPT !.pose = pose]
  <2>1. players[u] \in Entry
    BY <1>2, <1>4 DEF TypeOK
  <2>2. /\ entry \in Entry
        /\ entry.out = players[u].out
        /\ entry.entity_id = players[u].entity_id
    BY <2>1 DEF Entry
  <2>3. players' = [players EXCEPT ![u] = entry]
    BY <1>1, <1>4 DEF RecordMovement
  <2>4. pend' = [pend EXCEPT ![s] = Frames(turnOnly, players[u].entity_id, pose)]
    BY <1>1, <1>4 DEF RecordMovement
  <2>5. entry # Absent
    BY <2>2, AbsentType
  <2>6. UNCHANGED <<pc, entity_id, next_entity_id, rx, existing, entities, tab>> /\ pc[s] = "playing"
    BY <1>1 DEF RecordMovement, AtSelect
  <2>. HIDE DEF entry
  <2>7. \A v \in Uuids :
           /\ players'[v] = Absent <=> players[v] = Absent
           /\ players[v] # Absent => /\ players'[v].out = players[v].out
                                    /\ players'[v].entity_id = players[v].entity_id
    BY <1>2, <1>4, <2>2, <2>3, <2>5 DEF TypeOK
  <2>. QED BY <1>4, <2>4, <2>6, <2>7
<1>. QED BY <1>3, <1>4

\* Every action keeps the registry invariant: entries have an owner in the world,
\* ids stay distinct and, in exclusive use, sessions keep their own entry.
LEMMA RegistryStep ==
  ASSUME TypeOK, RegistryInv, Next
  PROVE  RegistryInv'
<1>1. ASSUME NEW s \in Sessions, Register(s) PROVE RegistryInv'
  <2>. DEFINE u == UuidOf[s]
              entry == [entity_id |-> next_entity_id, pose |-> Spawn, out |-> s]
  <2>1. /\ u \in Uuids
        /\ entry \in Entry
        /\ entry # Absent
    BY UuidOfType, SpawnType, AbsentType DEF TypeOK, Entry
  <2>2. /\ players' = [players EXCEPT ![u] = entry]
        /\ entity_id' = [entity_id EXCEPT ![s] = next_entity_id]
        /\ pc[s] = "configuring"
        /\ pc' = [pc EXCEPT ![s] = "joining"]
        /\ Exclusive => Free(u)
    BY <1>1 DEF Register
  <2>3. IdsDistinct'
    BY <2>2 DEF RegistryInv, IdsDistinct, TypeOK
  <2>4. EntriesOwned'
    <3>. SUFFICES ASSUME NEW v \in Uuids, players'[v] # Absent
                  PROVE  /\ pc'[players'[v].out] \in InWorld
                         /\ UuidOf[players'[v].out] = v
                         /\ players'[v].entity_id = entity_id'[players'[v].out]
      BY DEF EntriesOwned
    <3>1. CASE v = u
      BY <2>1, <2>2, <3>1 DEF TypeOK, InWorld
    <3>2. CASE v # u
      <4>1. players'[v] = players[v] /\ players[v] \in Entry
        BY <2>1, <2>2, <3>2 DEF TypeOK
      <4>2. players[v].out \in Sessions /\ players[v].out # s
        BY <2>2, <4>1 DEF RegistryInv, EntriesOwned, Entry, InWorld
      <4>. QED BY <2>2, <4>1, <4>2 DEF RegistryInv, EntriesOwned, TypeOK
    <3>. QED BY <3>1, <3>2
  <2>5. Exclusive => SessionsRegistered'
    <3>. SUFFICES ASSUME Exclusive, NEW t \in Sessions, pc'[t] \in InWorld
                  PROVE  Registered(t)'
      BY DEF SessionsRegistered
    <3>1. CASE t = s
      BY <2>1, <2>2, <3>1 DEF TypeOK, Registered
    <3>2. CASE t # s
      <4>1. pc[t] \in InWorld
        BY <2>2, <3>2 DEF TypeOK
      <4>2. UuidOf[t] # u /\ UuidOf[t] \in Uuids
        BY <2>2, <4>1, UuidOfType DEF Free
      <4>. QED BY <2>1, <2>2, <4>1, <4>2 DEF RegistryInv, SessionsRegistered, Registered, TypeOK
    <3>. QED BY <3>1, <3>2
  <2>. QED BY <2>3, <2>4, <2>5 DEF RegistryInv
<1>2. ASSUME UNCHANGED <<players, entity_id>>,
             \A s \in Sessions : pc[s] # "configuring" <=> pc'[s] # "configuring",
             \A s \in Sessions : pc[s] \in InWorld <=> pc'[s] \in InWorld
      PROVE  RegistryInv'
  <2>1. IdsDistinct'
    BY <1>2 DEF RegistryInv, IdsDistinct
  <2>2. EntriesOwned'
    BY <1>2 DEF RegistryInv, EntriesOwned, TypeOK, Entry
  <2>3. Exclusive => SessionsRegistered'
    BY <1>2 DEF RegistryInv, SessionsRegistered, Registered
  <2>. QED BY <2>1, <2>2, <2>3 DEF RegistryInv
<1>3. ASSUME NEW s \in Sessions,
             SendExisting(s) \/ BroadcastJoin(s) \/ EnterLoop(s) \/ BroadcastExcept(s)
             \/ Deliver(s) \/ RecvClosed(s) \/ ConnError(s)
      PROVE  RegistryInv'
  <2>1. UNCHANGED <<players, entity_id>>
    BY <1>3 DEF SendExisting, BroadcastJoin, EnterLoop, BroadcastExcept, Deliver,
                RecvClosed, ConnError, EndRun
  <2>2. \/ UNCHANGED pc
        \/ pc[s] \in InWorld /\ \E p \in InWorld : pc' = [pc EXCEPT ![s] = p]
    BY <1>3 DEF SendExisting, BroadcastJoin, EnterLoop, BroadcastExcept, Deliver,
                RecvClosed, ConnError, EndRun, AtSelect, InWorld
  <2>3. \A t \in Sessions : pc[t] \in InWorld <=> pc'[t] \in InWorld
    BY <2>2 DEF TypeOK
  <2>4. \A t \in Sessions : pc[t] # "configuring" <=> pc'[t] # "configuring"
    BY <2>2 DEF TypeOK, InWorld
  <2>. QED BY <1>2, <2>1, <2>3, <2>4
<1>4. ASSUME NEW s \in Sessions,
             HandlePosition(s) \/ HandlePositionLook(s) \/ HandleLook(s)
      PROVE  RegistryInv'
  <2>1. UNCHANGED <<pc, entity_id>>
    BY <1>4, MovementKeepsOwners
  <2>2. \A u \in Uuids :
           /\ players'[u] = Absent <=> players[u] = Absent
           /\ players[u] # Absent => /\ players'[u].out = players[u].out
                                    /\ players'[u].entity_id = players[u].entity_id
    BY <1>4, MovementKeepsOwners
  <2>. QED BY <2>1, <2>2, UuidOfType
           DEF RegistryInv, IdsDistinct, EntriesOwned, SessionsRegistered, Registered
<1>5. ASSUME NEW s \in Sessions, LeaveWorld(s) PROVE RegistryInv'
  <2>. DEFINE u == UuidOf[s]
  <2>1. /\ pc[s] = "leaving"
        /\ pc' = [pc EXCEPT ![s] = "gone"]
        /\ players' = [players EXCEPT ![u] = Absent]
        /\ UNCHANGED entity_id
    BY <1>5 DEF LeaveWorld, Without
  <2>2. IdsDistinct'
    BY <2>1 DEF RegistryInv, IdsDistinct, TypeOK
  <2>3. EntriesOwned'
    <3>. SUFFICES ASSUME NEW v \in Uuids, players'[v] # Absent
                  PROVE  /\ pc'[players'[v].out] \in InWorld
                         /\ UuidOf[players'[v].out] = v
                         /\ players'[v].entity_id = entity_id'[players'[v].out]
      BY DEF EntriesOwned
    <3>1. v # u /\ players'[v] = players[v] /\ players[v] \in Entry
      BY <2>1 DEF TypeOK
    <3>2. players[v].out \in Sessions /\ players[v].out # s
      BY <3>1 DEF RegistryInv, EntriesOwned, Entry
    <3>. QED BY <2>1, <3>1, <3>2 DEF RegistryInv, EntriesOwned, TypeOK
  <2>4. Exclusive => SessionsRegistered'
    <3>. SUFFICES ASSUME Exclusive, NEW t \in Sessions, pc'[t] \in InWorld
                  PROVE  Registered(t)'
      BY DEF SessionsRegistered
    <3>1. t # s /\ pc[t] \in InWorld
      BY <2>1 DEF TypeOK, InWorld
    <3>2. Registered(t) /\ Registered(s)
      BY <2>1, <3>1 DEF RegistryInv, SessionsRegistered, InWorld
    <3>3. UuidOf[t] # u
      BY <3>1, <3>2 DEF Registered
    <3>. QED BY <2>1, <3>2, <3>3, UuidOfType DEF Registered, TypeOK
  <2>. QED BY <2>2, <2>3, <2>4 DEF RegistryInv
<1>. QED BY <1>1, <1>3, <1>4, <1>5 DEF Next, Task, Client

\* The registry invariant holds in every reachable state.
LEMMA RegistryAlways == Spec => []RegistryInv
<1>1. Init => RegistryInv
  BY UuidOfType DEF Init, RegistryInv, IdsDistinct, EntriesOwned, SessionsRegistered, InWorld
<1>2. TypeOK /\ RegistryInv /\ [Next]_vars => RegistryInv'
  <2>. SUFFICES ASSUME TypeOK, RegistryInv, UNCHANGED vars PROVE RegistryInv'
    BY RegistryStep
  <2>. QED BY DEF vars, RegistryInv, IdsDistinct, EntriesOwned, SessionsRegistered, Registered
<1>. QED BY <1>1, <1>2, TypeCorrect, PTL DEF Spec

\* As long as nobody logs in twice at a time, the latest session of a player
\* stays in the registry until it ends: what leave_world removes is its own entry.
THEOREM StaysRegisteredWhenExclusive == Spec => [](Exclusive => StaysRegistered)
<1>1. RegistryInv => (Exclusive => StaysRegistered)
  BY DEF RegistryInv, SessionsRegistered, StaysRegistered, Receiving, InWorld
<1>. QED BY <1>1, RegistryAlways, PTL

-----------------------------------------------------------------------------
(* What clients know *)

\* A frame at the end of a channel changes what the client will know as if it
\* were applied last, and nothing about the frames before it.
LEMMA KnowsAppend ==
  ASSUME NEW known, NEW q \in Seq(Message), NEW m \in Message, NEW e
  PROVE  /\ \A n \in 0 .. Len(q) : Knows(known, Append(q, m), e, n) <=> Knows(known, q, e, n)
         /\ Knows(known, Append(q, m), e, Len(q) + 1) <=>
              \/ m.kind = "join" /\ m.eid = e
              \/ Knows(known, q, e, Len(q)) /\ ~(m.kind = "leave" /\ m.eid = e)
<1>. DEFINE r == Append(q, m)
<1>1. /\ Len(q) \in Nat
      /\ r[Len(q) + 1] = m
      /\ \A i \in 1 .. Len(q) : r[i] = q[i]
  OBVIOUS
<1>. HIDE DEF r
<1>2. ASSUME NEW n \in 0 .. Len(q)
      PROVE  Knows(known, r, e, n) <=> Knows(known, q, e, n)
  <2>1. \A i \in 1 .. n : r[i] = q[i]
    BY <1>1
  <2>2. \A i \in 1 .. n : \A j \in i + 1 .. n : r[j] = q[j]
    BY <1>1
  <2>. QED BY <2>1, <2>2 DEF Knows
<1>3. Knows(known, r, e, Len(q) + 1) <=>
        \/ m.kind = "join" /\ m.eid = e
        \/ Knows(known, r, e, Len(q)) /\ ~(m.kind = "leave" /\ m.eid = e)
  <2>. DEFINE n == Len(q)
              Told(i, kind) == r[i].kind = kind /\ r[i].eid = e
  <2>1. /\ Knows(known, r, e, n) <=>
             \/ e \in known /\ \A i \in 1 .. n : ~Told(i, "leave")
             \/ \E i \in 1 .. n : Told(i, "join") /\ \A j \in i + 1 .. n : ~Told(j, "leave")
        /\ Knows(known, r, e, n + 1) <=>
             \/ e \in known /\ \A i \in 1 .. n + 1 : ~Told(i, "leave")
             \/ \E i \in 1 .. n + 1 : Told(i, "join") /\ \A j \in i + 1 .. n + 1 : ~Told(j, "leave")
    BY DEF Knows
  <2>2. /\ Told(n + 1, "join") <=> m.kind = "join" /\ m.eid = e
        /\ Told(n + 1, "leave") <=> m.kind = "leave" /\ m.eid = e
        /\ ~(Told(n + 1, "join") /\ Told(n + 1, "leave"))
    BY <1>1
  <2>. HIDE DEF Told
  <2>3. (\A i \in 1 .. n + 1 : ~Told(i, "leave")) <=>
          (\A i \in 1 .. n : ~Told(i, "leave")) /\ ~Told(n + 1, "leave")
    BY <1>1
  <2>4. ASSUME NEW i \in 1 .. n
        PROVE  (\A j \in i + 1 .. n + 1 : ~Told(j, "leave")) <=>
                 (\A j \in i + 1 .. n : ~Told(j, "leave")) /\ ~Told(n + 1, "leave")
    BY <1>1
  <2>5. (\E i \in 1 .. n + 1 : Told(i, "join") /\ \A j \in i + 1 .. n + 1 : ~Told(j, "leave")) <=>
          \/ Told(n + 1, "join")
          \/ \E i \in 1 .. n : Told(i, "join") /\ \A j \in i + 1 .. n + 1 : ~Told(j, "leave")
    BY <1>1
  <2>. QED BY <2>1, <2>2, <2>3, <2>4, <2>5
<1>. QED BY <1>2, <1>3, <1>1 DEF r

\* Delivering the first frame of a channel moves its effect into what the client shows.
LEMMA KnowsTail ==
  ASSUME NEW shown, NEW q \in Seq(Message), q # <<>>, NEW e, NEW n \in 1 .. Len(q)
  PROVE  Knows(DOMAIN ShowEntities(shown, Head(q)), Tail(q), e, n - 1)
           <=> Knows(DOMAIN shown, q, e, n)
<1>. DEFINE m == Head(q)
            r == Tail(q)
            after == DOMAIN ShowEntities(shown, m)
            Told(i, kind) == q[i].kind = kind /\ q[i].eid = e
<1>1. /\ m \in Message
      /\ m = q[1]
      /\ \A i \in 1 .. n - 1 : r[i] = q[i + 1]
  OBVIOUS
<1>2. e \in after <=> \/ m.kind = "join" /\ m.eid = e
                      \/ e \in DOMAIN shown /\ ~(m.kind = "leave" /\ m.eid = e)
  <2>1. m.kind \in {"join", "leave", "sync", "look", "head"}
    BY <1>1 DEF Message, JoinMsg, MoveMsg, SyncMsg, LookMsg, HeadMsg, LeaveMsg
  <2>. QED BY <2>1 DEF ShowEntities
<1>3. /\ Told(1, "join") <=> m.kind = "join" /\ m.eid = e
      /\ Told(1, "leave") <=> m.kind = "leave" /\ m.eid = e
      /\ ~(Told(1, "join") /\ Told(1, "leave"))
  BY <1>1
<1>4. Knows(after, r, e, n - 1) <=>
        \/ e \in after /\ \A i \in 1 .. n - 1 : ~Told(i + 1, "leave")
        \/ \E i \in 1 .. n - 1 : Told(i + 1, "join")
                                 /\ \A j \in i + 1 .. n - 1 : ~Told(j + 1, "leave")
  BY <1>1 DEF Knows
<1>5. Knows(DOMAIN shown, q, e, n) <=>
        \/ e \in DOMAIN shown /\ \A i \in 1 .. n : ~Told(i, "leave")
        \/ \E i \in 1 .. n : Told(i, "join") /\ \A j \in i + 1 .. n : ~Told(j, "leave")
  BY DEF Knows
<1>. HIDE DEF after, r, m, Told
<1>6. ASSUME NEW k \in 1 .. n
      PROVE  (\A j \in k .. n - 1 : ~Told(j + 1, "leave"))
               <=> (\A j \in k + 1 .. n : ~Told(j, "leave"))
  <2>1. ASSUME \A j \in k .. n - 1 : ~Told(j + 1, "leave"), NEW j \in k + 1 .. n
        PROVE  ~Told(j, "leave")
    <3>1. j - 1 \in k .. n - 1 /\ (j - 1) + 1 = j
      OBVIOUS
    <3>. QED BY <2>1, <3>1
  <2>2. ASSUME \A j \in k + 1 .. n : ~Told(j, "leave"), NEW j \in k .. n - 1
        PROVE  ~Told(j + 1, "leave")
    BY <2>2
  <2>. QED BY <2>1, <2>2
<1>7. (\A i \in 1 .. n : ~Told(i, "leave")) <=>
        ~Told(1, "leave") /\ \A i \in 1 + 1 .. n : ~Told(i, "leave")
  OBVIOUS
<1>8. (\E i \in 1 .. n : Told(i, "join") /\ \A j \in i + 1 .. n : ~Told(j, "leave")) <=>
        \/ Told(1, "join") /\ \A j \in 1 + 1 .. n : ~Told(j, "leave")
        \/ \E i \in 1 .. n - 1 : Told(i + 1, "join")
                                 /\ \A j \in (i + 1) + 1 .. n : ~Told(j, "leave")
  <2>1. ASSUME NEW i \in 1 .. n, Told(i, "join"), \A j \in i + 1 .. n : ~Told(j, "leave"), i # 1
        PROVE  \E k \in 1 .. n - 1 : Told(k + 1, "join")
                                 /\ \A j \in (k + 1) + 1 .. n : ~Told(j, "leave")
    <3>1. i - 1 \in 1 .. n - 1 /\ (i - 1) + 1 = i
      BY <2>1
    <3>. QED BY <2>1, <3>1
  <2>. QED BY <2>1
<1>. DEFINE A2 == \A i \in 1 + 1 .. n : ~Told(i, "leave")
            E2 == \E i \in 1 .. n - 1 : Told(i + 1, "join")
                                       /\ \A j \in (i + 1) + 1 .. n : ~Told(j, "leave")
<1>9. Knows(after, r, e, n - 1) <=> (e \in after /\ A2) \/ E2
  <2>1. (\A i \in 1 .. n - 1 : ~Told(i + 1, "leave")) <=> A2
    BY <1>6
  <2>2. (\E i \in 1 .. n - 1 : Told(i + 1, "join") /\ \A j \in i + 1 .. n - 1 : ~Told(j + 1, "leave"))
          <=> E2
    <3>1. ASSUME NEW i \in 1 .. n - 1
          PROVE  (\A j \in i + 1 .. n - 1 : ~Told(j + 1, "leave"))
                   <=> (\A j \in (i + 1) + 1 .. n : ~Told(j, "leave"))
      <4>1. i + 1 \in 1 .. n
        OBVIOUS
      <4>. QED BY <4>1, <1>6
    <3>. QED BY <3>1
  <2>. HIDE DEF A2, E2
  <2>. QED BY <2>1, <2>2, <1>4
<1>10. Knows(DOMAIN shown, q, e, n) <=>
         \/ e \in DOMAIN shown /\ ~Told(1, "leave") /\ A2
         \/ Told(1, "join") /\ A2
         \/ E2
  BY <1>5, <1>7, <1>8
<1>. HIDE DEF A2, E2
<1>11. Knows(after, r, e, n - 1) <=> Knows(DOMAIN shown, q, e, n)
  BY <1>2, <1>3, <1>9, <1>10
<1>. QED BY <1>11 DEF after, r, m

\* Outside its time in the world a session has no frames waiting, and only a
\* handler of the play loop has broadcasts to make.
Quiet ==
  \A s \in Sessions :
    /\ ~Receiving(s) => rx[s] = <<>>
    /\ pend[s] # <<>> => pc[s] = "playing"

\* NoGhosts, for ids of every size.
GhostFree ==
  \A s \in Sessions : Receiving(s) /\ Registered(s) =>
    \A e : WillKnow(s, e) => \E t \in Sessions \ {s} : entity_id[t] = e /\ pc[t] \in InWorld

\* A session alone under its identity announces movements of its own entity.
OwnMovements ==
  \A s \in Sessions : \A i \in DOMAIN pend[s] : pend[s][i].eid = entity_id[s]

KnowledgeInv ==
  /\ Quiet
  /\ GhostFree
  /\ Exclusive => OwnMovements /\ NobodyMissing /\ MovementAfterSpawn

\* How a step may change what the channel of session s amounts to: not at all,
\* by a frame at its end, or by delivering the frame at its head.
Same(s)      == rx'[s] = rx[s] /\ DOMAIN Shown(s)' = DOMAIN Shown(s)
Gains(s, m)  == rx'[s] = Append(rx[s], m) /\ DOMAIN Shown(s)' = DOMAIN Shown(s)
Delivers(s)  ==
  /\ rx[s] # <<>>
  /\ rx'[s] = Tail(rx[s])
  /\ DOMAIN Shown(s)' = DOMAIN ShowEntities(Shown(s), Head(rx[s]))

\* The session's channel holds every movement behind a spawn.
OrderedFor(s) ==
  \A i \in DOMAIN rx[s] : rx[s][i].kind \in {"sync", "look", "head"} =>
    Knows(DOMAIN Shown(s), rx[s], rx[s][i].eid, i - 1)

\* A session whose channel and figures a step leaves alone comes to know the same.
LEMMA SameKnows ==
  ASSUME NEW s \in Sessions, Same(s)
  PROVE  /\ \A e : WillKnow(s, e)' <=> WillKnow(s, e)
         /\ OrderedFor(s) => OrderedFor(s)'
BY DEF Same, WillKnow, OrderedFor

\* Delivering a frame changes nothing in what a session will come to know.
LEMMA DeliversKnows ==
  ASSUME NEW s \in Sessions, TypeOK, Delivers(s)
  PROVE  /\ \A e : WillKnow(s, e)' <=> WillKnow(s, e)
         /\ OrderedFor(s) => OrderedFor(s)'
<1>. DEFINE q == rx[s]
            r == Tail(q)
<1>1. /\ q \in Seq(Message) /\ q # <<>>
      /\ Len(q) \in Nat /\ Len(q) >= 1
      /\ Len(r) = Len(q) - 1
      /\ DOMAIN r = 1 .. Len(q) - 1
      /\ DOMAIN q = 1 .. Len(q)
      /\ \A i \in 1 .. Len(q) - 1 : r[i] = q[i + 1]
  BY DEF Delivers, TypeOK
<1>2. rx'[s] = r /\ DOMAIN Shown(s)' = DOMAIN ShowEntities(Shown(s), Head(q))
  BY DEF Delivers
<1>3. ASSUME NEW e, NEW n \in 1 .. Len(q)
      PROVE  Knows(DOMAIN Shown(s)', r, e, n - 1) <=> Knows(DOMAIN Shown(s), q, e, n)
  BY <1>1, <1>2, <1>3, KnowsTail
<1>. HIDE DEF q, r
<1>4. \A e : WillKnow(s, e)' <=> WillKnow(s, e)
  BY <1>1, <1>2, <1>3 DEF WillKnow, q
<1>5. ASSUME OrderedFor(s) PROVE OrderedFor(s)'
  <2>. SUFFICES ASSUME NEW i \in 1 .. Len(q) - 1, r[i].kind \in {"sync", "look", "head"}
                PROVE  Knows(DOMAIN Shown(s)', r, r[i].eid, i - 1)
    BY <1>1, <1>2 DEF OrderedFor
  <2>1. i + 1 \in DOMAIN q /\ i \in 1 .. Len(q) /\ r[i] = q[i + 1] /\ (i + 1) - 1 = i
    BY <1>1
  <2>2. Knows(DOMAIN Shown(s), q, r[i].eid, i)
    BY <1>5, <2>1 DEF OrderedFor, q
  <2>. QED BY <1>3, <2>1, <2>2
<1>. QED BY <1>4, <1>5

\* A frame at the end of a channel decides for its own entity and no other; a
\* movement keeps the channel in order when its entity will be known by then.
LEMMA GainsKnows ==
  ASSUME NEW s \in Sessions, TypeOK, NEW m \in Message, Gains(s, m)
  PROVE  /\ \A e : WillKnow(s, e)' <=>
               \/ m.kind = "join" /\ m.eid = e
               \/ WillKnow(s, e) /\ ~(m.kind = "leave" /\ m.eid = e)
         /\ OrderedFor(s) /\ (m \in MoveMsg => WillKnow(s, m.eid)) => OrderedFor(s)'
<1>. DEFINE q == rx[s]
            r == Append(q, m)
<1>1. /\ q \in Seq(Message)
      /\ Len(q) \in Nat
      /\ Len(r) = Len(q) + 1
      /\ DOMAIN r = 1 .. Len(q) + 1
      /\ DOMAIN q = 1 .. Len(q)
      /\ r[Len(q) + 1] = m
      /\ \A i \in 1 .. Len(q) : r[i] = q[i]
  BY DEF TypeOK
<1>2. rx'[s] = r /\ DOMAIN Shown(s)' = DOMAIN Shown(s)
  BY DEF Gains
<1>3. ASSUME NEW e
      PROVE  /\ \A n \in 0 .. Len(q) :
                  Knows(DOMAIN Shown(s), r, e, n) <=> Knows(DOMAIN Shown(s), q, e, n)
             /\ Knows(DOMAIN Shown(s), r, e, Len(q) + 1) <=>
                  \/ m.kind = "join" /\ m.eid = e
                  \/ Knows(DOMAIN Shown(s), q, e, Len(q)) /\ ~(m.kind = "leave" /\ m.eid = e)
  BY <1>1, KnowsAppend
<1>. HIDE DEF q, r
<1>4. \A e : WillKnow(s, e)' <=>
               \/ m.kind = "join" /\ m.eid = e
               \/ WillKnow(s, e) /\ ~(m.kind = "leave" /\ m.eid = e)
  BY <1>1, <1>2, <1>3 DEF WillKnow, q
<1>5. ASSUME OrderedFor(s), m \in MoveMsg => WillKnow(s, m.eid) PROVE OrderedFor(s)'
  <2>. SUFFICES ASSUME NEW i \in 1 .. Len(q) + 1, r[i].kind \in {"sync", "look", "head"}
                PROVE  Knows(DOMAIN Shown(s), r, r[i].eid, i - 1)
    BY <1>1, <1>2 DEF OrderedFor
  <2>1. CASE i \in 1 .. Len(q)
    <3>1. Knows(DOMAIN Shown(s), q, r[i].eid, i - 1) /\ i - 1 \in 0 .. Len(q)
      BY <1>1, <1>5, <2>1 DEF OrderedFor, q
    <3>. QED BY <1>3, <3>1
  <2>2. CASE i = Len(q) + 1
    <3>1. r[i] = m /\ i - 1 = Len(q) /\ Len(q) \in 0 .. Len(q)
      BY <1>1, <2>2
    <3>2. m \in MoveMsg
      BY <3>1 DEF Message, JoinMsg, LeaveMsg
    <3>3. Knows(DOMAIN Shown(s), q, m.eid, Len(q))
      BY <1>5, <3>2 DEF WillKnow, q
    <3>. QED BY <1>3, <3>1, <3>3
  <2>. QED BY <1>1, <2>1, <2>2
<1>. QED BY <1>4, <1>5

\* A broadcast reaches exactly the registered sessions of other identities that
\* still have a receiver.
LEMMA BroadcastGains ==
  ASSUME TypeOK, NEW source, NEW m, Broadcast(source, m), NEW s \in Sessions,
         DOMAIN Shown(s)' = DOMAIN Shown(s)
  PROVE  /\ Registered(s) /\ UuidOf[s] # source /\ Receiving(s) => Gains(s, m)
         /\ ~(Registered(s) /\ UuidOf[s] # source /\ Receiving(s)) => Same(s)
BY DEF Broadcast, Gains, Same

\* Two registered sessions have different identities.
LEMMA RegisteredDiffer ==
  ASSUME NEW s \in Sessions, NEW t \in Sessions, s # t, Registered(s), Registered(t)
  PROVE  UuidOf[s] # UuidOf[t]
BY DEF Registered

\* Steps that touch no channel but at most deliver from it, and keep everyone
\* where it was: nobody joins, announces itself or leaves.
LEMMA CalmStep ==
  ASSUME TypeOK, KnowledgeInv,
         UNCHANGED <<players, entity_id, pend>>,
         \A s \in Sessions : Receiving(s)' <=> Receiving(s),
         \A s \in Sessions : pc'[s] \in InWorld <=> pc[s] \in InWorld,
         \A s \in Sessions : pc'[s] \in {"entering", "playing"}
                              <=> pc[s] \in {"entering", "playing"},
         \A s \in Sessions : pc[s] = "playing" => pc'[s] = "playing",
         \A s \in Sessions : Same(s) \/ (Receiving(s) /\ Delivers(s))
  PROVE  KnowledgeInv'
<1>1. ASSUME NEW s \in Sessions
      PROVE  /\ \A e : WillKnow(s, e)' <=> WillKnow(s, e)
             /\ OrderedFor(s) => OrderedFor(s)'
  BY SameKnows, DeliversKnows
<1>2. Quiet'
  BY DEF KnowledgeInv, Quiet, Same
<1>3. GhostFree'
  BY <1>1 DEF KnowledgeInv, GhostFree, Registered
<1>4. Exclusive => OwnMovements' /\ NobodyMissing'
  BY <1>1 DEF KnowledgeInv, OwnMovements, NobodyMissing
<1>5. Exclusive => MovementAfterSpawn'
  BY <1>1 DEF KnowledgeInv, MovementAfterSpawn, OrderedFor
<1>. QED BY <1>2, <1>3, <1>4, <1>5 DEF KnowledgeInv

\* A movement handler keeps the knowledge invariant: it fills pend, and no channel.
LEMMA HandlersKnow ==
  ASSUME TypeOK, RegistryInv, KnowledgeInv, NEW s \in Sessions,
         HandlePosition(s) \/ HandlePositionLook(s) \/ HandleLook(s)
  PROVE  KnowledgeInv'
<1>1. /\ UNCHANGED <<pc, entity_id, rx, existing, entities>>
      /\ pc[s] = "playing"
      /\ \A u \in Uuids :
           /\ players'[u] = Absent <=> players[u] = Absent
           /\ players[u] # Absent => players'[u].out = players[u].out
  BY MovementKeepsOwners
<1>2. \A t \in Sessions : Registered(t)' <=> Registered(t)
  BY <1>1, UuidOfType DEF Registered
<1>3. \A t \in Sessions : Same(t)
  BY <1>1 DEF Same, Shown, Introduced
<1>4. \A t \in Sessions :
        /\ \A e : WillKnow(t, e)' <=> WillKnow(t, e)
        /\ OrderedFor(t) => OrderedFor(t)'
  BY <1>3, SameKnows
<1>5. \/ UNCHANGED pend
      \/ /\ players[UuidOf[s]] # Absent
         /\ \E pose \in Pose, turnOnly \in BOOLEAN :
              pend' = [pend EXCEPT ![s] = Frames(turnOnly, players[UuidOf[s]].entity_id, pose)]
  BY MovementKeepsOwners
<1>6. Quiet'
  BY <1>1, <1>5 DEF KnowledgeInv, Quiet, TypeOK, Receiving
<1>7. GhostFree'
  BY <1>1, <1>2, <1>4 DEF KnowledgeInv, GhostFree, Receiving
<1>8. ASSUME Exclusive PROVE OwnMovements' /\ NobodyMissing' /\ MovementAfterSpawn'
  <2>1. players[UuidOf[s]].entity_id = entity_id[s]
    <3>1. Registered(s)
      BY <1>1, <1>8 DEF RegistryInv, SessionsRegistered, InWorld
    <3>. QED BY <3>1, UuidOfType DEF RegistryInv, EntriesOwned, Registered
  <2>2. ASSUME NEW pose, NEW turnOnly, NEW e
        PROVE  \A i \in DOMAIN Frames(turnOnly, e, pose) : Frames(turnOnly, e, pose)[i].eid = e
    BY DEF Frames
  <2>3. OwnMovements'
    <3>1. CASE UNCHANGED pend
      BY <1>1, <1>8, <3>1 DEF KnowledgeInv, OwnMovements
    <3>2. ASSUME NEW pose \in Pose, NEW turnOnly \in BOOLEAN,
                 pend' = [pend EXCEPT ![s] = Frames(turnOnly, entity_id[s], pose)]
          PROVE  OwnMovements'
      <4>1. pend'[s] = Frames(turnOnly, entity_id[s], pose)
        BY <3>2 DEF TypeOK
      <4>2. \A i \in DOMAIN pend'[s] : pend'[s][i].eid = entity_id[s]
        BY <2>2, <4>1
      <4>3. \A t \in Sessions : t # s => pend'[t] = pend[t]
        BY <3>2 DEF TypeOK
      <4>. QED BY <1>1, <1>8, <4>2, <4>3 DEF KnowledgeInv, OwnMovements
    <3>. QED BY <1>5, <2>1, <3>1, <3>2
  <2>. QED BY <1>1, <1>4, <1>8, <2>3
           DEF KnowledgeInv, NobodyMissing, MovementAfterSpawn, OrderedFor, Receiving
<1>. QED BY <1>6, <1>7, <1>8 DEF KnowledgeInv

\* Registration keeps the knowledge invariant: the newcomer's snapshot covers
\* everyone registered before it, and its own announcement is still to come.
LEMMA RegisterKnows ==
  ASSUME TypeOK, RegistryInv, KnowledgeInv, NEW s \in Sessions, Register(s)
  PROVE  KnowledgeInv'
<1>. DEFINE u == UuidOf[s]
<1>1. /\ pc[s] = "configuring"
      /\ pc' = [pc EXCEPT ![s] = "joining"]
      /\ entity_id' = [entity_id EXCEPT ![s] = next_entity_id]
      /\ players' = [players EXCEPT ![u] =
                       [entity_id |-> next_entity_id, pose |-> Spawn, out |-> s]]
      /\ existing' = [existing EXCEPT ![s] = Snapshot(u)]
      /\ UNCHANGED <<rx, pend, entities, tab>>
      /\ u \in Uuids
      /\ Exclusive => Free(u)
  BY UuidOfType DEF Register
<1>2. ASSUME NEW t \in Sessions, t # s
      PROVE  /\ Same(t)
             /\ pc'[t] = pc[t]
             /\ entity_id'[t] = entity_id[t]
             /\ Registered(t)' => Registered(t)
  BY <1>1, <1>2, UuidOfType DEF Same, Shown, Introduced, TypeOK, Registered
<1>3. ASSUME NEW t \in Sessions, t # s
      PROVE  /\ \A e : WillKnow(t, e)' <=> WillKnow(t, e)
             /\ OrderedFor(t) => OrderedFor(t)'
  BY <1>2, <1>3, SameKnows
<1>4. /\ rx'[s] = <<>> /\ pend'[s] = <<>>
      /\ pc'[s] = "joining"
      /\ DOMAIN Shown(s)' = {players[v].entity_id : v \in {w \in Uuids \ {u} : players[w] # Absent}}
  <2>1. rx[s] = <<>> /\ pend[s] = <<>>
    BY <1>1 DEF KnowledgeInv, Quiet, Receiving, InWorld
  <2>2. existing'[s] = Snapshot(u) /\ pc'[s] = "joining"
    BY <1>1 DEF TypeOK
  <2>3. DOMAIN Shown(s)' = {o.eid : o \in Snapshot(u)}
    BY <2>2 DEF Shown, Introduced
  <2>4. {o.eid : o \in Snapshot(u)} =
          {players[v].entity_id : v \in {w \in Uuids \ {u} : players[w] # Absent}}
    <3>. DEFINE others == {w \in Uuids \ {u} : players[w] # Absent}
                Line(v) == [uuid |-> v, eid |-> players[v].entity_id, pose |-> players[v].pose]
    <3>1. Snapshot(u) = {Line(v) : v \in others}
      BY DEF Snapshot
    <3>2. \A v \in others : Line(v).eid = players[v].entity_id
      OBVIOUS
    <3>. HIDE DEF Line, others
    <3>3. {o.eid : o \in Snapshot(u)} = {players[v].entity_id : v \in others}
      BY <3>1, <3>2
    <3>. QED BY <3>3 DEF others
  <2>. QED BY <1>1, <2>1, <2>2, <2>3, <2>4
<1>5. \A e : WillKnow(s, e)' <=> e \in DOMAIN Shown(s)'
  BY <1>4 DEF WillKnow, Knows
<1>6. Quiet'
  <2>1. \A t \in Sessions : t # s => (Receiving(t)' <=> Receiving(t))
    BY <1>2 DEF Receiving
  <2>. QED BY <1>1, <1>2, <1>4, <2>1 DEF KnowledgeInv, Quiet
<1>7. GhostFree'
  <2>. SUFFICES ASSUME NEW t \in Sessions, Receiving(t)', Registered(t)', NEW e, WillKnow(t, e)'
                PROVE  \E x \in Sessions \ {t} : entity_id'[x] = e /\ pc'[x] \in InWorld
    BY DEF GhostFree
  <2>1. CASE t = s
    <3>1. PICK v \in Uuids \ {u} : players[v] # Absent /\ players[v].entity_id = e
      BY <1>4, <1>5, <2>1
    <3>. DEFINE x == players[v].out
    <3>2. x \in Sessions /\ pc[x] \in InWorld /\ entity_id[x] = e
      BY <3>1 DEF RegistryInv, EntriesOwned, TypeOK, Entry
    <3>3. x # s
      BY <1>1, <3>2 DEF InWorld
    <3>. QED BY <1>2, <2>1, <3>2, <3>3
  <2>2. CASE t # s
    <3>1. Receiving(t) /\ Registered(t) /\ WillKnow(t, e)
      BY <1>2, <1>3, <2>2 DEF Receiving
    <3>2. PICK x \in Sessions \ {t} : entity_id[x] = e /\ pc[x] \in InWorld
      BY <3>1 DEF KnowledgeInv, GhostFree
    <3>3. x # s
      BY <1>1, <3>2 DEF InWorld
    <3>. QED BY <1>2, <3>2, <3>3
  <2>. QED BY <2>1, <2>2
<1>8. ASSUME Exclusive PROVE OwnMovements' /\ NobodyMissing' /\ MovementAfterSpawn'
  <2>1. OwnMovements'
    <3>. SUFFICES ASSUME NEW t \in Sessions, NEW i \in DOMAIN pend'[t]
                  PROVE  pend'[t][i].eid = entity_id'[t]
      BY DEF OwnMovements
    <3>1. t # s
      BY <1>4
    <3>. QED BY <1>1, <1>2, <1>8, <3>1 DEF KnowledgeInv, OwnMovements
  <2>2. NobodyMissing'
    <3>. SUFFICES ASSUME NEW t \in Sessions, NEW x \in Sessions, t # x,
                         Receiving(t)', pc'[x] \in {"entering", "playing"}
                  PROVE  WillKnow(t, entity_id[x])'
      BY DEF NobodyMissing
    <3>1. x # s /\ pc[x] \in {"entering", "playing"} /\ entity_id'[x] = entity_id[x]
      BY <1>2, <1>4
    <3>2. CASE t = s
      <4>1. Registered(x)
        BY <1>8, <3>1 DEF RegistryInv, SessionsRegistered, InWorld
      <4>2. UuidOf[x] \in Uuids \ {u}
        BY <1>1, <1>8, <3>1, UuidOfType DEF Free, InWorld
      <4>3. players[UuidOf[x]].entity_id = entity_id[x]
        BY <4>1, <4>2 DEF RegistryInv, EntriesOwned, Registered
      <4>4. entity_id'[x] \in DOMAIN Shown(s)'
        BY <1>4, <3>1, <4>1, <4>2, <4>3 DEF Registered
      <4>. QED BY <1>5, <3>2, <4>4
    <3>3. CASE t # s
      BY <1>2, <1>3, <1>8, <3>1, <3>3 DEF KnowledgeInv, NobodyMissing, Receiving
    <3>. QED BY <3>2, <3>3
  <2>3. MovementAfterSpawn'
    <3>1. OrderedFor(s)'
      BY <1>4 DEF OrderedFor
    <3>. QED BY <1>3, <1>8, <3>1 DEF KnowledgeInv, MovementAfterSpawn, OrderedFor
  <2>. QED BY <2>1, <2>2, <2>3
<1>. QED BY <1>6, <1>7, <1>8 DEF KnowledgeInv

\* The end of run_play keeps the knowledge invariant: the session stops receiving.
LEMMA EndRunKnows ==
  ASSUME TypeOK, KnowledgeInv, NEW s \in Sessions, Receiving(s), pend[s] = <<>>, EndRun(s)
  PROVE  KnowledgeInv'
<1>1. /\ pc' = [pc EXCEPT ![s] = "leaving"]
      /\ rx' = [rx EXCEPT ![s] = <<>>]
      /\ UNCHANGED <<players, entity_id, pend>>
  BY DEF EndRun
<1>2. ASSUME NEW t \in Sessions, t # s
      PROVE  Same(t) /\ pc'[t] = pc[t]
  BY <1>2 DEF EndRun, Same, Shown, Introduced, TypeOK
<1>3. ASSUME NEW t \in Sessions, t # s
      PROVE  /\ \A e : WillKnow(t, e)' <=> WillKnow(t, e)
             /\ OrderedFor(t) => OrderedFor(t)'
  BY <1>2, <1>3, SameKnows
<1>4. pc[s] \in InWorld /\ pc'[s] = "leaving" /\ rx'[s] = <<>> /\ pend'[s] = <<>>
  BY <1>1 DEF Receiving, TypeOK
<1>5. ~Receiving(s)' /\ \A t \in Sessions : t # s => (Receiving(t)' <=> Receiving(t))
  BY <1>2, <1>4 DEF Receiving
<1>6. Quiet'
  BY <1>1, <1>2, <1>4, <1>5 DEF KnowledgeInv, Quiet, Same
<1>7. \A t \in Sessions : pc[t] \in InWorld => pc'[t] \in InWorld
  BY <1>2, <1>4 DEF InWorld
<1>8. GhostFree'
  BY <1>1, <1>3, <1>5, <1>7 DEF KnowledgeInv, GhostFree, Registered
<1>9. Exclusive => OwnMovements' /\ NobodyMissing'
  BY <1>1, <1>2, <1>3, <1>4, <1>5 DEF KnowledgeInv, OwnMovements, NobodyMissing
<1>10. Exclusive => MovementAfterSpawn'
  <2>1. OrderedFor(s)'
    BY <1>4 DEF OrderedFor
  <2>. QED BY <1>3, <2>1 DEF KnowledgeInv, MovementAfterSpawn, OrderedFor
<1>. QED BY <1>6, <1>8, <1>9, <1>10 DEF KnowledgeInv

\* broadcast_join keeps the knowledge invariant: all others come to know the entity.
LEMMA BroadcastJoinKnows ==
  ASSUME TypeOK, RegistryInv, KnowledgeInv, NEW s \in Sessions, BroadcastJoin(s)
  PROVE  KnowledgeInv'
<1>. DEFINE m == [kind |-> "join", eid |-> entity_id[s], uuid |-> UuidOf[s], pose |-> Spawn]
<1>1. /\ pc[s] = "announcing"
      /\ pc' = [pc EXCEPT ![s] = "entering"]
      /\ Broadcast(UuidOf[s], m)
      /\ UNCHANGED <<players, entity_id, existing, pend, entities>>
      /\ m \in Message
      /\ m \notin MoveMsg
      /\ m.kind = "join" /\ m.eid = entity_id[s]
  BY UuidOfType, SpawnType
     DEF BroadcastJoin, TypeOK, Message, JoinMsg, MoveMsg, SyncMsg, LookMsg, HeadMsg
<1>. HIDE DEF m
<1>2. ASSUME NEW t \in Sessions
      PROVE  /\ DOMAIN Shown(t)' = DOMAIN Shown(t)
             /\ Receiving(t)' <=> Receiving(t)
             /\ pc'[t] \in InWorld <=> pc[t] \in InWorld
             /\ t # s => pc'[t] = pc[t]
  BY <1>1 DEF Shown, Introduced, Receiving, InWorld, TypeOK
<1>3. ASSUME NEW t \in Sessions
      PROVE  /\ Registered(t) /\ UuidOf[t] # UuidOf[s] /\ Receiving(t) => Gains(t, m)
             /\ ~(Registered(t) /\ UuidOf[t] # UuidOf[s] /\ Receiving(t)) => Same(t)
  BY <1>1, <1>2, BroadcastGains
<1>4. ASSUME NEW t \in Sessions
      PROVE  /\ \A e : WillKnow(t, e) => WillKnow(t, e)'
             /\ \A e : WillKnow(t, e)' => WillKnow(t, e) \/ (e = entity_id[s] /\ t # s)
             /\ OrderedFor(t) => OrderedFor(t)'
             /\ Gains(t, m) => WillKnow(t, entity_id[s])'
  BY <1>1, <1>3, GainsKnows, SameKnows
<1>5. Quiet'
  BY <1>1, <1>2, <1>3 DEF KnowledgeInv, Quiet, Same
<1>6. GhostFree'
  <2>. SUFFICES ASSUME NEW t \in Sessions, Receiving(t)', Registered(t)', NEW e, WillKnow(t, e)'
                PROVE  \E x \in Sessions \ {t} : entity_id'[x] = e /\ pc'[x] \in InWorld
    BY DEF GhostFree
  <2>1. Receiving(t) /\ Registered(t)
    BY <1>1, <1>2 DEF Registered
  <2>2. CASE WillKnow(t, e)
    BY <1>1, <1>2, <2>1, <2>2 DEF KnowledgeInv, GhostFree
  <2>3. CASE e = entity_id[s] /\ t # s
    BY <1>1, <1>2, <2>3 DEF InWorld
  <2>. QED BY <1>4, <2>2, <2>3
<1>7. ASSUME Exclusive PROVE OwnMovements' /\ NobodyMissing' /\ MovementAfterSpawn'
  <2>1. OwnMovements'
    BY <1>1, <1>7 DEF KnowledgeInv, OwnMovements
  <2>2. NobodyMissing'
    <3>. SUFFICES ASSUME NEW t \in Sessions, NEW x \in Sessions, t # x,
                         Receiving(t)', pc'[x] \in {"entering", "playing"}
                  PROVE  WillKnow(t, entity_id[x])'
      BY DEF NobodyMissing
    <3>1. CASE x = s
      <4>1. Registered(t) /\ Registered(s) /\ Receiving(t)
        BY <1>1, <1>2, <1>7 DEF RegistryInv, SessionsRegistered, Receiving, InWorld
      <4>2. UuidOf[t] # UuidOf[s]
        BY <3>1, <4>1, RegisteredDiffer
      <4>3. WillKnow(t, entity_id[s])'
        BY <1>3, <1>4, <4>1, <4>2
      <4>. QED BY <3>1, <4>3
    <3>2. CASE x # s
      <4>1. WillKnow(t, entity_id[x])
        BY <1>2, <1>7, <3>2 DEF KnowledgeInv, NobodyMissing
      <4>2. \A e : e = entity_id[x] => WillKnow(t, e)'
        BY <1>4, <4>1
      <4>. QED BY <1>1, <4>2
    <3>. QED BY <3>1, <3>2
  <2>3. MovementAfterSpawn'
    BY <1>4, <1>7 DEF KnowledgeInv, MovementAfterSpawn, OrderedFor
  <2>. QED BY <2>1, <2>2, <2>3
<1>. QED BY <1>5, <1>6, <1>7 DEF KnowledgeInv

\* broadcast_except keeps the knowledge invariant: a movement follows its spawn.
LEMMA BroadcastExceptKnows ==
  ASSUME TypeOK, RegistryInv, KnowledgeInv, NEW s \in Sessions, BroadcastExcept(s)
  PROVE  KnowledgeInv'
<1>. DEFINE m == Head(pend[s])
<1>1. /\ pend[s] # <<>> /\ pend[s] \in Seq(MoveMsg)
      /\ pend' = [pend EXCEPT ![s] = Tail(pend[s])]
      /\ Broadcast(UuidOf[s], m)
      /\ UNCHANGED <<players, pc, entity_id, existing, entities>>
      /\ m = pend[s][1] /\ 1 \in DOMAIN pend[s]
      /\ m \in MoveMsg
  BY DEF BroadcastExcept, TypeOK
<1>. HIDE DEF m
<1>2. m \in Message /\ m.kind # "join" /\ m.kind # "leave"
  BY <1>1 DEF Message, MoveMsg, SyncMsg, LookMsg, HeadMsg
<1>3. ASSUME NEW t \in Sessions
      PROVE  DOMAIN Shown(t)' = DOMAIN Shown(t) /\ (Receiving(t)' <=> Receiving(t))
  BY <1>1 DEF Shown, Introduced, Receiving
<1>4. ASSUME NEW t \in Sessions
      PROVE  /\ Registered(t) /\ UuidOf[t] # UuidOf[s] /\ Receiving(t) => Gains(t, m)
             /\ ~(Registered(t) /\ UuidOf[t] # UuidOf[s] /\ Receiving(t)) => Same(t)
  BY <1>1, <1>3, BroadcastGains
<1>5. ASSUME NEW t \in Sessions
      PROVE  \A e : WillKnow(t, e)' <=> WillKnow(t, e)
  BY <1>2, <1>4, GainsKnows, SameKnows
<1>6. Quiet'
  BY <1>1, <1>3, <1>4 DEF KnowledgeInv, Quiet, Same, TypeOK
<1>7. GhostFree'
  BY <1>1, <1>3, <1>5 DEF KnowledgeInv, GhostFree, Registered
<1>8. ASSUME Exclusive PROVE OwnMovements' /\ NobodyMissing' /\ MovementAfterSpawn'
  <2>1. OwnMovements'
    <3>1. pend'[s] = Tail(pend[s]) /\ \A t \in Sessions : t # s => pend'[t] = pend[t]
      BY <1>1 DEF TypeOK
    <3>2. \A i \in DOMAIN Tail(pend[s]) : i + 1 \in DOMAIN pend[s] /\ Tail(pend[s])[i] = pend[s][i + 1]
      BY <1>1
    <3>3. \A i \in DOMAIN Tail(pend[s]) : Tail(pend[s])[i].eid = entity_id[s]
      BY <1>8, <3>2 DEF KnowledgeInv, OwnMovements
    <3>. QED BY <1>1, <1>8, <3>1, <3>3 DEF KnowledgeInv, OwnMovements
  <2>2. NobodyMissing'
    BY <1>1, <1>3, <1>5, <1>8 DEF KnowledgeInv, NobodyMissing
  <2>3. m.eid = entity_id[s]
    BY <1>1, <1>8 DEF KnowledgeInv, OwnMovements
  <2>4. ASSUME NEW t \in Sessions PROVE OrderedFor(t)'
    <3>1. OrderedFor(t)
      BY <1>8 DEF KnowledgeInv, MovementAfterSpawn, OrderedFor
    <3>2. CASE Registered(t) /\ UuidOf[t] # UuidOf[s] /\ Receiving(t)
      <4>1. t # s /\ pc[s] = "playing"
        BY <1>1, <3>2 DEF KnowledgeInv, Quiet
      <4>2. WillKnow(t, m.eid)
        BY <1>8, <2>3, <3>2, <4>1 DEF KnowledgeInv, NobodyMissing
      <4>. QED BY <1>2, <1>4, <3>1, <3>2, <4>2, GainsKnows
    <3>3. CASE ~(Registered(t) /\ UuidOf[t] # UuidOf[s] /\ Receiving(t))
      BY <1>4, <3>1, <3>3, SameKnows
    <3>. QED BY <3>2, <3>3
  <2>. QED BY <2>1, <2>2, <2>4 DEF MovementAfterSpawn, OrderedFor
<1>. QED BY <1>6, <1>7, <1>8 DEF KnowledgeInv

\* leave_world keeps the knowledge invariant: all others come to forget the entity.
LEMMA LeaveWorldKnows ==
  ASSUME TypeOK, RegistryInv, KnowledgeInv, NEW s \in Sessions, LeaveWorld(s)
  PROVE  KnowledgeInv'
<1>. DEFINE m == [kind |-> "leave", eid |-> entity_id[s], uuid |-> UuidOf[s]]
<1>1. /\ pc[s] = "leaving"
      /\ pc' = [pc EXCEPT ![s] = "gone"]
      /\ players' = [players EXCEPT ![UuidOf[s]] = Absent]
      /\ Broadcast(UuidOf[s], m)
      /\ UNCHANGED <<entity_id, existing, pend, entities>>
      /\ m \in Message
      /\ m \notin MoveMsg
      /\ m.kind = "leave" /\ m.eid = entity_id[s]
  BY UuidOfType
     DEF LeaveWorld, Without, TypeOK, Message, LeaveMsg, MoveMsg, SyncMsg, LookMsg, HeadMsg
<1>. HIDE DEF m
<1>2. ASSUME NEW t \in Sessions
      PROVE  /\ DOMAIN Shown(t)' = DOMAIN Shown(t)
             /\ Receiving(t)' <=> Receiving(t)
             /\ t # s => pc'[t] = pc[t]
             /\ pc'[s] = "gone"
  BY <1>1 DEF Shown, Introduced, Receiving, InWorld, TypeOK
<1>3. ASSUME NEW t \in Sessions
      PROVE  /\ Registered(t) /\ UuidOf[t] # UuidOf[s] /\ Receiving(t) => Gains(t, m)
             /\ ~(Registered(t) /\ UuidOf[t] # UuidOf[s] /\ Receiving(t)) => Same(t)
  BY <1>1, <1>2, BroadcastGains
<1>4. ASSUME NEW t \in Sessions
      PROVE  /\ \A e : WillKnow(t, e)' => WillKnow(t, e)
             /\ \A e : WillKnow(t, e) /\ e # entity_id[s] => WillKnow(t, e)'
             /\ OrderedFor(t) => OrderedFor(t)'
             /\ Gains(t, m) => ~WillKnow(t, entity_id[s])'
  BY <1>1, <1>3, GainsKnows, SameKnows
<1>5. Quiet'
  BY <1>1, <1>2, <1>3 DEF KnowledgeInv, Quiet, Same
<1>6. GhostFree'
  <2>. SUFFICES ASSUME NEW t \in Sessions, Receiving(t)', Registered(t)', NEW e, WillKnow(t, e)'
                PROVE  \E x \in Sessions \ {t} : entity_id'[x] = e /\ pc'[x] \in InWorld
    BY DEF GhostFree
  <2>1. Receiving(t) /\ Registered(t) /\ UuidOf[t] # UuidOf[s]
    BY <1>1, <1>2, UuidOfType DEF Registered, TypeOK
  <2>2. e # entity_id[s]
    <3>1. ~WillKnow(t, entity_id[s])'
      BY <1>3, <1>4, <2>1
    <3>2. e = entity_id[s] => ~WillKnow(t, e)'
      BY <1>1, <3>1
    <3>. QED BY <3>2
  <2>3. PICK x \in Sessions \ {t} : entity_id[x] = e /\ pc[x] \in InWorld
    BY <1>4, <2>1 DEF KnowledgeInv, GhostFree
  <2>4. x # s
    BY <2>2, <2>3
  <2>. QED BY <1>1, <1>2, <2>3, <2>4
<1>7. ASSUME Exclusive PROVE OwnMovements' /\ NobodyMissing' /\ MovementAfterSpawn'
  <2>1. OwnMovements'
    BY <1>1, <1>7 DEF KnowledgeInv, OwnMovements
  <2>2. NobodyMissing'
    <3>. SUFFICES ASSUME NEW t \in Sessions, NEW x \in Sessions, t # x,
                         Receiving(t)', pc'[x] \in {"entering", "playing"}
                  PROVE  WillKnow(t, entity_id[x])'
      BY DEF NobodyMissing
    <3>1. x # s /\ pc[x] \in {"entering", "playing"}
      BY <1>2
    <3>2. WillKnow(t, entity_id[x])
      BY <1>2, <1>7, <3>1 DEF KnowledgeInv, NobodyMissing
    <3>3. entity_id[x] # entity_id[s]
      BY <1>1, <3>1 DEF RegistryInv, IdsDistinct
    <3>4. \A e : e = entity_id[x] => WillKnow(t, e)'
      BY <1>4, <3>2, <3>3
    <3>. QED BY <1>1, <3>4
  <2>3. MovementAfterSpawn'
    BY <1>4, <1>7 DEF KnowledgeInv, MovementAfterSpawn, OrderedFor
  <2>. QED BY <2>1, <2>2, <2>3
<1>. QED BY <1>5, <1>6, <1>7 DEF KnowledgeInv

\* Every action keeps the knowledge invariant.
LEMMA KnowledgeStep ==
  ASSUME TypeOK, RegistryInv, KnowledgeInv, [Next]_vars
  PROVE  KnowledgeInv'
<1>1. CASE UNCHANGED vars
  BY <1>1, CalmStep DEF vars, Same, Shown, Introduced, Receiving
<1>2. ASSUME NEW s \in Sessions, SendExisting(s) PROVE KnowledgeInv'
  <2>1. \A t \in Sessions : Same(t)
    BY <1>2 DEF SendExisting, Same, Shown, Introduced, TypeOK
  <2>2. \A t \in Sessions : pc'[t] = pc[t] \/ (pc[t] = "joining" /\ pc'[t] = "announcing")
    BY <1>2 DEF SendExisting, TypeOK
  <2>3. UNCHANGED <<players, entity_id, pend>>
    BY <1>2 DEF SendExisting
  <2>. QED BY <2>1, <2>2, <2>3, CalmStep DEF Receiving, InWorld
<1>3. ASSUME NEW s \in Sessions, EnterLoop(s) PROVE KnowledgeInv'
  <2>1. \A t \in Sessions : Same(t)
    BY <1>3 DEF EnterLoop, Same, Shown, Introduced, TypeOK
  <2>2. \A t \in Sessions : pc'[t] = pc[t] \/ (pc[t] = "entering" /\ pc'[t] = "playing")
    BY <1>3 DEF EnterLoop, TypeOK
  <2>3. UNCHANGED <<players, entity_id, pend>>
    BY <1>3 DEF EnterLoop
  <2>. QED BY <2>1, <2>2, <2>3, CalmStep DEF Receiving, InWorld
<1>4. ASSUME NEW s \in Sessions, Deliver(s) PROVE KnowledgeInv'
  <2>1. Receiving(s) /\ Delivers(s)
    BY <1>4 DEF Deliver, Delivers, AtSelect, Receiving, InWorld, Shown, TypeOK
  <2>2. \A t \in Sessions : t # s => Same(t)
    BY <1>4 DEF Deliver, Same, Shown, Introduced, TypeOK
  <2>3. UNCHANGED <<players, entity_id, pend, pc>>
    BY <1>4 DEF Deliver
  <2>. QED BY <2>1, <2>2, <2>3, CalmStep DEF Receiving
<1>5. ASSUME NEW s \in Sessions, RecvClosed(s) \/ ConnError(s) PROVE KnowledgeInv'
  <2>1. Receiving(s) /\ pend[s] = <<>> /\ EndRun(s)
    BY <1>5 DEF RecvClosed, ConnError, AtSelect, Receiving, InWorld, KnowledgeInv, Quiet
  <2>. QED BY <2>1, EndRunKnows
<1>. QED
  BY <1>1, <1>2, <1>3, <1>4, <1>5, HandlersKnow, RegisterKnows, BroadcastJoinKnows,
     BroadcastExceptKnows, LeaveWorldKnows DEF Next, Task, Client

\* The knowledge invariant holds in every reachable state.
LEMMA KnowledgeAlways == Spec => []KnowledgeInv
<1>1. Init => KnowledgeInv
  <2>. SUFFICES ASSUME Init PROVE KnowledgeInv
    OBVIOUS
  <2>1. \A s \in Sessions : ~Receiving(s) /\ pc[s] = "configuring" /\ rx[s] = <<>> /\ pend[s] = <<>>
    BY DEF Init, Receiving, InWorld
  <2>. QED BY <2>1 DEF KnowledgeInv, Quiet, GhostFree, OwnMovements, NobodyMissing,
                       MovementAfterSpawn
<1>2. TypeOK /\ RegistryInv /\ KnowledgeInv /\ [Next]_vars => KnowledgeInv'
  BY KnowledgeStep
<1>. QED BY <1>1, <1>2, TypeCorrect, RegistryAlways, PTL DEF Spec

\* No client is left with the figure of a player who is gone, even when the same
\* player logs in from two places at once.
THEOREM NeverGhosts == Spec => []NoGhosts
<1>1. KnowledgeInv => NoGhosts
  BY DEF KnowledgeInv, GhostFree, NoGhosts
<1>. QED BY <1>1, KnowledgeAlways, PTL

\* When every player is in the world at most once, whoever announced itself is or
\* will be shown by everyone else.
THEOREM NobodyMissingWhenExclusive == Spec => [](Exclusive => NobodyMissing)
<1>1. KnowledgeInv => (Exclusive => NobodyMissing)
  BY DEF KnowledgeInv
<1>. QED BY <1>1, KnowledgeAlways, PTL

\* When every player is in the world at most once, no client is ever told of the
\* movement of an entity it was not told to spawn, or was told to remove.
THEOREM MovementAfterSpawnWhenExclusive == Spec => [](Exclusive => MovementAfterSpawn)
<1>1. KnowledgeInv => (Exclusive => MovementAfterSpawn)
  BY DEF KnowledgeInv
<1>. QED BY <1>1, KnowledgeAlways, PTL

-----------------------------------------------------------------------------
(* The inductive invariant: poses *)

Parts == {"pos", "yaw"}

\* The frames that set a part of a figure's pose, and the value they set it to.
Setters(part) == IF part = "pos" THEN {"join", "sync"} ELSE {"join", "sync", "look"}
Value(m, part) == IF m.kind = "look" THEN m.yaw ELSE m.pose[part]

\* The frames of channel q that set that part of entity e.
Settings(q, e, part) == {i \in DOMAIN q : q[i].eid = e /\ q[i].kind \in Setters(part)}

\* A client that shows the figures `shown` and takes the frames of q shows x in that part
\* of e in the end: the last frame that sets it does, or it shows x already.
ComesToShow(shown, q, e, part, x) ==
  /\ \A i \in Settings(q, e, part) :
       (\A j \in Settings(q, e, part) : j <= i) => Value(q[i], part) = x
  /\ Settings(q, e, part) = {} => shown[e][part] = x

\* The pose the registry has for the session's player, and nothing else, is what the
\* session's handler has yet to broadcast.
PendingPose ==
  \A t \in Sessions :
    LET e    == entity_id[t]
        pose == players[UuidOf[t]].pose
    IN  \/ pend[t] = <<>>
        \/ pend[t] = Frames(FALSE, e, pose)
        \/ pend[t] = Frames(TRUE, e, pose)
        \/ pend[t] = Tail(Frames(TRUE, e, pose))

\* A player who has not announced itself stands where it was put.
AtSpawn ==
  \A t \in Sessions :
    pc[t] \in {"joining", "announcing"} => players[UuidOf[t]].pose = Spawn

\* Whoever is told to remove a figure is told so of a session that is gone.
LeavesGone ==
  \A s \in Sessions : \A i \in DOMAIN rx[s] : rx[s][i].kind = "leave" =>
    \E x \in Sessions : pc[x] = "gone" /\ entity_id[x] = rx[s][i].eid

\* The handler of t has no frame to broadcast that sets the part.
Announced(t, part) == \A i \in DOMAIN pend[t] : pend[t][i].kind \notin Setters(part)

Shows(s, t, part) ==
  ComesToShow(Shown(s), rx[s], entity_id[t], part, players[UuidOf[t]].pose[part])

\* Every client comes to show each part of a player's pose as the registry has it, unless
\* the frame that says so is still to be broadcast.
PosesShown ==
  \A s, t \in Sessions, part \in Parts :
    s # t /\ Receiving(s) /\ pc[t] \in {"entering", "playing"} /\ Announced(t, part)
      => Shows(s, t, part)

PoseInv == PendingPose /\ AtSpawn /\ LeavesGone /\ PosesShown

-----------------------------------------------------------------------------
(* The inductive invariant: tab lists *)

\* The frames of channel q that add a tab entry of u or remove it.
Entries(q, u) == {i \in DOMAIN q : q[i].kind \in {"join", "leave"} /\ q[i].uuid = u}

\* A client with the tab list `names` lists u once it has taken the frames of q.
ComesToList(names, q, u) ==
  \/ Entries(q, u) = {} /\ u \in names
  \/ \E i \in Entries(q, u) : (\A j \in Entries(q, u) : j <= i) /\ q[i].kind = "join"

\* What the client lists, or will list when the spawn bundle reaches it.
Names(s) == IF pc[s] = "joining" THEN {UuidOf[s]} \cup {o.uuid : o \in existing[s]} ELSE tab[s]

Lists(s, u) == ComesToList(Names(s), rx[s], u)

\* A client comes to list its own player and those in their play loop, and nobody who is
\* not in the world.
TabInv ==
  \A s \in Sessions : Receiving(s) =>
    /\ Lists(s, UuidOf[s])
    /\ \A t \in Sessions : pc[t] \in {"entering", "playing"} => Lists(s, UuidOf[t])
    /\ \A u \in Uuids : Lists(s, u) => \E t \in Sessions : pc[t] \in InWorld /\ UuidOf[t] = u

ViewsInv == Exclusive => PoseInv /\ TabInv

-----------------------------------------------------------------------------
(* What a channel adds up to *)

\* A frame at the end of a channel has the last word on what it sets, and none on the rest.
LEMMA ShowAppend ==
  ASSUME NEW shown, NEW q \in Seq(Message), NEW m \in Message, NEW e, NEW part, NEW x
  PROVE  /\ ComesToShow(shown, q, e, part, x) /\ ~(m.eid = e /\ m.kind \in Setters(part))
              => ComesToShow(shown, Append(q, m), e, part, x)
         /\ m.eid = e /\ m.kind \in Setters(part) /\ Value(m, part) = x
              => ComesToShow(shown, Append(q, m), e, part, x)
<1>. DEFINE r == Append(q, m)
            H == Settings(q, e, part)
            G == Settings(r, e, part)
<1>1. /\ Len(q) \in Nat
      /\ DOMAIN q = 1 .. Len(q) /\ DOMAIN r = 1 .. Len(q) + 1
      /\ r[Len(q) + 1] = m
      /\ \A i \in 1 .. Len(q) : r[i] = q[i]
  OBVIOUS
<1>. HIDE DEF r
<1>2. /\ \A i \in 1 .. Len(q) : i \in G <=> i \in H
      /\ Len(q) + 1 \in G <=> m.eid = e /\ m.kind \in Setters(part)
      /\ H \subseteq 1 .. Len(q) /\ G \subseteq 1 .. Len(q) + 1
  BY <1>1 DEF Settings
<1>3. ASSUME ComesToShow(shown, q, e, part, x), ~(m.eid = e /\ m.kind \in Setters(part))
      PROVE  ComesToShow(shown, r, e, part, x)
  <2>1. G = H
    <3>. HIDE DEF G, H
    <3>1. \A i \in 1 .. Len(q) + 1 : i = Len(q) + 1 \/ i \in 1 .. Len(q)
      BY <1>1
    <3>. QED BY <1>2, <1>3, <3>1
  <2>2. \A i \in H : r[i] = q[i]
    BY <1>1, <1>2
  <2>3. /\ \A i \in H : (\A j \in H : j <= i) => Value(q[i], part) = x
        /\ H = {} => shown[e][part] = x
    BY <1>3 DEF ComesToShow
  <2>. HIDE DEF H
  <2>. QED BY <2>1, <2>2, <2>3 DEF ComesToShow
<1>4. ASSUME m.eid = e, m.kind \in Setters(part), Value(m, part) = x
      PROVE  ComesToShow(shown, r, e, part, x)
  <2>1. Len(q) + 1 \in G
    BY <1>2, <1>4
  <2>. HIDE DEF G, H
  <2>2. \A i \in G : (\A j \in G : j <= i) => i = Len(q) + 1
    BY <1>1, <1>2, <2>1
  <2>3. \A i \in G : (\A j \in G : j <= i) => Value(r[i], part) = x
    BY <1>1, <1>4, <2>2
  <2>. QED BY <2>1, <2>3 DEF ComesToShow, G
<1>. QED BY <1>3, <1>4 DEF r

\* Delivering the first frame of a channel changes nothing in what it adds up to, as long
\* as the client has the figure it is about and is not told to remove it.
LEMMA ShowTail ==
  ASSUME NEW shown, shown \in [DOMAIN shown -> Pose],
         NEW q \in Seq(Message), q # <<>>, NEW e, NEW part \in Parts, NEW x,
         ComesToShow(shown, q, e, part, x),
         Head(q).eid = e => Head(q).kind # "leave" /\ (Head(q).kind = "join" \/ e \in DOMAIN shown),
         Settings(q, e, part) = {} => e \in DOMAIN shown
  PROVE  ComesToShow(ShowEntities(shown, Head(q)), Tail(q), e, part, x)
<1>. DEFINE m == Head(q)
            r == Tail(q)
            after == ShowEntities(shown, m)
            H == Settings(q, e, part)
            G == Settings(r, e, part)
<1>1. /\ m \in Message /\ m = q[1] /\ 1 \in DOMAIN q
      /\ Len(q) \in Nat /\ Len(q) >= 1
      /\ DOMAIN q = 1 .. Len(q) /\ DOMAIN r = 1 .. Len(q) - 1
      /\ \A i \in 1 .. Len(q) - 1 : r[i] = q[i + 1]
  OBVIOUS
<1>. HIDE DEF m, r
<1>2. /\ \A i \in 1 .. Len(q) - 1 : i \in G <=> i + 1 \in H
      /\ 1 \in H <=> m.eid = e /\ m.kind \in Setters(part)
      /\ H \subseteq 1 .. Len(q) /\ G \subseteq 1 .. Len(q) - 1
  BY <1>1 DEF Settings
<1>3. /\ \A i \in H : (\A j \in H : j <= i) => Value(q[i], part) = x
      /\ H = {} => shown[e][part] = x
      /\ H = {} => e \in DOMAIN shown
  BY DEF ComesToShow
<1>4. ASSUME NEW i \in G, \A j \in G : j <= i PROVE Value(r[i], part) = x
  <2>. HIDE DEF G, H
  <2>1. i + 1 \in H /\ r[i] = q[i + 1] /\ i \in Nat /\ i >= 1
    BY <1>1, <1>2
  <2>2. \A j \in H : j <= i + 1
    <3>. SUFFICES ASSUME NEW j \in H PROVE j <= i + 1
      OBVIOUS
    <3>1. j \in 1 .. Len(q)
      BY <1>2
    <3>2. j = 1 \/ (j - 1 \in 1 .. Len(q) - 1 /\ (j - 1) + 1 = j)
      BY <1>1, <3>1
    <3>3. j - 1 \in 1 .. Len(q) - 1 /\ (j - 1) + 1 = j => j - 1 \in G
      BY <1>2
    <3>. QED BY <1>4, <2>1, <3>1, <3>2, <3>3
  <2>. QED BY <1>3, <2>1, <2>2
<1>5. ASSUME G = {} PROVE after[e][part] = x
  <2>. HIDE DEF G
  <2>1. \A j \in H : j = 1
    <3>. HIDE DEF H
    <3>. SUFFICES ASSUME NEW j \in H, j # 1 PROVE FALSE
      OBVIOUS
    <3>1. j - 1 \in 1 .. Len(q) - 1 /\ (j - 1) + 1 = j
      BY <1>1, <1>2
    <3>. QED BY <1>2, <1>5, <3>1
  <2>2. CASE 1 \in H
    <3>1. m.eid = e /\ m.kind \in Setters(part) /\ Value(m, part) = x
      <4>1. Value(q[1], part) = x
        <5>. HIDE DEF H
        <5>. QED BY <1>3, <2>1, <2>2
      <4>. QED BY <1>1, <1>2, <2>2, <4>1
    <3>2. m.kind = "join" \/ e \in DOMAIN shown
      BY <3>1 DEF m
    <3>3. CASE m.kind = "join"
      BY <3>1, <3>3 DEF ShowEntities, Value
    <3>4. CASE m.kind = "sync"
      BY <3>1, <3>2, <3>4 DEF ShowEntities, Value
    <3>5. CASE m.kind = "look"
      <4>1. part = "yaw" /\ x = m.yaw
        BY <3>1, <3>5 DEF Setters, Value, Parts
      <4>2. after[e] = [shown[e] EXCEPT !.yaw = m.yaw] /\ shown[e] \in Pose
        BY <3>1, <3>2, <3>5 DEF ShowEntities
      <4>3. after[e].yaw = m.yaw
        <5>. HIDE DEF after
        <5>. QED BY <4>2 DEF Pose
      <4>. QED BY <4>1, <4>3
    <3>. QED BY <3>1, <3>3, <3>4, <3>5 DEF Setters
  <2>3. CASE 1 \notin H
    <3>1. H = {}
      BY <2>1, <2>3
    <3>2. e \in DOMAIN shown /\ shown[e][part] = x /\ shown[e] \in Pose
      BY <1>3, <3>1
    <3>3. CASE m.eid # e
      <4>1. after[e] = shown[e]
        <5>1. m.kind \in {"join", "leave", "sync", "look", "head"}
          BY <1>1 DEF Message, JoinMsg, MoveMsg, SyncMsg, LookMsg, HeadMsg, LeaveMsg
        <5>. QED BY <3>2, <3>3, <5>1 DEF ShowEntities
      <4>. QED BY <3>2, <4>1
    <3>4. CASE m.eid = e
      <4>1. m.kind \notin Setters(part) /\ m.kind # "leave"
        BY <1>2, <2>3, <3>4 DEF m
      <4>2. m.kind = "head" \/ (m.kind = "look" /\ part = "pos")
        <5>1. m.kind \in {"join", "leave", "sync", "look", "head"}
          BY <1>1 DEF Message, JoinMsg, MoveMsg, SyncMsg, LookMsg, HeadMsg, LeaveMsg
        <5>. QED BY <4>1, <5>1 DEF Setters, Parts
      <4>3. CASE m.kind = "head"
        BY <3>2, <4>3 DEF ShowEntities
      <4>4. CASE m.kind = "look" /\ part = "pos"
        <5>1. after[e] = [shown[e] EXCEPT !.yaw = m.yaw]
          BY <3>2, <3>4, <4>4 DEF ShowEntities
        <5>2. after[e].pos = shown[e].pos
          <6>. HIDE DEF after
          <6>. QED BY <3>2, <5>1 DEF Pose
        <5>. QED BY <3>2, <4>4, <5>2
      <4>. QED BY <4>2, <4>3, <4>4
    <3>. QED BY <3>3, <3>4
  <2>. QED BY <2>2, <2>3
<1>6. ComesToShow(after, r, e, part, x)
  <2>. HIDE DEF after
  <2>. QED BY <1>4, <1>5 DEF ComesToShow
<1>. QED BY <1>6 DEF m, r

\* An entry at the end of a channel decides whether its player is listed, and no other.
LEMMA ListAppend ==
  ASSUME NEW names, NEW q \in Seq(Message), NEW m \in Message, NEW u
  PROVE  LET entry == m.kind \in {"join", "leave"} /\ m.uuid = u
         IN  /\ entry => (ComesToList(names, Append(q, m), u) <=> m.kind = "join")
             /\ ~entry => (ComesToList(names, Append(q, m), u) <=> ComesToList(names, q, u))
<1>. DEFINE r == Append(q, m)
            H == Entries(q, u)
            G == Entries(r, u)
<1>1. /\ Len(q) \in Nat
      /\ DOMAIN q = 1 .. Len(q) /\ DOMAIN r = 1 .. Len(q) + 1
      /\ r[Len(q) + 1] = m
      /\ \A i \in 1 .. Len(q) : r[i] = q[i]
  OBVIOUS
<1>. HIDE DEF r
<1>2. /\ \A i \in 1 .. Len(q) : i \in G <=> i \in H
      /\ Len(q) + 1 \in G <=> m.kind \in {"join", "leave"} /\ m.uuid = u
      /\ H \subseteq 1 .. Len(q) /\ G \subseteq 1 .. Len(q) + 1
  BY <1>1 DEF Entries
<1>3. ASSUME ~(m.kind \in {"join", "leave"} /\ m.uuid = u)
      PROVE  ComesToList(names, r, u) <=> ComesToList(names, q, u)
  <2>1. G = H
    <3>. HIDE DEF G, H
    <3>1. \A i \in 1 .. Len(q) + 1 : i = Len(q) + 1 \/ i \in 1 .. Len(q)
      BY <1>1
    <3>. QED BY <1>2, <1>3, <3>1
  <2>2. \A i \in H : r[i] = q[i]
    BY <1>1, <1>2
  <2>. HIDE DEF G, H
  <2>. QED BY <2>1, <2>2 DEF ComesToList, G, H
<1>4. ASSUME m.kind \in {"join", "leave"}, m.uuid = u
      PROVE  ComesToList(names, r, u) <=> m.kind = "join"
  <2>1. Len(q) + 1 \in G
    BY <1>2, <1>4
  <2>. HIDE DEF G, H
  <2>2. \A i \in G : (\A j \in G : j <= i) <=> i = Len(q) + 1
    BY <1>1, <1>2, <2>1
  <2>. QED BY <1>1, <2>1, <2>2 DEF ComesToList, G
<1>. QED BY <1>3, <1>4 DEF r

\* Delivering the first frame of a channel moves its effect into the tab list.
LEMMA ListTail ==
  ASSUME NEW names, NEW q \in Seq(Message), q # <<>>, NEW u
  PROVE  ComesToList(ShowTab(names, Head(q)), Tail(q), u) <=> ComesToList(names, q, u)
<1>. DEFINE m == Head(q)
            r == Tail(q)
            after == ShowTab(names, m)
            H == Entries(q, u)
            G == Entries(r, u)
<1>1. /\ m \in Message /\ m = q[1] /\ 1 \in DOMAIN q
      /\ Len(q) \in Nat /\ Len(q) >= 1
      /\ DOMAIN q = 1 .. Len(q) /\ DOMAIN r = 1 .. Len(q) - 1
      /\ \A i \in 1 .. Len(q) - 1 : r[i] = q[i + 1]
  OBVIOUS
<1>. HIDE DEF m, r
<1>2. /\ \A i \in 1 .. Len(q) - 1 : i \in G <=> i + 1 \in H
      /\ 1 \in H <=> m.kind \in {"join", "leave"} /\ m.uuid = u
      /\ H \subseteq 1 .. Len(q) /\ G \subseteq 1 .. Len(q) - 1
  BY <1>1 DEF Entries
<1>3. u \in after <=> \/ m.kind = "join" /\ m.uuid = u
                      \/ u \in names /\ ~(m.kind = "leave" /\ m.uuid = u)
  BY DEF ShowTab
<1>. HIDE DEF after
<1>4. ASSUME G = {} PROVE ComesToList(after, r, u) <=> ComesToList(names, q, u)
  <2>1. \A j \in H : j = 1
    <3>. HIDE DEF H, G
    <3>. SUFFICES ASSUME NEW j \in H, j # 1 PROVE FALSE
      OBVIOUS
    <3>1. j - 1 \in 1 .. Len(q) - 1 /\ (j - 1) + 1 = j
      BY <1>1, <1>2
    <3>. QED BY <1>2, <1>4, <3>1
  <2>2. ComesToList(after, r, u) <=> u \in after
    BY <1>4 DEF ComesToList
  <2>3. ComesToList(names, q, u) <=> (H = {} /\ u \in names) \/ (1 \in H /\ m.kind = "join")
    <3>1. 1 \in H => H = {1}
      <4>. HIDE DEF H
      <4>. QED BY <2>1
    <3>2. H = {} \/ 1 \in H
      <4>. HIDE DEF H
      <4>. QED BY <2>1
    <3>3. ComesToList(names, q, u) <=>
            \/ H = {} /\ u \in names
            \/ \E i \in H : (\A j \in H : j <= i) /\ q[i].kind = "join"
      BY DEF ComesToList
    <3>. HIDE DEF H
    <3>. QED BY <1>1, <3>1, <3>2, <3>3
  <2>4. H = {} <=> 1 \notin H
    <3>. HIDE DEF H
    <3>. QED BY <2>1
  <2>. HIDE DEF H
  <2>. QED BY <1>2, <1>3, <2>2, <2>3, <2>4
<1>5. ASSUME G # {} PROVE ComesToList(after, r, u) <=> ComesToList(names, q, u)
  <2>. HIDE DEF G, H
  <2>1. PICK k \in G : TRUE
    BY <1>5
  <2>2. k \in 1 .. Len(q) - 1 /\ k + 1 \in H
    BY <1>2, <2>1
  <2>3. H # {}
    BY <2>2
  <2>4. ASSUME NEW i \in G, \A j \in G : j <= i, r[i].kind = "join"
        PROVE  \E h \in H : (\A j \in H : j <= h) /\ q[h].kind = "join"
    <3>1. i + 1 \in H /\ r[i] = q[i + 1] /\ i \in 1 .. Len(q) - 1
      BY <1>1, <1>2
    <3>2. ASSUME NEW j \in H PROVE j <= i + 1
      <4>1. j = 1 \/ (j - 1 \in 1 .. Len(q) - 1 /\ (j - 1) + 1 = j)
        BY <1>1, <1>2
      <4>2. CASE j = 1
        BY <3>1, <4>2
      <4>3. CASE j - 1 \in 1 .. Len(q) - 1 /\ (j - 1) + 1 = j
        <5>1. j - 1 \in G
          BY <1>2, <4>3
        <5>2. j - 1 <= i /\ j \in Int /\ i \in Int
          BY <1>2, <2>4, <3>1, <5>1
        <5>. QED BY <5>2
      <4>. QED BY <4>1, <4>2, <4>3
    <3>3. q[i + 1].kind = "join"
      BY <2>4, <3>1
    <3>. QED BY <3>1, <3>2, <3>3
  <2>5. ASSUME NEW h \in H, \A j \in H : j <= h, q[h].kind = "join"
        PROVE  \E i \in G : (\A j \in G : j <= i) /\ r[i].kind = "join"
    <3>1. h - 1 \in 1 .. Len(q) - 1 /\ (h - 1) + 1 = h
      <4>1. k + 1 <= h /\ h \in 1 .. Len(q)
        BY <1>2, <2>2, <2>5
      <4>. QED BY <1>1, <2>2, <4>1
    <3>2. h - 1 \in G /\ r[h - 1] = q[h]
      BY <1>1, <1>2, <3>1
    <3>3. ASSUME NEW j \in G PROVE j <= h - 1
      <4>1. j \in 1 .. Len(q) - 1 /\ j + 1 \in H
        BY <1>2
      <4>2. j + 1 <= h
        BY <2>5, <4>1
      <4>. QED BY <3>1, <4>1, <4>2
    <3>. QED BY <2>5, <3>2, <3>3
  <2>6. ComesToList(after, r, u) <=> \E i \in G : (\A j \in G : j <= i) /\ r[i].kind = "join"
    BY <1>5 DEF ComesToList, G
  <2>7. ComesToList(names, q, u) <=> \E i \in H : (\A j \in H : j <= i) /\ q[i].kind = "join"
    BY <2>3 DEF ComesToList, H
  <2>. QED BY <2>4, <2>5, <2>6, <2>7
<1>. QED BY <1>4, <1>5 DEF m, r, after

-----------------------------------------------------------------------------
(* The last frame that passes a test, as the properties pick it *)

\* The frame the properties pick to say where a client will show a figure is the last that
\* sets that part of it.
LEMMA WillShowParts ==
  ASSUME TypeOK, NEW s \in Sessions, NEW e, NEW pose \in Pose,
         ComesToShow(Shown(s), rx[s], e, "pos", pose.pos),
         ComesToShow(Shown(s), rx[s], e, "yaw", pose.yaw)
  PROVE  WillShow(s, e) = pose
<1>. DEFINE q == rx[s]
            P == {i \in DOMAIN q : q[i].eid = e /\ q[i].kind \in {"join", "sync"}}
            Y == {i \in DOMAIN q : q[i].eid = e /\ q[i].kind \in {"join", "sync", "look"}}
            p == IF P = {} THEN 0 ELSE CHOOSE i \in P : \A j \in P : j <= i
            y == IF Y = {} THEN 0 ELSE CHOOSE i \in Y : \A j \in Y : j <= i
<1>1. /\ q \in Seq(Message) /\ Len(q) \in Nat
      /\ P \in SUBSET (1 .. Len(q)) /\ Y \in SUBSET (1 .. Len(q))
  BY DEF TypeOK
<1>2. P = Settings(q, e, "pos") /\ Y = Settings(q, e, "yaw")
  BY DEF Settings, Setters
<1>3. WillShow(s, e) =
        [pos |-> IF p = 0 THEN Shown(s)[e].pos ELSE q[p].pose.pos,
         yaw |-> IF y = 0 THEN Shown(s)[e].yaw
                 ELSE IF q[y].kind = "look" THEN q[y].yaw ELSE q[y].pose.yaw]
  BY DEF WillShow, LastThat
<1>4. (IF p = 0 THEN Shown(s)[e].pos ELSE q[p].pose.pos) = pose.pos
  <2>1. CASE P = {}
    BY <1>2, <2>1 DEF ComesToShow
  <2>2. CASE P # {}
    <3>1. p \in P /\ \A j \in P : j <= p
      <4>1. \E i \in P : \A j \in P : j <= i
        <5>. HIDE DEF P, q
        <5>. QED BY <1>1, <2>2, LastExists
      <4>2. p = CHOOSE i \in P : \A j \in P : j <= i
        BY <2>2
      <4>. HIDE DEF P, p, q
      <4>. QED BY <4>1, <4>2
    <3>2. p # 0
      <4>. HIDE DEF P, p, q
      <4>. QED BY <1>1, <3>1
    <3>3. Value(q[p], "pos") = pose.pos
      <4>. HIDE DEF p, P
      <4>. QED BY <1>2, <3>1 DEF ComesToShow
    <3>4. q[p].kind # "look"
      <4>. HIDE DEF p
      <4>. QED BY <3>1
    <3>. HIDE DEF p, P
    <3>. QED BY <3>2, <3>3, <3>4 DEF Value
  <2>. QED BY <2>1, <2>2
<1>5. (IF y = 0 THEN Shown(s)[e].yaw
       ELSE IF q[y].kind = "look" THEN q[y].yaw ELSE q[y].pose.yaw) = pose.yaw
  <2>1. CASE Y = {}
    BY <1>2, <2>1 DEF ComesToShow
  <2>2. CASE Y # {}
    <3>1. y \in Y /\ \A j \in Y : j <= y
      <4>1. \E i \in Y : \A j \in Y : j <= i
        <5>. HIDE DEF Y, q
        <5>. QED BY <1>1, <2>2, LastExists
      <4>2. y = CHOOSE i \in Y : \A j \in Y : j <= i
        BY <2>2
      <4>. HIDE DEF Y, y, q
      <4>. QED BY <4>1, <4>2
    <3>2. y # 0
      <4>. HIDE DEF Y, y, q
      <4>. QED BY <1>1, <3>1
    <3>3. Value(q[y], "yaw") = pose.yaw
      <4>. HIDE DEF y, Y
      <4>. QED BY <1>2, <3>1 DEF ComesToShow
    <3>. HIDE DEF y, Y
    <3>. QED BY <3>2, <3>3 DEF Value
  <2>. QED BY <2>1, <2>2
<1>. HIDE DEF p, y
<1>. QED BY <1>3, <1>4, <1>5 DEF Pose

\* The entry TabListExact picks is the last of its player.
LEMMA WillListSame ==
  ASSUME TypeOK, NEW s \in Sessions, NEW names, NEW u
  PROVE  LET i == LastThat(s, LAMBDA m : m.kind \in {"join", "leave"} /\ m.uuid = u)
         IN  (IF i = 0 THEN u \in names ELSE rx[s][i].kind = "join")
               <=> ComesToList(names, rx[s], u)
<1>. DEFINE q == rx[s]
            H == Entries(q, u)
            k == IF H = {} THEN 0 ELSE CHOOSE i \in H : \A j \in H : j <= i
<1>1. q \in Seq(Message) /\ Len(q) \in Nat /\ H \in SUBSET (1 .. Len(q))
  BY DEF TypeOK, Entries
<1>2. (IF k = 0 THEN u \in names ELSE q[k].kind = "join") <=> ComesToList(names, q, u)
  <2>1. CASE H = {}
    BY <2>1 DEF ComesToList
  <2>2. CASE H # {}
    <3>1. k \in H /\ \A j \in H : j <= k
      <4>1. \E i \in H : \A j \in H : j <= i
        <5>. HIDE DEF H, q
        <5>. QED BY <1>1, <2>2, LastExists
      <4>2. k = CHOOSE i \in H : \A j \in H : j <= i
        BY <2>2
      <4>. HIDE DEF H, k, q
      <4>. QED BY <4>1, <4>2
    <3>2. k # 0 /\ \A i \in H : (\A j \in H : j <= i) => i = k
      <4>. HIDE DEF H, k, q
      <4>. QED BY <1>1, <3>1
    <3>3. ComesToList(names, q, u) <=> \E i \in H : (\A j \in H : j <= i) /\ q[i].kind = "join"
      BY <2>2 DEF ComesToList
    <3>. HIDE DEF H, k
    <3>. QED BY <3>1, <3>2, <3>3
  <2>. QED BY <2>1, <2>2
<1>. QED BY <1>2 DEF LastThat, Entries

-----------------------------------------------------------------------------
(* How a step may change what a session's channel adds up to *)

\* Not at all, by a frame at its end, or by delivering the frame at its head.
Still(s)     == rx'[s] = rx[s] /\ Shown(s)' = Shown(s) /\ Names(s)' = Names(s)
Queues(s, m) == rx'[s] = Append(rx[s], m) /\ Shown(s)' = Shown(s) /\ Names(s)' = Names(s)
Takes(s) ==
  /\ rx[s] # <<>>
  /\ rx'[s] = Tail(rx[s])
  /\ Shown(s)' = ShowEntities(Shown(s), Head(rx[s]))
  /\ Names(s)' = ShowTab(Names(s), Head(rx[s]))

\* A broadcast reaches everyone in the world but the session it comes from.
LEMMA BroadcastQueues ==
  ASSUME TypeOK, RegistryInv, Exclusive, NEW s \in Sessions, pc[s] \in InWorld,
         NEW m, Broadcast(UuidOf[s], m), NEW t \in Sessions,
         Shown(t)' = Shown(t), Names(t)' = Names(t)
  PROVE  /\ Receiving(t) /\ t # s => Queues(t, m)
         /\ ~(Receiving(t) /\ t # s) => Still(t)
<1>1. Receiving(t) /\ t # s => Registered(t) /\ UuidOf[t] # UuidOf[s]
  BY RegisteredDiffer DEF RegistryInv, SessionsRegistered, Receiving
<1>. QED BY <1>1 DEF Broadcast, Queues, Still, TypeOK

\* Two sessions in the world are two players.
LEMMA PlayersDiffer ==
  ASSUME RegistryInv, Exclusive, NEW s \in Sessions, NEW t \in Sessions, s # t,
         pc[s] \in InWorld, pc[t] \in InWorld
  PROVE  UuidOf[s] # UuidOf[t]
BY RegisteredDiffer DEF RegistryInv, SessionsRegistered

\* Nobody is told to remove a player who is in its play loop.
LEMMA NoLeaveOf ==
  ASSUME TypeOK, RegistryInv, LeavesGone, NEW s \in Sessions, NEW t \in Sessions,
         pc[t] \in {"entering", "playing"}
  PROVE  \A i \in DOMAIN rx[s] : rx[s][i].kind = "leave" => rx[s][i].eid # entity_id[t]
BY DEF LeavesGone, RegistryInv, IdsDistinct

\* What a client shows are poses.
LEMMA ShownType ==
  ASSUME TypeOK, NEW s \in Sessions
  PROVE  Shown(s) \in [DOMAIN Shown(s) -> Pose]
BY IntroducedType DEF Shown, TypeOK

\* Delivering a frame changes nothing in where a client will show a figure it will know.
LEMMA TakesShows ==
  ASSUME TypeOK, NEW s \in Sessions, Takes(s), OrderedFor(s),
         NEW e, NEW part \in Parts, NEW x,
         ComesToShow(Shown(s), rx[s], e, part, x), WillKnow(s, e),
         \A i \in DOMAIN rx[s] : rx[s][i].kind = "leave" => rx[s][i].eid # e
  PROVE  ComesToShow(Shown(s)', rx'[s], e, part, x)
<1>. DEFINE q == rx[s]
            shown == Shown(s)
<1>1. /\ q \in Seq(Message) /\ q # <<>> /\ Head(q) = q[1] /\ 1 \in DOMAIN q
      /\ DOMAIN q = 1 .. Len(q)
      /\ shown \in [DOMAIN shown -> Pose]
  BY ShownType DEF Takes, TypeOK
<1>2. Head(q).eid = e => Head(q).kind # "leave" /\ (Head(q).kind = "join" \/ e \in DOMAIN shown)
  <2>1. Head(q).kind \in {"join", "leave", "sync", "look", "head"}
    BY <1>1 DEF Message, JoinMsg, MoveMsg, SyncMsg, LookMsg, HeadMsg, LeaveMsg
  <2>2. ASSUME q[1].kind \in {"sync", "look", "head"} PROVE q[1].eid \in DOMAIN shown
    <3>1. Knows(DOMAIN shown, q, q[1].eid, 1 - 1)
      BY <1>1, <2>2 DEF OrderedFor
    <3>2. 1 .. 1 - 1 = {}
      OBVIOUS
    <3>. QED BY <3>1, <3>2 DEF Knows
  <2>. QED BY <1>1, <2>1, <2>2
<1>3. Settings(q, e, part) = {} => e \in DOMAIN shown
  <2>. SUFFICES ASSUME Settings(q, e, part) = {} PROVE e \in DOMAIN shown
    OBVIOUS
  <2>1. "join" \in Setters(part)
    BY DEF Setters
  <2>2. \A i \in 1 .. Len(q) : ~(q[i].kind = "join" /\ q[i].eid = e)
    BY <1>1, <2>1 DEF Settings
  <2>3. Knows(DOMAIN shown, q, e, Len(q))
    BY DEF WillKnow
  <2>. HIDE DEF q, shown
  <2>. QED BY <2>2, <2>3 DEF Knows
<1>4. rx'[s] = Tail(q) /\ Shown(s)' = ShowEntities(shown, Head(q))
  BY DEF Takes
<1>5. ComesToShow(shown, q, e, part, x)
  OBVIOUS
<1>. HIDE DEF q, shown
<1>. QED BY <1>1, <1>2, <1>3, <1>4, <1>5, ShowTail

\* Delivering a frame changes nothing in whom a client will list.
LEMMA TakesLists ==
  ASSUME TypeOK, NEW s \in Sessions, Still(s) \/ Takes(s), NEW u
  PROVE  Lists(s, u)' <=> Lists(s, u)
<1>1. CASE Still(s)
  BY <1>1 DEF Still, Lists
<1>2. CASE Takes(s)
  <2>1. rx[s] \in Seq(Message) /\ rx[s] # <<>>
    BY <1>2 DEF TypeOK, Takes
  <2>2. ComesToList(ShowTab(Names(s), Head(rx[s])), Tail(rx[s]), u) <=> ComesToList(Names(s), rx[s], u)
    BY <2>1, ListTail
  <2>. QED BY <1>2, <2>2 DEF Takes, Lists
<1>. QED BY <1>1, <1>2

-----------------------------------------------------------------------------
(* Poses, action by action *)

\* Steps that touch no channel but at most deliver from it, while nobody joins, announces
\* itself or leaves.
LEMMA CalmShows ==
  ASSUME TypeOK, RegistryInv, KnowledgeInv, PoseInv, Exclusive,
         UNCHANGED <<players, entity_id, pend>>,
         \A s \in Sessions : Receiving(s)' => Receiving(s),
         \A s \in Sessions : pc'[s] \in {"entering", "playing"} => pc[s] \in {"entering", "playing"},
         \A s \in Sessions : pc'[s] \in {"joining", "announcing"} => pc[s] \in {"joining", "announcing"},
         \A s \in Sessions : pc[s] = "gone" => pc'[s] = "gone",
         \A s \in Sessions : rx'[s] = <<>> \/ Still(s) \/ Takes(s),
         \A s \in Sessions : Receiving(s)' => Still(s) \/ Takes(s)
  PROVE  PoseInv'
<1>1. PendingPose' /\ AtSpawn'
  BY DEF PoseInv, PendingPose, AtSpawn
<1>2. LeavesGone'
  <2>. SUFFICES ASSUME NEW s \in Sessions, NEW i \in DOMAIN rx'[s], rx'[s][i].kind = "leave"
                PROVE  \E x \in Sessions : pc'[x] = "gone" /\ entity_id[x] = rx'[s][i].eid
    BY DEF LeavesGone
  <2>1. \E j \in DOMAIN rx[s] : rx[s][j] = rx'[s][i]
    <3>1. CASE Still(s)
      BY <3>1 DEF Still
    <3>2. CASE Takes(s)
      <4>1. rx[s] \in Seq(Message) /\ rx[s] # <<>> /\ rx'[s] = Tail(rx[s])
        BY <3>2 DEF Takes, TypeOK
      <4>2. i + 1 \in DOMAIN rx[s] /\ rx'[s][i] = rx[s][i + 1]
        BY <4>1
      <4>. QED BY <4>2
    <3>. QED BY <3>1, <3>2
  <2>. QED BY <2>1 DEF PoseInv, LeavesGone
<1>3. PosesShown'
  <2>. SUFFICES ASSUME NEW s \in Sessions, NEW t \in Sessions, NEW part \in Parts,
                       s # t, Receiving(s)', pc'[t] \in {"entering", "playing"},
                       Announced(t, part)'
                PROVE  Shows(s, t, part)'
    BY DEF PosesShown
  <2>1. /\ Receiving(s) /\ pc[t] \in {"entering", "playing"}
        /\ Announced(t, part)
    BY DEF Announced
  <2>2. Shows(s, t, part)
    BY <2>1 DEF PoseInv, PosesShown
  <2>3. CASE Still(s)
    BY <2>2, <2>3 DEF Still, Shows
  <2>4. CASE Takes(s)
    <3>1. WillKnow(s, entity_id[t]) /\ OrderedFor(s)
      BY <2>1 DEF KnowledgeInv, NobodyMissing, MovementAfterSpawn, OrderedFor
    <3>2. \A i \in DOMAIN rx[s] : rx[s][i].kind = "leave" => rx[s][i].eid # entity_id[t]
      BY <2>1, NoLeaveOf DEF PoseInv
    <3>3. PICK e, x : e = entity_id[t] /\ x = players[UuidOf[t]].pose[part]
      OBVIOUS
    <3>4. ComesToShow(Shown(s), rx[s], e, part, x)
      BY <2>2, <3>3 DEF Shows
    <3>5. ComesToShow(Shown(s)', rx'[s], e, part, x)
      BY <2>4, <3>1, <3>2, <3>3, <3>4, TakesShows
    <3>. QED BY <3>3, <3>5 DEF Shows
  <2>. QED BY <2>3, <2>4
<1>. QED BY <1>1, <1>2, <1>3 DEF PoseInv

\* What a movement handler records: a pose, and the frames that tell the others of it.
LEMMA MovementRecorded ==
  ASSUME TypeOK, RegistryInv, Exclusive, NEW s \in Sessions,
         HandlePosition(s) \/ HandlePositionLook(s) \/ HandleLook(s)
  PROVE  \E pose \in Pose, turnOnly \in BOOLEAN :
           /\ players' = [players EXCEPT ![UuidOf[s]] = [players[UuidOf[s]] EXCEPT !.pose = pose]]
           /\ pend' = [pend EXCEPT ![s] = Frames(turnOnly, entity_id[s], pose)]
           /\ turnOnly => pose.pos = players[UuidOf[s]].pose.pos
           /\ pend[s] = <<>>
<1>. DEFINE u == UuidOf[s]
<1>1. pc[s] = "playing" /\ pend[s] = <<>>
  BY DEF HandlePosition, HandlePositionLook, HandleLook, RecordMovement, AtSelect
<1>2. players[u] # Absent /\ players[u].entity_id = entity_id[s] /\ players[u].pose \in Pose
  <2>1. Registered(s) /\ u \in Uuids
    BY <1>1, UuidOfType DEF RegistryInv, SessionsRegistered, InWorld
  <2>. QED BY <2>1 DEF Registered, RegistryInv, EntriesOwned, TypeOK, Entry
<1>3. PICK pose \in Pose, turnOnly \in BOOLEAN :
         RecordMovement(s, pose, turnOnly) /\ (turnOnly => pose.pos = players[u].pose.pos)
  <2>1. PoseOf(s) = players[u].pose
    BY <1>2 DEF PoseOf
  <2>2. CASE HandlePosition(s)
    <3>1. PICK p \in Positions : RecordMovement(s, [players[u].pose EXCEPT !.pos = p], FALSE)
      BY <2>1, <2>2 DEF HandlePosition
    <3>2. [players[u].pose EXCEPT !.pos = p] \in Pose
      BY <1>2 DEF Pose
    <3>. QED BY <3>1, <3>2
  <2>3. CASE HandlePositionLook(s)
    BY <2>3 DEF HandlePositionLook, Pose
  <2>4. CASE HandleLook(s)
    <3>1. PICK y \in Yaws : RecordMovement(s, [players[u].pose EXCEPT !.yaw = y], TRUE)
      BY <2>1, <2>4 DEF HandleLook
    <3>2. /\ [players[u].pose EXCEPT !.yaw = y] \in Pose
          /\ [players[u].pose EXCEPT !.yaw = y].pos = players[u].pose.pos
      BY <1>2 DEF Pose
    <3>. QED BY <3>1, <3>2
  <2>. QED BY <2>2, <2>3, <2>4
<1>. QED BY <1>1, <1>2, <1>3 DEF RecordMovement

\* What a movement leaves to broadcast says each part of the pose that it changed.
LEMMA FramesSet ==
  ASSUME NEW turnOnly \in BOOLEAN, NEW e, NEW pose, NEW part \in Parts,
         \A i \in DOMAIN Frames(turnOnly, e, pose) :
           Frames(turnOnly, e, pose)[i].kind \notin Setters(part)
  PROVE  turnOnly /\ part = "pos"
<1>1. 1 \in DOMAIN Frames(turnOnly, e, pose)
  BY DEF Frames
<1>2. Frames(turnOnly, e, pose)[1].kind = IF turnOnly THEN "look" ELSE "sync"
  BY DEF Frames
<1>. QED BY <1>1, <1>2 DEF Setters, Parts

\* A movement is recorded before it is broadcast: the part it changed is unsaid, the other
\* part is as it was.
LEMMA HandlersShow ==
  ASSUME TypeOK, RegistryInv, KnowledgeInv, PoseInv, Exclusive, NEW s \in Sessions,
         HandlePosition(s) \/ HandlePositionLook(s) \/ HandleLook(s)
  PROVE  PoseInv'
<1>. DEFINE u == UuidOf[s]
<1>1. /\ UNCHANGED <<pc, entity_id, rx, existing, entities, tab>>
      /\ pc[s] = "playing"
  BY MovementKeepsOwners
<1>2. PICK pose \in Pose, turnOnly \in BOOLEAN :
         /\ players' = [players EXCEPT ![u] = [players[u] EXCEPT !.pose = pose]]
         /\ pend' = [pend EXCEPT ![s] = Frames(turnOnly, entity_id[s], pose)]
         /\ turnOnly => pose.pos = players[u].pose.pos
         /\ pend[s] = <<>>
  BY MovementRecorded
<1>3. u \in Uuids /\ players[u] \in Entry
  BY <1>1, UuidOfType DEF TypeOK, RegistryInv, SessionsRegistered, Registered, InWorld
<1>4. /\ players'[u].pose = pose
      /\ \A v \in Uuids : v # u => players'[v] = players[v]
      /\ pend'[s] = Frames(turnOnly, entity_id[s], pose)
      /\ \A t \in Sessions : t # s => pend'[t] = pend[t]
  BY <1>2, <1>3 DEF TypeOK, Entry
<1>5. ASSUME NEW t \in Sessions, t # s, pc[t] \in InWorld
      PROVE  players'[UuidOf[t]] = players[UuidOf[t]]
  BY <1>1, <1>4, <1>5, PlayersDiffer, UuidOfType DEF InWorld
<1>6. PendingPose'
  <2>. SUFFICES ASSUME NEW t \in Sessions, pend'[t] # <<>>
                PROVE  \/ pend'[t] = Frames(FALSE, entity_id[t], players'[UuidOf[t]].pose)
                       \/ pend'[t] = Frames(TRUE, entity_id[t], players'[UuidOf[t]].pose)
                       \/ pend'[t] = Tail(Frames(TRUE, entity_id[t], players'[UuidOf[t]].pose))
    BY <1>1 DEF PendingPose
  <2>1. CASE t = s
    BY <1>4, <2>1
  <2>2. CASE t # s
    <3>1. pend[t] # <<>> /\ pend'[t] = pend[t]
      BY <1>4, <2>2
    <3>2. players'[UuidOf[t]] = players[UuidOf[t]]
      BY <1>5, <2>2, <3>1 DEF KnowledgeInv, Quiet, InWorld
    <3>. QED BY <3>1, <3>2 DEF PoseInv, PendingPose
  <2>. QED BY <2>1, <2>2
<1>7. AtSpawn'
  <2>. SUFFICES ASSUME NEW t \in Sessions, pc[t] \in {"joining", "announcing"}
                PROVE  players'[UuidOf[t]].pose = Spawn
    BY <1>1 DEF AtSpawn
  <2>1. t # s /\ pc[t] \in InWorld
    BY <1>1 DEF InWorld
  <2>. QED BY <1>5, <2>1 DEF PoseInv, AtSpawn
<1>8. LeavesGone'
  BY <1>1 DEF PoseInv, LeavesGone
<1>9. PosesShown'
  <2>. SUFFICES ASSUME NEW a \in Sessions, NEW t \in Sessions, NEW part \in Parts,
                       a # t, Receiving(a)', pc'[t] \in {"entering", "playing"},
                       Announced(t, part)'
                PROVE  Shows(a, t, part)'
    BY DEF PosesShown
  <2>1. /\ Receiving(a) /\ pc[t] \in {"entering", "playing"} /\ pc[t] \in InWorld
        /\ Shown(a)' = Shown(a)
    BY <1>1 DEF Receiving, Shown, Introduced, InWorld
  <2>2. Announced(t, part) /\ players'[UuidOf[t]].pose[part] = players[UuidOf[t]].pose[part]
    <3>1. CASE t # s
      BY <1>4, <1>5, <2>1, <3>1 DEF Announced
    <3>2. CASE t = s
      <4>1. turnOnly /\ part = "pos"
        BY <1>4, <3>2, FramesSet DEF Announced
      <4>. QED BY <1>2, <1>4, <3>2, <4>1 DEF Announced
    <3>. QED BY <3>1, <3>2
  <2>3. Shows(a, t, part)
    BY <2>1, <2>2 DEF PoseInv, PosesShown
  <2>. QED BY <1>1, <2>1, <2>2, <2>3 DEF Shows
<1>. QED BY <1>6, <1>7, <1>8, <1>9 DEF PoseInv

\* A newcomer's snapshot has everyone in the pose of the registry.
LEMMA RegisterShows ==
  ASSUME TypeOK, RegistryInv, KnowledgeInv, PoseInv, Exclusive, NEW s \in Sessions, Register(s)
  PROVE  PoseInv'
<1>. DEFINE u == UuidOf[s]
<1>1. /\ pc[s] = "configuring"
      /\ pc' = [pc EXCEPT ![s] = "joining"]
      /\ entity_id' = [entity_id EXCEPT ![s] = next_entity_id]
      /\ players' = [players EXCEPT ![u] =
                       [entity_id |-> next_entity_id, pose |-> Spawn, out |-> s]]
      /\ existing' = [existing EXCEPT ![s] = Snapshot(u)]
      /\ UNCHANGED <<rx, pend, entities, tab>>
      /\ u \in Uuids
      /\ Free(u)
  BY UuidOfType DEF Register
<1>2. /\ players'[u].pose = Spawn
      /\ \A v \in Uuids : v # u => players'[v] = players[v]
      /\ pc'[s] = "joining" /\ existing'[s] = Snapshot(u)
      /\ \A t \in Sessions : t # s => /\ pc'[t] = pc[t] /\ entity_id'[t] = entity_id[t]
                                      /\ existing'[t] = existing[t]
  BY <1>1 DEF TypeOK
<1>3. ASSUME NEW t \in Sessions, pc[t] \in InWorld
      PROVE  /\ t # s /\ UuidOf[t] # u /\ UuidOf[t] \in Uuids
             /\ players'[UuidOf[t]] = players[UuidOf[t]]
  BY <1>1, <1>2, <1>3, UuidOfType DEF Free, InWorld
<1>4. /\ rx[s] = <<>> /\ pend[s] = <<>>
      /\ \A t \in Sessions : pend[t] # <<>> => pc[t] \in InWorld
  BY <1>1 DEF KnowledgeInv, Quiet, Receiving, InWorld
<1>5. PendingPose'
  <2>. SUFFICES ASSUME NEW t \in Sessions, pend[t] # <<>>
                PROVE  \/ pend[t] = Frames(FALSE, entity_id'[t], players'[UuidOf[t]].pose)
                       \/ pend[t] = Frames(TRUE, entity_id'[t], players'[UuidOf[t]].pose)
                       \/ pend[t] = Tail(Frames(TRUE, entity_id'[t], players'[UuidOf[t]].pose))
    BY <1>1 DEF PendingPose
  <2>1. entity_id'[t] = entity_id[t] /\ players'[UuidOf[t]] = players[UuidOf[t]]
    BY <1>2, <1>3, <1>4
  <2>. QED BY <2>1 DEF PoseInv, PendingPose
<1>6. AtSpawn'
  <2>. SUFFICES ASSUME NEW t \in Sessions, pc'[t] \in {"joining", "announcing"}
                PROVE  players'[UuidOf[t]].pose = Spawn
    BY DEF AtSpawn
  <2>1. CASE t = s
    BY <1>2, <2>1
  <2>2. CASE t # s
    <3>1. pc[t] \in {"joining", "announcing"} /\ pc[t] \in InWorld
      BY <1>2, <2>2 DEF InWorld
    <3>. QED BY <1>3, <3>1 DEF PoseInv, AtSpawn
  <2>. QED BY <2>1, <2>2
<1>7. LeavesGone'
  <2>. SUFFICES ASSUME NEW t \in Sessions, NEW i \in DOMAIN rx[t], rx[t][i].kind = "leave"
                PROVE  \E x \in Sessions : pc'[x] = "gone" /\ entity_id'[x] = rx[t][i].eid
    BY <1>1 DEF LeavesGone
  <2>1. PICK x \in Sessions : pc[x] = "gone" /\ entity_id[x] = rx[t][i].eid
    BY DEF PoseInv, LeavesGone
  <2>. QED BY <1>1, <1>2, <2>1
<1>8. PosesShown'
  <2>. SUFFICES ASSUME NEW a \in Sessions, NEW t \in Sessions, NEW part \in Parts,
                       a # t, Receiving(a)', pc'[t] \in {"entering", "playing"},
                       Announced(t, part)'
                PROVE  Shows(a, t, part)'
    BY DEF PosesShown
  <2>1. /\ t # s /\ pc[t] \in {"entering", "playing"} /\ pc[t] \in InWorld
        /\ entity_id'[t] = entity_id[t]
        /\ players'[UuidOf[t]] = players[UuidOf[t]]
        /\ Announced(t, part)
    BY <1>1, <1>2, <1>3 DEF InWorld, Announced
  <2>2. CASE a # s
    <3>1. Receiving(a) /\ Shown(a)' = Shown(a)
      BY <1>1, <1>2, <2>2 DEF Receiving, Shown, Introduced
    <3>2. Shows(a, t, part)
      BY <2>1, <3>1 DEF PoseInv, PosesShown
    <3>. QED BY <1>1, <2>1, <3>1, <3>2 DEF Shows
  <2>3. CASE a = s
    <3>. DEFINE others == {w \in Uuids \ {u} : players[w] # Absent}
                Line(v) == [uuid |-> v, eid |-> players[v].entity_id, pose |-> players[v].pose]
                v == UuidOf[t]
    <3>1. Snapshot(u) = {Line(w) : w \in others}
      BY DEF Snapshot
    <3>2. v \in others /\ Line(v).eid = entity_id[t]
      BY <1>3, <2>1 DEF RegistryInv, SessionsRegistered, Registered, EntriesOwned
    <3>3. \A w \in others : Line(w).eid = entity_id[t] => w = v
      <4>. SUFFICES ASSUME NEW w \in others, players[w].entity_id = entity_id[t] PROVE w = v
        OBVIOUS
      <4>1. /\ players[w].out \in Sessions /\ pc[players[w].out] \in InWorld
            /\ UuidOf[players[w].out] = w /\ players[w].entity_id = entity_id[players[w].out]
        BY DEF RegistryInv, EntriesOwned, TypeOK, Entry
      <4>2. players[w].out = t
        BY <2>1, <4>1 DEF RegistryInv, IdsDistinct, InWorld
      <4>. QED BY <4>1, <4>2
    <3>. HIDE DEF others, v
    <3>4. /\ Line(v) \in Snapshot(u)
          /\ \A o \in Snapshot(u) : o.eid = entity_id[t] => o = Line(v)
      <4>. HIDE DEF Line
      <4>. QED BY <3>1, <3>2, <3>3
    <3>5. (CHOOSE o \in Snapshot(u) : o.eid = entity_id[t]) = Line(v)
      <4>. HIDE DEF Line
      <4>. QED BY <3>2, <3>4
    <3>6. entity_id[t] \in {o.eid : o \in Snapshot(u)}
      <4>. HIDE DEF Line
      <4>. QED BY <3>2, <3>4
    <3>7. Shown(s)' = [e \in {o.eid : o \in Snapshot(u)} |->
                         (CHOOSE o \in Snapshot(u) : o.eid = e).pose]
      BY <1>2 DEF Shown, Introduced
    <3>8. Shown(s)'[entity_id[t]] = players[v].pose
      <4>1. Shown(s)'[entity_id[t]] = (CHOOSE o \in Snapshot(u) : o.eid = entity_id[t]).pose
        <5>. HIDE DEF Line
        <5>. QED BY <3>6, <3>7
      <4>2. Line(v).pose = players[v].pose
        OBVIOUS
      <4>. HIDE DEF Line
      <4>. QED BY <3>5, <4>1, <4>2
    <3>9. Settings(<<>>, entity_id[t], part) = {}
      BY DEF Settings
    <3>. QED BY <1>1, <1>4, <2>1, <2>3, <3>8, <3>9 DEF Shows, ComesToShow, v
  <2>. QED BY <2>2, <2>3
<1>. QED BY <1>5, <1>6, <1>7, <1>8 DEF PoseInv

\* A frame at the end of every other channel keeps everyone gone who was told to leave.
LEMMA QueuesLeaves ==
  ASSUME TypeOK, LeavesGone, NEW m \in Message,
         UNCHANGED entity_id,
         \A x \in Sessions : pc[x] = "gone" => pc'[x] = "gone",
         m.kind = "leave" => \E x \in Sessions : pc'[x] = "gone" /\ entity_id[x] = m.eid,
         \A t \in Sessions : Queues(t, m) \/ Still(t)
  PROVE  LeavesGone'
<1>. SUFFICES ASSUME NEW t \in Sessions, NEW i \in DOMAIN rx'[t], rx'[t][i].kind = "leave"
              PROVE  \E x \in Sessions : pc'[x] = "gone" /\ entity_id[x] = rx'[t][i].eid
  BY DEF LeavesGone
<1>1. rx'[t][i] = m \/ (i \in DOMAIN rx[t] /\ rx'[t][i] = rx[t][i])
  <2>1. CASE Still(t)
    BY <2>1 DEF Still
  <2>2. CASE Queues(t, m)
    <3>. DEFINE q == rx[t]
    <3>1. q \in Seq(Message) /\ rx'[t] = Append(q, m)
      BY <2>2 DEF Queues, TypeOK
    <3>. HIDE DEF q
    <3>2. rx'[t][i] = m \/ (i \in DOMAIN q /\ rx'[t][i] = q[i])
      BY <3>1
    <3>. QED BY <3>2 DEF q
  <2>. QED BY <2>1, <2>2
<1>. QED BY <1>1 DEF LeavesGone

\* A frame that sets nothing of a figure leaves what a client will show of it.
LEMMA QueuesShows ==
  ASSUME TypeOK, NEW a \in Sessions, NEW m \in Message, Queues(a, m) \/ Still(a),
         NEW e, NEW part, NEW x, ComesToShow(Shown(a), rx[a], e, part, x),
         ~(m.eid = e /\ m.kind \in Setters(part))
  PROVE  ComesToShow(Shown(a)', rx'[a], e, part, x)
<1>1. CASE Still(a)
  BY <1>1 DEF Still
<1>2. CASE Queues(a, m)
  <2>1. rx[a] \in Seq(Message)
    BY DEF TypeOK
  <2>2. ComesToShow(Shown(a), Append(rx[a], m), e, part, x)
    BY <2>1, ShowAppend
  <2>. QED BY <1>2, <2>2 DEF Queues
<1>. QED BY <1>1, <1>2

\* A frame that sets a part of a figure says what a client will show of it.
LEMMA QueuesSets ==
  ASSUME TypeOK, NEW a \in Sessions, NEW m \in Message, Queues(a, m), NEW part,
         m.kind \in Setters(part)
  PROVE  ComesToShow(Shown(a)', rx'[a], m.eid, part, Value(m, part))
<1>1. rx[a] \in Seq(Message)
  BY DEF TypeOK
<1>2. \A e, x : m.eid = e /\ Value(m, part) = x => ComesToShow(Shown(a), Append(rx[a], m), e, part, x)
  BY <1>1, ShowAppend
<1>. QED BY <1>2 DEF Queues

\* broadcast_join puts the newcomer where the registry has it: at the spawn point.
LEMMA BroadcastJoinShows ==
  ASSUME TypeOK, RegistryInv, KnowledgeInv, PoseInv, Exclusive, NEW s \in Sessions,
         BroadcastJoin(s)
  PROVE  PoseInv'
<1>. DEFINE m == [kind |-> "join", eid |-> entity_id[s], uuid |-> UuidOf[s], pose |-> Spawn]
<1>1. /\ pc[s] = "announcing" /\ pc' = [pc EXCEPT ![s] = "entering"]
      /\ Broadcast(UuidOf[s], m)
      /\ UNCHANGED <<players, entity_id, existing, pend, entities, tab>>
      /\ m \in Message
      /\ m.kind = "join" /\ m.eid = entity_id[s] /\ \A part : Value(m, part) = Spawn[part]
  BY UuidOfType, SpawnType DEF BroadcastJoin, TypeOK, Message, JoinMsg, Value
<1>. HIDE DEF m
<1>2. /\ pc'[s] = "entering" /\ pc[s] \in InWorld
      /\ \A t \in Sessions : t # s => pc'[t] = pc[t]
  BY <1>1 DEF TypeOK, InWorld
<1>3. \A t \in Sessions : Shown(t)' = Shown(t) /\ Names(t)' = Names(t)
  BY <1>1, <1>2 DEF Shown, Introduced, Names
<1>4. \A t \in Sessions : /\ Receiving(t) /\ t # s => Queues(t, m)
                          /\ Queues(t, m) \/ Still(t)
  BY <1>1, <1>2, <1>3, BroadcastQueues
<1>5. PendingPose' /\ AtSpawn'
  BY <1>1, <1>2 DEF PoseInv, PendingPose, AtSpawn
<1>6. LeavesGone'
  <2>1. \A x \in Sessions : pc[x] = "gone" => pc'[x] = "gone"
    BY <1>1, <1>2
  <2>. QED BY <1>1, <1>4, <2>1, QueuesLeaves DEF PoseInv
<1>7. PosesShown'
  <2>. SUFFICES ASSUME NEW a \in Sessions, NEW t \in Sessions, NEW part \in Parts,
                       a # t, Receiving(a)', pc'[t] \in {"entering", "playing"},
                       Announced(t, part)'
                PROVE  Shows(a, t, part)'
    BY DEF PosesShown
  <2>1. Receiving(a) /\ Announced(t, part)
    BY <1>1, <1>2 DEF Receiving, Announced, InWorld
  <2>2. CASE t # s
    <3>1. pc[t] \in {"entering", "playing"} /\ Shows(a, t, part)
      BY <1>2, <2>1, <2>2 DEF PoseInv, PosesShown
    <3>2. m.eid # entity_id[t]
      BY <1>1, <2>2, <3>1 DEF RegistryInv, IdsDistinct
    <3>3. PICK e, x : e = entity_id[t] /\ x = players[UuidOf[t]].pose[part]
      OBVIOUS
    <3>4. ComesToShow(Shown(a), rx[a], e, part, x)
      BY <3>1, <3>3 DEF Shows
    <3>5. ComesToShow(Shown(a)', rx'[a], e, part, x)
      BY <1>1, <1>4, <3>2, <3>3, <3>4, QueuesShows
    <3>. QED BY <1>1, <3>3, <3>5 DEF Shows
  <2>3. CASE t = s
    <3>1. Queues(a, m) /\ m.kind \in Setters(part)
      BY <1>1, <1>4, <2>1, <2>3 DEF Setters
    <3>2. players[UuidOf[s]].pose[part] = Value(m, part)
      BY <1>1 DEF PoseInv, AtSpawn
    <3>3. ComesToShow(Shown(a)', rx'[a], m.eid, part, Value(m, part))
      BY <1>1, <3>1, QueuesSets
    <3>4. PICK e, x : e = entity_id[s] /\ x = players[UuidOf[s]].pose[part]
      OBVIOUS
    <3>5. ComesToShow(Shown(a)', rx'[a], e, part, x)
      BY <1>1, <3>2, <3>3, <3>4
    <3>. QED BY <1>1, <2>3, <3>4, <3>5 DEF Shows
  <2>. QED BY <2>2, <2>3
<1>. QED BY <1>5, <1>6, <1>7 DEF PoseInv

\* broadcast_except says what the registry has, and nothing else is left to say of that part.
LEMMA BroadcastExceptShows ==
  ASSUME TypeOK, RegistryInv, KnowledgeInv, PoseInv, Exclusive, NEW s \in Sessions,
         BroadcastExcept(s)
  PROVE  PoseInv'
<1>. DEFINE m == Head(pend[s])
            pose == players[UuidOf[s]].pose
            e == entity_id[s]
<1>1. /\ pend[s] # <<>> /\ pend' = [pend EXCEPT ![s] = Tail(pend[s])]
      /\ Broadcast(UuidOf[s], m)
      /\ UNCHANGED <<players, pc, entity_id, existing, entities, tab>>
      /\ m \in MoveMsg
  BY DEF BroadcastExcept, TypeOK
<1>2. /\ pc[s] = "playing" /\ pc[s] \in InWorld
      /\ pend'[s] = Tail(pend[s])
      /\ \A t \in Sessions : t # s => pend'[t] = pend[t]
  BY <1>1 DEF KnowledgeInv, Quiet, TypeOK, InWorld
<1>3. /\ m.eid = e
      /\ \A part \in Parts : m.kind \in Setters(part) => Value(m, part) = pose[part]
      /\ \A part \in Parts : \A i \in DOMAIN pend[s] :
           pend[s][i].kind \in Setters(part) =>
             m.kind \in Setters(part) \/ \E j \in DOMAIN Tail(pend[s]) : Tail(pend[s])[j].kind \in Setters(part)
      /\ \/ Tail(pend[s]) = <<>>
         \/ Tail(pend[s]) = Tail(Frames(TRUE, e, pose))
  <2>. DEFINE look == [kind |-> "look", eid |-> e, yaw |-> pose.yaw]
              head == [kind |-> "head", eid |-> e, yaw |-> pose.yaw]
              sync == [kind |-> "sync", eid |-> e, pose |-> pose]
  <2>1. /\ Frames(FALSE, e, pose) = <<sync>>
        /\ Frames(TRUE, e, pose) = <<look, head>>
        /\ Tail(Frames(TRUE, e, pose)) = <<head>>
    BY DEF Frames
  <2>2. /\ look.eid = e /\ head.eid = e /\ sync.eid = e
        /\ \A part \in Parts : /\ Value(look, part) = pose.yaw
                               /\ Value(sync, part) = pose[part]
                               /\ sync.kind \in Setters(part)
                               /\ head.kind \notin Setters(part)
                               /\ look.kind \in Setters(part) => part = "yaw"
    BY DEF Value, Setters, Parts
  <2>3. CASE pend[s] = <<sync>>
    <3>. HIDE DEF sync, pose, e
    <3>. QED BY <2>2, <2>3
  <2>4. CASE pend[s] = <<look, head>>
    <3>1. pose["yaw"] = pose.yaw
      OBVIOUS
    <3>2. \A a, b : /\ Head(<<a, b>>) = a /\ Tail(<<a, b>>) = <<b>>
                    /\ \A i \in DOMAIN <<a, b>> : <<a, b>>[i] = a \/ <<a, b>>[i] = b
      OBVIOUS
    <3>. HIDE DEF look, head, pose, e
    <3>3. Head(pend[s]) = look /\ Tail(pend[s]) = <<head>>
      BY <2>4, <3>2
    <3>4. \A i \in DOMAIN pend[s] : pend[s][i] = look \/ pend[s][i] = head
      BY <2>4, <3>2
    <3>5. Tail(pend[s]) = Tail(Frames(TRUE, e, pose))
      BY <2>1, <3>3
    <3>6. /\ m = look /\ Tail(pend[s]) = <<head>> /\ Tail(pend[s]) = Tail(Frames(TRUE, e, pose))
          /\ \A i \in DOMAIN pend[s] : pend[s][i] = look \/ pend[s][i] = head
      BY <3>3, <3>4, <3>5
    <3>. HIDE DEF m
    <3>7. \A part \in Parts : m.kind \in Setters(part) => Value(m, part) = pose[part]
      BY <2>2, <3>1, <3>6
    <3>. QED BY <2>2, <3>6, <3>7
  <2>5. CASE pend[s] = <<head>>
    <3>. HIDE DEF head, pose, e
    <3>. QED BY <2>2, <2>5
  <2>. QED BY <1>1, <2>1, <2>3, <2>4, <2>5 DEF PoseInv, PendingPose
<1>. HIDE DEF m
<1>4. \A t \in Sessions : Shown(t)' = Shown(t) /\ Names(t)' = Names(t)
  BY <1>1 DEF Shown, Introduced, Names
<1>5. \A t \in Sessions : /\ Receiving(t) /\ t # s => Queues(t, m)
                          /\ Queues(t, m) \/ Still(t)
  BY <1>1, <1>2, <1>4, BroadcastQueues
<1>6. m \in Message /\ m.kind # "leave"
  BY <1>1 DEF Message, MoveMsg, SyncMsg, LookMsg, HeadMsg
<1>7. PendingPose' /\ AtSpawn'
  <2>1. AtSpawn'
    BY <1>1 DEF PoseInv, AtSpawn
  <2>2. PendingPose'
    <3>1. \A t \in Sessions :
            \/ pend'[t] = <<>>
            \/ pend'[t] = Frames(FALSE, entity_id[t], players[UuidOf[t]].pose)
            \/ pend'[t] = Frames(TRUE, entity_id[t], players[UuidOf[t]].pose)
            \/ pend'[t] = Tail(Frames(TRUE, entity_id[t], players[UuidOf[t]].pose))
      BY <1>2, <1>3 DEF PoseInv, PendingPose
    <3>. QED BY <1>1, <3>1 DEF PendingPose
  <2>. QED BY <2>1, <2>2
<1>8. LeavesGone'
  <2>1. \A x \in Sessions : pc[x] = "gone" => pc'[x] = "gone"
    BY <1>1
  <2>. QED BY <1>1, <1>5, <1>6, <2>1, QueuesLeaves DEF PoseInv
<1>9. PosesShown'
  <2>. SUFFICES ASSUME NEW a \in Sessions, NEW t \in Sessions, NEW part \in Parts,
                       a # t, Receiving(a)', pc'[t] \in {"entering", "playing"},
                       Announced(t, part)'
                PROVE  Shows(a, t, part)'
    BY DEF PosesShown
  <2>1. Receiving(a) /\ pc[t] \in {"entering", "playing"}
    BY <1>1 DEF Receiving
  <2>2. CASE t # s
    <3>1. Shows(a, t, part)
      BY <1>2, <2>1, <2>2 DEF PoseInv, PosesShown, Announced
    <3>2. m.eid # entity_id[t]
      BY <1>2, <1>3, <2>1, <2>2 DEF RegistryInv, IdsDistinct
    <3>3. PICK f, x : f = entity_id[t] /\ x = players[UuidOf[t]].pose[part]
      OBVIOUS
    <3>4. ComesToShow(Shown(a), rx[a], f, part, x)
      BY <3>1, <3>3 DEF Shows
    <3>5. ComesToShow(Shown(a)', rx'[a], f, part, x)
      BY <1>5, <1>6, <3>2, <3>3, <3>4, QueuesShows
    <3>. QED BY <1>1, <3>3, <3>5 DEF Shows
  <2>3. CASE t = s /\ m.kind \in Setters(part)
    <3>1. Queues(a, m)
      BY <1>5, <2>1, <2>3
    <3>2. ComesToShow(Shown(a)', rx'[a], m.eid, part, Value(m, part))
      BY <1>6, <2>3, <3>1, QueuesSets
    <3>3. m.eid = e /\ Value(m, part) = pose[part]
      BY <1>3, <2>3
    <3>. QED BY <1>1, <2>3, <3>2, <3>3 DEF Shows
  <2>4. CASE t = s /\ m.kind \notin Setters(part)
    <3>1. Announced(s, part)
      <4>1. \A j \in DOMAIN Tail(pend[s]) : Tail(pend[s])[j].kind \notin Setters(part)
        BY <1>2, <2>4 DEF Announced
      <4>. QED BY <1>3, <2>4, <4>1 DEF Announced
    <3>2. Shows(a, s, part)
      BY <2>1, <2>4, <3>1 DEF PoseInv, PosesShown
    <3>3. PICK f, x : f = entity_id[s] /\ x = players[UuidOf[s]].pose[part]
      OBVIOUS
    <3>4. ComesToShow(Shown(a), rx[a], f, part, x)
      BY <3>2, <3>3 DEF Shows
    <3>5. ComesToShow(Shown(a)', rx'[a], f, part, x)
      BY <1>5, <1>6, <2>4, <3>4, QueuesShows
    <3>. QED BY <1>1, <2>4, <3>3, <3>5 DEF Shows
  <2>. QED BY <2>2, <2>3, <2>4
<1>. QED BY <1>7, <1>8, <1>9 DEF PoseInv

\* leave_world tells of the removal of a figure that is nobody else's.
LEMMA LeaveWorldShows ==
  ASSUME TypeOK, RegistryInv, KnowledgeInv, PoseInv, Exclusive, NEW s \in Sessions,
         LeaveWorld(s)
  PROVE  PoseInv'
<1>. DEFINE m == [kind |-> "leave", eid |-> entity_id[s], uuid |-> UuidOf[s]]
<1>1. /\ pc[s] = "leaving" /\ pc' = [pc EXCEPT ![s] = "gone"]
      /\ players' = [players EXCEPT ![UuidOf[s]] = Absent]
      /\ Broadcast(UuidOf[s], m)
      /\ UNCHANGED <<entity_id, existing, pend, entities, tab>>
      /\ m \in Message
      /\ m.kind = "leave" /\ m.eid = entity_id[s]
  BY UuidOfType DEF LeaveWorld, Without, TypeOK, Message, LeaveMsg
<1>. HIDE DEF m
<1>2. /\ pc'[s] = "gone" /\ pc[s] \in InWorld
      /\ \A t \in Sessions : t # s => pc'[t] = pc[t]
  BY <1>1 DEF TypeOK, InWorld
<1>3. ASSUME NEW t \in Sessions, t # s, pc[t] \in InWorld
      PROVE  players'[UuidOf[t]] = players[UuidOf[t]]
  BY <1>1, <1>2, <1>3, PlayersDiffer, UuidOfType DEF TypeOK
<1>4. \A t \in Sessions : Shown(t)' = Shown(t) /\ Names(t)' = Names(t)
  BY <1>1, <1>2 DEF Shown, Introduced, Names
<1>5. \A t \in Sessions : Queues(t, m) \/ Still(t)
  BY <1>1, <1>2, <1>4, BroadcastQueues
<1>6. PendingPose'
  <2>. SUFFICES ASSUME NEW t \in Sessions, pend[t] # <<>>
                PROVE  \/ pend[t] = Frames(FALSE, entity_id[t], players'[UuidOf[t]].pose)
                       \/ pend[t] = Frames(TRUE, entity_id[t], players'[UuidOf[t]].pose)
                       \/ pend[t] = Tail(Frames(TRUE, entity_id[t], players'[UuidOf[t]].pose))
    BY <1>1 DEF PendingPose
  <2>1. t # s /\ pc[t] \in InWorld
    BY <1>1 DEF KnowledgeInv, Quiet, InWorld
  <2>. QED BY <1>3, <2>1 DEF PoseInv, PendingPose
<1>7. AtSpawn'
  <2>. SUFFICES ASSUME NEW t \in Sessions, pc'[t] \in {"joining", "announcing"}
                PROVE  players'[UuidOf[t]].pose = Spawn
    BY DEF AtSpawn
  <2>1. t # s /\ pc[t] \in {"joining", "announcing"} /\ pc[t] \in InWorld
    BY <1>2 DEF InWorld
  <2>. QED BY <1>3, <2>1 DEF PoseInv, AtSpawn
<1>8. LeavesGone'
  <2>1. \A x \in Sessions : pc[x] = "gone" => pc'[x] = "gone"
    BY <1>1, <1>2
  <2>. QED BY <1>1, <1>2, <1>5, <2>1, QueuesLeaves DEF PoseInv
<1>9. PosesShown'
  <2>. SUFFICES ASSUME NEW a \in Sessions, NEW t \in Sessions, NEW part \in Parts,
                       a # t, Receiving(a)', pc'[t] \in {"entering", "playing"},
                       Announced(t, part)'
                PROVE  Shows(a, t, part)'
    BY DEF PosesShown
  <2>1. /\ t # s /\ pc[t] \in {"entering", "playing"} /\ pc[t] \in InWorld
        /\ Receiving(a) /\ Announced(t, part)
    BY <1>1, <1>2 DEF Receiving, Announced, InWorld
  <2>2. Shows(a, t, part) /\ players'[UuidOf[t]] = players[UuidOf[t]]
    BY <1>3, <2>1 DEF PoseInv, PosesShown
  <2>3. PICK e, x : e = entity_id[t] /\ x = players[UuidOf[t]].pose[part]
    OBVIOUS
  <2>4. ComesToShow(Shown(a), rx[a], e, part, x)
    BY <2>2, <2>3 DEF Shows
  <2>5. m.kind \notin Setters(part)
    BY <1>1 DEF Setters
  <2>6. ComesToShow(Shown(a)', rx'[a], e, part, x)
    BY <1>1, <1>5, <2>4, <2>5, QueuesShows
  <2>. QED BY <1>1, <2>2, <2>3, <2>6 DEF Shows
<1>. QED BY <1>6, <1>7, <1>8, <1>9 DEF PoseInv

-----------------------------------------------------------------------------
(* Tab lists, action by action *)

\* Steps after which everybody lists whom it listed, and that let nobody leave or announce
\* itself.
LEMMA CalmLists ==
  ASSUME TabInv,
         \A s \in Sessions : pc'[s] \in {"entering", "playing"} => pc[s] \in {"entering", "playing"},
         \A s \in Sessions : pc[s] \in InWorld => pc'[s] \in InWorld,
         \A s \in Sessions : Receiving(s)' => Receiving(s),
         \A s \in Sessions : Receiving(s)' => \A u : Lists(s, u)' <=> Lists(s, u)
  PROVE  TabInv'
<1>. SUFFICES ASSUME NEW s \in Sessions, Receiving(s)'
              PROVE  /\ Lists(s, UuidOf[s])'
                     /\ \A t \in Sessions : pc'[t] \in {"entering", "playing"} => Lists(s, UuidOf[t])'
                     /\ \A u \in Uuids : Lists(s, u)' =>
                          \E t \in Sessions : pc'[t] \in InWorld /\ UuidOf[t] = u
  BY DEF TabInv
<1>1. \A u : Lists(s, u)' <=> Lists(s, u)
  OBVIOUS
<1>2. /\ Lists(s, UuidOf[s])
      /\ \A t \in Sessions : pc[t] \in {"entering", "playing"} => Lists(s, UuidOf[t])
      /\ \A u \in Uuids : Lists(s, u) => \E t \in Sessions : pc[t] \in InWorld /\ UuidOf[t] = u
  BY DEF TabInv
<1>3. Lists(s, UuidOf[s])'
  BY <1>1, <1>2
<1>4. \A t \in Sessions : pc'[t] \in {"entering", "playing"} => Lists(s, UuidOf[t])'
  BY <1>1, <1>2
<1>5. \A u \in Uuids : Lists(s, u)' => \E t \in Sessions : pc'[t] \in InWorld /\ UuidOf[t] = u
  BY <1>1, <1>2
<1>. QED BY <1>3, <1>4, <1>5

\* A frame at the end of a channel decides about the identity it is about.
LEMMA QueuesLists ==
  ASSUME TypeOK, NEW s \in Sessions, NEW m \in Message, Queues(s, m), NEW u
  PROVE  /\ m.kind \in {"join", "leave"} /\ m.uuid = u => (Lists(s, u)' <=> m.kind = "join")
         /\ ~(m.kind \in {"join", "leave"} /\ m.uuid = u) => (Lists(s, u)' <=> Lists(s, u))
<1>1. rx[s] \in Seq(Message)
  BY DEF TypeOK
<1>. QED BY <1>1, ListAppend DEF Queues, Lists

\* A newcomer lists itself and the players of its snapshot.
LEMMA RegisterLists ==
  ASSUME TypeOK, RegistryInv, KnowledgeInv, TabInv, Exclusive, NEW s \in Sessions, Register(s)
  PROVE  TabInv'
<1>. DEFINE w == UuidOf[s]
<1>1. /\ pc[s] = "configuring"
      /\ pc' = [pc EXCEPT ![s] = "joining"]
      /\ existing' = [existing EXCEPT ![s] = Snapshot(w)]
      /\ UNCHANGED <<rx, entities, tab>>
      /\ w \in Uuids
      /\ Free(w)
  BY UuidOfType DEF Register
<1>2. /\ pc'[s] = "joining" /\ existing'[s] = Snapshot(w)
      /\ \A t \in Sessions : t # s => pc'[t] = pc[t] /\ existing'[t] = existing[t]
      /\ rx'[s] = <<>>
  BY <1>1 DEF TypeOK, KnowledgeInv, Quiet, Receiving, InWorld
<1>3. \A u : Lists(s, u)' <=> u \in {w} \cup {v \in Uuids \ {w} : players[v] # Absent}
  <2>. DEFINE others == {v \in Uuids \ {w} : players[v] # Absent}
              Line(v) == [uuid |-> v, eid |-> players[v].entity_id, pose |-> players[v].pose]
  <2>1. {o.uuid : o \in Snapshot(w)} = others
    <3>1. Snapshot(w) = {Line(v) : v \in others}
      BY DEF Snapshot
    <3>2. \A v \in others : Line(v).uuid = v
      OBVIOUS
    <3>. HIDE DEF Line, others
    <3>. QED BY <3>1, <3>2
  <2>2. Names(s)' = {w} \cup others
    BY <1>2, <2>1 DEF Names
  <2>3. \A u : Entries(<<>>, u) = {}
    BY DEF Entries
  <2>. HIDE DEF others
  <2>4. \A u : ComesToList({w} \cup others, <<>>, u) <=> u \in {w} \cup others
    BY <2>3 DEF ComesToList
  <2>. QED BY <1>2, <2>2, <2>4 DEF Lists, others
<1>4. \A t \in Sessions : t # s => \A u : Lists(t, u)' <=> Lists(t, u)
  BY <1>1, <1>2 DEF Lists, Names
<1>. SUFFICES ASSUME NEW a \in Sessions, Receiving(a)'
              PROVE  /\ Lists(a, UuidOf[a])'
                     /\ \A t \in Sessions : pc'[t] \in {"entering", "playing"} => Lists(a, UuidOf[t])'
                     /\ \A u \in Uuids : Lists(a, u)' =>
                          \E t \in Sessions : pc'[t] \in InWorld /\ UuidOf[t] = u
  BY DEF TabInv
<1>5. CASE a = s
  <2>1. Lists(s, w)'
    BY <1>3
  <2>2. ASSUME NEW t \in Sessions, pc'[t] \in {"entering", "playing"}
        PROVE  Lists(s, UuidOf[t])'
    <3>1. t # s /\ pc[t] \in InWorld
      BY <1>2, <2>2 DEF InWorld
    <3>2. players[UuidOf[t]] # Absent /\ UuidOf[t] \in Uuids
      BY <3>1, UuidOfType DEF RegistryInv, SessionsRegistered, Registered
    <3>3. UuidOf[t] \in {w} \cup {v \in Uuids \ {w} : players[v] # Absent}
      BY <3>2
    <3>. QED BY <1>3, <3>3
  <2>3. ASSUME NEW u \in Uuids, Lists(s, u)'
        PROVE  \E t \in Sessions : pc'[t] \in InWorld /\ UuidOf[t] = u
    <3>1. u = w \/ players[u] # Absent
      BY <1>3, <2>3
    <3>2. CASE u = w
      BY <1>2, <3>2 DEF InWorld
    <3>3. CASE players[u] # Absent
      <4>1. /\ players[u].out \in Sessions /\ pc[players[u].out] \in InWorld
            /\ UuidOf[players[u].out] = u
        BY <3>3 DEF RegistryInv, EntriesOwned, TypeOK, Entry
      <4>2. players[u].out # s
        BY <1>1, <4>1 DEF InWorld
      <4>. QED BY <1>2, <4>1, <4>2
    <3>. QED BY <3>1, <3>2, <3>3
  <2>. QED BY <1>5, <2>1, <2>2, <2>3
<1>6. CASE a # s
  <2>1. Receiving(a) /\ \A u : Lists(a, u)' <=> Lists(a, u)
    BY <1>2, <1>4, <1>6 DEF Receiving
  <2>2. /\ Lists(a, UuidOf[a])
        /\ \A t \in Sessions : pc[t] \in {"entering", "playing"} => Lists(a, UuidOf[t])
        /\ \A u \in Uuids : Lists(a, u) => \E t \in Sessions : pc[t] \in InWorld /\ UuidOf[t] = u
    BY <2>1 DEF TabInv
  <2>3. /\ \A t \in Sessions : pc'[t] \in {"entering", "playing"} => pc[t] \in {"entering", "playing"}
        /\ \A t \in Sessions : pc[t] \in InWorld => pc'[t] \in InWorld
    BY <1>1, <1>2 DEF InWorld
  <2>4. Lists(a, UuidOf[a])'
    BY <2>1, <2>2
  <2>5. \A t \in Sessions : pc'[t] \in {"entering", "playing"} => Lists(a, UuidOf[t])'
    BY <2>1, <2>2, <2>3
  <2>6. \A u \in Uuids : Lists(a, u)' => \E t \in Sessions : pc'[t] \in InWorld /\ UuidOf[t] = u
    BY <2>1, <2>2, <2>3
  <2>. QED BY <2>4, <2>5, <2>6
<1>. QED BY <1>5, <1>6

\* broadcast_join adds the newcomer to every other tab list; its own has it.
LEMMA BroadcastJoinLists ==
  ASSUME TypeOK, RegistryInv, TabInv, Exclusive, NEW s \in Sessions, BroadcastJoin(s)
  PROVE  TabInv'
<1>. DEFINE w == UuidOf[s]
            m == [kind |-> "join", eid |-> entity_id[s], uuid |-> w, pose |-> Spawn]
<1>1. /\ pc[s] = "announcing" /\ pc' = [pc EXCEPT ![s] = "entering"]
      /\ Broadcast(w, m)
      /\ UNCHANGED <<existing, entities, tab>>
      /\ m \in Message
      /\ m.kind = "join" /\ m.uuid = w
  BY UuidOfType, SpawnType DEF BroadcastJoin, TypeOK, Message, JoinMsg
<1>. HIDE DEF m
<1>2. /\ pc'[s] = "entering" /\ pc[s] \in InWorld /\ pc'[s] \in InWorld
      /\ \A t \in Sessions : t # s => pc'[t] = pc[t]
  BY <1>1 DEF TypeOK, InWorld
<1>3. \A t \in Sessions : Shown(t)' = Shown(t) /\ Names(t)' = Names(t)
  BY <1>1, <1>2 DEF Shown, Introduced, Names
<1>. SUFFICES ASSUME NEW a \in Sessions, Receiving(a)'
              PROVE  /\ Lists(a, UuidOf[a])'
                     /\ \A t \in Sessions : pc'[t] \in {"entering", "playing"} => Lists(a, UuidOf[t])'
                     /\ \A u \in Uuids : Lists(a, u)' =>
                          \E t \in Sessions : pc'[t] \in InWorld /\ UuidOf[t] = u
  BY DEF TabInv
<1>4. Receiving(a)
  BY <1>1, <1>2 DEF Receiving, InWorld
<1>5. /\ Lists(a, UuidOf[a])
      /\ \A t \in Sessions : pc[t] \in {"entering", "playing"} => Lists(a, UuidOf[t])
      /\ \A u \in Uuids : Lists(a, u) => \E t \in Sessions : pc[t] \in InWorld /\ UuidOf[t] = u
  BY <1>4 DEF TabInv
<1>6. \A u : Lists(a, u)' <=> Lists(a, u) \/ u = w
  <2>1. CASE a = s
    <3>1. Still(s)
      BY <1>1, <1>2, <1>3, BroadcastQueues
    <3>2. \A u : Lists(s, u)' <=> Lists(s, u)
      BY <3>1 DEF Still, Lists
    <3>. QED BY <1>5, <2>1, <3>2
  <2>2. CASE a # s
    <3>1. Queues(a, m)
      BY <1>1, <1>2, <1>3, <1>4, <2>2, BroadcastQueues
    <3>. QED BY <1>1, <3>1, QueuesLists
  <2>. QED BY <2>1, <2>2
<1>7. Lists(a, UuidOf[a])'
  BY <1>5, <1>6
<1>8. \A t \in Sessions : pc'[t] \in {"entering", "playing"} => Lists(a, UuidOf[t])'
  BY <1>2, <1>5, <1>6
<1>9. \A u \in Uuids : Lists(a, u)' => \E t \in Sessions : pc'[t] \in InWorld /\ UuidOf[t] = u
  BY <1>2, <1>5, <1>6
<1>. QED BY <1>7, <1>8, <1>9

\* broadcast_except moves figures and adds or removes nobody.
LEMMA BroadcastExceptLists ==
  ASSUME TypeOK, RegistryInv, KnowledgeInv, TabInv, Exclusive, NEW s \in Sessions,
         BroadcastExcept(s)
  PROVE  TabInv'
<1>. DEFINE m == Head(pend[s])
<1>1. /\ pend[s] # <<>>
      /\ Broadcast(UuidOf[s], m)
      /\ UNCHANGED <<pc, existing, entities, tab>>
      /\ m \in MoveMsg
  BY DEF BroadcastExcept, TypeOK
<1>. HIDE DEF m
<1>2. m \in Message /\ m.kind \notin {"join", "leave"}
  BY <1>1 DEF Message, MoveMsg, SyncMsg, LookMsg, HeadMsg
<1>3. pc[s] \in InWorld
  BY <1>1 DEF KnowledgeInv, Quiet, InWorld
<1>4. \A t \in Sessions : Shown(t)' = Shown(t) /\ Names(t)' = Names(t)
  BY <1>1 DEF Shown, Introduced, Names
<1>5. \A t \in Sessions : Queues(t, m) \/ Still(t)
  BY <1>1, <1>3, <1>4, BroadcastQueues
<1>6. ASSUME NEW t \in Sessions PROVE \A u : Lists(t, u)' <=> Lists(t, u)
  <2>1. CASE Queues(t, m)
    BY <1>2, <2>1, QueuesLists
  <2>2. CASE Still(t)
    BY <2>2 DEF Still, Lists
  <2>. QED BY <1>5, <2>1, <2>2
<1>7. \A t \in Sessions : Receiving(t)' <=> Receiving(t)
  BY <1>1 DEF Receiving
<1>. QED BY <1>1, <1>6, <1>7, CalmLists

\* leave_world removes the line of a player who has no other session in the world.
LEMMA LeaveWorldLists ==
  ASSUME TypeOK, RegistryInv, TabInv, Exclusive, NEW s \in Sessions, LeaveWorld(s)
  PROVE  TabInv'
<1>. DEFINE w == UuidOf[s]
            m == [kind |-> "leave", eid |-> entity_id[s], uuid |-> w]
<1>1. /\ pc[s] = "leaving" /\ pc' = [pc EXCEPT ![s] = "gone"]
      /\ Broadcast(w, m)
      /\ UNCHANGED <<existing, entities, tab>>
      /\ m \in Message
      /\ m.kind = "leave" /\ m.uuid = w
  BY UuidOfType DEF LeaveWorld, TypeOK, Message, LeaveMsg
<1>. HIDE DEF m
<1>2. /\ pc'[s] = "gone" /\ pc[s] \in InWorld
      /\ \A t \in Sessions : t # s => pc'[t] = pc[t]
  BY <1>1 DEF TypeOK, InWorld
<1>3. \A t \in Sessions : Shown(t)' = Shown(t) /\ Names(t)' = Names(t)
  BY <1>1, <1>2 DEF Shown, Introduced, Names
<1>. SUFFICES ASSUME NEW a \in Sessions, Receiving(a)'
              PROVE  /\ Lists(a, UuidOf[a])'
                     /\ \A t \in Sessions : pc'[t] \in {"entering", "playing"} => Lists(a, UuidOf[t])'
                     /\ \A u \in Uuids : Lists(a, u)' =>
                          \E t \in Sessions : pc'[t] \in InWorld /\ UuidOf[t] = u
  BY DEF TabInv
<1>4. a # s /\ Receiving(a)
  BY <1>1, <1>2 DEF Receiving, InWorld
<1>5. /\ Lists(a, UuidOf[a])
      /\ \A t \in Sessions : pc[t] \in {"entering", "playing"} => Lists(a, UuidOf[t])
      /\ \A u \in Uuids : Lists(a, u) => \E t \in Sessions : pc[t] \in InWorld /\ UuidOf[t] = u
  BY <1>4 DEF TabInv
<1>6. \A u : Lists(a, u)' <=> Lists(a, u) /\ u # w
  <2>1. Queues(a, m)
    BY <1>1, <1>2, <1>3, <1>4, BroadcastQueues
  <2>. QED BY <1>1, <2>1, QueuesLists
<1>7. \A t \in Sessions : t # s /\ pc[t] \in InWorld => UuidOf[t] # w
  BY <1>2, PlayersDiffer
<1>8. Lists(a, UuidOf[a])'
  BY <1>4, <1>5, <1>6, <1>7 DEF Receiving
<1>9. \A t \in Sessions : pc'[t] \in {"entering", "playing"} => Lists(a, UuidOf[t])'
  <2>1. \A t \in Sessions : pc'[t] \in {"entering", "playing"} =>
          t # s /\ pc[t] \in {"entering", "playing"} /\ pc[t] \in InWorld
    BY <1>2 DEF InWorld
  <2>. QED BY <1>5, <1>6, <1>7, <2>1
<1>10. \A u \in Uuids : Lists(a, u)' => \E t \in Sessions : pc'[t] \in InWorld /\ UuidOf[t] = u
  <2>. SUFFICES ASSUME NEW u \in Uuids, Lists(a, u)'
                PROVE  \E t \in Sessions : pc'[t] \in InWorld /\ UuidOf[t] = u
    OBVIOUS
  <2>1. Lists(a, u) /\ u # w
    BY <1>6
  <2>2. PICK t \in Sessions : pc[t] \in InWorld /\ UuidOf[t] = u
    BY <1>5, <2>1
  <2>. QED BY <1>2, <2>1, <2>2
<1>. QED BY <1>8, <1>9, <1>10

-----------------------------------------------------------------------------
(* The theorems *)

\* Every action keeps what clients come to show and list.
LEMMA ViewsStep ==
  ASSUME TypeOK, RegistryInv, KnowledgeInv, ViewsInv, Exclusive, [Next]_vars
  PROVE  PoseInv' /\ TabInv'
<1>0. PoseInv /\ TabInv
  BY DEF ViewsInv
<1>1. ASSUME UNCHANGED <<players, entity_id, pend>>,
             \A s \in Sessions : Receiving(s)' => Receiving(s),
             \A s \in Sessions : pc[s] \in InWorld => pc'[s] \in InWorld,
             \A s \in Sessions : pc'[s] \in {"entering", "playing"} => pc[s] \in {"entering", "playing"},
             \A s \in Sessions : pc'[s] \in {"joining", "announcing"} => pc[s] \in {"joining", "announcing"},
             \A s \in Sessions : pc[s] = "gone" => pc'[s] = "gone",
             \A s \in Sessions : rx'[s] = <<>> \/ Still(s) \/ Takes(s),
             \A s \in Sessions : Receiving(s)' => Still(s) \/ Takes(s)
      PROVE  PoseInv' /\ TabInv'
  <2>1. \A s \in Sessions : Receiving(s)' => \A u : Lists(s, u)' <=> Lists(s, u)
    BY <1>1, TakesLists
  <2>2. TabInv'
    BY <1>0, <1>1, <2>1, CalmLists
  <2>. QED BY <1>0, <1>1, <2>2, CalmShows
<1>2. CASE UNCHANGED vars
  <2>1. UNCHANGED <<players, entity_id, pend, pc>>
    BY <1>2 DEF vars
  <2>2. \A s \in Sessions : Still(s)
    BY <1>2 DEF vars, Still, Shown, Introduced, Names
  <2>3. \A s \in Sessions : Receiving(s)' <=> Receiving(s)
    BY <2>1 DEF Receiving
  <2>. QED BY <1>1, <2>1, <2>2, <2>3
<1>3. ASSUME NEW s \in Sessions, SendExisting(s) PROVE PoseInv' /\ TabInv'
  <2>1. \A t \in Sessions : Still(t)
    <3>1. /\ pc[s] = "joining" /\ pc'[s] = "announcing" /\ rx' = rx
          /\ entities'[s] = Introduced(s)
          /\ tab'[s] = {UuidOf[s]} \cup {o.uuid : o \in existing[s]}
      BY <1>3 DEF SendExisting, TypeOK
    <3>2. Still(s)
      BY <3>1 DEF Still, Shown, Names
    <3>3. \A t \in Sessions : t # s => /\ pc'[t] = pc[t] /\ rx'[t] = rx[t]
                                       /\ entities'[t] = entities[t] /\ tab'[t] = tab[t]
                                       /\ existing'[t] = existing[t]
      BY <1>3 DEF SendExisting, TypeOK
    <3>4. ASSUME NEW t \in Sessions, t # s PROVE Still(t)
      <4>1. /\ pc'[t] = pc[t] /\ rx'[t] = rx[t]
            /\ entities'[t] = entities[t] /\ tab'[t] = tab[t]
            /\ existing'[t] = existing[t]
        BY <3>3, <3>4
      <4>2. Introduced(t)' = Introduced(t)
        BY <4>1 DEF Introduced
      <4>. QED BY <4>1, <4>2 DEF Still, Shown, Names
    <3>. QED BY <3>2, <3>4
  <2>2. \A t \in Sessions : pc'[t] = pc[t] \/ (pc[t] = "joining" /\ pc'[t] = "announcing")
    BY <1>3 DEF SendExisting, TypeOK
  <2>3. UNCHANGED <<players, entity_id, pend>>
    BY <1>3 DEF SendExisting
  <2>. QED BY <1>1, <2>1, <2>2, <2>3 DEF Receiving, InWorld
<1>4. ASSUME NEW s \in Sessions, EnterLoop(s) PROVE PoseInv' /\ TabInv'
  <2>1. \A t \in Sessions : Still(t)
    BY <1>4 DEF EnterLoop, Still, Shown, Introduced, Names, TypeOK
  <2>2. \A t \in Sessions : pc'[t] = pc[t] \/ (pc[t] = "entering" /\ pc'[t] = "playing")
    BY <1>4 DEF EnterLoop, TypeOK
  <2>3. UNCHANGED <<players, entity_id, pend>>
    BY <1>4 DEF EnterLoop
  <2>. QED BY <1>1, <2>1, <2>2, <2>3 DEF Receiving, InWorld
<1>5. ASSUME NEW s \in Sessions, Deliver(s) PROVE PoseInv' /\ TabInv'
  <2>1. Takes(s)
    BY <1>5 DEF Deliver, Takes, AtSelect, Shown, Names, TypeOK
  <2>2. \A t \in Sessions : t # s => Still(t)
    BY <1>5 DEF Deliver, Still, Shown, Introduced, Names, TypeOK
  <2>3. UNCHANGED <<players, entity_id, pend, pc>>
    BY <1>5 DEF Deliver
  <2>4. \A t \in Sessions : Receiving(t)' <=> Receiving(t)
    BY <2>3 DEF Receiving
  <2>. QED BY <1>1, <2>1, <2>2, <2>3, <2>4
<1>6. ASSUME NEW s \in Sessions, RecvClosed(s) \/ ConnError(s) PROVE PoseInv' /\ TabInv'
  <2>1. Receiving(s) /\ EndRun(s)
    BY <1>6 DEF RecvClosed, ConnError, AtSelect, Receiving, InWorld
  <2>2. /\ pc[s] \in InWorld /\ pc'[s] = "leaving" /\ rx'[s] = <<>>
        /\ \A t \in Sessions : t # s => pc'[t] = pc[t]
        /\ UNCHANGED <<players, entity_id, pend>>
    BY <2>1 DEF EndRun, Receiving, TypeOK
  <2>3. \A t \in Sessions : t # s => Still(t)
    BY <2>1, <2>2 DEF EndRun, Still, Shown, Introduced, Names, TypeOK
  <2>. QED BY <1>1, <2>2, <2>3 DEF Receiving, InWorld
<1>7. ASSUME NEW s \in Sessions, HandlePosition(s) \/ HandlePositionLook(s) \/ HandleLook(s)
      PROVE  PoseInv' /\ TabInv'
  <2>1. UNCHANGED <<pc, rx, existing, tab>>
    BY <1>7, MovementKeepsOwners
  <2>2. \A t \in Sessions : /\ Receiving(t)' <=> Receiving(t)
                            /\ \A u : Lists(t, u)' <=> Lists(t, u)
    BY <2>1 DEF Receiving, Lists, Names
  <2>3. TabInv'
    BY <1>0, <2>1, <2>2, CalmLists
  <2>. QED BY <1>0, <1>7, <2>3, HandlersShow
<1>. QED
  BY <1>0, <1>2, <1>3, <1>4, <1>5, <1>6, <1>7, RegisterShows, RegisterLists,
     BroadcastJoinShows, BroadcastJoinLists, BroadcastExceptShows, BroadcastExceptLists,
     LeaveWorldShows, LeaveWorldLists DEF Next, Task, Client

\* What clients come to show and list holds in every reachable state.
LEMMA ViewsAlways == Spec => []ViewsInv
<1>1. Init => ViewsInv
  <2>. SUFFICES ASSUME Init PROVE ViewsInv
    OBVIOUS
  <2>1. \A s \in Sessions : ~Receiving(s) /\ pc[s] = "configuring" /\ rx[s] = <<>> /\ pend[s] = <<>>
    BY DEF Init, Receiving, InWorld
  <2>2. PendingPose
    BY <2>1 DEF PendingPose
  <2>3. AtSpawn
    BY <2>1 DEF AtSpawn
  <2>4. LeavesGone
    BY <2>1 DEF LeavesGone
  <2>5. PosesShown /\ TabInv
    BY <2>1 DEF PosesShown, TabInv
  <2>. QED BY <2>2, <2>3, <2>4, <2>5 DEF ViewsInv, PoseInv
<1>2. TypeOK /\ RegistryInv /\ KnowledgeInv /\ ViewsInv /\ [Next]_vars => ViewsInv'
  BY ViewsStep DEF ViewsInv
<1>. QED BY <1>1, <1>2, TypeCorrect, RegistryAlways, KnowledgeAlways, PTL DEF Spec

\* When every player is in the world at most once, every client comes to show a player
\* where the registry has it, once the player's own broadcasts are out.
THEOREM PosesConvergeWhenExclusive == Spec => [](Exclusive => PosesConverge)
<1>1. TypeOK /\ RegistryInv /\ ViewsInv => (Exclusive => PosesConverge)
  <2>. SUFFICES ASSUME TypeOK, RegistryInv, ViewsInv, Exclusive,
                       NEW s \in Sessions, NEW t \in Sessions, s # t, Receiving(s),
                       pc[t] \in {"entering", "playing"}, pend[t] = <<>>
                PROVE  WillShow(s, entity_id[t]) = players[UuidOf[t]].pose
    BY DEF PosesConverge
  <2>1. players[UuidOf[t]].pose \in Pose
    BY UuidOfType DEF RegistryInv, SessionsRegistered, Registered, InWorld, TypeOK, Entry
  <2>2. Shows(s, t, "pos") /\ Shows(s, t, "yaw")
    BY DEF ViewsInv, PoseInv, PosesShown, Announced, Parts
  <2>3. PICK pose \in Pose : pose = players[UuidOf[t]].pose
    BY <2>1
  <2>4. PICK e : e = entity_id[t]
    OBVIOUS
  <2>5. /\ ComesToShow(Shown(s), rx[s], e, "pos", pose.pos)
        /\ ComesToShow(Shown(s), rx[s], e, "yaw", pose.yaw)
    BY <2>2, <2>3, <2>4 DEF Shows
  <2>. QED BY <2>3, <2>4, <2>5, WillShowParts
<1>. QED BY <1>1, TypeCorrect, RegistryAlways, ViewsAlways, PTL

\* When every player is in the world at most once, every client comes to list the players
\* in their play loop, and only players of the world.
THEOREM TabListExactWhenExclusive == Spec => [](Exclusive => TabListExact)
<1>1. TypeOK /\ ViewsInv => (Exclusive => TabListExact)
  <2>. SUFFICES ASSUME TypeOK, ViewsInv, Exclusive PROVE TabListExact
    OBVIOUS
  <2>1. ASSUME NEW s \in Sessions, Receiving(s), NEW u \in Uuids
        PROVE  LET i == LastThat(s, LAMBDA m : m.kind \in {"join", "leave"} /\ m.uuid = u)
               IN  (IF i = 0 THEN u \in Names(s) ELSE rx[s][i].kind = "join") <=> Lists(s, u)
    BY WillListSame DEF Lists
  <2>2. ASSUME NEW s \in Sessions, Receiving(s), NEW u \in Uuids
        PROVE  /\ u \in {UuidOf[t] : t \in {t \in Sessions : pc[t] \in {"entering", "playing"}}}
                    => Lists(s, u)
               /\ Lists(s, u) => u \in {UuidOf[t] : t \in {t \in Sessions : pc[t] \in InWorld}}
    BY <2>2 DEF ViewsInv, TabInv
  <2>. QED BY <2>1, <2>2 DEF TabListExact, Names
<1>. QED BY <1>1, TypeCorrect, ViewsAlways, PTL
=============================================================================
