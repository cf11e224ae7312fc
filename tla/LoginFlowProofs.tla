--------------------------- MODULE LoginFlowProofs ---------------------------
(***************************************************************************)
(* Proofs about LoginFlow, for any number of registries, any packs a       *)
(* client may know and any number of packets it sends unasked.             *)
(***************************************************************************)
EXTENDS LoginFlow, SequenceTheorems, TLAPS

-----------------------------------------------------------------------------
(* The inductive invariant *)

Parts     == {"secret", "token"}
Clients   == {"connected", "waiting", "configuring", "play", "refused", "done", "left", "cut",
              "reset"}
FromServer == {"StatusResponse", "Pong", "Disconnect", "EncryptionRequest", "SetCompression",
               "LoginSuccess", "Brand", "FeatureFlags", "KnownPacks", "KeepAlive",
               "RegistryData", "UpdateTags", "FinishConfiguration"}
FromClient == {"Handshake", "StatusRequest", "Ping", "LoginStart", "EncryptionResponse",
               "LoginAcknowledged", "ClientInformation", "KnownPacks", "AcknowledgeFinish",
               "KeepAlive", "Pong", "Other"}
Said       == SUBSET {"status", "login", "unknown", "current", "old", "secret", "token", "core",
                      "other"}
Packets(ids) == [id : ids, mode : Mode, says : Said]

\* The types of what TypeOK leaves out.
Typed ==
  /\ TypeOK
  /\ out \in Seq(FromServer)
  /\ s2c \in Seq(Packets(FromServer))
  /\ c2s \in Seq(Packets(FromClient))
  /\ client \in Clients
  /\ proof \in SUBSET Parts
  /\ knows \in SUBSET {"core", "other"}
  /\ got \in Seq(FromServer)
  /\ \A i \in DOMAIN c2s : c2s[i].id = "KnownPacks" => c2s[i].says \in SUBSET {"core", "other"}

\* The server has not given the connection up.
Serving == server \notin {"closing", "closed"}

\* The ids of the packets that are on their way to the client, or will be before the server
\* reads again.
Stream ==
  [i \in 1 .. Len(s2c) + Len(out) |-> IF i <= Len(s2c) THEN s2c[i].id ELSE out[i - Len(s2c)]]

DataIds   == {"RegistryData", "UpdateTags"}
PacksIds  == {"Brand", "FeatureFlags", "KnownPacks", "KeepAlive"}
ConfigIds == PacksIds \cup DataIds \cup {"FinishConfiguration"}

\* What the server has to write in each of its states.
OutRight ==
  /\ server \in {"handshake", "status", "login", "session", "play", "closed"} => out = <<>>
  /\ server = "ping" => out \in {<<>>, <<"StatusResponse">>}
  /\ server = "response" => out \in {<<>>, <<"EncryptionRequest">>}
  /\ server = "ack" => \/ out \in {<<>>, <<"LoginSuccess">>}
                       \/ out = <<"SetCompression", "LoginSuccess">> /\ config.compress
  /\ server \in {"packs", "finish"} => out \in Seq(ConfigIds)
  /\ server = "closing" => out \in Seq({"Disconnect", "Pong"})

\* A client with the data g, to which the packets s are on their way: the data it still lacks
\* comes in one piece behind a other packets, and the end of the state right behind it.
Ahead(s, g, a) ==
  LET left == Len(Data) - Len(g)
  IN  /\ a + left + 1 <= Len(s)
      /\ \A i \in 1 .. Len(s) : i <= a \/ i > a + left + 1 => s[i] \in PacksIds
      /\ \A j \in 1 .. left : s[a + j] = Data[Len(g) + j]
      /\ s[a + left + 1] = "FinishConfiguration"

\* What is on its way to a client that has not gone.
StreamRight ==
  Serving /\ ~Gone =>
    /\ server \in {"handshake", "status", "login", "session"} => Stream = <<>>
    /\ server = "ping" => Stream \in {<<>>, <<"StatusResponse">>}
    /\ server = "response" => /\ Stream \in {<<>>, <<"EncryptionRequest">>}
                              /\ Stream # <<>> => cmode = mode
    /\ server = "ack" =>
         /\ Stream \in {<<>>, <<"LoginSuccess">>, <<"SetCompression", "LoginSuccess">>}
         /\ client = "configuring" => Stream = <<>>
    /\ server = "packs" => Stream \in Seq(PacksIds)
    /\ server \in {"finish", "play"} /\ client = "configuring" =>
         /\ Len(got) <= Len(Data)
         /\ \A j \in 1 .. Len(got) : got[j] = Data[j]
         /\ \E a \in Nat : Ahead(Stream, got, a)

\* The mode a client is in once it has taken a packet.
ModeOnceTaken(p) ==
  [cipher |-> p.mode.cipher \/ p.id = "EncryptionRequest",
   packed |-> p.mode.packed \/ p.id = "SetCompression"]

\* The mode the client will be in when it has taken everything that is on its way.
ClientModeAhead == IF s2c = <<>> THEN cmode ELSE ModeOnceTaken(s2c[Len(s2c)])

\* Each packet is written in the mode the client will be in when it comes to it.
ModesHandedOver ==
  ~Gone =>
    /\ s2c # <<>> => s2c[1].mode = cmode
    /\ \A i \in 1 .. Len(s2c) - 1 : s2c[i + 1].mode = ModeOnceTaken(s2c[i])
    /\ server # "closed" =>
         ClientModeAhead = IF server = "response" /\ out = <<>>
                           THEN [mode EXCEPT !.cipher = TRUE] ELSE mode

\* What an answer on its way to the server says of the client.
AnswerRight(p) ==
  /\ p.id = "EncryptionResponse" =>
       /\ server \notin {"handshake", "status", "ping", "login"}
       /\ server = "response" => p.says = proof /\ out = <<>>
       /\ server = "response" /\ ~Gone => Stream = <<>>
  /\ p.id = "LoginAcknowledged" => client \notin {"connected", "waiting"}
  /\ p.id = "AcknowledgeFinish" /\ orderly => client \in {"play", "left"} /\ got = Data
  /\ p.id = "Handshake" => ~({"status", "login"} \subseteq p.says)

\* Where the server and the client can be at the same time.
Together ==
  Serving =>
    /\ client = "connected" => server = "handshake" /\ c2s = <<>> /\ cmode = Plain
    /\ client = "configuring" =>
         /\ cmode = mode
         /\ server \in {"ack", "packs", "finish", "play"}
         /\ server = "ack" => out = <<>>
    /\ Gone => client = "left"
    /\ client = "play" => got = Data /\ server \in {"finish", "play"}
    /\ server \in {"packs", "finish", "play"} => client \notin {"connected", "waiting"}
    /\ server = "play" /\ orderly => client \in {"play", "left"} /\ got = Data
    /\ server \notin {"finish", "play"} => got = <<>>
    /\ server \in DOMAIN Insists \ {"ack"} => mode = Plain
    /\ server \in {"response", "session"} => config.online
    /\ server = "session" => mode.cipher /\ proof = Parts
    /\ \A i \in DOMAIN c2s : AnswerRight(c2s[i])

\* A client that keeps to the protocol has sent nothing that the server would find written
\* in another mode than its own: no answer is under way when the server's mode changes.
AnswersInMode ==
  Serving /\ orderly =>
    /\ \A i \in DOMAIN c2s : c2s[i].mode = mode
    /\ server = "handshake" => Len(c2s) <= 2
    /\ server \in {"status", "login"} => Len(c2s) <= 1
    /\ server = "response" => /\ Len(c2s) <= 1
                              /\ out # <<>> => c2s = <<>>
                              /\ ~Gone /\ c2s # <<>> => Stream = <<>>
    /\ server = "session" => c2s = <<>>
    /\ server = "ack" /\ (out # <<>> \/ client = "waiting") => c2s = <<>>

FlowInv ==
  /\ OutRight
  /\ StreamRight
  /\ ModesHandedOver
  /\ Together
  /\ AnswersInMode
  /\ OnlyVerifiedPlay

-----------------------------------------------------------------------------
(* The two directions of the socket *)

\* The stream is what the socket holds, followed by what the server has still to write.
LEMMA StreamType ==
  ASSUME Typed
  PROVE  /\ Stream \in Seq(FromServer)
         /\ Len(Stream) = Len(s2c) + Len(out)
         /\ Stream = <<>> <=> s2c = <<>> /\ out = <<>>
         /\ s2c # <<>> => Stream[1] = s2c[1].id
<1>1. Len(s2c) \in Nat /\ Len(out) \in Nat
  BY DEF Typed
<1>2. \A i \in 1 .. Len(s2c) + Len(out) :
        (IF i <= Len(s2c) THEN s2c[i].id ELSE out[i - Len(s2c)]) \in FromServer
  <2>. SUFFICES ASSUME NEW i \in 1 .. Len(s2c) + Len(out)
                PROVE  (IF i <= Len(s2c) THEN s2c[i].id ELSE out[i - Len(s2c)]) \in FromServer
    OBVIOUS
  <2>1. CASE i <= Len(s2c)
    <3>1. s2c[i] \in Packets(FromServer)
      BY <1>1, <2>1 DEF Typed
    <3>. QED BY <2>1, <3>1 DEF Packets
  <2>2. CASE ~(i <= Len(s2c))
    <3>1. i - Len(s2c) \in 1 .. Len(out)
      BY <1>1, <2>2
    <3>. QED BY <2>2, <3>1 DEF Typed
  <2>. QED BY <2>1, <2>2
<1>3. Stream \in Seq(FromServer) /\ Len(Stream) = Len(s2c) + Len(out)
  BY <1>1, <1>2 DEF Stream
<1>4. s2c # <<>> <=> Len(s2c) > 0
  BY DEF Typed
<1>5. out # <<>> <=> Len(out) > 0
  BY DEF Typed
<1>. QED BY <1>1, <1>3, <1>4, <1>5 DEF Stream

\* It changes only with one of the two.
LEMMA SameStream ==
  ASSUME UNCHANGED <<s2c, out>>
  PROVE  Stream' = Stream
BY DEF Stream

\* Writing a packet moves it from one side of the socket to the other.
LEMMA WriteKeepsStream ==
  ASSUME Typed, out # <<>>, out' = Tail(out), NEW m, NEW says,
         s2c' = Append(s2c, Packet(Head(out), m, says))
  PROVE  Stream' = Stream
<1>1. /\ Len(s2c) \in Nat /\ Len(out) \in Nat \ {0}
      /\ Len(s2c') = Len(s2c) + 1 /\ Len(out') = Len(out) - 1
      /\ \A i \in 1 .. Len(s2c) : s2c'[i] = s2c[i]
      /\ s2c'[Len(s2c) + 1].id = out[1]
      /\ \A i \in 1 .. Len(out) - 1 : out'[i] = out[i + 1]
  BY DEF Typed, Packet
<1>2. \A i \in 1 .. Len(s2c) + Len(out) :
        (IF i <= Len(s2c') THEN s2c'[i].id ELSE out'[i - Len(s2c')])
          = (IF i <= Len(s2c) THEN s2c[i].id ELSE out[i - Len(s2c)])
  BY <1>1
<1>. QED BY <1>1, <1>2 DEF Stream

\* The client reads the first packet of the stream.
LEMMA TakenFromStream ==
  ASSUME Typed, s2c # <<>>, s2c' = Tail(s2c), out' = out
  PROVE  Stream' = Tail(Stream) /\ Stream # <<>> /\ Stream[1] = Head(s2c).id
<1>1. /\ Len(s2c) \in Nat \ {0} /\ Len(out) \in Nat
      /\ Len(s2c') = Len(s2c) - 1
      /\ \A i \in 1 .. Len(s2c) - 1 : s2c'[i] = s2c[i + 1]
  BY DEF Typed
<1>2. /\ Len(Stream') = Len(Stream) - 1
      /\ \A i \in 1 .. Len(Stream) - 1 : Stream'[i] = Stream[i + 1]
  BY <1>1, StreamType DEF Stream
<1>3. Stream # <<>> /\ Stream[1] = Head(s2c).id
  BY StreamType DEF Typed
<1>4. Stream' = [i \in 1 .. Len(Stream) - 1 |-> Stream[i + 1]]
  BY <1>1, <1>2, StreamType DEF Stream
<1>5. ASSUME NEW q \in Seq(FromServer), q # <<>>
      PROVE  Tail(q) = [i \in 1 .. Len(q) - 1 |-> q[i + 1]]
  <2>. DEFINE t == [i \in 1 .. Len(q) - 1 |-> q[i + 1]]
  <2>1. t \in Seq(FromServer) /\ Len(t) = Len(q) - 1
    <3>1. Len(q) - 1 \in Nat /\ \A i \in 1 .. Len(q) - 1 : q[i + 1] \in FromServer
      BY <1>5
    <3>. QED BY <3>1
  <2>2. Tail(q) \in Seq(FromServer) /\ Len(Tail(q)) = Len(q) - 1
    BY <1>5
  <2>3. \A i \in 1 .. Len(t) : Tail(q)[i] = t[i]
    BY <1>5, <2>1
  <2>4. Tail(q) = t
    <3>. HIDE DEF t
    <3>. QED BY <2>1, <2>2, <2>3, SeqEqual
  <2>. QED BY <2>4 DEF t
<1>. QED BY <1>3, <1>4, <1>5, StreamType

\* Taking the only element of a sequence leaves none.
LEMMA TailEmpty ==
  ASSUME NEW S, NEW q \in Seq(S), q # <<>>
  PROVE  Tail(q) = <<>> <=> Len(q) = 1
<1>1. PICK t : t = Tail(q)
  OBVIOUS
<1>2. t \in Seq(S) /\ Len(t) = Len(q) - 1 /\ Len(q) \in Nat
  BY <1>1
<1>3. t = <<>> <=> Len(t) = 0
  BY <1>2, EmptySeq
<1>4. t = <<>> <=> Len(q) = 1
  BY <1>2, <1>3
<1>. QED BY <1>1, <1>4

\* A taken packet was the last of the stream.
LEMMA StreamAfter ==
  ASSUME Typed, s2c # <<>>, s2c' = Tail(s2c), out' = out, Stream' = <<>>
  PROVE  s2c' = <<>> /\ out = <<>>
<1>1. s2c \in Seq(Packets(FromServer)) /\ out \in Seq(FromServer)
  BY DEF Typed
<1>2. Len(s2c) \in Nat \ {0} /\ Len(out) \in Nat
  BY <1>1
<1>3. Len(Stream) = Len(s2c) + Len(out) /\ Stream \in Seq(FromServer) /\ Stream # <<>>
  BY StreamType
<1>4. Len(Stream) = 1
  <2>1. Tail(Stream) = <<>>
    BY TakenFromStream
  <2>. QED BY <1>3, <2>1, TailEmpty
<1>5. Len(out) = 0 /\ Len(s2c) = 1
  <2>1. \A m, n \in Nat : n # 0 /\ n + m = 1 => n = 1 /\ m = 0
    OBVIOUS
  <2>2. Len(s2c) + Len(out) = 1
    BY <1>3, <1>4
  <2>. QED BY <1>2, <2>1, <2>2
<1>6. Tail(s2c) = <<>>
  BY <1>1, <1>5, TailEmpty
<1>. QED BY <1>1, <1>5, <1>6, EmptySeq

\* What the server decides to write follows what the socket still holds.
LEMMA QueuedInStream ==
  ASSUME Typed, out = <<>>, s2c' = s2c, out' \in Seq(FromServer)
  PROVE  Stream' = Stream \o out'
<1>1. /\ Len(s2c) \in Nat /\ Len(out) = 0 /\ Len(out') \in Nat
  BY DEF Typed
<1>. QED BY <1>1, StreamType DEF Stream

\* What the server reads is the first packet the client wrote; the others move up.
LEMMA TakenAnswer ==
  ASSUME Typed, NEW p \in First(c2s), c2s' = Tail(c2s)
  PROVE  /\ c2s # <<>> /\ p = c2s[1] /\ 1 \in DOMAIN c2s
         /\ p \in Packets(FromClient)
         /\ c2s' \in Seq(Packets(FromClient))
         /\ Len(c2s') = Len(c2s) - 1
         /\ \A i \in DOMAIN c2s' : i + 1 \in DOMAIN c2s /\ c2s'[i] = c2s[i + 1]
BY DEF Typed, First

\* What the client reads is the first packet the socket holds; the others move up.
LEMMA TakenPacket ==
  ASSUME Typed, NEW p \in First(s2c), s2c' = Tail(s2c)
  PROVE  /\ s2c # <<>> /\ p = s2c[1] /\ p = Head(s2c)
         /\ p \in Packets(FromServer)
         /\ s2c' \in Seq(Packets(FromServer))
         /\ Len(s2c') = Len(s2c) - 1
         /\ \A i \in 1 .. Len(s2c') : i + 1 \in 1 .. Len(s2c) /\ s2c'[i] = s2c[i + 1]
BY DEF Typed, First

\* An answer sent is the last of those on their way.
LEMMA SentAnswer ==
  ASSUME Typed, NEW p \in Packets(FromClient), c2s' = Append(c2s, p)
  PROVE  /\ c2s' \in Seq(Packets(FromClient))
         /\ Len(c2s') = Len(c2s) + 1 /\ c2s' # <<>>
         /\ \A i \in DOMAIN c2s' : \/ i \in DOMAIN c2s /\ c2s'[i] = c2s[i]
                                   \/ i = Len(c2s) + 1 /\ c2s'[i] = p
<1>1. c2s \in Seq(Packets(FromClient))
  BY DEF Typed
<1>. HIDE DEF Typed
<1>2. c2s' \in Seq(Packets(FromClient)) /\ Len(c2s') = Len(c2s) + 1
  BY <1>1
<1>3. /\ \A i \in 1 .. Len(c2s) : c2s'[i] = c2s[i]
      /\ c2s'[Len(c2s) + 1] = p
  BY <1>1
<1>. QED BY <1>1, <1>2, <1>3

-----------------------------------------------------------------------------
(* Type correctness *)

\* The data is data.
LEMMA DataType == Data \in Seq(DataIds) /\ Data \in Seq(FromServer)
BY RegistriesType DEF Data, DataIds, FromServer

\* The packets the server writes are packets of the protocol.
LEMMA WrittenTypes ==
  /\ <<>> \in Seq(FromServer) /\ Refusal \in Seq(FromServer)
  /\ Announced \o <<"LoginSuccess">> \in Seq(FromServer)
  /\ \A id \in FromServer : <<id>> \in Seq(FromServer)
  /\ <<"Brand", "FeatureFlags", "KnownPacks">> \in Seq(FromServer)
  /\ Data \o <<"FinishConfiguration">> \in Seq(FromServer)
  /\ \A p : Echo(p) \in Seq(FromServer)
<1>1. <<>> \in Seq(FromServer)
  OBVIOUS
<1>2. \A id \in FromServer : <<id>> \in Seq(FromServer)
  OBVIOUS
<1>3. /\ "Disconnect" \in FromServer /\ "SetCompression" \in FromServer /\ "KeepAlive" \in FromServer
      /\ "LoginSuccess" \in FromServer /\ "FinishConfiguration" \in FromServer
      /\ "Brand" \in FromServer /\ "FeatureFlags" \in FromServer /\ "KnownPacks" \in FromServer
  BY DEF FromServer
<1>4. Announced \in Seq(FromServer)
  BY <1>1, <1>2, <1>3 DEF Announced
<1>5. Refusal \in Seq(FromServer) /\ \A p : Echo(p) \in Seq(FromServer)
  BY <1>1, <1>2, <1>3 DEF Refusal, Echo
<1>6. <<"Brand", "FeatureFlags", "KnownPacks">> \in Seq(FromServer)
  BY <1>3
<1>7. \A a, b \in Seq(FromServer) : a \o b \in Seq(FromServer)
  OBVIOUS
<1>8. Announced \o <<"LoginSuccess">> \in Seq(FromServer)
  BY <1>2, <1>3, <1>4, <1>7
<1>9. Data \o <<"FinishConfiguration">> \in Seq(FromServer)
  BY <1>2, <1>3, <1>7, DataType
<1>. QED BY <1>1, <1>2, <1>5, <1>6, <1>8, <1>9

\* What is left to check of a server step.
LEMMA ServerKeepsTypes ==
  ASSUME Typed, UNCHANGED <<config, clientVars>>,
         server' \in DOMAIN Insists \cup {"session", "packs", "finish", "play", "closing", "closed"},
         mode' \in Mode, out' \in Seq(FromServer), s2c' \in Seq(Packets(FromServer)),
         verdict' \in {"none", "Verified", "Rejected", "Unavailable"},
         player' \in {"nobody", "claimed", "profile"},
         have_info' \in BOOLEAN, packs' \in SUBSET {"core", "other"},
         c2s' = c2s \/ (c2s' = Tail(c2s) /\ c2s # <<>>),
         LoggedIn' => mode'.cipher = config.online,
         mode'.packed => config.compress
  PROVE  Typed'
<1>1. TypeOK'
  BY DEF Typed, TypeOK, clientVars
<1>2. /\ c2s' \in Seq(Packets(FromClient))
      /\ \A i \in DOMAIN c2s' : \E j \in DOMAIN c2s : c2s'[i] = c2s[j]
  <2>1. CASE c2s' = c2s
    BY <2>1 DEF Typed
  <2>2. CASE c2s' = Tail(c2s) /\ c2s # <<>>
    <3>1. /\ c2s' \in Seq(Packets(FromClient))
          /\ \A i \in DOMAIN c2s' : i + 1 \in DOMAIN c2s /\ c2s'[i] = c2s[i + 1]
      BY <2>2 DEF Typed
    <3>. QED BY <3>1
  <2>. QED BY <2>1, <2>2
<1>3. \A i \in DOMAIN c2s' : c2s'[i].id = "KnownPacks" => c2s'[i].says \in SUBSET {"core", "other"}
  BY <1>2 DEF Typed
<1>. QED BY <1>1, <1>2, <1>3 DEF Typed, clientVars

\* Every server step leaves well-formed state; encryption follows online mode because the
\* key exchange is the only way to the session check.
LEMMA ServerTyped ==
  ASSUME Typed, FlowInv, Server
  PROVE  Typed'
<1>0. /\ TypeOK
      /\ server \in DOMAIN Insists \cup {"session", "packs", "finish", "play", "closing", "closed"}
      /\ mode \in Mode /\ out \in Seq(FromServer) /\ s2c \in Seq(Packets(FromServer))
      /\ verdict \in {"none", "Verified", "Rejected", "Unavailable"}
      /\ player \in {"nobody", "claimed", "profile"}
      /\ have_info \in BOOLEAN /\ packs \in SUBSET {"core", "other"}
      /\ LoggedIn => mode.cipher = config.online
      /\ mode.packed => config.compress
  BY DEF Typed, TypeOK
<1>. USE ServerKeepsTypes, <1>0, WrittenTypes DEF Insists, LoggedIn
<1>1. CASE Write
  <2>1. Head(out) \in FromServer /\ Tail(out) \in Seq(FromServer)
    BY <1>1 DEF Write
  <2>2. Packet(Head(out), mode, {}) \in Packets(FromServer)
    BY <2>1 DEF Packet, Packets, Said
  <2>3. s2c' \in Seq(Packets(FromServer))
    BY <1>1, <2>2 DEF Write
  <2>4. mode' \in Mode /\ mode'.cipher = mode.cipher
    BY <1>1 DEF Write, ModeAfter, Mode
  <2>5. mode'.packed => config.compress
    <3>1. Head(out) = "SetCompression" => config.compress
      <4>1. out # <<>> /\ OutRight
        BY <1>1 DEF Write, FlowInv
      <4>2. CASE server \in {"packs", "finish"}
        <5>1. Head(out) \in ConfigIds
          BY <4>1, <4>2 DEF OutRight
        <5>. QED BY <5>1 DEF ConfigIds, PacksIds, DataIds
      <4>3. CASE server = "closing"
        <5>1. Head(out) \in {"Disconnect", "Pong"}
          BY <4>1, <4>3 DEF OutRight
        <5>. QED BY <5>1
      <4>4. CASE server \in {"ping", "response", "ack"}
        BY <4>1, <4>4 DEF OutRight
      <4>. QED BY <4>1, <4>2, <4>3, <4>4 DEF OutRight
    <3>. QED BY <1>1, <3>1 DEF Write, ModeAfter, Mode
  <2>. QED BY <1>1, <2>1, <2>3, <2>4, <2>5 DEF Write, LoggedIn
<1>2. CASE WriteFails
  BY <1>2 DEF WriteFails
<1>2a. CASE Close
  BY <1>2a DEF Close
<1>2b. CASE ReadClosed
  BY <1>2b DEF ReadClosed
<1>3. CASE ReadUnexpected
  BY <1>3 DEF ReadUnexpected
<1>4. CASE ReadHandshake
  <2>1. PICK p \in First(c2s) : ReadHandshake!(p)
    BY <1>4 DEF ReadHandshake
  <2>2. c2s # <<>>
    BY <2>1, TakenAnswer DEF Reads
  <2>3. server' \in {"status", "login", "closing"} /\ out' \in Seq(FromServer)
    BY <2>1
  <2>. QED BY <2>1, <2>2, <2>3 DEF Reads
<1>5. CASE ReadStatus
  <2>1. PICK p \in First(c2s) : ReadStatus!(p)
    BY <1>5 DEF ReadStatus
  <2>2. c2s # <<>> /\ c2s' = Tail(c2s)
    BY <2>1, TakenAnswer DEF Reads
  <2>3. server' \in {"ping", "closing"} /\ out' \in Seq(FromServer)
    <3>1. "StatusResponse" \in FromServer /\ "Pong" \in FromServer
      BY DEF FromServer
    <3>. QED BY <2>1, <3>1
  <2>. QED BY <2>1, <2>2, <2>3
<1>6. CASE ReadLoginStart
  <2>1. PICK p \in First(c2s) : ReadLoginStart!(p)
    BY <1>6 DEF ReadLoginStart
  <2>2. c2s # <<>> /\ c2s' = Tail(c2s) /\ server = "login" /\ out = <<>>
    BY <2>1, TakenAnswer DEF Reads, Awaits
  <2>3. mode = Plain
    BY <2>2 DEF FlowInv, Together, Serving
  <2>4. /\ server' = "response" \/ (server' = "ack" /\ ~config.online)
        /\ player' \in {"nobody", "claimed", "profile"}
        /\ out' \in Seq(FromServer)
    <3>1. "EncryptionRequest" \in FromServer
      BY DEF FromServer
    <3>2. CASE config.online
      BY <2>1, <3>1, <3>2
    <3>3. CASE ~config.online
      BY <2>1, <3>3 DEF FinishLogin
    <3>. QED BY <3>2, <3>3
  <2>5. LoggedIn' => mode.cipher = config.online
    BY <2>3, <2>4 DEF Plain, Typed, TypeOK
  <2>. QED BY <2>1, <2>2, <2>4, <2>5
<1>7. CASE ReadResponse
  <2>1. PICK p \in First(c2s) : ReadResponse!(p)
    BY <1>7 DEF ReadResponse
  <2>2. c2s # <<>> /\ c2s' = Tail(c2s)
    BY <2>1, TakenAnswer DEF Reads
  <2>3. mode' \in Mode /\ mode'.packed = mode.packed
    BY <2>1 DEF Encrypted, Mode
  <2>4. server' \in {"closed", "session", "closing"} /\ out' \in Seq(FromServer)
    BY <2>1
  <2>. QED BY <2>1, <2>2, <2>3, <2>4
<1>8. CASE CheckSession
  <2>1. mode.cipher /\ config.online
    BY <1>8 DEF CheckSession, FlowInv, Together, Serving
  <2>2. /\ server' \in {"ack", "closing"} /\ out' \in Seq(FromServer)
        /\ player' \in {"nobody", "claimed", "profile"}
    BY <1>8 DEF CheckSession, FinishLogin
  <2>. QED BY <1>8, <2>1, <2>2 DEF CheckSession, Typed, TypeOK
<1>9. CASE ReadAcknowledged
  <2>1. PICK p \in First(c2s) : ReadAcknowledged!(p)
    BY <1>9 DEF ReadAcknowledged
  <2>2. c2s # <<>> /\ c2s' = Tail(c2s) /\ server = "ack"
    BY <2>1, TakenAnswer DEF Reads
  <2>. QED BY <2>1, <2>2
<1>10. CASE ReadPacks
  <2>1. PICK p \in First(c2s) : ReadPacks!(p)
    BY <1>10 DEF ReadPacks
  <2>2. /\ c2s # <<>> /\ c2s' = Tail(c2s) /\ server = "packs"
        /\ p.id = "KnownPacks" => p.says \in SUBSET {"core", "other"}
    BY <2>1, TakenAnswer DEF Reads, Typed
  <2>3. /\ server' \in {"packs", "finish"} /\ out' \in Seq(FromServer)
        /\ have_info' \in BOOLEAN /\ packs' \in SUBSET {"core", "other"}
    BY <2>1, <2>2
  <2>. QED BY <2>1, <2>2, <2>3
<1>11. CASE ReadFinish
  <2>1. PICK p \in First(c2s) : ReadFinish!(p)
    BY <1>11 DEF ReadFinish
  <2>2. c2s # <<>> /\ c2s' = Tail(c2s) /\ server = "finish"
    BY <2>1, TakenAnswer DEF Reads
  <2>. QED BY <2>1, <2>2
<1>. QED
  BY <1>1, <1>2, <1>2a, <1>2b, <1>3, <1>4, <1>5, <1>6, <1>7, <1>8, <1>9, <1>10, <1>11 DEF Server

\* What is left to check of a step of the client.
LEMMA ClientKeepsTypes ==
  ASSUME Typed, UNCHANGED serverVars,
         cmode' \in Mode, client' \in Clients, proof' \in SUBSET Parts, knows' = knows,
         got' \in Seq(FromServer), strays' \in 0..MaxStrays, orderly' \in BOOLEAN,
         c2s' \in Seq(Packets(FromClient)),
         \A i \in DOMAIN c2s' : c2s'[i].id = "KnownPacks" =>
           (i \in DOMAIN c2s /\ c2s'[i] = c2s[i]) \/ c2s'[i].says = knows,
         s2c' \in Seq(Packets(FromServer))
  PROVE  Typed'
<1>1. TypeOK'
  BY DEF Typed, TypeOK, serverVars, LoggedIn
<1>2. \A i \in DOMAIN c2s' : c2s'[i].id = "KnownPacks" => c2s'[i].says \in SUBSET {"core", "other"}
  BY DEF Typed
<1>. QED BY <1>1, <1>2 DEF Typed, serverVars

\* So does every step of the client.
LEMMA ClientTyped ==
  ASSUME Typed, Proceeds \/ Reset \/ Stray \/ Leave
  PROVE  Typed'
<1>0. /\ cmode \in Mode /\ client \in Clients /\ proof \in SUBSET Parts
      /\ got \in Seq(FromServer) /\ strays \in 0..MaxStrays /\ orderly \in BOOLEAN
      /\ c2s \in Seq(Packets(FromClient)) /\ s2c \in Seq(Packets(FromServer))
      /\ <<>> \in Seq(Packets(FromServer))
  BY DEF Typed, TypeOK
<1>. USE ClientKeepsTypes, <1>0
<1>1. CASE Hello
  <2>1. PICK next \in {"status", "login", "unknown"}, version \in {"current", "old"} :
          /\ orderly' = (next # "unknown")
          /\ c2s' = <<Packet("Handshake", cmode, {next, version}),
                      Packet(IF next = "status" THEN "StatusRequest" ELSE "LoginStart", cmode, {})>>
    BY <1>1 DEF Hello
  <2>2. /\ Packet("Handshake", cmode, {next, version}) \in Packets(FromClient)
        /\ Packet(IF next = "status" THEN "StatusRequest" ELSE "LoginStart", cmode, {})
             \in Packets(FromClient)
    BY DEF Packet, Packets, FromClient, Said
  <2>3. c2s' \in Seq(Packets(FromClient))
    BY <2>1, <2>2
  <2>4. \A i \in DOMAIN c2s' : c2s'[i].id # "KnownPacks"
    BY <2>1 DEF Packet
  <2>5. client' \in Clients
    BY <1>1 DEF Hello, Clients
  <2>. QED BY <1>1, <2>1, <2>3, <2>4, <2>5 DEF Hello
<1>2. CASE AnswerEncryption
  <2>1. PICK p \in First(s2c), right \in SUBSET Parts : AnswerEncryption!(p, right)
    BY <1>2 DEF AnswerEncryption, Parts
  <2>2. Packet("EncryptionResponse", cmode, right) \in Packets(FromClient)
    BY DEF Packet, Packets, FromClient, Said, Parts
  <2>3. /\ c2s' \in Seq(Packets(FromClient))
        /\ \A i \in DOMAIN c2s' : c2s'[i].id = "KnownPacks" => i \in DOMAIN c2s /\ c2s'[i] = c2s[i]
    BY <2>1, <2>2, SentAnswer DEF Sends, Packet
  <2>4. s2c' \in Seq(Packets(FromServer))
    BY <2>1, TakenPacket DEF Takes
  <2>5. cmode' \in Mode
    BY <2>1 DEF Mode
  <2>. QED BY <2>1, <2>3, <2>4, <2>5
<1>3. CASE AnswerLogin
  <2>1. PICK p \in First(s2c) : AnswerLogin!(p)
    BY <1>3 DEF AnswerLogin
  <2>2. /\ Packet("LoginAcknowledged", cmode, {}) \in Packets(FromClient)
        /\ Packet("ClientInformation", cmode, {}) \in Packets(FromClient)
    BY DEF Packet, Packets, FromClient, Said
  <2>3. /\ c2s' \in Seq(Packets(FromClient))
        /\ \A i \in DOMAIN c2s' : c2s'[i].id = "KnownPacks" => i \in DOMAIN c2s /\ c2s'[i] = c2s[i]
    BY <2>1, <2>2 DEF Packet
  <2>4. s2c' \in Seq(Packets(FromServer))
    BY <2>1, TakenPacket DEF Takes
  <2>5. client' \in Clients
    BY <2>1 DEF Clients
  <2>. QED BY <2>1, <2>3, <2>4, <2>5
<1>4. CASE Answer
  <2>1. PICK p \in First(s2c) : Answer!(p)
    BY <1>4 DEF Answer
  <2>2. s2c' \in Seq(Packets(FromServer)) /\ p \in Packets(FromServer)
    BY <2>1, TakenPacket DEF Takes
  <2>3. /\ client' = client \/ client' \in {"done", "refused", "play"}
        /\ cmode' = cmode \/ cmode' = [cmode EXCEPT !.packed = TRUE]
        /\ got' = got \/ (got' = Append(got, p.id) /\ p.id \in FromServer)
    BY <2>1, <2>2 DEF Packets
  <2>4. client' \in Clients /\ cmode' \in Mode /\ got' \in Seq(FromServer)
    <3>1. client' \in Clients
      BY <2>3 DEF Clients
    <3>2. cmode' \in Mode
      BY <2>3 DEF Mode
    <3>3. got' \in Seq(FromServer)
      BY <2>3, SMTT(30)
    <3>. QED BY <3>1, <3>2, <3>3
  <2>5. \/ c2s' = c2s
        \/ \E q \in Packets(FromClient) :
             c2s' = Append(c2s, q) /\ (q.id = "KnownPacks" => q.says = knows)
    <3>1. \A id \in {"Ping", "KnownPacks", "AcknowledgeFinish"}, says \in {{}, knows} :
            Packet(id, cmode, says) \in Packets(FromClient)
      BY DEF Packet, Packets, FromClient, Said, Typed
    <3>2. \/ c2s' = c2s
          \/ Sends("Ping", {}) \/ Sends("KnownPacks", knows) \/ Sends("AcknowledgeFinish", {})
      BY <2>1
    <3>. QED BY <3>1, <3>2 DEF Sends, Packet
  <2>6. /\ c2s' \in Seq(Packets(FromClient))
        /\ \A i \in DOMAIN c2s' : c2s'[i].id = "KnownPacks" =>
             (i \in DOMAIN c2s /\ c2s'[i] = c2s[i]) \/ c2s'[i].says = knows
    BY <2>5, SentAnswer
  <2>. QED BY <2>1, <2>2, <2>4, <2>6
<1>5. CASE EndOfStream
  BY <1>5 DEF EndOfStream, Clients
<1>6. CASE Reset
  BY <1>6 DEF Reset, Clients
<1>7. CASE Leave
  BY <1>7 DEF Leave, Clients
<1>8. CASE Stray
  <2>1. PICK id \in {"KeepAlive", "Pong", "Other", "AcknowledgeFinish"} : Sends(id, {})
    BY <1>8 DEF Stray
  <2>2. Packet(id, cmode, {}) \in Packets(FromClient)
    BY DEF Packet, Packets, FromClient, Said
  <2>3. /\ c2s' \in Seq(Packets(FromClient))
        /\ \A i \in DOMAIN c2s' : c2s'[i].id = "KnownPacks" => i \in DOMAIN c2s /\ c2s'[i] = c2s[i]
    BY <2>1, <2>2, SentAnswer DEF Sends, Packet
  <2>4. strays' \in 0..MaxStrays /\ orderly' \in BOOLEAN
    BY <1>8, MaxStraysType DEF Stray
  <2>. QED BY <1>8, <2>3, <2>4 DEF Stray
<1>. QED BY <1>1, <1>2, <1>3, <1>4, <1>5, <1>6, <1>7, <1>8 DEF Proceeds

-----------------------------------------------------------------------------
(* The configuration data on its way *)

\* Ahead after a step speaks of the packets and the data after it.
LEMMA AheadThen == \A a : Ahead(Stream', got', a) <=> Ahead(Stream, got, a)'
BY DEF Ahead

\* What is queued behind the data leaves it where it is.
LEMMA AheadQueued ==
  ASSUME NEW s \in Seq(FromServer), NEW g \in Seq(FromServer), NEW a \in Nat,
         NEW e \in Seq(PacksIds), Ahead(s, g, a), Len(g) <= Len(Data)
  PROVE  Ahead(s \o e, g, a)
<1>. DEFINE left == Len(Data) - Len(g)
<1>1. Len(Data) \in Nat /\ left \in Nat
  BY DataType
<1>2. /\ Len(s \o e) = Len(s) + Len(e)
      /\ \A i \in 1 .. Len(s) : (s \o e)[i] = s[i]
      /\ \A i \in 1 .. Len(s \o e) : i > Len(s) => (s \o e)[i] \in PacksIds
  OBVIOUS
<1>3. /\ a + left + 1 <= Len(s)
      /\ \A i \in 1 .. Len(s) : i <= a \/ i > a + left + 1 => s[i] \in PacksIds
      /\ \A j \in 1 .. left : s[a + j] = Data[Len(g) + j]
      /\ s[a + left + 1] = "FinishConfiguration"
  BY DEF Ahead
<1>4. Len(s) \in Nat /\ Len(e) \in Nat
  OBVIOUS
<1>. DEFINE t == s \o e
<1>. HIDE DEF left, t
<1>5. a + left + 1 <= Len(t)
  BY <1>1, <1>2, <1>3, <1>4 DEF t
<1>6. \A i \in 1 .. Len(t) : i <= a \/ i > a + left + 1 => t[i] \in PacksIds
  BY <1>1, <1>2, <1>3, <1>4 DEF t
<1>7. \A j \in 1 .. left : t[a + j] = Data[Len(g) + j]
  <2>1. \A j \in 1 .. left : a + j \in 1 .. Len(s)
    BY <1>1, <1>3, <1>4
  <2>. QED BY <1>2, <1>3, <2>1 DEF t
<1>8. t[a + left + 1] = "FinishConfiguration"
  <2>1. a + left + 1 \in 1 .. Len(s)
    BY <1>1, <1>3, <1>4
  <2>. QED BY <1>2, <1>3, <2>1 DEF t
<1>. QED BY <1>5, <1>6, <1>7, <1>8 DEF Ahead, left, t

\* A packet that is not data brings the data one step nearer.
LEMMA AheadPassed ==
  ASSUME NEW s \in Seq(FromServer), s # <<>>, NEW g \in Seq(FromServer), NEW a \in Nat,
         Ahead(s, g, a), Len(g) <= Len(Data), s[1] \in PacksIds
  PROVE  a - 1 \in Nat /\ Ahead(Tail(s), g, a - 1)
<1>. DEFINE left == Len(Data) - Len(g)
<1>1. Len(Data) \in Nat /\ left \in Nat /\ Data \in Seq(DataIds)
  BY DataType
<1>2. a # 0
  <2>. SUFFICES ASSUME a = 0 PROVE FALSE
    OBVIOUS
  <2>1. left = 0 => s[1] = "FinishConfiguration"
    BY <1>1 DEF Ahead
  <2>2. left > 0 => s[1] \in DataIds
    <3>1. left > 0 => s[1] = Data[Len(g) + 1] /\ Len(g) + 1 \in 1 .. Len(Data)
      BY <1>1 DEF Ahead
    <3>. QED BY <1>1, <3>1
  <2>. QED BY <1>1, <2>1, <2>2 DEF PacksIds, DataIds
<1>3. /\ Len(Tail(s)) = Len(s) - 1
      /\ \A i \in 1 .. Len(s) - 1 : Tail(s)[i] = s[i + 1]
  OBVIOUS
<1>4. /\ a + left + 1 <= Len(s)
      /\ \A i \in 1 .. Len(s) : i <= a \/ i > a + left + 1 => s[i] \in PacksIds
      /\ \A j \in 1 .. left : s[a + j] = Data[Len(g) + j]
      /\ s[a + left + 1] = "FinishConfiguration"
  BY DEF Ahead
<1>. DEFINE t == Tail(s)
            b == a - 1
<1>5. Len(s) \in Nat /\ b \in Nat /\ a = b + 1
  BY <1>2
<1>. HIDE DEF left, t, b
<1>6. Len(t) = Len(s) - 1 /\ \A i \in 1 .. Len(s) - 1 : t[i] = s[i + 1]
  BY <1>3 DEF t
<1>7. b + left + 1 <= Len(t)
  BY <1>1, <1>4, <1>5, <1>6
<1>8. \A i \in 1 .. Len(t) : i <= b \/ i > b + left + 1 => t[i] \in PacksIds
  <2>. SUFFICES ASSUME NEW i \in 1 .. Len(t), i <= b \/ i > b + left + 1
                PROVE  t[i] \in PacksIds
    OBVIOUS
  <2>1. i + 1 \in 1 .. Len(s) /\ i \in 1 .. Len(s) - 1
    BY <1>5, <1>6
  <2>2. i + 1 <= a \/ i + 1 > a + left + 1
    BY <1>1, <1>5, <1>6
  <2>3. s[i + 1] \in PacksIds
    BY <1>4, <2>1, <2>2
  <2>. QED BY <1>6, <2>1, <2>3
<1>9. \A j \in 1 .. left : t[b + j] = Data[Len(g) + j]
  <2>1. \A j \in 1 .. left : b + j \in 1 .. Len(s) - 1 /\ b + j + 1 = a + j
    BY <1>1, <1>4, <1>5
  <2>. QED BY <1>4, <1>6, <2>1
<1>10. t[b + left + 1] = "FinishConfiguration"
  <2>1. b + left + 1 \in 1 .. Len(s) - 1 /\ b + left + 1 + 1 = a + left + 1
    BY <1>1, <1>4, <1>5
  <2>. QED BY <1>4, <1>6, <2>1
<1>11. Ahead(t, g, b)
  BY <1>7, <1>8, <1>9, <1>10 DEF Ahead, left
<1>. QED BY <1>5, <1>11 DEF t, b

\* A client takes the next piece of the data and no other.
LEMMA AheadTaken ==
  ASSUME NEW s \in Seq(FromServer), s # <<>>, NEW g \in Seq(FromServer), NEW a \in Nat,
         Ahead(s, g, a), Len(g) <= Len(Data), s[1] \in DataIds
  PROVE  /\ Len(g) < Len(Data) /\ s[1] = Data[Len(g) + 1]
         /\ Ahead(Tail(s), Append(g, s[1]), 0)
<1>. DEFINE left == Len(Data) - Len(g)
<1>1. Len(Data) \in Nat /\ left \in Nat /\ Len(s) \in Nat \ {0}
  BY DataType
<1>2. a = 0
  <2>1. a > 0 => s[1] \in PacksIds
    BY <1>1 DEF Ahead
  <2>. QED BY <2>1 DEF PacksIds, DataIds
<1>3. left > 0
  <2>1. left = 0 => s[1] = "FinishConfiguration"
    BY <1>1, <1>2 DEF Ahead
  <2>. QED BY <1>1, <2>1 DEF DataIds
<1>4. s[1] = Data[Len(g) + 1]
  BY <1>1, <1>2, <1>3 DEF Ahead
<1>5. /\ Len(Tail(s)) = Len(s) - 1
      /\ \A i \in 1 .. Len(s) - 1 : Tail(s)[i] = s[i + 1]
      /\ Len(Append(g, s[1])) = Len(g) + 1
  OBVIOUS
<1>6. /\ left <= Len(Tail(s))
      /\ \A j \in 1 .. left - 1 : Tail(s)[j] = Data[Len(g) + 1 + j]
      /\ Tail(s)[left] = "FinishConfiguration"
  BY <1>1, <1>2, <1>3, <1>5 DEF Ahead
<1>7. \A i \in 1 .. Len(Tail(s)) : i <= 0 \/ i > left => Tail(s)[i] \in PacksIds
  BY <1>1, <1>2, <1>3, <1>5 DEF Ahead
<1>. QED BY <1>1, <1>3, <1>4, <1>5, <1>6, <1>7 DEF Ahead

\* The end of the state comes when the data is complete.
LEMMA AheadEnd ==
  ASSUME NEW s \in Seq(FromServer), s # <<>>, NEW g \in Seq(FromServer), NEW a \in Nat,
         Ahead(s, g, a), Len(g) <= Len(Data), s[1] = "FinishConfiguration"
  PROVE  Len(g) = Len(Data)
<1>. DEFINE left == Len(Data) - Len(g)
<1>1. Len(Data) \in Nat /\ left \in Nat /\ Len(s) \in Nat \ {0} /\ Data \in Seq(DataIds)
  BY DataType
<1>2. a = 0
  <2>1. a > 0 => s[1] \in PacksIds
    BY <1>1 DEF Ahead
  <2>. QED BY <2>1 DEF PacksIds
<1>3. left > 0 => s[1] \in DataIds
  <2>1. left > 0 => s[1] = Data[Len(g) + 1] /\ Len(g) + 1 \in 1 .. Len(Data)
    BY <1>1, <1>2 DEF Ahead
  <2>. QED BY <1>1, <2>1
<1>. QED BY <1>1, <1>3 DEF DataIds

\* The data is queued in order and in one piece.
LEMMA AheadStart ==
  ASSUME NEW s \in Seq(PacksIds)
  PROVE  Ahead(s \o (Data \o <<"FinishConfiguration">>), <<>>, Len(s))
<1>. DEFINE e == Data \o <<"FinishConfiguration">>
            t == s \o e
<1>1. Len(Data) \in Nat /\ Data \in Seq(FromServer)
  BY DataType
<1>2. /\ e \in Seq(FromServer) /\ Len(e) = Len(Data) + 1
      /\ \A j \in 1 .. Len(Data) : e[j] = Data[j]
      /\ e[Len(Data) + 1] = "FinishConfiguration"
  BY <1>1 DEF FromServer
<1>3. /\ Len(t) = Len(s) + Len(e)
      /\ \A i \in 1 .. Len(s) : t[i] = s[i]
      /\ \A j \in 1 .. Len(e) : t[Len(s) + j] = e[j]
  <2>. HIDE DEF e
  <2>. QED BY <1>2
<1>4. Len(<<>>) = 0
  OBVIOUS
<1>. HIDE DEF t, e
<1>5. Len(s) \in Nat /\ Len(t) = Len(s) + Len(Data) + 1
  BY <1>1, <1>2, <1>3
<1>6. \A i \in 1 .. Len(t) : i <= Len(s) \/ i > Len(s) + Len(Data) + 1 => t[i] \in PacksIds
  BY <1>1, <1>3, <1>5
<1>7. \A j \in 1 .. Len(Data) : t[Len(s) + j] = Data[j]
  BY <1>1, <1>2, <1>3
<1>8. t[Len(s) + Len(Data) + 1] = "FinishConfiguration"
  <2>1. Len(Data) + 1 \in 1 .. Len(e) /\ Len(s) + Len(Data) + 1 = Len(s) + (Len(Data) + 1)
    BY <1>1, <1>2, <1>5
  <2>. QED BY <1>2, <1>3, <2>1
<1>9. Len(Data) - Len(<<>>) = Len(Data) /\ \A j \in 1 .. Len(Data) : Len(<<>>) + j = j
  BY <1>1, <1>4
<1>10. Ahead(t, <<>>, Len(s))
  BY <1>5, <1>6, <1>7, <1>8, <1>9 DEF Ahead
<1>. QED BY <1>10 DEF t, e

-----------------------------------------------------------------------------
(* Parts of steps *)

\* An invariant that speaks of the server while it serves says nothing of a closed one.
LEMMA ClosedKeeps ==
  ASSUME FlowInv, server' = "closed", out' = <<>>, UNCHANGED <<s2c, client, cmode>>
  PROVE  FlowInv'
<1>1. OutRight'
  BY DEF OutRight
<1>2. ModesHandedOver'
  BY DEF FlowInv, ModesHandedOver, Gone
<1>3. StreamRight' /\ Together' /\ AnswersInMode'
  BY DEF StreamRight, Together, AnswersInMode, Serving
<1>4. OnlyVerifiedPlay'
  BY DEF OnlyVerifiedPlay, LoggedIn
<1>. QED BY <1>1, <1>2, <1>3, <1>4 DEF FlowInv

\* Nothing is promised to a client that has closed its end.
LEMMA GoneKeeps ==
  ASSUME FlowInv, Gone', ~Serving \/ client' = "left",
         UNCHANGED <<serverVars, proof, got, orderly, c2s>>
  PROVE  FlowInv'
<1>. USE DEF FlowInv, serverVars
<1>1. OutRight'
  BY DEF OutRight
<1>2. StreamRight' /\ ModesHandedOver'
  BY DEF StreamRight, ModesHandedOver
<1>3. Together'
  <2>. SUFFICES ASSUME Serving PROVE Together'
    BY DEF Together, Serving
  <2>1. client' = "left"
    OBVIOUS
  <2>2. ASSUME NEW i \in DOMAIN c2s
        PROVE  AnswerRight(c2s[i])'
    <3>1. AnswerRight(c2s[i])
      BY <2>2 DEF Together
    <3>. QED BY <2>1, <3>1 DEF AnswerRight
  <2>. QED BY <2>1, <2>2 DEF Together, Serving
<1>4. AnswersInMode'
  <2>1. client' # "waiting"
    BY DEF Gone
  <2>. QED BY <2>1 DEF AnswersInMode, Serving
<1>5. OnlyVerifiedPlay'
  BY DEF OnlyVerifiedPlay, LoggedIn
<1>. QED BY <1>1, <1>2, <1>3, <1>4, <1>5

\* The client's mode follows the packets it takes.
LEMMA ModesTaken ==
  ASSUME Typed, ModesHandedOver, ~Gone, NEW p \in First(s2c), s2c' = Tail(s2c),
         cmode' = ModeOnceTaken(p), UNCHANGED serverVars
  PROVE  ModesHandedOver'
<1>1. /\ p = s2c[1] /\ Len(s2c) \in Nat \ {0} /\ Len(s2c') = Len(s2c) - 1
      /\ \A i \in 1 .. Len(s2c') : s2c'[i] = s2c[i + 1]
      /\ s2c # <<>> /\ s2c' \in Seq(Packets(FromServer))
  BY TakenPacket DEF Typed
<1>2. \A i \in 1 .. Len(s2c) - 1 : s2c[i + 1].mode = ModeOnceTaken(s2c[i])
  BY DEF ModesHandedOver
<1>3. s2c' # <<>> => Len(s2c') > 0
  BY <1>1
<1>4. s2c' # <<>> => s2c'[1].mode = cmode'
  BY <1>1, <1>2, <1>3
<1>5. \A i \in 1 .. Len(s2c') - 1 : s2c'[i + 1].mode = ModeOnceTaken(s2c'[i])
  BY <1>1, <1>2
<1>6. ClientModeAhead' = ClientModeAhead
  <2>1. CASE s2c' = <<>>
    <3>1. Len(s2c) = 1
      <4>1. Len(s2c') = 0
        BY <2>1, SMTT(30)
      <4>. QED BY <1>1, <4>1
    <3>. QED BY <1>1, <2>1, <3>1 DEF ClientModeAhead
  <2>2. CASE s2c' # <<>>
    <3>1. s2c'[Len(s2c')] = s2c[Len(s2c)]
      BY <1>1, <1>3, <2>2
    <3>. QED BY <1>1, <2>2, <3>1 DEF ClientModeAhead, ModeOnceTaken
  <2>. QED BY <2>1, <2>2
<1>7. \A q : ModeOnceTaken(q)' = ModeOnceTaken(q)
  BY DEF ModeOnceTaken
<1>8. server' # "closed" =>
        ClientModeAhead' = IF server' = "response" /\ out' = <<>>
                           THEN [mode' EXCEPT !.cipher = TRUE] ELSE mode'
  BY <1>6 DEF ModesHandedOver, serverVars
<1>. QED BY <1>4, <1>5, <1>8 DEF ModesHandedOver, ModeOnceTaken

\* The modes are as they were while both sides stay in theirs.
LEMMA ModesKept ==
  ASSUME ModesHandedOver, UNCHANGED <<s2c, client, cmode, mode>>, server # "closed",
         (server = "response" /\ out = <<>>) = (server' = "response" /\ out' = <<>>)
  PROVE  ModesHandedOver'
<1>1. ClientModeAhead' = ClientModeAhead
  BY DEF ClientModeAhead, ModeOnceTaken
<1>2. ~Gone => ClientModeAhead = IF server = "response" /\ out = <<>>
                                 THEN [mode EXCEPT !.cipher = TRUE] ELSE mode
  BY DEF ModesHandedOver
<1>3. CASE server = "response" /\ out = <<>>
  BY <1>1, <1>2, <1>3 DEF ModesHandedOver, ModeOnceTaken, Gone
<1>4. CASE ~(server = "response" /\ out = <<>>)
  BY <1>1, <1>2, <1>4 DEF ModesHandedOver, ModeOnceTaken, Gone
<1>. QED BY <1>3, <1>4

\* What a client finds at its end tells it where the server is.
LEMMA TakenWhen ==
  ASSUME Typed, FlowInv, Serving, NEW p \in First(s2c), Takes(p), UNCHANGED out
  PROVE  /\ Stream # <<>> /\ Stream[1] = p.id /\ Stream' = Tail(Stream)
         /\ Stream \in Seq(FromServer) /\ ~Gone
         /\ \/ server = "ping" /\ client = "waiting" /\ Stream = <<"StatusResponse">>
            \/ server = "response" /\ client = "waiting" /\ Stream = <<"EncryptionRequest">>
            \/ server = "ack" /\ client = "waiting" /\ Stream = <<"LoginSuccess">>
            \/ server = "ack" /\ client = "waiting" /\ Stream = <<"SetCompression", "LoginSuccess">>
            \/ server = "packs" /\ client = "configuring" /\ p.id \in PacksIds
            \/ server \in {"finish", "play"} /\ client = "configuring" /\ p.id \in ConfigIds
<1>1. s2c # <<>> /\ s2c' = Tail(s2c) /\ p = Head(s2c)
  BY TakenPacket DEF Takes
<1>2. Stream # <<>> /\ Stream[1] = p.id /\ Stream' = Tail(Stream) /\ Stream \in Seq(FromServer)
  BY <1>1, TakenFromStream, StreamType
<1>3. client \in {"waiting", "configuring"} /\ ~Gone
  BY DEF Takes, Gone
<1>4. server \in {"handshake", "status", "login", "ping", "response", "ack", "session", "packs",
                  "finish", "play"}
  BY DEF Serving, Typed, TypeOK, Insists
<1>5. server \notin {"handshake", "status", "login", "session"}
  BY <1>2, <1>3 DEF FlowInv, StreamRight, Together
<1>6. server \in {"ping", "response"} => client = "waiting"
  BY <1>3 DEF FlowInv, Together
<1>7. server \in {"packs", "finish", "play"} => client = "configuring"
  BY <1>3 DEF FlowInv, Together
<1>8. server = "ping" => Stream = <<"StatusResponse">>
  BY <1>2, <1>3 DEF FlowInv, StreamRight
<1>9. server = "response" => Stream = <<"EncryptionRequest">>
  BY <1>2, <1>3 DEF FlowInv, StreamRight
<1>10. server = "ack" => /\ client = "waiting"
                         /\ Stream \in {<<"LoginSuccess">>, <<"SetCompression", "LoginSuccess">>}
  BY <1>2, <1>3 DEF FlowInv, StreamRight
<1>11. server = "packs" => p.id \in PacksIds
  <2>1. server = "packs" => Stream \in Seq(PacksIds)
    BY <1>3 DEF FlowInv, StreamRight
  <2>. QED BY <1>2, <2>1
<1>12. server \in {"finish", "play"} => p.id \in ConfigIds
  <2>. SUFFICES ASSUME server \in {"finish", "play"} PROVE Stream[1] \in ConfigIds
    BY <1>2
  <2>1. PICK a \in Nat : Ahead(Stream, got, a)
    BY <1>3, <1>7 DEF FlowInv, StreamRight
  <2>2. Len(got) \in Nat /\ Len(Data) \in Nat /\ Len(got) <= Len(Data) /\ Data \in Seq(DataIds)
    BY <1>3, <1>7, DataType DEF FlowInv, StreamRight, Typed
  <2>3. Len(Stream) \in Nat \ {0}
    BY <1>2
  <2>4. CASE a > 0
    BY <2>1, <2>2, <2>3, <2>4 DEF Ahead, ConfigIds
  <2>5. CASE a = 0 /\ Len(got) = Len(Data)
    BY <2>1, <2>2, <2>5 DEF Ahead, ConfigIds
  <2>6. CASE a = 0 /\ Len(got) < Len(Data)
    <3>1. Stream[1] = Data[Len(got) + 1] /\ Len(got) + 1 \in 1 .. Len(Data)
      BY <2>1, <2>2, <2>6 DEF Ahead
    <3>. QED BY <2>2, <3>1 DEF ConfigIds
  <2>. QED BY <2>1, <2>2, <2>4, <2>5, <2>6
<1>. QED
  BY <1>2, <1>3, <1>4, <1>5, <1>6, <1>7, <1>8, <1>9, <1>10, <1>11, <1>12

-----------------------------------------------------------------------------
(* The server's steps *)

\* The answers still under way after one was read, where the state moves on.
LEMMA AnswersLeft ==
  ASSUME Typed, FlowInv, Serving, NEW p \in First(c2s), c2s' = Tail(c2s),
         UNCHANGED <<client, got, proof, orderly>>,
         \/ server \in {"handshake", "status", "ping", "login"}
         \/ server' \notin {"handshake", "status", "ping", "login", "response"}
  PROVE  (\A i \in DOMAIN c2s : AnswerRight(c2s[i]))'
<1>. SUFFICES ASSUME NEW i \in DOMAIN c2s' PROVE AnswerRight(c2s[i])'
  OBVIOUS
<1>1. i + 1 \in DOMAIN c2s /\ c2s'[i] = c2s[i + 1]
  BY TakenAnswer
<1>2. AnswerRight(c2s[i + 1])
  BY <1>1 DEF FlowInv, Together
<1>3. c2s[i + 1].id = "EncryptionResponse" =>
        server' \notin {"handshake", "status", "ping", "login", "response"}
  BY <1>2 DEF AnswerRight
<1>. QED BY <1>1, <1>2, <1>3 DEF AnswerRight

\* What is written goes out in the mode the client has reached by then; only "SetCompression"
\* changes the mode, and the client owes no answer when it goes out.
LEMMA WriteKeeps ==
  ASSUME Typed, FlowInv, Write
  PROVE  FlowInv'
<1>. USE DEF Write, clientVars
<1>1. /\ out # <<>> /\ out' = Tail(out) /\ out \in Seq(FromServer)
      /\ UNCHANGED <<config, server, verdict, player, have_info, packs, clientVars, c2s>>
      /\ OutRight /\ mode' = ModeAfter(mode, Head(out)) /\ mode \in Mode
  BY DEF FlowInv, Typed, TypeOK
<1>2. server \in {"ping", "response", "ack", "packs", "finish", "closing"}
  BY <1>1 DEF OutRight, Typed, TypeOK, Insists
<1>3. /\ Head(out) = "EncryptionRequest" <=> server = "response"
      /\ Head(out) = "SetCompression" => server = "ack" /\ Len(out) = 2
      /\ server = "response" => out' = <<>>
  <2>1. CASE server \in {"packs", "finish"}
    <3>1. Head(out) \in ConfigIds
      BY <1>1, <2>1 DEF OutRight
    <3>. QED BY <2>1, <3>1 DEF ConfigIds, PacksIds, DataIds
  <2>2. CASE server = "closing"
    <3>1. Head(out) \in {"Disconnect", "Pong"}
      BY <1>1, <2>2 DEF OutRight
    <3>. QED BY <2>2, <3>1
  <2>3. CASE server \in {"ping", "response", "ack"}
    BY <1>1, <2>3 DEF OutRight
  <2>. QED BY <1>2, <2>1, <2>2, <2>3
<1>4. Head(out) # "SetCompression" => mode' = mode
  BY <1>1 DEF ModeAfter
<1>5. OutRight'
  <2>1. server \in {"packs", "finish"} => out' \in Seq(ConfigIds)
    BY <1>1 DEF OutRight
  <2>2. server = "closing" => out' \in Seq({"Disconnect", "Pong"})
    BY <1>1 DEF OutRight
  <2>3. server \in {"ping", "response"} => out' = <<>>
    BY <1>1 DEF OutRight
  <2>4. server = "ack" => out' \in {<<>>, <<"LoginSuccess">>}
    <3>1. server = "ack" => \/ out = <<"LoginSuccess">>
                            \/ out = <<"SetCompression", "LoginSuccess">>
      BY <1>1 DEF OutRight
    <3>2. Tail(<<"LoginSuccess">>) = <<>>
      OBVIOUS
    <3>3. Tail(<<"SetCompression", "LoginSuccess">>) = <<"LoginSuccess">>
      OBVIOUS
    <3>. QED BY <1>1, <3>1, <3>2, <3>3
  <2>. QED BY <1>1, <1>2, <2>1, <2>2, <2>3, <2>4 DEF OutRight
<1>6. ~Gone => /\ s2c' = Append(s2c, Packet(Head(out), mode, {}))
               /\ Stream' = Stream
  BY <1>1, WriteKeepsStream
<1>7. StreamRight'
  <2>. SUFFICES ASSUME Serving, ~Gone PROVE StreamRight'
    BY <1>1 DEF StreamRight, Serving, Gone
  <2>1. \A a : Ahead(Stream, got, a)' <=> Ahead(Stream, got, a)
    BY <1>1, <1>6 DEF Ahead
  <2>2. server = "response" => mode' = mode
    BY <1>3, <1>4
  <2>. QED BY <1>1, <1>6, <2>1, <2>2 DEF FlowInv, StreamRight, Serving, Gone
<1>8. ModesHandedOver'
  <2>. SUFFICES ASSUME ~Gone PROVE ModesHandedOver'
    BY <1>1 DEF ModesHandedOver, Gone
  <2>. DEFINE q == Packet(Head(out), mode, {})
  <2>1. ModesHandedOver /\ ClientModeAhead = mode
    BY <1>1, <1>2 DEF FlowInv, ModesHandedOver
  <2>2. /\ s2c \in Seq(Packets(FromServer)) /\ q \in Packets(FromServer)
        /\ q.mode = mode /\ q.id = Head(out)
    <3>1. Head(out) \in FromServer
      BY <1>1
    <3>. QED BY <1>1, <3>1 DEF Typed, Packet, Packets, Said
  <2>3. s2c' = Append(s2c, q)
    BY <1>6
  <2>. HIDE DEF q
  <2>4. /\ Len(s2c) \in Nat /\ Len(s2c') = Len(s2c) + 1 /\ s2c' # <<>>
        /\ \A i \in 1 .. Len(s2c) : s2c'[i] = s2c[i]
        /\ s2c'[Len(s2c) + 1] = q
        /\ s2c # <<>> => Len(s2c) > 0
    BY <2>2, <2>3
  <2>5. s2c'[1].mode = cmode'
    <3>1. CASE s2c = <<>>
      <4>1. Len(s2c) = 0 /\ cmode = mode
        BY <2>1, <3>1 DEF ClientModeAhead
      <4>. QED BY <1>1, <2>2, <2>4, <4>1
    <3>2. CASE s2c # <<>>
      BY <1>1, <2>1, <2>4, <3>2 DEF ModesHandedOver
    <3>. QED BY <3>1, <3>2
  <2>6. \A i \in 1 .. Len(s2c') - 1 : s2c'[i + 1].mode = ModeOnceTaken(s2c'[i])
    <3>. SUFFICES ASSUME NEW i \in 1 .. Len(s2c)
                  PROVE  s2c'[i + 1].mode = ModeOnceTaken(s2c'[i])
      BY <2>4
    <3>1. CASE i < Len(s2c)
      BY <1>1, <2>1, <2>4, <3>1 DEF ModesHandedOver
    <3>2. CASE i = Len(s2c)
      <4>1. s2c # <<>>
        BY <2>2, <3>2
      <4>2. ModeOnceTaken(s2c[Len(s2c)]) = mode
        BY <2>1, <4>1 DEF ClientModeAhead
      <4>. QED BY <2>2, <2>4, <3>2, <4>2
    <3>. QED BY <2>4, <3>1, <3>2
  <2>7. ClientModeAhead' = ModeOnceTaken(q)
    BY <2>4 DEF ClientModeAhead, ModeOnceTaken
  <2>8. ModeOnceTaken(q) = IF server = "response" THEN [mode' EXCEPT !.cipher = TRUE] ELSE mode'
    <3>1. CASE server = "response"
      BY <1>1, <1>3, <1>4, <2>2, <3>1 DEF ModeOnceTaken, Mode
    <3>2. CASE server # "response" /\ Head(out) = "SetCompression"
      BY <1>1, <1>3, <2>2, <3>2 DEF ModeOnceTaken, Mode, ModeAfter
    <3>3. CASE server # "response" /\ Head(out) # "SetCompression"
      BY <1>1, <1>3, <1>4, <2>2, <3>3 DEF ModeOnceTaken, Mode
    <3>. QED BY <3>1, <3>2, <3>3
  <2>9. ClientModeAhead' = IF server' = "response" /\ out' = <<>>
                           THEN [mode' EXCEPT !.cipher = TRUE] ELSE mode'
    BY <1>1, <1>3, <2>7, <2>8
  <2>. QED BY <2>5, <2>6, <2>9 DEF ModesHandedOver, ModeOnceTaken
<1>9. Together'
  <2>. SUFFICES ASSUME Serving PROVE Together'
    BY <1>1 DEF Together, Serving
  <2>1. /\ Together /\ server \in {"ping", "response", "ack", "packs", "finish"}
        /\ server = "ack" => client # "configuring"
    BY <1>1, <1>2 DEF FlowInv, Together, Serving
  <2>2. client = "configuring" \/ server # "ack" => mode' = mode
    BY <1>3, <1>4, <2>1
  <2>3. ASSUME NEW i \in DOMAIN c2s
        PROVE  AnswerRight(c2s[i])'
    <3>1. AnswerRight(c2s[i])
      BY <2>1, <2>3 DEF Together
    <3>2. c2s[i].id = "EncryptionResponse" => server # "response"
      BY <1>1, <3>1 DEF AnswerRight
    <3>. QED BY <1>1, <3>1, <3>2 DEF AnswerRight
  <2>4. server = "session" => mode'.cipher
    BY <2>1
  <2>. QED BY <1>1, <2>1, <2>2, <2>3, <2>4 DEF Together, Serving, Insists, Gone
<1>10. AnswersInMode'
  <2>. SUFFICES ASSUME Serving, orderly PROVE AnswersInMode'
    BY <1>1 DEF AnswersInMode, Serving
  <2>1. server \in {"response", "ack"} => c2s = <<>>
    BY <1>1 DEF FlowInv, AnswersInMode
  <2>2. \A i \in DOMAIN c2s : c2s[i].mode = mode'
    <3>1. CASE c2s = <<>>
      BY <3>1
    <3>2. CASE c2s # <<>>
      BY <1>3, <1>4, <2>1, <3>2 DEF FlowInv, AnswersInMode
    <3>. QED BY <3>1, <3>2
  <2>3. server = "response" => Len(c2s) <= 1
    BY <2>1
  <2>. QED BY <1>1, <1>2, <2>1, <2>2, <2>3 DEF AnswersInMode, Serving
<1>11. OnlyVerifiedPlay'
  BY <1>1 DEF FlowInv, OnlyVerifiedPlay, LoggedIn
<1>. QED BY <1>5, <1>7, <1>8, <1>9, <1>10, <1>11 DEF FlowInv

\* The handshake, the status exchange and the login's first packet find nothing on its way to
\* the client, which is in the server's mode.
LEMMA EarlyReadsKeep ==
  ASSUME Typed, FlowInv, ReadHandshake \/ ReadStatus \/ ReadLoginStart
  PROVE  FlowInv'
<1>1. PICK p \in First(c2s) :
        /\ c2s' = Tail(c2s) /\ out = <<>> /\ p.mode = mode
        /\ UNCHANGED <<config, mode, clientVars, s2c>>
        /\ \/ /\ server = "handshake" /\ server' \in {"status", "login"} /\ out' = <<>>
           \/ /\ server = "handshake" /\ server' = "closing" /\ out' \in {<<>>, Refusal}
           \/ /\ server = "status" /\ server' = "ping" /\ out' = <<"StatusResponse">>
           \/ /\ server = "ping" /\ server' = "closing" /\ out' = <<"Pong">>
           \/ /\ server = "login" /\ server' = "response" /\ out' = <<"EncryptionRequest">>
              /\ config.online
           \/ /\ server = "login" /\ server' = "ack" /\ out' = Announced \o <<"LoginSuccess">>
              /\ ~config.online
  <2>1. CASE ReadHandshake
    <3>1. PICK p \in First(c2s) : ReadHandshake!(p)
      BY <2>1 DEF ReadHandshake
    <3>2. server = "handshake" /\ c2s' = Tail(c2s) /\ out = <<>> /\ p.mode = mode
      BY <3>1 DEF Reads, Awaits
    <3>3. ~({"status", "login"} \subseteq p.says)
      <4>1. AnswerRight(p)
        BY <3>2, TakenAnswer DEF FlowInv, Together, Serving
      <4>. QED BY <3>1, <4>1 DEF AnswerRight
    <3>4. \/ server' \in {"status", "login"} /\ out' = <<>>
          \/ server' = "closing" /\ out' \in {<<>>, Refusal}
      BY <3>1, <3>3
    <3>. QED BY <3>1, <3>2, <3>4
  <2>2. CASE ReadStatus
    BY <2>2 DEF ReadStatus, Reads, Awaits
  <2>3. CASE ReadLoginStart
    BY <2>3 DEF ReadLoginStart, Reads, Awaits, FinishLogin
  <2>. QED BY <2>1, <2>2, <2>3
<1>2. /\ server \in {"handshake", "status", "ping", "login"}
      /\ server' \in {"status", "login", "ping", "response", "ack", "closing"}
      /\ Serving
  BY <1>1 DEF Serving
<1>3. OutRight'
  <2>1. Refusal \in Seq({"Disconnect", "Pong"}) /\ <<"Pong">> \in Seq({"Disconnect", "Pong"})
    BY DEF Refusal
  <2>2. server' = "ack" => \/ out' = <<"LoginSuccess">>
                           \/ out' = <<"SetCompression", "LoginSuccess">> /\ config'.compress
    BY <1>1 DEF Announced
  <2>3. server' = "closing" => out' \in Seq({"Disconnect", "Pong"})
    <3>1. <<>> \in Seq({"Disconnect", "Pong"})
      OBVIOUS
    <3>. QED BY <1>1, <2>1, <3>1
  <2>4. /\ server' \in {"status", "login"} => out' = <<>>
        /\ server' = "ping" => out' = <<"StatusResponse">>
        /\ server' = "response" => out' = <<"EncryptionRequest">>
    BY <1>1
  <2>. QED BY <1>2, <2>2, <2>3, <2>4 DEF OutRight
<1>4. ModesHandedOver'
  BY <1>1, <1>2, ModesKept DEF FlowInv, clientVars
<1>5. StreamRight'
  <2>. SUFFICES ASSUME Serving', ~Gone PROVE StreamRight'
    BY <1>1 DEF StreamRight, Gone, clientVars
  <2>1. Stream = <<>> /\ s2c = <<>>
    BY <1>1, <1>2, StreamType DEF FlowInv, StreamRight, Serving
  <2>2. Stream' = out'
    <3>1. out' \in Seq(FromServer)
      BY <1>1, WrittenTypes DEF FromServer
    <3>2. Stream' = Stream \o out'
      BY <1>1, <3>1, QueuedInStream
    <3>. QED BY <2>1, <3>1, <3>2
  <2>3. cmode = mode
    BY <1>2, <2>1 DEF FlowInv, ModesHandedOver, ClientModeAhead
  <2>4. server' = "ack" => /\ out' \in {<<"LoginSuccess">>, <<"SetCompression", "LoginSuccess">>}
                           /\ client # "configuring"
    BY <1>1, <1>2 DEF Announced, FlowInv, Together
  <2>5. server' = "ping" => out' = <<"StatusResponse">>
    BY <1>1
  <2>6. server' = "response" => out' = <<"EncryptionRequest">>
    BY <1>1
  <2>7. server' \in {"status", "login"} => out' = <<>>
    BY <1>1
  <2>. QED BY <1>1, <1>2, <2>2, <2>3, <2>4, <2>5, <2>6, <2>7
           DEF StreamRight, Serving, Gone, clientVars
<1>6. Together'
  <2>. SUFFICES ASSUME Serving' PROVE Together'
    BY DEF Together
  <2>1. /\ client \notin {"connected", "configuring", "play"} /\ got = <<>> /\ mode = Plain
        /\ Gone => client = "left"
    BY <1>1, <1>2, TakenAnswer DEF FlowInv, Together, Insists
  <2>2. (\A i \in DOMAIN c2s : AnswerRight(c2s[i]))'
    BY <1>1, <1>2, AnswersLeft DEF clientVars
  <2>. QED BY <1>1, <1>2, <2>1, <2>2 DEF Together, clientVars, Gone
<1>7. AnswersInMode'
  <2>. SUFFICES ASSUME Serving', orderly PROVE AnswersInMode'
    BY <1>1 DEF AnswersInMode, clientVars
  <2>1. \A i \in DOMAIN c2s' : c2s'[i].mode = mode'
    BY <1>1, <1>2, TakenAnswer DEF FlowInv, AnswersInMode
  <2>2. /\ server = "handshake" => Len(c2s') <= 1
        /\ server \in {"status", "login"} => c2s' = <<>>
    <3>1. Len(c2s) \in Nat /\ c2s' \in Seq(Packets(FromClient)) /\ Len(c2s') = Len(c2s) - 1
      BY <1>1, TakenAnswer DEF Typed
    <3>2. /\ server = "handshake" => Len(c2s) <= 2
          /\ server \in {"status", "login"} => Len(c2s) <= 1
      BY <1>2 DEF FlowInv, AnswersInMode
    <3>. QED BY <3>1, <3>2
  <2>. QED BY <1>1, <1>2, <2>1, <2>2 DEF AnswersInMode
<1>8. OnlyVerifiedPlay'
  BY <1>1 DEF OnlyVerifiedPlay, LoggedIn
<1>. QED BY <1>3, <1>4, <1>5, <1>6, <1>7, <1>8 DEF FlowInv

\* The answer that carries the secret is the last thing the server reads in plain: nothing is
\* on its way in either direction.
LEMMA ResponseKeeps ==
  ASSUME Typed, FlowInv, ReadResponse
  PROVE  FlowInv'
<1>1. PICK p \in First(c2s) : ReadResponse!(p)
  BY DEF ReadResponse
<1>2. /\ server = "response" /\ out = <<>> /\ p.mode = mode /\ c2s' = Tail(c2s)
      /\ p.id = "EncryptionResponse" /\ Serving
      /\ UNCHANGED <<config, verdict, player, have_info, packs, clientVars, s2c>>
  BY <1>1 DEF Reads, Awaits, Serving
<1>3. p.says = proof /\ (~Gone => Stream = <<>>)
  <2>1. AnswerRight(p)
    BY <1>2, TakenAnswer DEF FlowInv, Together
  <2>. QED BY <1>2, <2>1 DEF AnswerRight
<1>4. CASE "secret" \notin p.says
  BY <1>1, <1>2, <1>4, ClosedKeeps DEF clientVars
<1>5. CASE "secret" \in p.says
  <2>1. /\ mode' = [mode EXCEPT !.cipher = TRUE]
        /\ \/ server' = "session" /\ out' = <<>> /\ "token" \in p.says
           \/ server' = "closing" /\ out' = Refusal
    BY <1>1, <1>5 DEF Encrypted
  <2>2. OutRight'
    <3>1. Refusal \in Seq({"Disconnect", "Pong"})
      BY DEF Refusal
    <3>. QED BY <2>1, <3>1 DEF OutRight
  <2>3. ~Gone => s2c = <<>> /\ cmode = mode'
    <3>1. ~Gone => s2c = <<>>
      BY <1>3, StreamType
    <3>2. ~Gone => ClientModeAhead = [mode EXCEPT !.cipher = TRUE]
      BY <1>2 DEF FlowInv, ModesHandedOver
    <3>. QED BY <2>1, <3>1, <3>2 DEF ClientModeAhead
  <2>4. ModesHandedOver'
    <3>. SUFFICES ASSUME ~Gone PROVE ModesHandedOver'
      BY <1>2 DEF ModesHandedOver, Gone, clientVars
    <3>1. s2c' = <<>> /\ cmode' = mode' /\ server' # "response"
      BY <1>2, <2>1, <2>3 DEF clientVars
    <3>2. 1 .. Len(s2c') - 1 = {}
      BY <3>1
    <3>. QED BY <3>1, <3>2 DEF ModesHandedOver, ClientModeAhead
  <2>5. StreamRight'
    <3>. SUFFICES ASSUME Serving', ~Gone PROVE StreamRight'
      BY <1>2 DEF StreamRight, Gone, clientVars
    <3>1. server' = "session" /\ out' = <<>>
      BY <2>1 DEF Serving
    <3>2. Stream' = <<>>
      BY <1>2, <1>3, <3>1, SameStream
    <3>. QED BY <3>1, <3>2 DEF StreamRight
  <2>6. Together'
    <3>. SUFFICES ASSUME Serving' PROVE Together'
      BY DEF Together
    <3>1. server' = "session" /\ "token" \in p.says
      BY <2>1 DEF Serving
    <3>2. /\ client \notin {"connected", "configuring", "play"} /\ got = <<>> /\ config.online
          /\ Gone => client = "left"
      BY <1>2 DEF FlowInv, Together
    <3>3. proof = Parts
      <4>1. proof \in SUBSET Parts
        BY DEF Typed
      <4>. QED BY <1>3, <1>5, <3>1, <4>1 DEF Parts
    <3>4. mode'.cipher
      BY <2>1 DEF Typed, TypeOK, Mode
    <3>5. (\A i \in DOMAIN c2s : AnswerRight(c2s[i]))'
      BY <1>2, <3>1, AnswersLeft DEF clientVars
    <3>. QED BY <1>2, <3>1, <3>2, <3>3, <3>4, <3>5 DEF Together, clientVars, Insists, Gone
  <2>7. AnswersInMode'
    <3>. SUFFICES ASSUME Serving', orderly PROVE AnswersInMode'
      BY <1>2 DEF AnswersInMode, clientVars
    <3>1. server' = "session"
      BY <2>1 DEF Serving
    <3>2. c2s' = <<>>
      <4>1. Len(c2s) <= 1
        BY <1>2 DEF FlowInv, AnswersInMode
      <4>2. Len(c2s) \in Nat /\ c2s' \in Seq(Packets(FromClient)) /\ Len(c2s') = Len(c2s) - 1
        BY <1>2, TakenAnswer DEF Typed
      <4>. QED BY <4>1, <4>2
    <3>. QED BY <3>1, <3>2 DEF AnswersInMode
  <2>8. OnlyVerifiedPlay'
    BY <2>1 DEF OnlyVerifiedPlay, LoggedIn
  <2>. QED BY <2>2, <2>4, <2>5, <2>6, <2>7, <2>8 DEF FlowInv
<1>. QED BY <1>4, <1>5

\* The session check lets in whom the session server vouched for, in whose name the key
\* exchange was proved.
LEMMA SessionKeeps ==
  ASSUME Typed, FlowInv, CheckSession
  PROVE  FlowInv'
<1>1. /\ server = "session" /\ out = <<>> /\ Serving
      /\ UNCHANGED <<config, mode, have_info, packs, clientVars, c2s, s2c>>
      /\ \/ /\ verdict' = "Verified" /\ player' = "profile"
            /\ server' = "ack" /\ out' = Announced \o <<"LoginSuccess">>
         \/ server' = "closing" /\ out' = Refusal
  BY DEF CheckSession, Verified, FinishLogin, FlowInv, OutRight, Serving
<1>2. /\ Together /\ proof = Parts
      /\ client \notin {"connected", "configuring", "play"} /\ got = <<>>
  BY <1>1 DEF FlowInv, Together
<1>3. server' = "ack" => \/ out' = <<"LoginSuccess">>
                         \/ out' = <<"SetCompression", "LoginSuccess">> /\ config.compress
  BY <1>1 DEF Announced
<1>4. OutRight'
  <2>1. Refusal \in Seq({"Disconnect", "Pong"})
    BY DEF Refusal
  <2>. QED BY <1>1, <1>3, <2>1 DEF OutRight
<1>5. ModesHandedOver'
  BY <1>1, ModesKept DEF FlowInv, clientVars
<1>6. StreamRight'
  <2>. SUFFICES ASSUME Serving', ~Gone PROVE StreamRight'
    BY <1>1 DEF StreamRight, Gone, clientVars
  <2>1. server' = "ack" /\ Stream = <<>>
    BY <1>1 DEF FlowInv, StreamRight, Serving
  <2>2. out' \in Seq(FromServer)
    BY <1>1, <2>1, WrittenTypes
  <2>3. Stream' = out'
    <3>1. Stream' = Stream \o out'
      BY <1>1, <2>2, QueuedInStream
    <3>. QED BY <2>1, <2>2, <3>1
  <2>. QED BY <1>1, <1>2, <1>3, <2>1, <2>3 DEF StreamRight, clientVars
<1>7. Together'
  <2>. SUFFICES ASSUME Serving' PROVE Together'
    BY DEF Together
  <2>1. server' = "ack"
    BY <1>1 DEF Serving
  <2>2. ASSUME NEW i \in DOMAIN c2s
        PROVE  AnswerRight(c2s[i])'
    <3>1. AnswerRight(c2s[i])
      BY <1>1, <1>2, <2>2 DEF Together
    <3>. QED BY <1>1, <2>1, <3>1 DEF AnswerRight, clientVars
  <2>. QED BY <1>1, <1>2, <2>1, <2>2 DEF Together, clientVars, Gone
<1>8. AnswersInMode'
  <2>. SUFFICES ASSUME Serving', orderly PROVE AnswersInMode'
    BY <1>1 DEF AnswersInMode, clientVars
  <2>1. server' = "ack" /\ c2s = <<>>
    BY <1>1 DEF Serving, FlowInv, AnswersInMode
  <2>. QED BY <1>1, <2>1 DEF AnswersInMode
<1>9. OnlyVerifiedPlay'
  BY <1>1, <1>2 DEF OnlyVerifiedPlay, LoggedIn, Parts, clientVars
<1>. QED BY <1>4, <1>5, <1>6, <1>7, <1>8, <1>9 DEF FlowInv

\* The Configuration state opens on a client that has come to it.
LEMMA AcknowledgedKeeps ==
  ASSUME Typed, FlowInv, ReadAcknowledged
  PROVE  FlowInv'
<1>1. PICK p \in First(c2s) :
        /\ server = "ack" /\ out = <<>> /\ p.mode = mode /\ c2s' = Tail(c2s)
        /\ p.id = "LoginAcknowledged" /\ Serving
        /\ server' = "packs" /\ out' = <<"Brand", "FeatureFlags", "KnownPacks">>
        /\ UNCHANGED <<config, mode, verdict, player, have_info, packs, clientVars, s2c>>
  BY DEF ReadAcknowledged, Reads, Awaits, Serving
<1>2. client \notin {"connected", "waiting", "play"} /\ got = <<>>
  <2>1. AnswerRight(p) /\ Together
    BY <1>1, TakenAnswer DEF FlowInv, Together
  <2>. QED BY <1>1, <2>1 DEF AnswerRight, Together
<1>3. out' \in Seq(PacksIds)
  <2>1. "Brand" \in PacksIds /\ "FeatureFlags" \in PacksIds /\ "KnownPacks" \in PacksIds
    BY DEF PacksIds
  <2>. QED BY <1>1, <2>1
<1>4. OutRight'
  <2>1. out' \in Seq(ConfigIds)
    BY <1>3 DEF ConfigIds
  <2>. QED BY <1>1, <2>1 DEF OutRight
<1>5. ModesHandedOver'
  BY <1>1, ModesKept DEF FlowInv, clientVars
<1>6. StreamRight'
  <2>. SUFFICES ASSUME ~Gone PROVE StreamRight'
    BY <1>1 DEF StreamRight, Gone, clientVars
  <2>1. client = "configuring"
    BY <1>2 DEF Gone, Typed, Clients
  <2>2. Stream = <<>>
    BY <1>1, <2>1 DEF FlowInv, StreamRight
  <2>3. Stream' = out'
    <3>1. Stream' = Stream \o out'
      BY <1>1, WrittenTypes, QueuedInStream
    <3>. QED BY <1>3, <2>2, <3>1
  <2>. QED BY <1>1, <1>3, <2>3 DEF StreamRight
<1>7. Together'
  <2>1. (\A i \in DOMAIN c2s : AnswerRight(c2s[i]))'
    BY <1>1, AnswersLeft DEF clientVars
  <2>. QED BY <1>1, <1>2, <2>1 DEF FlowInv, Together, clientVars, Insists, Gone
<1>8. AnswersInMode'
  <2>. SUFFICES ASSUME orderly PROVE AnswersInMode'
    BY <1>1 DEF AnswersInMode, clientVars
  <2>1. \A i \in DOMAIN c2s' : c2s'[i].mode = mode'
    BY <1>1, TakenAnswer DEF FlowInv, AnswersInMode
  <2>. QED BY <1>1, <2>1 DEF AnswersInMode
<1>9. OnlyVerifiedPlay'
  BY <1>1 DEF FlowInv, OnlyVerifiedPlay, LoggedIn, clientVars
<1>. QED BY <1>4, <1>5, <1>6, <1>7, <1>8, <1>9 DEF FlowInv

\* What the Configuration state answers a client on its own.
LEMMA EchoType == \A p : Echo(p) \in Seq(PacksIds)
<1>1. "KeepAlive" \in PacksIds /\ <<>> \in Seq(PacksIds)
  BY DEF PacksIds
<1>. QED BY <1>1 DEF Echo

\* In the Configuration state: the registries and the tags are queued once, behind whatever is
\* under way, when the client has given its information and its packs; they stay queued when
\* the Play state begins, which an orderly client brings about only when it has read them.
LEMMA ConfigurationReadsKeep ==
  ASSUME Typed, FlowInv, ReadPacks \/ ReadFinish
  PROVE  FlowInv'
<1>1. PICK p \in First(c2s) :
        /\ out = <<>> /\ p.mode = mode /\ c2s' = Tail(c2s) /\ Serving
        /\ UNCHANGED <<config, mode, verdict, player, clientVars, s2c>>
        /\ \/ /\ server = "packs" /\ server' = "packs" /\ out' = Echo(p)
           \/ /\ server = "packs" /\ server' = "finish"
              /\ out' = Data \o <<"FinishConfiguration">>
           \/ /\ server = "finish" /\ server' = "finish" /\ out' = Echo(p)
           \/ /\ server = "finish" /\ server' = "play" /\ out' = <<>>
              /\ p.id = "AcknowledgeFinish"
  <2>1. CASE ReadPacks
    BY <2>1 DEF ReadPacks, Reads, Awaits, Serving
  <2>2. CASE ReadFinish
    BY <2>2 DEF ReadFinish, Reads, Awaits, Serving, EndsConfiguration, Echo
  <2>. QED BY <2>1, <2>2
<1>2. server \in {"packs", "finish"} /\ server' \in {"packs", "finish", "play"} /\ Serving'
  BY <1>1 DEF Serving
<1>3. server' = "play" /\ orderly => client \in {"play", "left"} /\ got = Data
  <2>1. AnswerRight(p)
    BY <1>1, TakenAnswer DEF FlowInv, Together
  <2>. QED BY <1>1, <2>1 DEF AnswerRight
<1>4. out' \in Seq(ConfigIds) /\ out' \in Seq(FromServer)
  <2>1. Data \o <<"FinishConfiguration">> \in Seq(ConfigIds)
    <3>1. Data \in Seq(ConfigIds) /\ "FinishConfiguration" \in ConfigIds
      BY DataType DEF ConfigIds
    <3>. QED BY <3>1
  <2>2. <<>> \in Seq(ConfigIds)
    OBVIOUS
  <2>3. \A q : Echo(q) \in Seq(ConfigIds)
    BY EchoType DEF ConfigIds
  <2>. QED BY <1>1, <2>1, <2>2, <2>3, WrittenTypes
<1>5. OutRight'
  BY <1>1, <1>2, <1>4 DEF OutRight
<1>6. ModesHandedOver'
  BY <1>1, <1>2, ModesKept DEF FlowInv, clientVars
<1>7. StreamRight'
  <2>. SUFFICES ASSUME ~Gone PROVE StreamRight'
    BY <1>1 DEF StreamRight, Gone, clientVars
  <2>1. StreamRight /\ Together
    BY DEF FlowInv
  <2>2. Stream' = Stream \o out' /\ Stream \in Seq(FromServer)
    BY <1>1, <1>4, QueuedInStream, StreamType
  <2>3. CASE server' = "packs"
    <3>1. server = "packs" /\ out' \in Seq(PacksIds) /\ Stream \in Seq(PacksIds)
      BY <1>1, <2>1, <2>3, EchoType DEF StreamRight
    <3>2. Stream' \in Seq(PacksIds)
      BY <2>2, <3>1
    <3>. QED BY <2>3, <3>2 DEF StreamRight
  <2>4. CASE server' = "finish" /\ server = "packs"
    <3>1. Stream \in Seq(PacksIds) /\ got = <<>> /\ out' = Data \o <<"FinishConfiguration">>
      BY <1>1, <2>1, <2>4 DEF StreamRight, Together
    <3>2. PICK a \in Nat : a = Len(Stream)
      BY <2>2
    <3>3. Ahead(Stream \o out', <<>>, a)
      BY <3>1, <3>2, AheadStart
    <3>4. Ahead(Stream, got, a)'
      BY <1>1, <2>2, <3>1, <3>3, AheadThen DEF clientVars
    <3>5. got' = <<>>
      BY <1>1, <3>1 DEF clientVars
    <3>. QED BY <2>4, <3>4, <3>5, DataType DEF StreamRight
  <2>5. CASE server = "finish"
    <3>. SUFFICES ASSUME client = "configuring" PROVE StreamRight'
      BY <1>1, <2>5 DEF StreamRight, clientVars
    <3>1. PICK a \in Nat : Ahead(Stream, got, a)
      BY <1>1, <2>1, <2>5 DEF StreamRight
    <3>2. out' \in Seq(PacksIds)
      <4>1. <<>> \in Seq(PacksIds)
        OBVIOUS
      <4>. QED BY <1>1, <2>5, <4>1, EchoType
    <3>3. got \in Seq(FromServer) /\ got' = got /\ client' = client
      BY <1>1 DEF Typed, clientVars
    <3>4. Len(got) <= Len(Data) /\ \A j \in 1 .. Len(got) : got[j] = Data[j]
      BY <1>1, <2>1, <2>5 DEF StreamRight
    <3>5. Ahead(Stream', got', a)
      BY <2>2, <3>1, <3>2, <3>3, <3>4, AheadQueued
    <3>6. Ahead(Stream, got, a)'
      BY <3>5, AheadThen
    <3>7. server' \in {"finish", "play"}
      BY <1>1, <2>5
    <3>. QED BY <3>3, <3>4, <3>6, <3>7 DEF StreamRight
  <2>. QED BY <1>1, <2>3, <2>4, <2>5
<1>8. Together'
  <2>1. (\A i \in DOMAIN c2s : AnswerRight(c2s[i]))'
    BY <1>1, <1>2, AnswersLeft DEF clientVars
  <2>. QED BY <1>1, <1>2, <1>3, <2>1 DEF FlowInv, Together, clientVars, Insists, Gone
<1>9. AnswersInMode'
  <2>. SUFFICES ASSUME orderly PROVE AnswersInMode'
    BY <1>1 DEF AnswersInMode, clientVars
  <2>1. \A i \in DOMAIN c2s' : c2s'[i].mode = mode'
    BY <1>1, TakenAnswer DEF FlowInv, AnswersInMode
  <2>. QED BY <1>1, <1>2, <2>1 DEF AnswersInMode
<1>10. OnlyVerifiedPlay'
  BY <1>1, <1>2 DEF FlowInv, OnlyVerifiedPlay, LoggedIn, clientVars
<1>. QED BY <1>5, <1>6, <1>7, <1>8, <1>9, <1>10 DEF FlowInv

-----------------------------------------------------------------------------
(* The client's steps *)

\* Where the server no longer serves, a step of the client only has to keep its modes.
LEMMA NotServingKeeps ==
  ASSUME FlowInv, ~Serving, UNCHANGED serverVars, ModesHandedOver'
  PROVE  FlowInv'
<1>1. OutRight'
  BY DEF FlowInv, OutRight, serverVars
<1>2. StreamRight' /\ Together' /\ AnswersInMode'
  BY DEF StreamRight, Together, AnswersInMode, Serving, serverVars
<1>3. OnlyVerifiedPlay'
  BY DEF OnlyVerifiedPlay, LoggedIn, Serving, serverVars
<1>. QED BY <1>1, <1>2, <1>3 DEF FlowInv

\* The answers under way stay right when the client that waits for something goes on.
LEMMA AnswersThen ==
  ASSUME Typed, FlowInv, Serving, UNCHANGED serverVars,
         client \in {"waiting", "configuring"},
         client' = client \/ client' \notin {"connected", "waiting"},
         orderly' => orderly,
         server = "response" => Stream # <<>> \/ UNCHANGED <<s2c, proof>>,
         \A i \in DOMAIN c2s' : \/ i \in DOMAIN c2s /\ c2s'[i] = c2s[i]
                                \/ AnswerRight(c2s[i])'
  PROVE  (\A i \in DOMAIN c2s : AnswerRight(c2s[i]))'
<1>. SUFFICES ASSUME NEW i \in DOMAIN c2s', i \in DOMAIN c2s, c2s'[i] = c2s[i]
              PROVE  AnswerRight(c2s[i])'
  OBVIOUS
<1>1. AnswerRight(c2s[i])
  BY DEF FlowInv, Together
<1>2. ~Gone
  BY DEF Gone
<1>3. c2s[i].id = "LoginAcknowledged" => client' \notin {"connected", "waiting"}
  BY <1>1 DEF AnswerRight
<1>4. c2s[i].id = "AcknowledgeFinish" => ~orderly'
  BY <1>1 DEF AnswerRight
<1>5. c2s[i].id = "EncryptionResponse" /\ server = "response" =>
        c2s[i].says = proof' /\ out = <<>> /\ Stream' = <<>>
  <2>1. UNCHANGED <<s2c, proof>> => Stream' = Stream
    BY SameStream DEF serverVars
  <2>. QED BY <1>1, <1>2, <2>1 DEF AnswerRight
<1>6. c2s[i].id = "EncryptionResponse" => server \notin {"handshake", "status", "ping", "login"}
  BY <1>1 DEF AnswerRight
<1>7. c2s[i].id = "Handshake" => ~({"status", "login"} \subseteq c2s[i].says)
  BY <1>1 DEF AnswerRight
<1>. QED BY <1>3, <1>4, <1>5, <1>6, <1>7 DEF AnswerRight, serverVars

\* The first two packets find the server at its start.
LEMMA HelloKeeps ==
  ASSUME Typed, FlowInv, Hello
  PROVE  FlowInv'
<1>1. PICK next \in {"status", "login", "unknown"}, version \in {"current", "old"} :
        c2s' = <<Packet("Handshake", cmode, {next, version}),
                 Packet(IF next = "status" THEN "StatusRequest" ELSE "LoginStart", cmode, {})>>
  BY DEF Hello
<1>2. /\ client = "connected" /\ client' = "waiting"
      /\ UNCHANGED <<serverVars, cmode, knows, proof, got, strays, s2c>>
  BY DEF Hello
<1>3. ModesHandedOver'
  BY <1>2 DEF FlowInv, ModesHandedOver, ClientModeAhead, ModeOnceTaken, Gone, serverVars
<1>4. CASE ~Serving
  BY <1>2, <1>3, <1>4, NotServingKeeps
<1>5. CASE Serving
  <2>1. server = "handshake" /\ cmode = mode /\ got = <<>>
    BY <1>2, <1>5 DEF FlowInv, Together, Insists
  <2>2. OutRight' /\ OnlyVerifiedPlay'
    BY <1>2, <2>1 DEF FlowInv, OutRight, OnlyVerifiedPlay, LoggedIn, serverVars
  <2>3. StreamRight'
    <3>1. ~Gone /\ Stream = <<>>
      BY <1>2, <1>5, <2>1 DEF FlowInv, StreamRight, Gone
    <3>2. Stream' = Stream
      BY <1>2, SameStream DEF serverVars
    <3>. QED BY <1>2, <2>1, <3>1, <3>2 DEF StreamRight, serverVars
  <2>4. /\ Len(c2s') = 2 /\ DOMAIN c2s' = {1, 2}
        /\ \A i \in DOMAIN c2s' : c2s'[i].mode = cmode
        /\ c2s'[1].id = "Handshake" /\ c2s'[1].says = {next, version}
        /\ c2s'[2].id \in {"StatusRequest", "LoginStart"}
    BY <1>1 DEF Packet
  <2>5. (\A i \in DOMAIN c2s : AnswerRight(c2s[i]))'
    <3>1. ~({"status", "login"} \subseteq {next, version})
      OBVIOUS
    <3>. QED BY <2>4, <3>1 DEF AnswerRight
  <2>6. Together'
    BY <1>2, <1>5, <2>1, <2>5 DEF FlowInv, Together, serverVars, Insists, Gone
  <2>7. AnswersInMode'
    BY <1>2, <2>1, <2>4 DEF AnswersInMode, serverVars
  <2>. QED BY <1>3, <2>2, <2>3, <2>6, <2>7 DEF FlowInv
<1>. QED BY <1>4, <1>5

\* The key exchange: the client answers in plain what was the only packet on its way.
LEMMA AnswerEncryptionKeeps ==
  ASSUME Typed, FlowInv, AnswerEncryption
  PROVE  FlowInv'
<1>1. PICK p \in First(s2c), right \in SUBSET Parts : AnswerEncryption!(p, right)
  BY DEF AnswerEncryption, Parts
<1>2. ModesHandedOver'
  <2>1. cmode' = ModeOnceTaken(p)
    BY <1>1 DEF ModeOnceTaken, Takes, Typed, TypeOK, Mode
  <2>. QED BY <1>1, <2>1, ModesTaken DEF FlowInv, Takes, Gone
<1>3. CASE ~Serving
  BY <1>1, <1>2, <1>3, NotServingKeeps
<1>4. CASE Serving
  <2>1. /\ server = "response" /\ client = "waiting" /\ Stream = <<"EncryptionRequest">>
        /\ Stream' = Tail(Stream) /\ ~Gone
    BY <1>1, <1>4, TakenWhen DEF PacksIds, DataIds, ConfigIds, serverVars
  <2>2. Stream' = <<>> /\ Stream # <<>>
    <3>1. Tail(<<"EncryptionRequest">>) = <<>>
      OBVIOUS
    <3>. QED BY <2>1, <3>1
  <2>3. out = <<>>
    BY <1>1, <2>2, TakenPacket, StreamAfter DEF Takes, serverVars
  <2>4. OutRight' /\ OnlyVerifiedPlay'
    BY <1>1, <2>1 DEF FlowInv, OutRight, OnlyVerifiedPlay, LoggedIn, serverVars
  <2>5. StreamRight'
    BY <1>1, <2>1, <2>2 DEF StreamRight, serverVars
  <2>6. /\ Packet("EncryptionResponse", cmode, right) \in Packets(FromClient)
        /\ c2s' = Append(c2s, Packet("EncryptionResponse", cmode, right))
    BY <1>1 DEF Packet, Packets, FromClient, Said, Parts, Sends, Typed, TypeOK
  <2>7. (\A i \in DOMAIN c2s : AnswerRight(c2s[i]))'
    <3>1. \A i \in DOMAIN c2s' : \/ i \in DOMAIN c2s /\ c2s'[i] = c2s[i]
                                 \/ AnswerRight(c2s[i])'
      <4>1. \A i \in DOMAIN c2s' : \/ i \in DOMAIN c2s /\ c2s'[i] = c2s[i]
                                   \/ c2s'[i] = Packet("EncryptionResponse", cmode, right)
        BY <2>6, SentAnswer
      <4>. QED BY <1>1, <2>1, <2>2, <2>3, <4>1 DEF AnswerRight, Packet, serverVars
    <3>. QED BY <1>1, <1>4, <2>1, <2>2, <3>1, AnswersThen
  <2>8. Together'
    BY <1>1, <1>4, <2>1, <2>7 DEF FlowInv, Together, serverVars, Insists, Gone
  <2>9. AnswersInMode'
    <3>. SUFFICES ASSUME orderly PROVE AnswersInMode'
      BY <1>1 DEF AnswersInMode
    <3>1. c2s = <<>> /\ cmode = mode
      BY <1>4, <2>1, <2>2 DEF FlowInv, AnswersInMode, StreamRight
    <3>2. Len(c2s') = 1 /\ \A i \in DOMAIN c2s' : c2s'[i].mode = mode
      BY <2>6, <3>1 DEF Packet
    <3>. QED BY <1>1, <2>1, <2>2, <2>3, <3>2 DEF AnswersInMode, serverVars
  <2>. QED BY <1>2, <2>4, <2>5, <2>8, <2>9 DEF FlowInv
<1>. QED BY <1>3, <1>4

\* An element of a queue that two more have joined is one of the old or one of the two.
LEMMA JoinedPair ==
  ASSUME NEW S, NEW q \in Seq(S), NEW e \in Seq(S), Len(e) = 2
  PROVE  \A i \in DOMAIN (q \o e) : \/ i \in DOMAIN q /\ (q \o e)[i] = q[i]
                                    \/ \E j \in {1, 2} : (q \o e)[i] = e[j]
<1>0. Len(q \o e) = Len(q) + Len(e)
  BY ConcatProperties
<1>1. Len(q) \in Nat /\ Len(q \o e) = Len(q) + 2 /\ q \o e \in Seq(S)
  BY <1>0, ConcatProperties
<1>. SUFFICES ASSUME NEW i \in 1 .. Len(q) + 2
              PROVE  \/ i \in DOMAIN q /\ (q \o e)[i] = q[i]
                     \/ \E j \in {1, 2} : (q \o e)[i] = e[j]
  BY <1>1
<1>2. CASE i <= Len(q)
  BY <1>1, <1>2
<1>3. CASE i > Len(q)
  <2>1. i - Len(q) \in {1, 2}
    BY <1>1, <1>3
  <2>2. (q \o e)[i] = e[i - Len(q)]
    BY <1>1, <1>3
  <2>. QED BY <2>1, <2>2
<1>. QED BY <1>1, <1>2, <1>3

\* The login is acknowledged by a client that has been handed the server's mode.
LEMMA AnswerLoginKeeps ==
  ASSUME Typed, FlowInv, AnswerLogin
  PROVE  FlowInv'
<1>1. PICK p \in First(s2c) : AnswerLogin!(p)
  BY DEF AnswerLogin
<1>2. /\ p.mode = cmode /\ cmode' = cmode /\ cmode' = ModeOnceTaken(p)
      /\ s2c' = Tail(s2c) /\ ~Gone /\ client' = "configuring" /\ UNCHANGED serverVars
  BY <1>1 DEF ModeOnceTaken, Takes, Typed, TypeOK, Mode, Gone
<1>3. ModesHandedOver'
  BY <1>2, ModesTaken DEF FlowInv
<1>4. CASE ~Serving
  BY <1>2, <1>3, <1>4, NotServingKeeps
<1>5. CASE Serving
  <2>1. /\ server = "ack" /\ client = "waiting" /\ Stream = <<"LoginSuccess">>
        /\ Stream' = Tail(Stream)
    <3>1. p.id = "LoginSuccess" /\ Takes(p) /\ UNCHANGED out
      BY <1>1 DEF serverVars
    <3>2. p.id \notin ConfigIds /\ p.id \notin PacksIds
      BY <3>1 DEF PacksIds, DataIds, ConfigIds
    <3>3. <<"SetCompression", "LoginSuccess">>[1] = "SetCompression"
      OBVIOUS
    <3>. QED BY <1>5, <3>1, <3>2, <3>3, TakenWhen
  <2>2. Stream' = <<>> /\ Stream # <<>>
    <3>1. Tail(<<"LoginSuccess">>) = <<>>
      OBVIOUS
    <3>. QED BY <2>1, <3>1
  <2>3. out = <<>> /\ s2c' = <<>>
    BY <1>2, <2>2, TakenPacket, StreamAfter DEF serverVars
  <2>4. cmode = mode
    BY <1>2, <1>3, <2>1, <2>3 DEF ModesHandedOver, ClientModeAhead, Gone, serverVars
  <2>5. OutRight' /\ OnlyVerifiedPlay'
    BY <1>1, <2>1 DEF FlowInv, OutRight, OnlyVerifiedPlay, LoggedIn, serverVars
  <2>6. StreamRight'
    BY <1>1, <2>1, <2>2 DEF StreamRight, serverVars
  <2>7. \A i \in DOMAIN c2s' :
          \/ i \in DOMAIN c2s /\ c2s'[i] = c2s[i]
          \/ /\ c2s'[i].id \in {"LoginAcknowledged", "ClientInformation"}
             /\ c2s'[i].mode = cmode
    <3>. DEFINE sent == <<Packet("LoginAcknowledged", cmode, {}), Packet("ClientInformation", cmode, {})>>
    <3>1. /\ DOMAIN sent = {1, 2} /\ Len(sent) = 2
          /\ \A i \in {1, 2} : /\ sent[i].id \in {"LoginAcknowledged", "ClientInformation"}
                               /\ sent[i].mode = cmode
      BY DEF Packet
    <3>2. /\ Packet("LoginAcknowledged", cmode, {}) \in Packets(FromClient)
          /\ Packet("ClientInformation", cmode, {}) \in Packets(FromClient)
      BY DEF Packet, Packets, FromClient, Said, Typed, TypeOK
    <3>3. sent \in Seq(Packets(FromClient)) /\ c2s \in Seq(Packets(FromClient))
      BY <3>2 DEF Typed
    <3>4. c2s' = c2s \o sent
      BY <1>1
    <3>. HIDE DEF sent
    <3>5. \A i \in DOMAIN c2s' : \/ i \in DOMAIN c2s /\ c2s'[i] = c2s[i]
                                 \/ \E j \in {1, 2} : c2s'[i] = sent[j]
      <4>1. \A i \in DOMAIN (c2s \o sent) : \/ i \in DOMAIN c2s /\ (c2s \o sent)[i] = c2s[i]
                                            \/ \E j \in {1, 2} : (c2s \o sent)[i] = sent[j]
        BY <3>1, <3>3, JoinedPair
      <4>. QED BY Zenon, <3>4, <4>1
    <3>. QED BY <3>1, <3>5
  <2>8. (\A i \in DOMAIN c2s : AnswerRight(c2s[i]))'
    <3>1. \A i \in DOMAIN c2s' : \/ i \in DOMAIN c2s /\ c2s'[i] = c2s[i]
                                 \/ AnswerRight(c2s[i])'
      BY <1>2, <2>7 DEF AnswerRight
    <3>. QED BY <1>1, <1>2, <1>5, <2>1, <3>1, AnswersThen
  <2>9. Together'
    BY <1>1, <1>2, <1>5, <2>1, <2>3, <2>4, <2>8 DEF FlowInv, Together, serverVars, Insists, Gone
  <2>10. AnswersInMode'
    <3>. SUFFICES ASSUME orderly PROVE AnswersInMode'
      BY <1>1 DEF AnswersInMode
    <3>1. c2s = <<>>
      BY <1>5, <2>1 DEF FlowInv, AnswersInMode
    <3>2. \A i \in DOMAIN c2s' : c2s'[i].mode = mode
      BY <2>4, <2>7, <3>1
    <3>. QED BY <1>2, <2>1, <2>3, <3>2 DEF AnswersInMode, serverVars
  <2>. QED BY <1>3, <2>5, <2>6, <2>9, <2>10 DEF FlowInv
<1>. QED BY <1>4, <1>5

\* The client's other answers, in the order the server's states bring them about.
LEMMA AnswerKeeps ==
  ASSUME Typed, FlowInv, Answer
  PROVE  FlowInv'
<1>1. PICK p \in First(s2c) : Answer!(p)
  BY DEF Answer
<1>2. /\ client \in {"waiting", "configuring"} /\ ~Gone /\ p.mode = cmode /\ s2c' = Tail(s2c)
      /\ UNCHANGED <<serverVars, knows, proof, orderly, strays>>
      /\ Takes(p) /\ UNCHANGED out /\ p \in Packets(FromServer)
  BY <1>1, TakenPacket DEF Takes, Gone, serverVars
<1>3. CASE p.id \in {"Pong", "Disconnect"}
  <2>1. client' \in {"done", "refused"} /\ UNCHANGED <<c2s, cmode, got>>
    BY <1>1, <1>3
  <2>2. ~Serving
    <3>. SUFFICES ASSUME Serving PROVE FALSE
      OBVIOUS
    <3>1. p.id \notin ConfigIds /\ p.id \notin PacksIds
      BY <1>3 DEF PacksIds, DataIds, ConfigIds
    <3>. QED BY <1>2, <1>3, <3>1, TakenWhen
  <2>. QED BY <1>2, <2>1, <2>2, GoneKeeps DEF Gone
<1>4. ASSUME p.id \notin {"Pong", "Disconnect"}
      PROVE  FlowInv'
  <2>1. ModesHandedOver'
    <3>1. cmode' = ModeOnceTaken(p)
      <4>1. p.id # "EncryptionRequest"
        BY <1>1
      <4>2. p.id = "SetCompression" => cmode' = [cmode EXCEPT !.packed = TRUE]
        BY <1>1
      <4>3. p.id # "SetCompression" => cmode' = cmode
        BY <1>1, <1>4
      <4>. QED BY <1>2, <4>1, <4>2, <4>3 DEF ModeOnceTaken, Typed, TypeOK, Mode
    <3>. QED BY <1>2, <3>1, ModesTaken DEF FlowInv
  <2>2. CASE ~Serving
    BY <1>2, <2>1, <2>2, NotServingKeeps
  <2>3. CASE Serving
    <3>1. /\ Stream # <<>> /\ Stream[1] = p.id /\ Stream' = Tail(Stream)
          /\ Stream \in Seq(FromServer)
          /\ \/ server = "ping" /\ client = "waiting" /\ Stream = <<"StatusResponse">>
             \/ server = "response" /\ client = "waiting" /\ Stream = <<"EncryptionRequest">>
             \/ server = "ack" /\ client = "waiting" /\ Stream = <<"LoginSuccess">>
             \/ server = "ack" /\ client = "waiting" /\ Stream = <<"SetCompression", "LoginSuccess">>
             \/ server = "packs" /\ client = "configuring" /\ p.id \in PacksIds
             \/ server \in {"finish", "play"} /\ client = "configuring" /\ p.id \in ConfigIds
      BY <1>2, <2>3, TakenWhen
    <3>2. OutRight' /\ OnlyVerifiedPlay'
      BY <1>2 DEF FlowInv, OutRight, OnlyVerifiedPlay, LoggedIn, serverVars
    <3>3. FlowInv /\ StreamRight /\ Together /\ AnswersInMode
      BY DEF FlowInv
    <3>4. CASE server = "ping"
      <4>1. p.id = "StatusResponse"
        BY <3>1, <3>4
      <4>2. /\ c2s' = Append(c2s, Packet("Ping", cmode, {}))
            /\ UNCHANGED <<client, cmode, got>>
        BY <1>1, <4>1 DEF Sends
      <4>3. Packet("Ping", cmode, {}) \in Packets(FromClient)
        BY DEF Packet, Packets, FromClient, Said, Typed, TypeOK
      <4>4. Stream' = <<>>
        <5>1. Tail(<<"StatusResponse">>) = <<>>
          OBVIOUS
        <5>. QED BY <3>1, <3>4, <5>1
      <4>5. cmode = mode
        <5>1. s2c' = <<>>
          BY <1>2, <4>4, TakenPacket, StreamAfter
        <5>. QED BY <1>2, <2>1, <3>4, <4>2, <5>1
             DEF ModesHandedOver, ClientModeAhead, Gone, serverVars
      <4>6. \A i \in DOMAIN c2s' : \/ i \in DOMAIN c2s /\ c2s'[i] = c2s[i]
                                   \/ c2s'[i] = Packet("Ping", cmode, {})
        BY <4>2, <4>3, SentAnswer
      <4>7. (\A i \in DOMAIN c2s : AnswerRight(c2s[i]))'
        <5>1. \A i \in DOMAIN c2s' : \/ i \in DOMAIN c2s /\ c2s'[i] = c2s[i]
                                     \/ AnswerRight(c2s[i])'
          BY <4>6 DEF AnswerRight, Packet
        <5>. QED BY <1>2, <2>3, <3>4, <4>2, <5>1, AnswersThen
      <4>8. Together'
        BY <1>2, <2>3, <3>1, <3>3, <3>4, <4>2, <4>7 DEF Together, serverVars, Insists, Gone
      <4>9. StreamRight'
        BY <1>2, <3>4, <4>4 DEF StreamRight, serverVars
      <4>10. AnswersInMode'
        BY <1>2, <2>3, <3>3, <3>4, <4>5, <4>6 DEF AnswersInMode, Packet, serverVars
      <4>. QED BY <2>1, <3>2, <4>8, <4>9, <4>10 DEF FlowInv
    <3>5. CASE server = "response"
      <4>1. p.id = "EncryptionRequest"
        BY <3>1, <3>5
      <4>. QED BY <1>1, <4>1
    <3>6. CASE server = "ack"
      <4>1. Stream = <<"SetCompression", "LoginSuccess">> /\ p.id = "SetCompression" /\ client = "waiting"
        <5>1. p.id # "LoginSuccess"
          BY <1>1
        <5>. QED BY <3>1, <3>6, <5>1
      <4>2. UNCHANGED <<c2s, client, got>>
        BY <1>1, <4>1
      <4>3. Stream' = <<"LoginSuccess">>
        <5>1. Tail(<<"SetCompression", "LoginSuccess">>) = <<"LoginSuccess">>
          OBVIOUS
        <5>. QED BY <3>1, <4>1, <5>1
      <4>4. (\A i \in DOMAIN c2s : AnswerRight(c2s[i]))'
        BY <1>2, <2>3, <3>6, <4>2, AnswersThen
      <4>5. Together'
        BY <1>2, <2>3, <3>3, <3>6, <4>1, <4>2, <4>4 DEF Together, serverVars, Insists, Gone
      <4>6. StreamRight'
        BY <1>2, <3>6, <4>1, <4>2, <4>3 DEF StreamRight, serverVars
      <4>7. AnswersInMode'
        BY <1>2, <2>3, <3>3, <3>6, <4>2 DEF AnswersInMode, serverVars
      <4>. QED BY <2>1, <3>2, <4>5, <4>6, <4>7 DEF FlowInv
    <3>7. CASE server \in {"packs", "finish", "play"} /\ p.id \in PacksIds
      <4>1. client = "configuring" /\ cmode = mode
        BY <2>3, <3>1, <3>3, <3>7 DEF Together
      <4>2. UNCHANGED <<client, cmode, got>>
        BY <1>1, <3>7 DEF PacksIds
      <4>3. \A i \in DOMAIN c2s' : \/ i \in DOMAIN c2s /\ c2s'[i] = c2s[i]
                                   \/ c2s'[i] = Packet("KnownPacks", cmode, knows)
        <5>1. c2s' = c2s \/ c2s' = Append(c2s, Packet("KnownPacks", cmode, knows))
          BY <1>1, <3>7 DEF PacksIds, Sends
        <5>2. Packet("KnownPacks", cmode, knows) \in Packets(FromClient)
          BY DEF Packet, Packets, FromClient, Said, Typed, TypeOK
        <5>. QED BY <5>1, <5>2, SentAnswer
      <4>4. (\A i \in DOMAIN c2s : AnswerRight(c2s[i]))'
        <5>1. \A i \in DOMAIN c2s' : \/ i \in DOMAIN c2s /\ c2s'[i] = c2s[i]
                                     \/ AnswerRight(c2s[i])'
          BY <4>3 DEF AnswerRight, Packet
        <5>. QED BY <1>2, <2>3, <3>7, <4>2, <5>1, AnswersThen
      <4>5. Together'
        BY <1>2, <2>3, <3>3, <3>7, <4>1, <4>2, <4>4 DEF Together, serverVars, Insists, Gone
      <4>6. StreamRight'
        <5>1. CASE server = "packs"
          <6>1. Stream \in Seq(PacksIds)
            BY <1>2, <2>3, <3>3, <5>1 DEF StreamRight
          <6>2. Stream' \in Seq(PacksIds)
            BY <3>1, <6>1
          <6>. QED BY <1>2, <5>1, <6>2 DEF StreamRight, serverVars
        <5>2. CASE server \in {"finish", "play"}
          <6>1. /\ Len(got) <= Len(Data) /\ \A j \in 1 .. Len(got) : got[j] = Data[j]
                /\ \E a \in Nat : Ahead(Stream, got, a)
            BY <1>2, <2>3, <3>3, <4>1, <5>2 DEF StreamRight
          <6>2. PICK a \in Nat : Ahead(Stream, got, a)
            BY <6>1
          <6>3. a - 1 \in Nat /\ Ahead(Tail(Stream), got, a - 1)
            BY <3>1, <3>7, <6>1, <6>2, AheadPassed DEF Typed
          <6>4. Ahead(Stream, got, a - 1)'
            BY <3>1, <4>2, <6>3, AheadThen
          <6>. QED BY <1>2, <4>2, <5>2, <6>1, <6>3, <6>4 DEF StreamRight, serverVars
        <5>. QED BY <3>7, <5>1, <5>2
      <4>7. AnswersInMode'
        BY <1>2, <2>3, <3>3, <3>7, <4>1, <4>2, <4>3 DEF AnswersInMode, Packet, serverVars
      <4>. QED BY <2>1, <3>2, <4>5, <4>6, <4>7 DEF FlowInv
    <3>8. CASE server \in {"finish", "play"} /\ p.id \in DataIds
      <4>1. client = "configuring" /\ cmode = mode
        BY <2>3, <3>1, <3>3, <3>8 DEF Together
      <4>2. UNCHANGED <<c2s, client, cmode>> /\ got' = Append(got, p.id)
        BY <1>1, <3>8 DEF DataIds
      <4>3. /\ Len(got) <= Len(Data) /\ \A j \in 1 .. Len(got) : got[j] = Data[j]
            /\ \E a \in Nat : Ahead(Stream, got, a)
        BY <1>2, <2>3, <3>3, <3>8, <4>1 DEF StreamRight
      <4>4. PICK a \in Nat : Ahead(Stream, got, a)
        BY <4>3
      <4>5. /\ Len(got) < Len(Data) /\ p.id = Data[Len(got) + 1]
            /\ Ahead(Tail(Stream), Append(got, p.id), 0)
        BY <3>1, <3>8, <4>3, <4>4, AheadTaken DEF Typed
      <4>6. Ahead(Stream, got, 0)'
        BY <3>1, <4>2, <4>5, AheadThen
      <4>7. Len(got') <= Len(Data) /\ \A j \in 1 .. Len(got') : got'[j] = Data[j]
        <5>1. got \in Seq(FromServer) /\ p.id \in FromServer /\ Len(Data) \in Nat
          BY <1>2, DataType DEF Typed, Packets
        <5>2. /\ Len(got) \in Nat /\ Len(got') = Len(got) + 1
              /\ \A j \in 1 .. Len(got) : got'[j] = got[j]
              /\ got'[Len(got) + 1] = p.id
          BY <4>2, <5>1
        <5>. QED BY <4>3, <4>5, <5>1, <5>2
      <4>8. StreamRight'
        BY <1>2, <3>8, <4>6, <4>7 DEF StreamRight, serverVars
      <4>9. (\A i \in DOMAIN c2s : AnswerRight(c2s[i]))'
        BY <1>2, <2>3, <3>8, <4>2, AnswersThen
      <4>10. Together'
        BY <1>2, <2>3, <3>3, <3>8, <4>1, <4>2, <4>9 DEF Together, serverVars, Insists, Gone
      <4>11. AnswersInMode'
        BY <1>2, <2>3, <3>3, <3>8, <4>1, <4>2 DEF AnswersInMode, serverVars
      <4>. QED BY <2>1, <3>2, <4>8, <4>10, <4>11 DEF FlowInv
    <3>9. CASE server \in {"finish", "play"} /\ p.id = "FinishConfiguration"
      <4>1. client = "configuring" /\ cmode = mode
        BY <2>3, <3>1, <3>3, <3>9 DEF Together
      <4>2. /\ c2s' = Append(c2s, Packet("AcknowledgeFinish", cmode, {}))
            /\ client' = "play" /\ UNCHANGED <<cmode, got>>
        BY <1>1, <3>9 DEF Sends
      <4>3. got = Data
        <5>1. /\ Len(got) <= Len(Data) /\ \A j \in 1 .. Len(got) : got[j] = Data[j]
              /\ \E a \in Nat : Ahead(Stream, got, a)
          BY <1>2, <2>3, <3>3, <3>9, <4>1 DEF StreamRight
        <5>2. got \in Seq(FromServer) /\ Data \in Seq(FromServer)
          BY DataType DEF Typed
        <5>3. Len(got) = Len(Data)
          BY <3>1, <3>9, <5>1, <5>2, AheadEnd
        <5>. QED BY <5>1, <5>2, <5>3, SeqEqual
      <4>4. \A i \in DOMAIN c2s' : \/ i \in DOMAIN c2s /\ c2s'[i] = c2s[i]
                                   \/ c2s'[i] = Packet("AcknowledgeFinish", cmode, {})
        <5>1. Packet("AcknowledgeFinish", cmode, {}) \in Packets(FromClient)
          BY DEF Packet, Packets, FromClient, Said, Typed, TypeOK
        <5>. QED BY <4>2, <5>1, SentAnswer
      <4>5. (\A i \in DOMAIN c2s : AnswerRight(c2s[i]))'
        <5>1. Data' = Data
          BY DEF Data
        <5>2. \A i \in DOMAIN c2s' : \/ i \in DOMAIN c2s /\ c2s'[i] = c2s[i]
                                     \/ AnswerRight(c2s[i])'
          BY <4>2, <4>3, <4>4, <5>1 DEF AnswerRight, Packet
        <5>. QED BY <1>2, <2>3, <3>9, <4>2, <5>2, AnswersThen
      <4>6. Together'
        BY <1>2, <2>3, <3>3, <3>9, <4>2, <4>3, <4>5 DEF Together, serverVars, Insists, Gone
      <4>7. StreamRight'
        BY <1>2, <3>9, <4>2 DEF StreamRight, serverVars
      <4>8. AnswersInMode'
        BY <1>2, <2>3, <3>3, <3>9, <4>1, <4>2, <4>4 DEF AnswersInMode, Packet, serverVars
      <4>. QED BY <2>1, <3>2, <4>6, <4>7, <4>8 DEF FlowInv
    <3>. QED BY <3>1, <3>4, <3>5, <3>6, <3>7, <3>8, <3>9 DEF ConfigIds
  <2>. QED BY <2>2, <2>3
<1>. QED BY <1>3, <1>4

\* A packet sent unasked says nothing, and only in the Configuration state is it within the
\* protocol: there the modes are settled.
LEMMA StrayKeeps ==
  ASSUME Typed, FlowInv, Stray
  PROVE  FlowInv'
<1>1. /\ client \in {"waiting", "configuring"} /\ ~Gone
      /\ UNCHANGED <<serverVars, client, cmode, knows, proof, got, s2c>>
  BY DEF Stray, Gone
<1>2. PICK id \in {"KeepAlive", "Pong", "Other", "AcknowledgeFinish"} :
        /\ c2s' = Append(c2s, Packet(id, cmode, {}))
        /\ orderly' = (orderly /\ client = "configuring" /\ id # "AcknowledgeFinish")
  BY DEF Stray, Sends
<1>3. ModesHandedOver'
  BY <1>1 DEF FlowInv, ModesHandedOver, ClientModeAhead, ModeOnceTaken, Gone, serverVars
<1>4. CASE ~Serving
  BY <1>1, <1>3, <1>4, NotServingKeeps
<1>5. CASE Serving
  <2>1. OutRight' /\ OnlyVerifiedPlay'
    BY <1>1 DEF FlowInv, OutRight, OnlyVerifiedPlay, LoggedIn, serverVars
  <2>2. Stream' = Stream
    BY <1>1, SameStream DEF serverVars
  <2>3. StreamRight'
    <3>1. \A a : Ahead(Stream, got, a)' <=> Ahead(Stream, got, a)
      BY <1>1, <2>2 DEF Ahead
    <3>. QED BY <1>1, <2>2, <3>1 DEF FlowInv, StreamRight, Serving, Gone, serverVars
  <2>4. Packet(id, cmode, {}) \in Packets(FromClient)
    BY DEF Packet, Packets, FromClient, Said, Typed, TypeOK
  <2>5. \A i \in DOMAIN c2s' : \/ i \in DOMAIN c2s /\ c2s'[i] = c2s[i]
                               \/ c2s'[i] = Packet(id, cmode, {})
    BY <1>2, <2>4, SentAnswer
  <2>6. (\A i \in DOMAIN c2s : AnswerRight(c2s[i]))'
    <3>1. PICK q : q = Packet(id, cmode, {})
      OBVIOUS
    <3>2. AnswerRight(q)'
      <4>1. q.id = id /\ (id = "AcknowledgeFinish" => ~orderly')
        BY <1>2, <3>1 DEF Packet
      <4>. QED BY <4>1 DEF AnswerRight
    <3>3. \A i \in DOMAIN c2s' : \/ i \in DOMAIN c2s /\ c2s'[i] = c2s[i]
                                 \/ AnswerRight(c2s[i])'
      BY <2>5, <3>1, <3>2 DEF AnswerRight
    <3>. QED BY <1>1, <1>2, <1>5, <3>3, AnswersThen
  <2>7. Together'
    BY <1>1, <1>2, <1>5, <2>6 DEF FlowInv, Together, Gone, serverVars, Insists
  <2>8. AnswersInMode'
    <3>. SUFFICES ASSUME orderly, client = "configuring" PROVE AnswersInMode'
      BY <1>1, <1>2 DEF AnswersInMode
    <3>1. cmode = mode /\ server \in {"ack", "packs", "finish", "play"} /\ (server = "ack" => out = <<>>)
      BY <1>5 DEF FlowInv, Together
    <3>2. \A i \in DOMAIN c2s' : c2s'[i].mode = mode
      BY <1>5, <2>5, <3>1 DEF FlowInv, AnswersInMode, Packet
    <3>. QED BY <1>1, <3>1, <3>2 DEF AnswersInMode, serverVars
  <2>. QED BY <1>3, <2>1, <2>3, <2>7, <2>8 DEF FlowInv
<1>. QED BY <1>4, <1>5

-----------------------------------------------------------------------------
(* The theorems *)

\* The invariant holds of a fresh connection.
LEMMA FlowStarts == Init => Typed /\ FlowInv
<1>. SUFFICES ASSUME Init PROVE Typed /\ FlowInv
  OBVIOUS
<1>. USE DEF Init
<1>1. TypeOK
  <2>1. mode \in Mode /\ cmode \in Mode /\ ~mode.packed
    BY DEF Mode, Plain
  <2>2. server \in DOMAIN Insists
    BY DEF Insists
  <2>3. strays \in 0..MaxStrays
    BY MaxStraysType
  <2>. QED BY <2>1, <2>2, <2>3 DEF TypeOK, LoggedIn
<1>2. /\ <<>> \in Seq(FromServer) /\ <<>> \in Seq(Packets(FromServer))
      /\ <<>> \in Seq(Packets(FromClient)) /\ DOMAIN <<>> = {}
  OBVIOUS
<1>3. Typed
  BY <1>1, <1>2, KnownPacksType DEF Typed, Clients, Parts
<1>4. Stream = <<>>
  BY <1>3, StreamType
<1>5. OutRight /\ OnlyVerifiedPlay
  BY DEF OutRight, OnlyVerifiedPlay, LoggedIn
<1>6. StreamRight
  BY <1>4 DEF StreamRight
<1>7. ModesHandedOver
  <2>1. 1 .. Len(s2c) - 1 = {}
    OBVIOUS
  <2>. QED BY <2>1 DEF ModesHandedOver, ClientModeAhead
<1>8. Together /\ AnswersInMode
  BY <1>2 DEF Together, AnswersInMode, Insists, Gone
<1>. QED BY <1>3, <1>5, <1>6, <1>7, <1>8 DEF FlowInv

\* Every step keeps it.
LEMMA FlowStep ==
  ASSUME Typed, FlowInv, [Next]_vars
  PROVE  Typed' /\ FlowInv'
<1>1. CASE Server
  <2>1. Typed'
    BY <1>1, ServerTyped
  <2>2. FlowInv'
    <3>1. CASE WriteFails
      BY <3>1, ClosedKeeps DEF WriteFails, clientVars
    <3>2. CASE Close
      BY <3>2, ClosedKeeps DEF Close, clientVars
    <3>3. CASE ReadClosed
      BY <3>3, ClosedKeeps DEF ReadClosed, Awaits, clientVars
    <3>4. CASE ReadUnexpected
      BY <3>4, ClosedKeeps DEF ReadUnexpected, Awaits, clientVars
    <3>. QED BY <1>1, <3>1, <3>2, <3>3, <3>4, WriteKeeps, EarlyReadsKeep, ResponseKeeps,
                SessionKeeps, AcknowledgedKeeps, ConfigurationReadsKeep DEF Server
  <2>. QED BY <2>1, <2>2
<1>2. CASE Proceeds \/ Reset \/ Stray \/ Leave
  <2>1. Typed'
    BY <1>2, ClientTyped
  <2>2. FlowInv'
    <3>1. CASE EndOfStream
      BY <3>1, GoneKeeps DEF Serving, EndOfStream, Gone
    <3>2. CASE Reset
      BY <3>2, GoneKeeps DEF Serving, Reset, Gone
    <3>3. CASE Leave
      BY <3>3, GoneKeeps DEF Leave, Gone
    <3>. QED BY <1>2, <3>1, <3>2, <3>3, HelloKeeps, AnswerEncryptionKeeps, AnswerLoginKeeps,
                AnswerKeeps, StrayKeeps DEF Proceeds
  <2>. QED BY <2>1, <2>2
<1>3. CASE UNCHANGED vars
  <2>1. UNCHANGED <<config, server, mode, out, verdict, player, have_info, packs, client, cmode,
                    knows, proof, got, orderly, strays, c2s, s2c>>
    BY <1>3 DEF vars, serverVars, clientVars
  <2>2. Typed'
    BY <2>1 DEF Typed, TypeOK, LoggedIn
  <2>3. Stream' = Stream
    BY <2>1, SameStream
  <2>4. \A a : Ahead(Stream, got, a)' <=> Ahead(Stream, got, a)
    BY <2>1, <2>3 DEF Ahead
  <2>5. OutRight' /\ OnlyVerifiedPlay' /\ AnswersInMode'
    BY <2>1, <2>3 DEF FlowInv, OutRight, OnlyVerifiedPlay, LoggedIn, AnswersInMode, Serving, Gone
  <2>6. StreamRight'
    BY <2>1, <2>3, <2>4 DEF FlowInv, StreamRight, Serving, Gone
  <2>7. ModesHandedOver'
    BY <2>1 DEF FlowInv, ModesHandedOver, ClientModeAhead, ModeOnceTaken, Gone
  <2>8. Together'
    BY <2>1, <2>3 DEF FlowInv, Together, Serving, AnswerRight, Gone
  <2>. QED BY <2>2, <2>5, <2>6, <2>7, <2>8 DEF FlowInv
<1>. QED BY <1>1, <1>2, <1>3 DEF Next

\* The invariant holds in every state of a connection.
LEMMA FlowInvariant == Spec => [](Typed /\ FlowInv)
BY FlowStarts, FlowStep, PTL DEF Spec

\* Every state of a connection is well formed: a logged-in connection is encrypted exactly in
\* online mode, and compressed only where the threshold allows it (connection.rs Connection).
THEOREM TypeCorrect == Spec => []TypeOK
<1>1. Typed => TypeOK
  BY DEF Typed
<1>. QED BY <1>1, FlowInvariant, PTL

\* Through the switch to encryption and the switch to compression, each side reads what it is
\* sent in the mode it was written in (connection.rs login_phase, finish_login).
THEOREM AlwaysReadable == Spec => []Readable
<1>1. Typed /\ FlowInv => Readable
  <2>. SUFFICES ASSUME Typed, FlowInv PROVE Readable
    OBVIOUS
  <2>1. ASSUME s2c # <<>>, ~Gone PROVE Head(s2c).mode = cmode
    BY <2>1 DEF FlowInv, ModesHandedOver
  <2>2. ASSUME c2s # <<>>, Awaits, orderly PROVE Head(c2s).mode = mode
    <3>1. 1 \in DOMAIN c2s /\ Head(c2s) = c2s[1]
      BY <2>2 DEF Typed
    <3>. QED BY <2>2, <3>1 DEF FlowInv, AnswersInMode, Serving, Awaits
  <2>. QED BY <2>1, <2>2 DEF Readable
<1>. QED BY <1>1, FlowInvariant, PTL

\* In online mode whoever is logged in has proved the key exchange and was vouched for by the
\* session server, under whose profile they play (connection.rs login_phase, check_session).
THEOREM OnlyVerifiedPlayAlways == Spec => []OnlyVerifiedPlay
<1>1. FlowInv => OnlyVerifiedPlay
  BY DEF FlowInv
<1>. QED BY <1>1, FlowInvariant, PTL

\* When the Play state begins, a client that keeps to the protocol holds all the configuration
\* data and has left the Configuration state itself; for one that acknowledged the end early,
\* the rest of the data and the end are queued already (connection.rs configuration_phase).
THEOREM PlayAfterConfigurationAlways == Spec => []PlayAfterConfiguration
<1>1. Typed /\ FlowInv => PlayAfterConfiguration
  <2>. SUFFICES ASSUME Typed, FlowInv, server = "play" PROVE PlayAfterConfiguration
    BY DEF PlayAfterConfiguration
  <2>1. Together /\ Serving /\ out = <<>>
    BY DEF FlowInv, OutRight, Serving
  <2>2. /\ client \in {"configuring", "play", "left"}
        /\ orderly => client # "configuring"
        /\ client = "play" \/ orderly => got = Data
    BY <2>1 DEF Together, Typed, Clients, Gone
  <2>3. ASSUME client = "configuring"
        PROVE  RestQueued
    <3>1. /\ Len(got) <= Len(Data) /\ \A j \in 1 .. Len(got) : got[j] = Data[j]
          /\ \E a \in Nat : Ahead(Stream, got, a)
      BY <2>1, <2>3 DEF FlowInv, StreamRight, Gone
    <3>2. PICK a \in Nat : Ahead(Stream, got, a)
      BY <3>1
    <3>3. PICK rest \in Nat : rest = Len(Data) - Len(got)
      <4>1. Len(Data) \in Nat /\ Len(got) \in Nat
        BY DataType DEF Typed
      <4>2. Len(Data) - Len(got) \in Nat
        BY <3>1, <4>1
      <4>. QED BY <4>2
    <3>4. Len(Stream) = Len(s2c) /\ \A i \in 1 .. Len(s2c) : Stream[i] = s2c[i].id
      <4>1. Len(out) = 0 /\ Len(s2c) \in Nat
        BY <2>1 DEF Typed
      <4>. QED BY <4>1, StreamType DEF Stream
    <3>5. /\ a + rest + 1 <= Len(s2c) /\ Len(s2c) \in Nat
          /\ \A j \in 1 .. rest : Stream[a + j] = Data[Len(got) + j]
          /\ Stream[a + rest + 1] = "FinishConfiguration"
      BY <3>2, <3>3, <3>4 DEF Ahead, Typed
    <3>6. a \in 0 .. Len(s2c) - rest - 1
      BY <3>5
    <3>7. /\ \A j \in 1 .. rest : s2c[a + j].id = Data[Len(got) + j]
          /\ s2c[a + rest + 1].id = "FinishConfiguration"
      <4>1. a + rest + 1 \in 1 .. Len(s2c) /\ \A j \in 1 .. rest : a + j \in 1 .. Len(s2c)
        BY <3>5
      <4>. QED BY <3>4, <3>5, <4>1
    <3>8. \A j \in DOMAIN got : got[j] = Data[j]
      BY <3>1 DEF Typed
    <3>. QED BY <3>3, <3>6, <3>7, <3>8 DEF RestQueued
  <2>. QED BY <2>2, <2>3 DEF PlayAfterConfiguration
<1>. QED BY <1>1, FlowInvariant, PTL

=============================================================================
