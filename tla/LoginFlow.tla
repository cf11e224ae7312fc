----------------------------- MODULE LoginFlow ------------------------------
(***************************************************************************)
(* One connection from its handshake to the Play state (loadstone-net      *)
(* connection.rs, with the session check of auth.rs): status, offline and  *)
(* online login, the switches to encryption and compression, refusals, and *)
(* the Configuration state.  The client is outside the repository: a       *)
(* vanilla one, as the tests imitate it, that may also send packets nobody *)
(* expects or close its socket at any moment.                              *)
(*                                                                         *)
(* A packet carries the mode it was written in.  The reader can take it    *)
(* apart only while it reads in the same mode.                             *)
(***************************************************************************)
EXTENDS Integers, Sequences

CONSTANTS
  Registries,  \* how many synchronized registries are sent
  KnownPacks,  \* the lists of data packs a client may know
  MaxStrays    \* bound on the packets a client sends unasked

ASSUME RegistriesType == Registries \in Nat
ASSUME KnownPacksType == KnownPacks \subseteq SUBSET {"core", "other"}
ASSUME MaxStraysType  == MaxStrays \in Nat

VARIABLES
  config,    \* ConnectionConfig: online_mode, enable_status, compression_threshold >= 0
  server,    \* the await point of the server's task
  mode,      \* the Connection: is its transport encrypted, does it compress?
  out,       \* the packets the server has yet to write before it awaits again
  verdict,   \* what the session server said
  player,    \* the identity the login completed with
  have_info, \* configuration_phase's locals
  packs,
  client,    \* what the client is doing
  cmode,     \* the client's mode
  knows,     \* the data packs the client knows
  proof,     \* which parts of its EncryptionResponse were right
  got,       \* the configuration data the client has received, in order
  orderly,   \* has the client kept to the protocol so far?
  strays,
  c2s, s2c   \* the two directions of the socket

serverVars == <<config, server, mode, out, verdict, player, have_info, packs>>
clientVars == <<client, cmode, knows, proof, got, orderly, strays>>
vars       == <<serverVars, clientVars, c2s, s2c>>

Mode  == [cipher : BOOLEAN, packed : BOOLEAN]
Plain == [cipher |-> FALSE, packed |-> FALSE]
Packet(id, m, says) == [id |-> id, mode |-> m, says |-> says]

\* The packet at the head of a queue, when there is one.
First(q) == {q[i] : i \in DOMAIN q \cap {1}}

\* The client's end of the socket is closed.
Gone   == client \in {"refused", "done", "left", "cut", "reset"}

\* The server waits in read_packet.
Awaits == out = <<>> /\ server \notin {"session", "closing", "closed", "play"}

Init ==
  /\ config \in [online : BOOLEAN, status : BOOLEAN, compress : BOOLEAN]
  /\ server = "handshake"
  /\ mode = Plain
  /\ out = <<>>
  /\ verdict = "none"
  /\ player = "nobody"
  /\ have_info = FALSE
  /\ packs = {}
  /\ client = "connected"
  /\ cmode = Plain
  /\ knows \in KnownPacks
  /\ proof = {}
  /\ got = <<>>
  /\ orderly = TRUE
  /\ strays = 0
  /\ c2s = <<>>
  /\ s2c = <<>>

-----------------------------------------------------------------------------
(* The server: write_packet, read_packet and the ends of a connection *)

\* The mode after a packet is written: finish_login calls set_compression.
ModeAfter(m, id) == IF id = "SetCompression" THEN [m EXCEPT !.packed = TRUE] ELSE m

\* write_packet; a packet written to a closed socket is lost, or an error.
Write ==
  /\ out # <<>>
  /\ s2c' = IF Gone THEN s2c ELSE Append(s2c, Packet(Head(out), mode, {}))
  /\ mode' = ModeAfter(mode, Head(out))
  /\ out' = Tail(out)
  /\ UNCHANGED <<config, server, verdict, player, have_info, packs, clientVars, c2s>>

WriteFails ==
  /\ out # <<>> /\ Gone
  /\ out' = <<>>
  /\ server' = "closed"
  /\ UNCHANGED <<config, mode, verdict, player, have_info, packs, clientVars, c2s, s2c>>

\* run_connection returns and its stream is dropped.
Close ==
  /\ server = "closing" /\ out = <<>>
  /\ server' = "closed"
  /\ UNCHANGED <<config, mode, out, verdict, player, have_info, packs, clientVars, c2s, s2c>>

\* read_packet at the end of the client's stream.
ReadClosed ==
  /\ Awaits /\ c2s = <<>> /\ Gone
  /\ server' = "closed"
  /\ UNCHANGED <<config, mode, out, verdict, player, have_info, packs, clientVars, c2s, s2c>>

\* The packet each state outside Configuration insists on.
Insists == [handshake |-> "Handshake", status |-> "StatusRequest", ping |-> "Ping",
            login |-> "LoginStart", response |-> "EncryptionResponse",
            ack |-> "LoginAcknowledged"]

\* Any other id there, or bytes that were written in another mode, are an error.
ReadUnexpected ==
  /\ Awaits /\ c2s # <<>>
  /\ \/ Head(c2s).mode # mode
     \/ server \in DOMAIN Insists /\ Head(c2s).id # Insists[server]
  /\ c2s' = Tail(c2s)
  /\ server' = "closed"
  /\ UNCHANGED <<config, mode, out, verdict, player, have_info, packs, clientVars, s2c>>

\* The server takes packet p off the socket in the given state.
Reads(state, p) ==
  /\ server = state /\ Awaits
  /\ p.mode = mode
  /\ c2s' = Tail(c2s)

-----------------------------------------------------------------------------
(* Status and login *)

\* Faulty variant: the connection is dropped without a reason.
Silence == <<>>

\* send_disconnect
Refusal == <<"Disconnect">>

\* run_connection on the handshake, and the checks before the first read of
\* status_phase and login_phase.
ReadHandshake ==
  \E p \in First(c2s) :
    /\ Reads("handshake", p) /\ p.id = "Handshake"
    /\ LET turnedAway == "login" \in p.says /\ "current" \notin p.says
       IN  /\ server' = CASE "status" \in p.says /\ config.status -> "status"
                          [] "login" \in p.says /\ ~turnedAway -> "login"
                          [] OTHER -> "closing"
           /\ out' = IF turnedAway THEN Refusal ELSE <<>>
    /\ UNCHANGED <<config, mode, verdict, player, have_info, packs, clientVars, s2c>>

\* status_phase: one response, then one pong.
ReadStatus ==
  \E p \in First(c2s) :
    /\ \/ /\ Reads("status", p) /\ p.id = "StatusRequest"
          /\ server' = "ping" /\ out' = <<"StatusResponse">>
       \/ /\ Reads("ping", p) /\ p.id = "Ping"
          /\ server' = "closing" /\ out' = <<"Pong">>
    /\ UNCHANGED <<config, mode, verdict, player, have_info, packs, clientVars, s2c>>

\* Faulty variant: compression is announced whatever the threshold.
Always == <<"SetCompression">>

\* A negative threshold sends nothing.
Announced == IF config.compress THEN <<"SetCompression">> ELSE <<>>

\* finish_login up to its read.
FinishLogin(who) ==
  /\ player' = who
  /\ server' = "ack"
  /\ out' = Announced \o <<"LoginSuccess">>

\* login_phase on LoginStart: offline, the client is who it says it is.
ReadLoginStart ==
  \E p \in First(c2s) :
    /\ Reads("login", p) /\ p.id = "LoginStart"
    /\ IF config.online
         THEN server' = "response" /\ out' = <<"EncryptionRequest">> /\ UNCHANGED player
         ELSE FinishLogin("claimed")
    /\ UNCHANGED <<config, mode, verdict, have_info, packs, clientVars, s2c>>

\* Faulty variant: the reply to a bad token goes out before encryption is on.
PlainReply(m, token_echoed) == IF token_echoed THEN [m EXCEPT !.cipher = TRUE] ELSE m

\* enable_encryption comes before the token's verdict is acted on.
Encrypted(m, token_echoed) == [m EXCEPT !.cipher = TRUE]

\* login_phase on EncryptionResponse: a secret of the wrong length is an error,
\* a token that was not echoed is refused.
ReadResponse ==
  \E p \in First(c2s) :
    /\ Reads("response", p) /\ p.id = "EncryptionResponse"
    /\ LET token_echoed == "token" \in p.says
       IN  IF "secret" \notin p.says
             THEN server' = "closed" /\ UNCHANGED <<mode, out>>
             ELSE /\ mode' = Encrypted(mode, token_echoed)
                  /\ server' = IF token_echoed THEN "session" ELSE "closing"
                  /\ out' = IF token_echoed THEN <<>> ELSE Refusal
    /\ UNCHANGED <<config, verdict, player, have_info, packs, clientVars, s2c>>

\* Faulty variant: whoever was not rejected is let in.
NotRejected(v) == v # "Rejected"

Verified(v) == v = "Verified"

\* check_session, which its timeout ends, and the three arms after it.
CheckSession ==
  /\ server = "session"
  /\ verdict' \in {"Verified", "Rejected", "Unavailable"}
  /\ IF Verified(verdict')
       THEN FinishLogin("profile")
       ELSE server' = "closing" /\ out' = Refusal /\ UNCHANGED player
  /\ UNCHANGED <<config, mode, have_info, packs, clientVars, c2s, s2c>>

-----------------------------------------------------------------------------
(* Configuration *)

\* finish_login's read, and what configuration_phase writes before its first.
ReadAcknowledged ==
  \E p \in First(c2s) :
    /\ Reads("ack", p) /\ p.id = "LoginAcknowledged"
    /\ server' = "packs"
    /\ out' = <<"Brand", "FeatureFlags", "KnownPacks">>
    /\ UNCHANGED <<config, mode, verdict, player, have_info, packs, clientVars, s2c>>

Data == [i \in 1..Registries |-> "RegistryData"] \o <<"UpdateTags">>

Echo(p) == IF p.id = "KeepAlive" THEN <<"KeepAlive">> ELSE <<>>

\* One turn of `while !have_info || client_packs.is_empty()`.  After the loop a
\* client without minecraft:core is logged, and sent the registries like any other.
ReadPacks ==
  \E p \in First(c2s) :
    /\ Reads("packs", p)
    /\ have_info' = (have_info \/ p.id = "ClientInformation")
    /\ packs' = IF p.id = "KnownPacks" THEN p.says ELSE packs
    /\ IF have_info' /\ packs' # {}
         THEN server' = "finish" /\ out' = Data \o <<"FinishConfiguration">>
         ELSE UNCHANGED server /\ out' = Echo(p)
    /\ UNCHANGED <<config, mode, verdict, player, clientVars, s2c>>

\* Faulty variant: anything the client says ends the state.
Anything(id) == TRUE

EndsConfiguration(id) == id = "AcknowledgeFinish"

\* One turn of the last loop.
ReadFinish ==
  \E p \in First(c2s) :
    /\ Reads("finish", p)
    /\ server' = IF EndsConfiguration(p.id) THEN "play" ELSE "finish"
    /\ out' = Echo(p)
    /\ UNCHANGED <<config, mode, verdict, player, have_info, packs, clientVars, s2c>>

Server ==
  \/ Write \/ WriteFails \/ Close \/ ReadClosed \/ ReadUnexpected
  \/ ReadHandshake \/ ReadStatus \/ ReadLoginStart \/ ReadResponse \/ CheckSession
  \/ ReadAcknowledged \/ ReadPacks \/ ReadFinish

-----------------------------------------------------------------------------
(* The client *)

Sends(id, says) == c2s' = Append(c2s, Packet(id, cmode, says))

\* A client does not wait between its handshake and the packet after it.
Hello ==
  /\ client = "connected"
  /\ \E next \in {"status", "login", "unknown"}, version \in {"current", "old"} :
       /\ orderly' = (next # "unknown")
       /\ c2s' = <<Packet("Handshake", cmode, {next, version}),
                   Packet(IF next = "status" THEN "StatusRequest" ELSE "LoginStart", cmode, {})>>
  /\ client' = "waiting"
  /\ UNCHANGED <<serverVars, cmode, knows, proof, got, strays, s2c>>

\* The client takes packet p off the socket; one written in another mode is noise,
\* and nothing behind it can be read either.
Takes(p) ==
  /\ client \in {"waiting", "configuring"}
  /\ p.mode = cmode
  /\ s2c' = Tail(s2c)

\* It answers an EncryptionRequest, rightly or not, and switches to ciphertext.
AnswerEncryption ==
  \E p \in First(s2c), right \in SUBSET {"secret", "token"} :
    /\ Takes(p) /\ p.id = "EncryptionRequest"
    /\ Sends("EncryptionResponse", right)
    /\ proof' = right
    /\ orderly' = (orderly /\ "secret" \in right)
    /\ cmode' = [cmode EXCEPT !.cipher = TRUE]
    /\ UNCHANGED <<serverVars, client, knows, got, strays>>

\* It acknowledges the login and sends its information without waiting.
AnswerLogin ==
  \E p \in First(s2c) :
    /\ Takes(p) /\ p.id = "LoginSuccess"
    /\ c2s' = c2s \o <<Packet("LoginAcknowledged", cmode, {}),
                       Packet("ClientInformation", cmode, {})>>
    /\ client' = "configuring"
    /\ UNCHANGED <<serverVars, cmode, knows, proof, got, orderly, strays>>

\* Its other answers.
Answer ==
  \E p \in First(s2c) :
    /\ Takes(p)
    /\ CASE p.id = "StatusResponse" -> Sends("Ping", {}) /\ UNCHANGED <<client, cmode, got>>
         [] p.id = "Pong"           -> client' = "done" /\ UNCHANGED <<c2s, cmode, got>>
         [] p.id = "Disconnect"     -> client' = "refused" /\ UNCHANGED <<c2s, cmode, got>>
         [] p.id = "SetCompression" -> cmode' = [cmode EXCEPT !.packed = TRUE]
                                       /\ UNCHANGED <<c2s, client, got>>
         [] p.id = "KnownPacks"     -> Sends("KnownPacks", knows) /\ UNCHANGED <<client, cmode, got>>
         [] p.id \in {"RegistryData", "UpdateTags"}
                                    -> got' = Append(got, p.id) /\ UNCHANGED <<c2s, client, cmode>>
         [] p.id = "FinishConfiguration"
                                    -> Sends("AcknowledgeFinish", {}) /\ client' = "play"
                                       /\ UNCHANGED <<cmode, got>>
         [] p.id \in {"Brand", "FeatureFlags", "KeepAlive"}
                                    -> UNCHANGED <<c2s, client, cmode, got>>
         [] OTHER -> FALSE
    /\ UNCHANGED <<serverVars, knows, proof, orderly, strays>>

\* The server's end of the stream.
EndOfStream ==
  /\ client \in {"waiting", "configuring"}
  /\ server = "closed" /\ s2c = <<>>
  /\ client' = "cut"
  /\ UNCHANGED <<serverVars, cmode, knows, proof, got, orderly, strays, c2s, s2c>>

\* A socket closed over unread bytes is reset: what its peer has not read is lost.
Reset ==
  /\ client \in {"waiting", "configuring"}
  /\ server = "closed" /\ c2s # <<>>
  /\ client' = "reset"
  /\ s2c' = <<>>
  /\ UNCHANGED <<serverVars, cmode, knows, proof, got, orderly, strays, c2s>>

\* A packet nobody asked for.  Only the Configuration state has room for it, and not
\* for an acknowledgement of what has not ended.
Stray ==
  /\ client \in {"waiting", "configuring"}
  /\ strays < MaxStrays
  /\ strays' = strays + 1
  /\ \E id \in {"KeepAlive", "Pong", "Other", "AcknowledgeFinish"} :
       /\ Sends(id, {})
       /\ orderly' = (orderly /\ client = "configuring" /\ id # "AcknowledgeFinish")
  /\ UNCHANGED <<serverVars, client, cmode, knows, proof, got, s2c>>

Leave ==
  /\ ~Gone
  /\ client' = "left"
  /\ s2c' = <<>>
  /\ UNCHANGED <<serverVars, cmode, knows, proof, got, orderly, strays, c2s>>

\* What a client does without being able to refuse.
Proceeds == Hello \/ AnswerEncryption \/ AnswerLogin \/ Answer \/ EndOfStream

Next == Server \/ Proceeds \/ Reset \/ Stray \/ Leave

\* The server's task is polled whenever it can go on, and the session check has a
\* timeout; a client that stays answers what it is sent.
Fairness == WF_vars(Server) /\ WF_vars(Proceeds)

Spec == Init /\ [][Next]_vars /\ Fairness

-----------------------------------------------------------------------------
(* Properties *)

\* The states after finish_login.
LoggedIn == server \in {"ack", "packs", "finish", "play"}

\* Types; and a logged-in connection is encrypted exactly in online mode, and
\* compressed only where the threshold allows it (connection.rs Connection).
TypeOK ==
  /\ config \in [online : BOOLEAN, status : BOOLEAN, compress : BOOLEAN]
  /\ server \in DOMAIN Insists \cup {"session", "packs", "finish", "play", "closing", "closed"}
  /\ mode \in Mode /\ cmode \in Mode
  /\ verdict \in {"none", "Verified", "Rejected", "Unavailable"}
  /\ player \in {"nobody", "claimed", "profile"}
  /\ have_info \in BOOLEAN
  /\ packs \in SUBSET {"core", "other"}
  /\ strays \in 0..MaxStrays
  /\ orderly \in BOOLEAN
  /\ LoggedIn => mode.cipher = config.online
  /\ mode.packed => config.compress

\* Whoever reads next reads in the mode the packet was written in, through both
\* switches and in both directions; the server may count on it only as long as
\* the client keeps to the protocol (connection.rs:473-478, 537-545).
Readable ==
  /\ s2c # <<>> /\ ~Gone => Head(s2c).mode = cmode
  /\ c2s # <<>> /\ Awaits /\ orderly => Head(c2s).mode = mode

\* In online mode nobody gets past the login who did not prove the key exchange
\* and was not vouched for by the session server, and it is the session server's
\* profile they play as, never the name they claimed (connection.rs:465-525).
OnlyVerifiedPlay ==
  LoggedIn /\ config.online =>
    proof = {"secret", "token"} /\ verdict = "Verified" /\ player = "profile"

\* What the client still lacks of the data is queued for it, in order and in one piece,
\* with the end of the Configuration state right behind.
RestQueued ==
  LET rest == Len(Data) - Len(got)
  IN  /\ \A j \in DOMAIN got : got[j] = Data[j]
      /\ \E a \in 0 .. Len(s2c) - rest - 1 :
           /\ \A j \in 1..rest : s2c[a + j].id = Data[Len(got) + j]
           /\ s2c[a + rest + 1].id = "FinishConfiguration"

\* No Play packet can reach a client that would read it as a Configuration packet: when the
\* Play state begins, a client that keeps to the protocol has every registry and the tags
\* and has left the Configuration state itself; and for one that acknowledged the end
\* before it came, the rest and the end are written already, ahead of anything the Play
\* state will write (connection.rs:640-709).
PlayAfterConfiguration ==
  server = "play" =>
    /\ client \in {"configuring", "play", "left"}
    /\ orderly => client # "configuring"
    /\ client = "play" \/ orderly => got = Data
    /\ client = "configuring" => RestQueued

\* A client that keeps to the protocol and stays is let in or told why not: it is
\* cut off without a word only where enable-status is off.  Not covered: a client
\* whose list of packs is empty, for whom the loop never ends, and a reason lost
\* with a reset connection (connection.rs:384-397, 478-520).
LoginAnswered ==
  <>(\/ server = "play" /\ client = "play"
     \/ client \in {"refused", "done", "left", "reset"}
     \/ client = "cut" /\ ~config.status
     \/ ~orderly
     \/ knows = {})
=============================================================================
