------------------------------- MODULE Session -------------------------------
(***************************************************************************)
(* How a session comes about, end to end: a SOCKS client's task in the     *)
(* proxy (handle_connection in proxy.rs, client_handshake in steal.rs) and *)
(* the gateway's task of GatewayConnection, with what they send each other *)
(* inside TLS: the auth frame, the server's ephemeral key, the CONNECT     *)
(* frame and its answer.  A connection of Conns is made by such a task, or *)
(* by a stranger that GatewayConnection describes.                         *)
(*                                                                         *)
(* Cryptography is symbolic.  A public key is named by its secret, what    *)
(* Diffie-Hellman yields by the set of the two secrets, and what HKDF      *)
(* yields by its label and its inputs.  Random values are fresh: those of  *)
(* a connection are named after it.                                        *)
(***************************************************************************)
EXTENDS GatewayConnection, Sequences

CONSTANT Targets    \* what SOCKS clients ask for

VARIABLES
    task,    \* per connection: the phase of the client's task, "idle" if it has none
    dial,    \* per connection: the endpoint's keys and the target the task was given
    reply,   \* per connection: the SOCKS reply the client has been sent
    up,      \* per connection: what is on its way to the gateway, or to the CDN
    down,    \* per connection: what is on its way back
    codec,   \* per connection: the client's FrameCodec
    gcodec,  \* per connection: the gateway's FrameCodec
    dest     \* per connection: the target the gateway has connected to

ends == <<codec, gcodec, dest>>
session == <<task, dial, reply, up, down, codec, gcodec, dest>>
gateway == vars
all == <<vars, session>>

Static == <<"gateway", "static">>    \* server_static_secret
Psk == "psk"                         \* CLIENT_PSK
ClientSecret(c) == <<"client", c>>   \* the ephemeral secret of client_handshake

\* An endpoint's server_pub and psk, which need not be the gateway's.
Keys == [pub : {Static, <<"gateway", "other">>}, psk : {Psk, "other"}]
Nowhere == "nowhere"
NoDial == [pub |-> Static, psk |-> Psk, target |-> Nowhere]
NoCodec == [key |-> <<>>, send |-> <<>>, recv |-> <<>>]

SessionInit ==
    /\ Init
    /\ task = [c \in Conns |-> "idle"]
    /\ dial = [c \in Conns |-> NoDial]
    /\ reply = [c \in Conns |-> "none"]
    /\ up = [c \in Conns |-> <<>>]
    /\ down = [c \in Conns |-> <<>>]
    /\ codec = [c \in Conns |-> NoCodec]
    /\ gcodec = [c \in Conns |-> NoCodec]
    /\ dest = [c \in Conns |-> Nowhere]

-----------------------------------------------------------------------------
(* Keys and frames *)

DH(a, b) == {a, b}
AuthToken(shared, psk) == <<"auth", shared, psk>>
SessionKey(shared) == <<"session", shared>>

AuthFrame(c) ==
    [type |-> "auth", public |-> ClientSecret(c),
     token |-> AuthToken(DH(ClientSecret(c), dial[c].pub), dial[c].psk),
     c2s |-> <<"c2s", c>>, s2c |-> <<"s2c", c>>]

\* server_derive_session: the token it expects for the public key it was sent.
Verified(f) == f.token = AuthToken(DH(Static, f.public), Psk)

ServerSecret(c) == <<"server", c>>

FrameCodec(key, send, recv) == [key |-> key, send |-> send, recv |-> recv]

GatewayCodec(c, f) ==
    FrameCodec(SessionKey(DH(ServerSecret(c), f.public)), f.s2c, f.c2s)

\* Mutant of ClientCodec: one prefix for both directions.
ClientCodec_OnePrefix(c, public) ==
    FrameCodec(SessionKey(DH(ClientSecret(c), public)), <<"s2c", c>>, <<"s2c", c>>)
ClientCodec(c, public) ==
    FrameCodec(SessionKey(DH(ClientSecret(c), public)), <<"c2s", c>>, <<"s2c", c>>)

Seal(k, body) == [type |-> "frame", key |-> k.key, prefix |-> k.send, body |-> body]
Opens(k, m) == m.type = "frame" /\ m.key = k.key /\ m.prefix = k.recv

Send(queue, c, m) == [queue EXCEPT ![c] = Append(@, m)]
Receive(queue, c) == [queue EXCEPT ![c] = Tail(@)]
Arrived(queue, c) == queue[c] # <<>>
Raw(m) == [type |-> m]

-----------------------------------------------------------------------------
(* The client's task *)

Move(c, p) == task' = [task EXCEPT ![c] = p]
Answer(c, r) == reply' = [reply EXCEPT ![c] = r]

\* The SOCKS greeting and request are accepted, and connect_tls takes the current
\* endpoint.  (Refused ones end the task; nothing else changes.)
Request(c, k, t) ==
    /\ task[c] = "idle" /\ phase[c] = "none"
    /\ Move(c, "dialing")
    /\ dial' = [dial EXCEPT ![c] = [pub |-> k.pub, psk |-> k.psk, target |-> t]]
    /\ UNCHANGED <<gateway, reply, up, down, ends>>

\* TlsClient::connect reaches the gateway's listener.  A ClientHello of this client
\* has a session id of 32 bytes; the gateway's one read may see only part of it.
Dialed(c, h) ==
    /\ task[c] = "dialing"
    /\ h \in {"token", "partial"}
    /\ Accept(c, [hello |-> h, subscribed |-> TRUE,
                  psk |-> Verified(AuthFrame(c))])
    /\ Move(c, "tls")
    /\ UNCHANGED <<dial, reply, up, down, ends>>

\* TCP or TLS fails, or GATEWAY_CONNECT_TIMEOUT elapses.
ConnectFails(c) ==
    /\ task[c] \in {"dialing", "tls"}
    /\ Move(c, "closed") /\ Answer(c, "failure")
    /\ UNCHANGED <<gateway, dial, up, down, ends>>

\* The TLS handshake is done at this end, with the gateway or, through its
\* fallback, with the CDN; client_handshake sends the auth frame.
ClientHandshake(c) ==
    /\ task[c] = "tls"
    /\ phase[c] \in {"tls", "fallback"}
    /\ Move(c, "handshake")
    /\ up' = Send(up, c, AuthFrame(c))
    /\ UNCHANGED <<gateway, dial, reply, down, ends>>

\* read_exact returns 32 bytes, whatever they are: they are taken for the server's
\* ephemeral key, and the CONNECT frame goes out.
ServerKeyArrives(c) ==
    /\ task[c] = "handshake"
    /\ Arrived(down, c) /\ Head(down[c]).type \in {"key", "bytes"}
    /\ LET m == Head(down[c])
           k == ClientCodec(c, IF m.type = "key" THEN m.public ELSE <<"bytes", c>>) IN
           /\ codec' = [codec EXCEPT ![c] = k]
           /\ up' = Send(up, c, Seal(k, dial[c].target))
    /\ down' = Receive(down, c)
    /\ Move(c, "connect")
    /\ UNCHANGED <<gateway, dial, reply, gcodec, dest>>

\* Mutant of HandshakeFails: the error is passed on without a SOCKS reply.
HandshakeFails_Silent(c) ==
    /\ task[c] = "handshake"
    /\ Move(c, "closed")
    /\ UNCHANGED <<gateway, dial, reply, up, down, ends>>

\* Three bytes and the end, the end at once, or any other error.
HandshakeFails(c) ==
    /\ task[c] = "handshake"
    /\ Move(c, "closed") /\ Answer(c, "failure")
    /\ UNCHANGED <<gateway, dial, up, down, ends>>

AckArrives(c) ==
    /\ task[c] = "connect"
    /\ Arrived(down, c) /\ Opens(codec[c], Head(down[c]))
    /\ down' = Receive(down, c)
    /\ IF Head(down[c]).body = "OK" THEN Move(c, "relay") /\ Answer(c, "success")
                                    ELSE Move(c, "closed") /\ Answer(c, "failure")
    /\ UNCHANGED <<gateway, dial, up, ends>>

\* read_frame returns an error, and `?` ends the task without a SOCKS reply.
AckFails(c) ==
    /\ task[c] = "connect"
    /\ Move(c, "closed")
    /\ UNCHANGED <<gateway, dial, reply, up, down, ends>>

\* The relay, which Tunnel describes, is over.
RelayEnds(c) ==
    /\ task[c] = "relay"
    /\ Move(c, "closed")
    /\ UNCHANGED <<gateway, dial, reply, up, down, ends>>

\* Both tasks of the connection are gone.
Forget(c) ==
    /\ task[c] = "closed" /\ phase[c] = "none"
    /\ Move(c, "idle") /\ Answer(c, "none")
    /\ dial' = [dial EXCEPT ![c] = NoDial]
    /\ up' = [up EXCEPT ![c] = <<>>] /\ down' = [down EXCEPT ![c] = <<>>]
    /\ codec' = [codec EXCEPT ![c] = NoCodec] /\ gcodec' = [gcodec EXCEPT ![c] = NoCodec]
    /\ dest' = [dest EXCEPT ![c] = Nowhere]
    /\ UNCHANGED gateway

-----------------------------------------------------------------------------
(* The gateway's task, which GatewayConnection describes, with what it     *)
(* reads and writes *)

Decides(c) == (StartTls(c) \/ Fallback(c)) /\ UNCHANGED session

\* The acceptor reads the ClientHello again from the PrefixedStream; the client's
\* last TLS message comes with its auth frame.
FinishesTls(c) == TlsAccepted(c) /\ Arrived(up, c) /\ UNCHANGED session

\* Mutant of read_auth_frame: the gateway waits for more than the client sends.
read_auth_frame_Longer(c) == Len(up[c]) > 1
\* AUTH_FRAME_SIZE bytes have come.
read_auth_frame(c) == Arrived(up, c)

\* server_derive_session accepts the auth frame, or not.
AcceptsClient(c) ==
    /\ Authenticated(c)
    /\ read_auth_frame(c) /\ Verified(Head(up[c]))
    /\ gcodec' = [gcodec EXCEPT ![c] = GatewayCodec(c, Head(up[c]))]
    /\ down' = Send(down, c, [type |-> "key", public |-> ServerSecret(c)])
    /\ up' = Receive(up, c)
    /\ UNCHANGED <<task, dial, reply, codec, dest>>

RefusesClient(c) ==
    /\ AuthFails(c)
    /\ read_auth_frame(c) /\ ~Verified(Head(up[c]))
    /\ up' = Receive(up, c)
    /\ down' = Send(down, c, Raw("ERR"))
    /\ UNCHANGED <<task, dial, reply, ends>>

AcceptsClaims(c) == ClaimsAccepted(c) /\ UNCHANGED session

RefusesClaims(c) ==
    /\ ClaimsRefused(c)
    /\ down' = Send(down, c, Raw("ERR"))
    /\ UNCHANGED <<task, dial, reply, up, ends>>

\* Mutant of ConnectsTarget: OK is sent before the target is connected.
ConnectsTarget_Early(c) ==
    /\ TargetConnected(c)
    /\ Arrived(up, c) /\ Opens(gcodec[c], Head(up[c]))
    /\ up' = Receive(up, c)
    /\ down' = Send(down, c, Seal(gcodec[c], "OK"))
    /\ UNCHANGED <<task, dial, reply, ends>>

\* handle_authenticated_client: the CONNECT frame is read, the target answers or not.
ConnectsTarget(c) ==
    /\ TargetConnected(c)
    /\ Arrived(up, c) /\ Opens(gcodec[c], Head(up[c]))
    /\ up' = Receive(up, c)
    /\ dest' = [dest EXCEPT ![c] = Head(up[c]).body]
    /\ down' = Send(down, c, Seal(gcodec[c], "OK"))
    /\ UNCHANGED <<task, dial, reply, codec, gcodec>>

MissesTarget(c) ==
    /\ TargetFails(c)
    /\ Arrived(up, c) /\ Opens(gcodec[c], Head(up[c]))
    /\ up' = Receive(up, c)
    /\ down' = Send(down, c, Seal(gcodec[c], "ERR"))
    /\ UNCHANGED <<task, dial, reply, ends>>

\* Any read or write may fail and end the task.
GatewayReturns(c) == Returns(c) /\ UNCHANGED session

\* fallback_tcp_proxy carries the client's TLS to the CDN, which answers what is not
\* meant for it.
CdnAnswers(c) ==
    /\ phase[c] = "fallback"
    /\ Arrived(up, c)
    /\ up' = Receive(up, c)
    /\ down' = Send(down, c, Raw("bytes"))
    /\ UNCHANGED <<gateway, task, dial, reply, ends>>

-----------------------------------------------------------------------------
ClientProceeds(c) ==
    \/ ConnectFails(c) \/ ClientHandshake(c) \/ ServerKeyArrives(c) \/ HandshakeFails(c)
    \/ AckArrives(c) \/ AckFails(c) \/ RelayEnds(c)

GatewayProceeds(c) ==
    \/ Decides(c) \/ FinishesTls(c) \/ AcceptsClient(c) \/ RefusesClient(c)
    \/ AcceptsClaims(c) \/ RefusesClaims(c) \/ ConnectsTarget(c) \/ MissesTarget(c)
    \/ GatewayReturns(c)

\* A connection that no task of the proxy has made.
StrangerSteps(c) ==
    /\ task[c] = "idle"
    /\ Task(c) \/ Returns(c) \/ \E k \in Clients : Accept(c, k)
    /\ UNCHANGED session

SessionNext ==
    \E c \in Conns :
        \/ \E k \in Keys, t \in Targets : Request(c, k, t)
        \/ \E h \in Hellos : Dialed(c, h)
        \/ ClientProceeds(c) \/ Forget(c)
        \/ task[c] # "idle" /\ (GatewayProceeds(c) \/ CdnAnswers(c))
        \/ StrangerSteps(c)

SessionSpec == SessionInit /\ [][SessionNext]_all

-----------------------------------------------------------------------------
(* A SOCKS client is told of success only when the gateway has connected   *)
(* to the very target it asked for, for an endpoint configured with the    *)
(* gateway's own keys, and with a codec that is the mirror image of the    *)
(* client's: same key, prefixes crossed.                                   *)
Agreement ==
    \A c \in Conns : reply[c] = "success" =>
        /\ dial[c] = [pub |-> Static, psk |-> Psk, target |-> dest[c]]
        /\ gcodec[c] = FrameCodec(codec[c].key, codec[c].recv, codec[c].send)

(* No key and nonce prefix serve two senders, whichever sessions are open  *)
(* at once: counters start at 0 in each codec, so a shared pair would      *)
(* repeat nonces (steal.rs:29-31).                                         *)
Senders == {k \in [conn : Conns, side : {"client", "gateway"}] :
                (IF k.side = "client" THEN codec ELSE gcodec)[k.conn] # NoCodec}
Seals(k) == LET f == (IF k.side = "client" THEN codec ELSE gcodec)[k.conn] IN <<f.key, f.send>>
NoncesApart == \A j, k \in Senders : Seals(j) = Seals(k) => j = k

(* Whoever learns the gateway's long-term secret and the pre-shared key    *)
(* cannot compute a session key: each takes an ephemeral secret that only  *)
(* that session's two ends ever held (steal.rs:25, "Forward Secrecy").     *)
LongTerm == {Static}
ForwardSecret ==
    \A c \in Conns : \A k \in {codec[c], gcodec[c]} \ {NoCodec} : k.key[2] \cap LongTerm = {}

(* The two ends never wait for each other: when the proxy's task reads    *)
(* from an empty connection (steal.rs:111, which has no timeout) the       *)
(* gateway's task, or the CDN, has something of the client's left to read, *)
(* has answered or is gone.  A wait for ever is a wait for a peer that     *)
(* stopped, never for one that waits too.                                  *)
AwaitsGateway(c) == task[c] \in {"handshake", "connect"} /\ ~Arrived(down, c)
AwaitsClient(c) ==
    \/ phase[c] \in {"tls", "connect", "fallback"} /\ ~Arrived(up, c)
    \/ phase[c] = "auth" /\ ~read_auth_frame(c)
NoMutualWait == \A c \in Conns : ~(AwaitsGateway(c) /\ AwaitsClient(c))

(* The proxy closes on a SOCKS client without a reply only once the        *)
(* endpoint has answered the handshake with something that looks like a    *)
(* key: a refused, unreachable or wrongly configured endpoint is reported  *)
(* as a failure.                                                           *)
FailureReported ==
    \A c \in Conns : task[c] = "closed" /\ reply[c] = "none" => codec[c] # NoCodec

=============================================================================
