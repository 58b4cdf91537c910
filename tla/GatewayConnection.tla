-------------------------- MODULE GatewayConnection --------------------------
(***************************************************************************)
(* A connection at the gateway (gateway/src/main.rs): the accept loop with *)
(* its limits, handle_tcp_connection, which decides between the tunnel and *)
(* the fallback from the first bytes, and handle_authenticated_client up   *)
(* to the relay.  Each accepted connection is a task that holds a permit   *)
(* of the semaphore for as long as it lives.                               *)
(*                                                                         *)
(* What arrives is abstract.  hello is what the one read before TLS        *)
(* returned: a whole ClientHello with a session id of 32 bytes ("token"),  *)
(* anything whole without one ("short"), part of a ClientHello             *)
(* ("partial"), or a record too short for the fields the parser indexes    *)
(* ("truncated").  psk: the auth frame was made with the right keys.       *)
(* subscribed: the client has a valid subscription token.                  *)
(***************************************************************************)
EXTENDS Integers, FiniteSets

CONSTANTS
    Conns,       \* bound: connections alive at once, at least Permits + 1
    Permits,     \* MAX_CONCURRENT_CONNECTIONS
    MaxPanics,   \* bound: no truncated record arrives after as many panics
    Hellos       \* what may arrive first

HelloKinds == {"token", "short", "partial", "truncated"}

ASSUME GatewayAssumption ==
    /\ Permits \in Nat /\ MaxPanics \in Nat
    /\ Hellos \subseteq HelloKinds
ASSUME ConnsAssumption == IsFiniteSet(Conns)

Nobody == [hello |-> "none", psk |-> FALSE, subscribed |-> FALSE]
Clients == [hello : Hellos, psk : BOOLEAN, subscribed : BOOLEAN]

Phases == {"none", "reading", "tls", "auth", "claims", "connect", "relay", "fallback", "answered"}

VARIABLES
    test_mode, \* --test-mode
    phase,     \* per connection: how far its task has come
    client,    \* per connection: who is at the other end
    answer,    \* per connection: what the gateway told the client last
    permits,   \* connection_semaphore: permits available
    active,    \* metrics: connections_active
    panicked   \* history: tasks that have panicked

vars == <<test_mode, phase, client, answer, permits, active, panicked>>
rest == <<test_mode, panicked>>

Live == {c \in Conns : phase[c] # "none"}

Init ==
    /\ test_mode \in BOOLEAN
    /\ phase = [c \in Conns |-> "none"]
    /\ client = [c \in Conns |-> Nobody]
    /\ answer = [c \in Conns |-> "nothing"]
    /\ permits = Permits
    /\ active = 0
    /\ panicked = 0

-----------------------------------------------------------------------------
(* The accept loop *)

\* The limiter of IpRateLimiter lets the address in and a permit is free: the task
\* is spawned.  (With no permit free, or refused by the limiter, the socket is
\* dropped and nothing changes.)
Accept(c, k) ==
    /\ phase[c] = "none"
    /\ permits > 0
    /\ k.hello = "truncated" => panicked < MaxPanics
    /\ permits' = permits - 1
    /\ active' = active + 1
    /\ phase' = [phase EXCEPT ![c] = "reading"]
    /\ client' = [client EXCEPT ![c] = k]
    /\ answer' = [answer EXCEPT ![c] = "nothing"]
    /\ UNCHANGED rest

Enter(c, p) ==
    /\ phase' = [phase EXCEPT ![c] = p]
    /\ UNCHANGED <<client, permits, active, rest>>

Say(c, a) == answer' = [answer EXCEPT ![c] = a]

\* The task of c is gone, and with it its socket and its permit.
Gone(c) ==
    /\ phase' = [phase EXCEPT ![c] = "none"]
    /\ client' = [client EXCEPT ![c] = Nobody]
    /\ answer' = [answer EXCEPT ![c] = "nothing"]
    /\ permits' = permits + 1

-----------------------------------------------------------------------------
(* handle_tcp_connection *)

\* extract_auth_from_clienthello finds a token in what was read.
TokenFound(c) == client[c].hello = "token"

\* Mutant of StartTls: a connection without a token is not turned away.
StartTls_Always(c) ==
    /\ phase[c] = "reading"
    /\ client[c].hello # "truncated"
    /\ Enter(c, "tls")
    /\ UNCHANGED answer

\* The TLS handshake goes on over a PrefixedStream that replays what was read.
StartTls(c) ==
    /\ phase[c] = "reading"
    /\ client[c].hello # "truncated"
    /\ TokenFound(c) \/ test_mode
    /\ Enter(c, "tls")
    /\ UNCHANGED answer

\* No token: the bytes go to the CDN, and fallback_tcp_proxy takes over.
Fallback(c) ==
    /\ phase[c] = "reading"
    /\ client[c].hello # "truncated"
    /\ ~TokenFound(c) /\ ~test_mode
    /\ Enter(c, "fallback")
    /\ Say(c, "cdn")

\* The parser indexes past the end of the record and the task unwinds: the permit
\* is dropped with it, the gauge is not lowered.
Panics(c) ==
    /\ phase[c] = "reading"
    /\ client[c].hello = "truncated"
    /\ Gone(c)
    /\ panicked' = panicked + 1
    /\ UNCHANGED <<active, test_mode>>

TlsAccepted(c) ==
    /\ phase[c] = "tls"
    /\ Enter(c, "auth")
    /\ UNCHANGED answer

\* server_derive_session verifies the auth frame; the server's ephemeral key goes
\* back.
Authenticated(c) ==
    /\ phase[c] = "auth"
    /\ client[c].psk
    /\ Enter(c, "claims")
    /\ Say(c, "server key")

AuthFails(c) ==
    /\ phase[c] = "auth"
    /\ ~client[c].psk
    /\ Enter(c, "answered")
    /\ Say(c, "ERR")

\* The tokens validate_token accepts, and the one it is given: hex digits of the
\* client's ephemeral key, whatever token the client has.
ValidTokens == {"jwt"}
PresentedToken(c) == "hex of ephemeral_public[..8]"
ValidToken(c) == PresentedToken(c) \in ValidTokens

ClaimsAccepted(c) ==
    /\ phase[c] = "claims"
    /\ test_mode \/ ValidToken(c)
    /\ Enter(c, "connect")
    /\ UNCHANGED answer

ClaimsRefused(c) ==
    /\ phase[c] = "claims"
    /\ ~test_mode /\ ~ValidToken(c)
    /\ Enter(c, "answered")
    /\ Say(c, "ERR")

\* handle_authenticated_client: the CONNECT frame names a target that can be
\* reached, or not.
TargetConnected(c) ==
    /\ phase[c] = "connect"
    /\ Enter(c, "relay")
    /\ Say(c, "OK")

TargetFails(c) ==
    /\ phase[c] = "connect"
    /\ Enter(c, "answered")
    /\ Say(c, "no target")

\* Mutant of Returns: an error return keeps the permit.
Returns_KeepsPermit(c) ==
    /\ phase[c] # "none"
    /\ phase' = [phase EXCEPT ![c] = "none"]
    /\ permits' = IF phase[c] = "answered" THEN permits ELSE permits + 1
    /\ active' = active - 1
    /\ UNCHANGED <<client, answer, rest>>

\* A read, a write or the TLS handshake fails, the relay or the fallback is over, or
\* the answer has been written: handle_tcp_connection returns, Ok or Err, and the
\* gauge is lowered.
Returns(c) ==
    /\ phase[c] # "none"
    /\ client[c].hello = "truncated" => phase[c] # "reading"
    /\ Gone(c)
    /\ active' = active - 1
    /\ UNCHANGED rest

Task(c) ==
    \/ StartTls(c) \/ Fallback(c) \/ Panics(c) \/ TlsAccepted(c)
    \/ Authenticated(c) \/ AuthFails(c) \/ ClaimsAccepted(c) \/ ClaimsRefused(c)
    \/ TargetConnected(c) \/ TargetFails(c)

Next == \E c \in Conns : Task(c) \/ Returns(c) \/ \E k \in Clients : Accept(c, k)

Spec == Init /\ [][Next]_vars

-----------------------------------------------------------------------------
\* The shape of the state.
TypeOK ==
    /\ phase \in [Conns -> Phases]
    /\ client \in [Conns -> Clients \cup {Nobody}]
    /\ answer \in [Conns -> {"nothing", "cdn", "server key", "ERR", "OK", "no target"}]
    /\ permits \in 0..Permits
    /\ active \in Nat /\ panicked \in Nat /\ test_mode \in BOOLEAN

(* Every permit is either free or held by exactly one live connection, on  *)
(* every way a connection can end: the gateway never serves more than      *)
(* Permits, and never loses room for good.                                 *)
PermitsAccounted == permits + Cardinality(Live) = Permits

(* The gauge shows the connections that are alive (metrics.rs, "Currently  *)
(* active connections") and one more for every task that has panicked: no  *)
(* other way to end a connection skips the decrement.                      *)
GaugeExact == active = Cardinality(Live) + panicked

(* Both accounts of the live connections, the semaphore's and the gauge's, *)
(* are exact whatever way each connection ends.                            *)
AccountsExact == PermitsAccounted /\ GaugeExact

(* What the gateway does for a client that has proved the pre-shared key.  *)
Served(p, a) == p \in {"claims", "connect", "relay"} \/ a \in {"server key", "OK", "no target"}

(* Only a client that proved the pre-shared key gets as far as a target or *)
(* gets any other answer than the CDN's bytes and the unified ERR.         *)
(* Outside test mode whoever sends no token never meets the gateway's own  *)
(* TLS: all it is ever answered comes from the CDN.                        *)
OnlyProven ==
    \A c \in Live :
        /\ Served(phase[c], answer[c]) => client[c].psk
        /\ ~test_mode /\ client[c].hello # "token" =>
              answer[c] \in {"nothing", "cdn"} /\ phase[c] \in {"reading", "fallback"}

(* A client whose auth is not valid is proxied to the CDN: outside test    *)
(* mode it never hears from the gateway itself.  (A session id of 32 bytes *)
(* is all extract_auth_from_clienthello asks for, and every TLS 1.3 client *)
(* sends one.)                                                             *)
ProbeSeesCdn ==
    \A c \in Live : ~test_mode /\ ~client[c].psk => answer[c] \in {"nothing", "cdn"}

(* A client that has the pre-shared key and a valid subscription is not    *)
(* refused.                                                                *)
SubscriberServed ==
    \A c \in Live : answer[c] = "ERR" => ~(client[c].psk /\ client[c].subscribed)

=============================================================================
