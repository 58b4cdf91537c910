---------------------------- MODULE Session_proofs ---------------------------
(***************************************************************************)
(* Proofs about a gateway's connections (GatewayConnection), for every     *)
(* number of permits and any finite set of connections, and about Session, *)
(* for any set of targets: its gateway behaves as GatewayConnection says,  *)
(* and the ends of a session agree.                                        *)
(***************************************************************************)
EXTENDS Session, FiniteSetTheorems, SequenceTheorems, TLAPS

-----------------------------------------------------------------------------
(* The gateway by itself *)

IInv == TypeOK /\ PermitsAccounted /\ GaugeExact /\ OnlyProven

Answers == {"nothing", "cdn", "server key", "ERR", "OK", "no target"}

-----------------------------------------------------------------------------
(* The number of live connections *)

\* The live connections are finitely many.
LEMMA LiveFinite == IsFiniteSet(Live) /\ Cardinality(Live) \in Nat
  <1>1. Live \subseteq Conns
    BY DEF Live
  <1> QED
    BY <1>1, ConnsAssumption, FS_Subset, FS_CardinalityType

\* A task that goes on changes nothing about who is alive.
LEMMA LiveKept ==
    ASSUME phase \in [Conns -> Phases], NEW c \in Conns, NEW p \in Phases \ {"none"},
           phase[c] # "none", phase' = [phase EXCEPT ![c] = p]
    PROVE  Live' = Live
  BY DEF Live

\* A connection that leaves "none" makes one more.
LEMMA LiveBegins ==
    ASSUME phase \in [Conns -> Phases], NEW c \in Conns, NEW p \in Phases \ {"none"},
           phase[c] = "none", phase' = [phase EXCEPT ![c] = p]
    PROVE  Cardinality(Live') = Cardinality(Live) + 1
  <1>1. Live' = Live \cup {c} /\ c \notin Live
    BY DEF Live
  <1> QED
    BY <1>1, LiveFinite, FS_AddElement

\* A connection that goes back to "none" makes one fewer.
LEMMA LiveEnds ==
    ASSUME phase \in [Conns -> Phases], NEW c \in Conns,
           phase[c] # "none", phase' = [phase EXCEPT ![c] = "none"]
    PROVE  Cardinality(Live') = Cardinality(Live) - 1 /\ Cardinality(Live) > 0
  <1>1. Live' = Live \ {c} /\ c \in Live
    BY DEF Live
  <1>2. Cardinality(Live') = Cardinality(Live) - 1
    BY <1>1, LiveFinite, FS_RemoveElement
  <1>3. Cardinality(Live) # 0
    BY <1>1, LiveFinite, FS_EmptySet
  <1> QED
    BY <1>2, <1>3, LiveFinite

-----------------------------------------------------------------------------
(* Every action keeps the invariant *)

\* At the start nobody is connected and every permit is free.
LEMMA InitIInv == Init => IInv
  <1> SUFFICES ASSUME Init PROVE IInv
    OBVIOUS
  <1>1. Live = {}
    BY DEF Init, Live
  <1>2. Cardinality(Live) = 0
    BY <1>1, FS_EmptySet
  <1>3. PermitsAccounted /\ GaugeExact
    BY <1>2, GatewayAssumption DEF Init, PermitsAccounted, GaugeExact
  <1>4. OnlyProven
    BY <1>1 DEF OnlyProven
  <1>5. TypeOK
    BY GatewayAssumption DEF Init, TypeOK, Phases
  <1> QED
    BY <1>3, <1>4, <1>5 DEF IInv

\* The numbers of the invariant, apart from the rest of it.
LEMMA Counts ==
    ASSUME IInv
    PROVE  /\ permits + Cardinality(Live) = Permits
           /\ active = Cardinality(Live) + panicked
           /\ permits \in Nat /\ active \in Nat /\ panicked \in Nat
           /\ Permits \in Nat
  <1>1. permits \in 0..Permits /\ active \in Nat /\ panicked \in Nat
    BY Zenon DEF IInv, TypeOK
  <1>2. permits + Cardinality(Live) = Permits /\ active = Cardinality(Live) + panicked
    BY Zenon DEF IInv, PermitsAccounted, GaugeExact
  <1> QED
    BY <1>1, <1>2, GatewayAssumption

\* What Enter does to the counts: nothing.
LEMMA EnterCounts ==
    ASSUME IInv, NEW c \in Conns, NEW p \in Phases \ {"none"}, phase[c] # "none",
           Enter(c, p), answer' \in [Conns -> Answers]
    PROVE  TypeOK' /\ PermitsAccounted' /\ GaugeExact' /\ Live' = Live
  <1>1. phase' = [phase EXCEPT ![c] = p] /\ UNCHANGED <<client, permits, active, rest>>
    BY DEF Enter
  <1>2. Live' = Live
    BY <1>1, LiveKept DEF IInv, TypeOK
  <1>3. TypeOK'
    BY <1>1 DEF IInv, TypeOK, Answers, rest
  <1> QED
    BY <1>1, <1>2, <1>3 DEF IInv, PermitsAccounted, GaugeExact, rest

\* What Enter does to the proofs of the clients: the one that enters has to have its own.
LEMMA EnterProven ==
    ASSUME OnlyProven, NEW c \in Conns, NEW p, phase \in [Conns -> Phases], phase[c] # "none",
           Enter(c, p), \A d \in Conns \ {c} : answer'[d] = answer[d],
           Served(p, answer'[c]) => client[c].psk,
           ~test_mode /\ client[c].hello # "token" =>
              answer'[c] \in {"nothing", "cdn"} /\ p \in {"reading", "fallback"}
    PROVE  OnlyProven'
  <1>1. /\ phase' = [phase EXCEPT ![c] = p] /\ client' = client /\ test_mode' = test_mode
    BY DEF Enter, rest
  <1>2. ASSUME NEW d \in Conns, d # c, phase'[d] # "none"
        PROVE  phase'[d] = phase[d] /\ answer'[d] = answer[d] /\ d \in Live
    BY <1>1, <1>2 DEF Live
  <1>3. phase'[c] = p
    BY <1>1
  <1>4. ASSUME NEW d \in Conns, phase'[d] # "none"
        PROVE  /\ Served(phase'[d], answer'[d]) => client[d].psk
               /\ ~test_mode /\ client[d].hello # "token" =>
                     answer'[d] \in {"nothing", "cdn"} /\ phase'[d] \in {"reading", "fallback"}
    <2>1. CASE d = c
      BY <1>3, <2>1
    <2>2. CASE d # c
      BY <1>2, <1>4, <2>2 DEF OnlyProven
    <2> QED
      BY <2>1, <2>2
  <1> QED
    BY <1>1, <1>4 DEF OnlyProven, Live

\* The accept loop takes one permit for one connection.
LEMMA AcceptIInv ==
    ASSUME IInv, NEW c \in Conns, NEW k \in Clients, Accept(c, k)
    PROVE  IInv'
  <1>1. /\ phase[c] = "none" /\ permits > 0
        /\ permits' = permits - 1 /\ active' = active + 1
        /\ phase' = [phase EXCEPT ![c] = "reading"]
        /\ client' = [client EXCEPT ![c] = k]
        /\ answer' = [answer EXCEPT ![c] = "nothing"]
        /\ UNCHANGED <<test_mode, panicked>>
    BY DEF Accept, rest
  <1>2. Cardinality(Live') = Cardinality(Live) + 1
    BY <1>1, LiveBegins DEF IInv, TypeOK, Phases
  <1>3. TypeOK'
    <2>1. permits' \in 0..Permits /\ active' \in Nat /\ panicked' \in Nat
      BY <1>1, Counts, LiveFinite
    <2>2. /\ phase' \in [Conns -> Phases]
          /\ client' \in [Conns -> Clients \cup {Nobody}]
          /\ answer' \in [Conns -> Answers]
      BY <1>1 DEF IInv, TypeOK, Phases, Answers
    <2>3. test_mode' \in BOOLEAN
      BY <1>1, Zenon DEF IInv, TypeOK
    <2> QED
      BY <2>1, <2>2, <2>3, Zenon DEF TypeOK, Answers
  <1>4. PermitsAccounted' /\ GaugeExact'
    BY <1>1, <1>2, Counts, LiveFinite DEF PermitsAccounted, GaugeExact
  <1>5. OnlyProven'
    BY <1>1 DEF IInv, TypeOK, OnlyProven, Live, Served
  <1> QED
    BY <1>3, <1>4, <1>5 DEF IInv

\* A task that ends, one way or another.
LEMMA GoneIInv ==
    ASSUME IInv, NEW c \in Conns, phase[c] # "none", Gone(c), test_mode' = test_mode,
           \/ active' = active - 1 /\ panicked' = panicked
           \/ active' = active /\ panicked' = panicked + 1
    PROVE  IInv'
  <1>1. /\ phase' = [phase EXCEPT ![c] = "none"]
        /\ client' = [client EXCEPT ![c] = Nobody]
        /\ answer' = [answer EXCEPT ![c] = "nothing"]
        /\ permits' = permits + 1
    BY DEF Gone
  <1>2. Cardinality(Live') = Cardinality(Live) - 1 /\ Cardinality(Live) > 0
    BY <1>1, LiveEnds DEF IInv, TypeOK
  <1>3. /\ permits + Cardinality(Live) = Permits /\ permits \in Nat
        /\ active = Cardinality(Live) + panicked /\ panicked \in Nat
    BY Counts
  <1>4. permits' \in 0..Permits /\ active' \in Nat /\ panicked' \in Nat
    BY <1>1, <1>2, <1>3, LiveFinite, GatewayAssumption
  <1>5. TypeOK'
    BY <1>1, <1>4 DEF IInv, TypeOK, Phases
  <1>6. PermitsAccounted' /\ GaugeExact'
    BY <1>1, <1>2, <1>3, LiveFinite, GatewayAssumption DEF PermitsAccounted, GaugeExact
  <1>7. OnlyProven'
    BY <1>1 DEF IInv, TypeOK, OnlyProven, Live, Served
  <1> QED
    BY <1>5, <1>6, <1>7 DEF IInv

\* A task between its accept and its return keeps the accounts, also if it unwinds.
LEMMA TaskIInv ==
    ASSUME IInv, NEW c \in Conns, Task(c)
    PROVE  IInv'
  <1>0. /\ phase \in [Conns -> Phases] /\ answer \in [Conns -> Answers] /\ OnlyProven
        /\ phase[c] # "none" =>
              /\ Served(phase[c], answer[c]) => client[c].psk
              /\ ~test_mode /\ client[c].hello # "token" =>
                    answer[c] \in {"nothing", "cdn"} /\ phase[c] \in {"reading", "fallback"}
    BY DEF IInv, TypeOK, Answers, OnlyProven, Live
  <1>1. CASE StartTls(c)
    <2>1. TypeOK' /\ PermitsAccounted' /\ GaugeExact' /\ Live' = Live
      BY <1>0, <1>1, EnterCounts DEF StartTls, Answers, Phases
    <2>2. OnlyProven'
      BY <1>0, <1>1, EnterProven DEF StartTls, TokenFound, Served
    <2> QED
      BY <2>1, <2>2 DEF IInv
  <1>2. CASE Fallback(c)
    <2>1. TypeOK' /\ PermitsAccounted' /\ GaugeExact' /\ Live' = Live
      BY <1>0, <1>2, EnterCounts DEF Fallback, Say, Answers, Phases
    <2>2. OnlyProven'
      BY <1>0, <1>2, EnterProven DEF Fallback, Say, Served
    <2> QED
      BY <2>1, <2>2 DEF IInv
  <1>3. CASE Panics(c)
    BY <1>3, GoneIInv DEF Panics
  <1>4. CASE TlsAccepted(c)
    <2>1. TypeOK' /\ PermitsAccounted' /\ GaugeExact' /\ Live' = Live
      BY <1>0, <1>4, EnterCounts DEF TlsAccepted, Answers, Phases
    <2>2. OnlyProven'
      BY <1>0, <1>4, EnterProven DEF TlsAccepted, Served
    <2> QED
      BY <2>1, <2>2 DEF IInv
  <1>5. CASE Authenticated(c)
    <2>1. TypeOK' /\ PermitsAccounted' /\ GaugeExact' /\ Live' = Live
      BY <1>0, <1>5, EnterCounts DEF Authenticated, Say, Answers, Phases
    <2>2. OnlyProven'
      BY <1>0, <1>5, EnterProven DEF Authenticated, Say, Served
    <2> QED
      BY <2>1, <2>2 DEF IInv
  <1>6. CASE AuthFails(c)
    <2>1. TypeOK' /\ PermitsAccounted' /\ GaugeExact' /\ Live' = Live
      BY <1>0, <1>6, EnterCounts DEF AuthFails, Say, Answers, Phases
    <2>2. OnlyProven'
      BY <1>0, <1>6, EnterProven DEF AuthFails, Say, Served
    <2> QED
      BY <2>1, <2>2 DEF IInv
  <1>7. CASE ClaimsAccepted(c)
    <2>1. TypeOK' /\ PermitsAccounted' /\ GaugeExact' /\ Live' = Live
      BY <1>0, <1>7, EnterCounts DEF ClaimsAccepted, Answers, Phases
    <2>2. OnlyProven'
      BY <1>0, <1>7, EnterProven DEF ClaimsAccepted, Served
    <2> QED
      BY <2>1, <2>2 DEF IInv
  <1>8. CASE ClaimsRefused(c)
    <2>1. TypeOK' /\ PermitsAccounted' /\ GaugeExact' /\ Live' = Live
      BY <1>0, <1>8, EnterCounts DEF ClaimsRefused, Say, Answers, Phases
    <2>2. OnlyProven'
      BY <1>0, <1>8, EnterProven DEF ClaimsRefused, Say, Served
    <2> QED
      BY <2>1, <2>2 DEF IInv
  <1>9. CASE TargetConnected(c)
    <2>1. TypeOK' /\ PermitsAccounted' /\ GaugeExact' /\ Live' = Live
      BY <1>0, <1>9, EnterCounts DEF TargetConnected, Say, Answers, Phases
    <2>2. OnlyProven'
      BY <1>0, <1>9, EnterProven DEF TargetConnected, Say, Served
    <2> QED
      BY <2>1, <2>2 DEF IInv
  <1>10. CASE TargetFails(c)
    <2>1. TypeOK' /\ PermitsAccounted' /\ GaugeExact' /\ Live' = Live
      BY <1>0, <1>10, EnterCounts DEF TargetFails, Say, Answers, Phases
    <2>2. OnlyProven'
      BY <1>0, <1>10, EnterProven DEF TargetFails, Say, Served
    <2> QED
      BY <2>1, <2>2 DEF IInv
  <1> QED
    BY <1>1, <1>2, <1>3, <1>4, <1>5, <1>6, <1>7, <1>8, <1>9, <1>10 DEF Task

\* A task that returns gives back its permit and lowers the gauge.
LEMMA ReturnsIInv ==
    ASSUME IInv, NEW c \in Conns, Returns(c)
    PROVE  IInv'
  BY GoneIInv DEF Returns, rest

\* Every step of the gateway keeps the invariant.
LEMMA NextIInv == IInv /\ [Next]_vars => IInv'
  <1>1. ASSUME IInv, UNCHANGED vars PROVE IInv'
    <2>1. /\ phase' = phase /\ client' = client /\ answer' = answer /\ permits' = permits
          /\ active' = active /\ panicked' = panicked /\ test_mode' = test_mode
      BY <1>1, Zenon DEF vars
    <2>2. Live' = Live
      BY <2>1, Zenon DEF Live
    <2>3. TypeOK'
      BY <1>1, <2>1, Zenon DEF IInv, TypeOK
    <2>4. PermitsAccounted' /\ GaugeExact' /\ OnlyProven'
      BY <1>1, <2>1, <2>2, Zenon DEF IInv, PermitsAccounted, GaugeExact, OnlyProven
    <2> QED
      BY <2>3, <2>4, Zenon DEF IInv
  <1> QED
    BY <1>1, AcceptIInv, TaskIInv, ReturnsIInv DEF Next

-----------------------------------------------------------------------------
\* The inductive invariant of the connections of main.rs holds throughout.
THEOREM IInvAlways == Spec => []IInv
  BY InitIInv, NextIInv, PTL DEF Spec

(* The phases, answers and counters of handle_tcp_connection keep their    *)
(* types: in particular the semaphore never holds more than its permits.   *)
THEOREM TypeCorrect == Spec => []TypeOK
  <1>1. IInv => TypeOK
    BY DEF IInv
  <1> QED
    BY <1>1, IInvAlways, PTL

(* Permits are neither lost nor made, on every way a connection can end,   *)
(* panics included, and connections_active is off by exactly the number of *)
(* panicked tasks.                                                         *)
THEOREM AccountsAlwaysExact == Spec => []AccountsExact
  <1>1. IInv => AccountsExact
    BY DEF IInv, AccountsExact
  <1> QED
    BY <1>1, IInvAlways, PTL

(* Only clients that proved the pre-shared key reach a target, and outside *)
(* test mode only clients with a token meet the gateway's TLS.             *)
THEOREM AlwaysProven == Spec => []OnlyProven
  <1>1. IInv => OnlyProven
    BY DEF IInv
  <1> QED
    BY <1>1, IInvAlways, PTL

-----------------------------------------------------------------------------
(* The invariant, connection by connection *)

Dials == [pub : {Static, <<"gateway", "other">>}, psk : {Psk, "other"},
          target : Targets \cup {Nowhere}]

\* The only codec the gateway ever makes for c.
Mirror(c) == FrameCodec(SessionKey(DH(ServerSecret(c), ClientSecret(c))),
                        <<"s2c", c>>, <<"c2s", c>>)
KeyMsg(c) == [type |-> "key", public |-> ServerSecret(c)]

Trusted(c) == dial[c].pub = Static /\ dial[c].psk = Psk
Joined(c) == gcodec[c] = Mirror(c) /\ dest[c] = dial[c].target

\* What the client may have sent, and what it may have been sent.
UpMsgs(c) ==
    {AuthFrame(c)} \cup {m \in {Seal(codec[c], dial[c].target)} : codec[c] # NoCodec}
DownMsgs(c) ==
    {KeyMsg(c), Raw("ERR"), Raw("bytes"), Seal(Mirror(c), "ERR")}
        \cup {m \in {Seal(Mirror(c), "OK")} : Joined(c)}

Untouched(c) ==
    /\ task[c] \in {"idle", "dialing"} =>
          up[c] = <<>> /\ down[c] = <<>> /\ gcodec[c] = NoCodec /\ reply[c] = "none"
    /\ task[c] = "dialing" => phase[c] = "none"
NoKeyYet(c) == task[c] \in {"idle", "dialing", "tls", "handshake"} => codec[c] = NoCodec
ClientKeys(c) ==
    codec[c] \in {NoCodec, ClientCodec(c, ServerSecret(c)), ClientCodec(c, <<"bytes", c>>)}
GatewayKeys(c) == gcodec[c] = NoCodec \/ (gcodec[c] = Mirror(c) /\ Trusted(c))
\* Whatever answers the client has left the first phases behind.
AuthFirst(c) ==
    codec[c] # NoCodec \/ down[c] # <<>> => phase[c] \notin {"reading", "tls", "auth"}
Succeeded(c) ==
    reply[c] = "success" =>
        /\ task[c] \in {"relay", "closed"}
        /\ codec[c] = ClientCodec(c, ServerSecret(c))
        /\ Joined(c)

\* Without a reply only after something that looked like a key.
Reported(c) ==
    /\ task[c] \in {"connect", "relay"} => codec[c] # NoCodec
    /\ task[c] = "closed" /\ reply[c] = "none" => codec[c] # NoCodec

CInv(c) ==
    /\ dial[c] \in Dials
    /\ up[c] \in Seq(UpMsgs(c)) /\ down[c] \in Seq(DownMsgs(c))
    /\ Untouched(c) /\ NoKeyYet(c)
    /\ ClientKeys(c) /\ GatewayKeys(c)
    /\ AuthFirst(c) /\ Succeeded(c) /\ Reported(c)

\* Every variable is a function on Conns.
Shape ==
    /\ phase = [c \in Conns |-> phase[c]]
    /\ task = [c \in Conns |-> task[c]] /\ dial = [c \in Conns |-> dial[c]]
    /\ reply = [c \in Conns |-> reply[c]]
    /\ up = [c \in Conns |-> up[c]] /\ down = [c \in Conns |-> down[c]]
    /\ codec = [c \in Conns |-> codec[c]] /\ gcodec = [c \in Conns |-> gcodec[c]]
    /\ dest = [c \in Conns |-> dest[c]]

SInv == Shape /\ \A c \in Conns : CInv(c)

-----------------------------------------------------------------------------
(* Keys, frames and queues *)

\* The parts of a sealed frame.
LEMMA Sealed ==
    ASSUME NEW k, NEW b
    PROVE  /\ Seal(k, b).type = "frame" /\ Seal(k, b).body = b
           /\ Seal(k, b).key = k.key /\ Seal(k, b).prefix = k.send
  BY DEF Seal

\* A codec that has been made is told from none, and keys from each other.
LEMMA Codecs ==
    ASSUME NEW c
    PROVE  /\ Mirror(c) # NoCodec /\ Mirror(c).key # NoCodec.key
           /\ ClientCodec(c, ServerSecret(c)) # NoCodec
           /\ ClientCodec(c, <<"bytes", c>>) # NoCodec
           /\ ClientCodec(c, ServerSecret(c)).key # NoCodec.key
           /\ ClientCodec(c, <<"bytes", c>>).key # NoCodec.key
           /\ ClientCodec(c, ServerSecret(c)).key = Mirror(c).key
           /\ ClientCodec(c, <<"bytes", c>>).key # Mirror(c).key
           /\ Mirror(c) = FrameCodec(ClientCodec(c, ServerSecret(c)).key,
                                     ClientCodec(c, ServerSecret(c)).recv,
                                     ClientCodec(c, ServerSecret(c)).send)
  <1> USE DEF Mirror, ClientCodec, FrameCodec, SessionKey, DH, ServerSecret, ClientSecret
  <1>1. Mirror(c).key = <<"session", {<<"server", c>>, <<"client", c>>}>>
    OBVIOUS
  <1>2. ClientCodec(c, ServerSecret(c)).key = <<"session", {<<"client", c>>, <<"server", c>>}>>
    OBVIOUS
  <1>3. ClientCodec(c, <<"bytes", c>>).key = <<"session", {<<"client", c>>, <<"bytes", c>>}>>
    OBVIOUS
  <1>4. NoCodec.key = <<>> /\ \A S : <<"session", S>> # <<>>
    BY DEF NoCodec
  <1>5. {<<"server", c>>, <<"client", c>>} = {<<"client", c>>, <<"server", c>>}
    OBVIOUS
  <1>6. {<<"server", c>>, <<"client", c>>} # {<<"client", c>>, <<"bytes", c>>}
    <2>1. <<"server", c>> # <<"client", c>> /\ <<"server", c>> # <<"bytes", c>>
      OBVIOUS
    <2> QED
      BY <2>1
  <1>7. Mirror(c) = FrameCodec(ClientCodec(c, ServerSecret(c)).key,
                               ClientCodec(c, ServerSecret(c)).recv,
                               ClientCodec(c, ServerSecret(c)).send)
    BY <1>5
  <1> HIDE DEF Mirror, ClientCodec, FrameCodec
  <1> QED
    BY <1>1, <1>2, <1>3, <1>4, <1>5, <1>6, <1>7

\* The auth frame of an endpoint's keys passes exactly if they are the gateway's.
LEMMA VerifiedTrusted ==
    ASSUME NEW c, dial[c] \in Dials
    PROVE  Verified(AuthFrame(c)) <=> Trusted(c)
  <1>1. AuthFrame(c).token = <<"auth", {<<"client", c>>, dial[c].pub}, dial[c].psk>>
    BY DEF AuthFrame, AuthToken, DH, ClientSecret
  <1>2. AuthFrame(c).public = <<"client", c>>
    BY DEF AuthFrame, ClientSecret
  <1>3. Verified(AuthFrame(c)) <=>
            <<"auth", {<<"client", c>>, dial[c].pub}, dial[c].psk>>
                = <<"auth", {Static, <<"client", c>>}, Psk>>
    BY <1>1, <1>2 DEF Verified, AuthToken, DH
  <1>4. Static # <<"client", c>>
    BY DEF Static
  <1>5. {<<"client", c>>, dial[c].pub} = {Static, <<"client", c>>} <=> dial[c].pub = Static
    BY <1>4
  <1> QED
    BY <1>3, <1>5 DEF Trusted

\* A queue of fewer messages is a queue of more.
LEMMA SeqMono ==
    ASSUME NEW S, NEW T, S \subseteq T, NEW s \in Seq(S)
    PROVE  s \in Seq(T)
  OBVIOUS

-----------------------------------------------------------------------------
(* Steps at one connection *)

\* Nothing of connection d changes.
Same(d) ==
    /\ phase'[d] = phase[d] /\ task'[d] = task[d] /\ dial'[d] = dial[d]
    /\ reply'[d] = reply[d] /\ up'[d] = up[d] /\ down'[d] = down[d]
    /\ codec'[d] = codec[d] /\ gcodec'[d] = gcodec[d] /\ dest'[d] = dest[d]

\* Only connection c may change.
At(c) == Shape' /\ \A d \in Conns \ {c} : Same(d)

\* What was sent up stays a message of the client while its codec and target stay.
LEMMA UpMsgsKept ==
    ASSUME NEW c, dial'[c] = dial[c], codec'[c] = codec[c]
    PROVE  UpMsgs(c)' = UpMsgs(c)
  BY DEF UpMsgs, AuthFrame, Seal

\* What was sent down stays a message for the client while the gateway's end stays.
LEMMA DownMsgsKept ==
    ASSUME NEW c, dial'[c] = dial[c], gcodec'[c] = gcodec[c], dest'[c] = dest[c]
    PROVE  DownMsgs(c)' = DownMsgs(c)
  BY DEF DownMsgs, Joined, KeyMsg, Raw, Seal, Mirror

\* A connection that a step does not touch keeps its invariant.
LEMMA CInvSame ==
    ASSUME NEW d, CInv(d), Same(d)
    PROVE  CInv(d)'
  <1>1. UpMsgs(d)' = UpMsgs(d) /\ DownMsgs(d)' = DownMsgs(d)
    BY UpMsgsKept, DownMsgsKept DEF Same
  <1>2. dial'[d] \in Dials /\ up'[d] \in Seq(UpMsgs(d)') /\ down'[d] \in Seq(DownMsgs(d)')
    BY <1>1 DEF CInv, Same
  <1>3. Untouched(d)' /\ NoKeyYet(d)'
    BY DEF CInv, Same, Untouched, NoKeyYet
  <1>4. ClientKeys(d)' /\ GatewayKeys(d)'
    BY DEF CInv, Same, ClientKeys, GatewayKeys, Trusted, ClientCodec, ServerSecret, Mirror
  <1>5. AuthFirst(d)' /\ Succeeded(d)' /\ Reported(d)'
    BY DEF CInv, Same, AuthFirst, Succeeded, Joined, Reported, ClientCodec, ServerSecret, Mirror
  <1> QED
    BY <1>2, <1>3, <1>4, <1>5 DEF CInv

\* What is left to show of a step.
LEMMA StepAt ==
    ASSUME SInv, NEW c \in Conns, At(c), CInv(c)'
    PROVE  SInv'
  <1>1. \A d \in Conns \ {c} : CInv(d)'
    BY CInvSame DEF SInv, At
  <1> QED
    BY <1>1 DEF SInv, At

\* A step of the gateway's task that no queue and no codec notices.
LEMMA PhaseOnly ==
    ASSUME NEW c \in Conns, SInv, UNCHANGED session,
           phase' = [phase EXCEPT ![c] = phase'[c]],
           task[c] = "idle" \/
               /\ phase[c] # "none"
               /\ phase'[c] \in {"reading", "tls", "auth"} =>
                     phase[c] \in {"reading", "tls", "auth"}
    PROVE  SInv'
  <1>1. At(c)
    BY DEF SInv, Shape, At, Same, session
  <1>2. /\ task' = task /\ dial' = dial /\ reply' = reply /\ up' = up /\ down' = down
        /\ codec' = codec /\ gcodec' = gcodec /\ dest' = dest /\ CInv(c)
    BY DEF session, SInv
  <1>3. AuthFirst(c)'
    BY <1>2 DEF CInv, AuthFirst, Untouched, NoKeyYet
  <1>4. UpMsgs(c)' = UpMsgs(c) /\ DownMsgs(c)' = DownMsgs(c)
    BY <1>2, UpMsgsKept, DownMsgsKept
  <1>5. dial'[c] \in Dials /\ up'[c] \in Seq(UpMsgs(c)') /\ down'[c] \in Seq(DownMsgs(c)')
    BY <1>2, <1>4 DEF CInv
  <1>6. Untouched(c)' /\ NoKeyYet(c)' /\ Reported(c)'
    BY <1>2 DEF CInv, Untouched, NoKeyYet, Reported
  <1>7. ClientKeys(c)' /\ GatewayKeys(c)' /\ Succeeded(c)'
    BY <1>2 DEF CInv, ClientKeys, GatewayKeys, Trusted, Succeeded, Joined,
                ClientCodec, ServerSecret, Mirror
  <1>8. CInv(c)'
    BY <1>3, <1>5, <1>6, <1>7 DEF CInv
  <1> QED
    BY <1>1, <1>8, StepAt

-----------------------------------------------------------------------------
(* The client's task *)

\* A task that ends, with the reply it has or with a failure.
LEMMA Closes ==
    ASSUME NEW c \in Conns, SInv, task[c] # "idle",
           Move(c, "closed"), UNCHANGED <<gateway, dial, up, down, ends>>,
           \/ Answer(c, "failure")
           \/ reply' = reply /\ codec[c] # NoCodec
    PROVE  SInv'
  <1>1. /\ task' = [task EXCEPT ![c] = "closed"]
        /\ phase' = phase /\ dial' = dial /\ up' = up /\ down' = down
        /\ codec' = codec /\ gcodec' = gcodec /\ dest' = dest
        /\ reply' = reply \/ reply' = [reply EXCEPT ![c] = "failure"]
    BY DEF Move, Answer, gateway, vars, ends
  <1>2. At(c) /\ task'[c] = "closed" /\ CInv(c)
    BY <1>1 DEF SInv, Shape, At, Same
  <1>3. reply'[c] = "failure" \/ (reply'[c] = reply[c] /\ codec[c] # NoCodec)
    BY <1>1 DEF SInv, Shape, Answer
  <1>4. UpMsgs(c)' = UpMsgs(c) /\ DownMsgs(c)' = DownMsgs(c)
    BY <1>1, UpMsgsKept, DownMsgsKept
  <1>5. dial'[c] \in Dials /\ up'[c] \in Seq(UpMsgs(c)') /\ down'[c] \in Seq(DownMsgs(c)')
    BY <1>1, <1>2, <1>4 DEF CInv
  <1>6. Untouched(c)' /\ NoKeyYet(c)' /\ Reported(c)' /\ AuthFirst(c)'
    BY <1>1, <1>2, <1>3 DEF CInv, Untouched, NoKeyYet, Reported, AuthFirst
  <1>7. ClientKeys(c)' /\ GatewayKeys(c)' /\ Succeeded(c)'
    BY <1>1, <1>2, <1>3 DEF CInv, ClientKeys, GatewayKeys, Trusted, Succeeded, Joined,
                            ClientCodec, ServerSecret, Mirror
  <1>8. CInv(c)'
    BY <1>5, <1>6, <1>7 DEF CInv
  <1> QED
    BY <1>2, <1>8, StepAt

\* A new request starts a connection that nothing has touched.
LEMMA RequestSInv ==
    ASSUME NEW c \in Conns, SInv, NEW k \in Keys, NEW t \in Targets, Request(c, k, t)
    PROVE  SInv'
  <1>1. /\ task[c] = "idle" /\ phase[c] = "none" /\ task' = [task EXCEPT ![c] = "dialing"]
        /\ dial' = [dial EXCEPT ![c] = [pub |-> k.pub, psk |-> k.psk, target |-> t]]
        /\ phase' = phase /\ up' = up /\ down' = down /\ reply' = reply
        /\ codec' = codec /\ gcodec' = gcodec /\ dest' = dest
    BY DEF Request, Move, gateway, vars, ends
  <1>2. At(c) /\ CInv(c) /\ task'[c] = "dialing"
    BY <1>1 DEF SInv, Shape, At, Same
  <1>3. dial'[c] = [pub |-> k.pub, psk |-> k.psk, target |-> t]
    BY <1>1 DEF SInv, Shape
  <1>4. dial'[c] \in Dials
    BY <1>3 DEF Keys, Dials
  <1>5. /\ up'[c] = <<>> /\ down'[c] = <<>> /\ codec'[c] = NoCodec /\ gcodec'[c] = NoCodec
        /\ reply'[c] = "none"
    BY <1>1, <1>2 DEF CInv, Untouched, NoKeyYet
  <1>6. up'[c] \in Seq(UpMsgs(c)') /\ down'[c] \in Seq(DownMsgs(c)')
    BY <1>5, EmptySeq
  <1>7. /\ Untouched(c)' /\ NoKeyYet(c)' /\ Reported(c)' /\ AuthFirst(c)'
        /\ ClientKeys(c)' /\ GatewayKeys(c)' /\ Succeeded(c)'
    BY <1>1, <1>2, <1>5 DEF Untouched, NoKeyYet, Reported, AuthFirst, ClientKeys, GatewayKeys, Succeeded
  <1>8. CInv(c)'
    BY <1>4, <1>6, <1>7 DEF CInv
  <1> QED
    BY <1>2, <1>8, StepAt

\* The gateway accepts the connection that the proxy dials.
LEMMA DialedSInv ==
    ASSUME NEW c \in Conns, SInv, NEW h \in Hellos, Dialed(c, h)
    PROVE  SInv'
  <1>1. /\ task[c] = "dialing" /\ task' = [task EXCEPT ![c] = "tls"]
        /\ phase' = [phase EXCEPT ![c] = "reading"]
        /\ dial' = dial /\ up' = up /\ down' = down /\ reply' = reply
        /\ codec' = codec /\ gcodec' = gcodec /\ dest' = dest
    BY DEF Dialed, Accept, Move, ends
  <1>2. At(c) /\ CInv(c) /\ task'[c] = "tls"
    BY <1>1 DEF SInv, Shape, At, Same
  <1>3. dial'[c] \in Dials
    BY <1>1, <1>2 DEF CInv
  <1>5. /\ up'[c] = <<>> /\ down'[c] = <<>> /\ codec'[c] = NoCodec /\ gcodec'[c] = NoCodec
        /\ reply'[c] = "none"
    BY <1>1, <1>2 DEF CInv, Untouched, NoKeyYet
  <1>6. up'[c] \in Seq(UpMsgs(c)') /\ down'[c] \in Seq(DownMsgs(c)')
    BY <1>5, EmptySeq
  <1>7. /\ Untouched(c)' /\ NoKeyYet(c)' /\ Reported(c)' /\ AuthFirst(c)'
        /\ ClientKeys(c)' /\ GatewayKeys(c)' /\ Succeeded(c)'
    BY <1>2, <1>5 DEF Untouched, NoKeyYet, Reported, AuthFirst, ClientKeys, GatewayKeys, Succeeded
  <1>8. CInv(c)'
    BY <1>3, <1>6, <1>7 DEF CInv
  <1> QED
    BY <1>2, <1>8, StepAt

\* A connection whose tasks are gone starts afresh.
LEMMA ForgetSInv ==
    ASSUME NEW c \in Conns, SInv, Forget(c)
    PROVE  SInv'
  <1>1. At(c)
    BY DEF Forget, Move, Answer, SInv, Shape, At, Same, gateway, vars
  <1>2. /\ task'[c] = "idle" /\ reply'[c] = "none" /\ dial'[c] = NoDial
        /\ up'[c] = <<>> /\ down'[c] = <<>> /\ codec'[c] = NoCodec /\ gcodec'[c] = NoCodec
    BY DEF Forget, Move, Answer, SInv, Shape
  <1>3. dial'[c] \in Dials
    BY <1>2 DEF NoDial, Dials
  <1>4. up'[c] \in Seq(UpMsgs(c)') /\ down'[c] \in Seq(DownMsgs(c)')
    BY <1>2, EmptySeq
  <1>5. /\ Untouched(c)' /\ NoKeyYet(c)' /\ Reported(c)' /\ AuthFirst(c)'
        /\ ClientKeys(c)' /\ GatewayKeys(c)' /\ Succeeded(c)'
    BY <1>2 DEF Untouched, NoKeyYet, Reported, AuthFirst, ClientKeys, GatewayKeys, Succeeded
  <1>6. CInv(c)'
    BY <1>3, <1>4, <1>5 DEF CInv
  <1> QED
    BY <1>1, <1>6, StepAt

\* The auth frame joins the queue.
LEMMA ClientHandshakeSInv ==
    ASSUME NEW c \in Conns, SInv, ClientHandshake(c)
    PROVE  SInv'
  <1>1. /\ task[c] = "tls" /\ task' = [task EXCEPT ![c] = "handshake"]
        /\ up' = [up EXCEPT ![c] = Append(up[c], AuthFrame(c))]
        /\ phase' = phase /\ dial' = dial /\ down' = down /\ reply' = reply
        /\ codec' = codec /\ gcodec' = gcodec /\ dest' = dest
    BY DEF ClientHandshake, Move, Send, gateway, vars, ends
  <1>2. At(c) /\ CInv(c) /\ task'[c] = "handshake" /\ up'[c] = Append(up[c], AuthFrame(c))
    BY <1>1 DEF SInv, Shape, At, Same
  <1>3. UpMsgs(c)' = UpMsgs(c) /\ DownMsgs(c)' = DownMsgs(c) /\ AuthFrame(c) \in UpMsgs(c)
    BY <1>1, UpMsgsKept, DownMsgsKept DEF UpMsgs
  <1>4. up'[c] \in Seq(UpMsgs(c)')
    BY <1>2, <1>3, AppendProperties DEF CInv
  <1>5. dial'[c] \in Dials /\ down'[c] \in Seq(DownMsgs(c)')
    BY <1>1, <1>2, <1>3 DEF CInv
  <1>6. Untouched(c)' /\ NoKeyYet(c)' /\ Reported(c)' /\ AuthFirst(c)'
    BY <1>1, <1>2 DEF CInv, Untouched, NoKeyYet, Reported, AuthFirst
  <1>7. ClientKeys(c)' /\ GatewayKeys(c)' /\ Succeeded(c)'
    BY <1>1, <1>2 DEF CInv, ClientKeys, GatewayKeys, Trusted, Succeeded, Joined,
                      ClientCodec, ServerSecret, Mirror
  <1>8. CInv(c)'
    BY <1>4, <1>5, <1>6, <1>7 DEF CInv
  <1> QED
    BY <1>2, <1>8, StepAt

\* The kinds of messages the client may find.
LEMMA DownKinds ==
    ASSUME NEW c, NEW m \in DownMsgs(c)
    PROVE  /\ m.type = "key" => m.public = ServerSecret(c)
           /\ m.type = "frame" => /\ m.key = Mirror(c).key
                                  /\ m.body = "OK" => Joined(c)
  <1>1. KeyMsg(c).type = "key" /\ KeyMsg(c).public = ServerSecret(c)
    BY DEF KeyMsg
  <1>2. Raw("ERR").type = "ERR" /\ Raw("bytes").type = "bytes"
    BY DEF Raw
  <1>3. \/ m \in {KeyMsg(c), Raw("ERR"), Raw("bytes")}
        \/ m = Seal(Mirror(c), "ERR")
        \/ m = Seal(Mirror(c), "OK") /\ Joined(c)
    BY DEF DownMsgs
  <1> QED
    BY <1>1, <1>2, <1>3, Sealed

\* The client's codec is made, and its CONNECT frame joins the queue.
LEMMA ServerKeyArrivesSInv ==
    ASSUME NEW c \in Conns, SInv, ServerKeyArrives(c)
    PROVE  SInv'
  <1>1. PICK m, k :
            /\ m = Head(down[c])
            /\ k = ClientCodec(c, IF m.type = "key" THEN m.public ELSE <<"bytes", c>>)
            /\ codec' = [codec EXCEPT ![c] = k]
            /\ up' = [up EXCEPT ![c] = Append(up[c], Seal(k, dial[c].target))]
    BY DEF ServerKeyArrives, Send
  <1>2. /\ task[c] = "handshake" /\ task' = [task EXCEPT ![c] = "connect"]
        /\ down[c] # <<>> /\ down' = [down EXCEPT ![c] = Tail(down[c])]
        /\ phase' = phase /\ dial' = dial /\ reply' = reply
        /\ gcodec' = gcodec /\ dest' = dest
    BY DEF ServerKeyArrives, Move, Arrived, Receive, gateway, vars
  <1>3. At(c) /\ CInv(c) /\ task'[c] = "connect" /\ codec'[c] = k
    BY <1>1, <1>2 DEF SInv, Shape, At, Same
  <1>4. up'[c] = Append(up[c], Seal(k, dial[c].target)) /\ down'[c] = Tail(down[c])
    BY <1>1, <1>2 DEF SInv, Shape
  <1>5. m \in DownMsgs(c) /\ Tail(down[c]) \in Seq(DownMsgs(c))
    BY <1>1, <1>2, <1>3, HeadTailProperties DEF CInv
  <1>6. k \in {ClientCodec(c, ServerSecret(c)), ClientCodec(c, <<"bytes", c>>)}
    BY <1>1, <1>5, DownKinds
  <1>7. k # NoCodec /\ codec[c] = NoCodec
    BY <1>2, <1>3, <1>6, Codecs DEF CInv, NoKeyYet
  <1>8. UpMsgs(c) = {AuthFrame(c)}
    BY <1>7 DEF UpMsgs
  <1>9. UpMsgs(c)' = {AuthFrame(c), Seal(k, dial[c].target)}
    <2>1. AuthFrame(c)' = AuthFrame(c)
      BY <1>2 DEF AuthFrame
    <2>2. Seal(codec[c], dial[c].target)' = Seal(k, dial[c].target)
      BY <1>2, <1>3 DEF Seal
    <2> QED
      BY <2>1, <2>2, <1>3, <1>7 DEF UpMsgs, NoCodec
  <1>10. up[c] \in Seq(UpMsgs(c)') /\ Seal(k, dial[c].target) \in UpMsgs(c)'
    BY <1>3, <1>8, <1>9, SeqMono DEF CInv
  <1>11. up'[c] \in Seq(UpMsgs(c)')
    BY <1>4, <1>10, AppendProperties
  <1>12. DownMsgs(c)' = DownMsgs(c)
    BY <1>2, DownMsgsKept
  <1>13. dial'[c] \in Dials /\ down'[c] \in Seq(DownMsgs(c)')
    BY <1>2, <1>3, <1>4, <1>5, <1>12 DEF CInv
  <1>14. Untouched(c)' /\ NoKeyYet(c)' /\ Reported(c)' /\ AuthFirst(c)'
    BY <1>2, <1>3, <1>7 DEF CInv, Untouched, NoKeyYet, Reported, AuthFirst, NoCodec
  <1>15. ClientKeys(c)'
    BY <1>3, <1>6 DEF ClientKeys, ClientCodec, ServerSecret
  <1>16. GatewayKeys(c)'
    BY <1>2, <1>3 DEF CInv, GatewayKeys, Trusted, Mirror
  <1>17. Succeeded(c)'
    BY <1>2, <1>3 DEF CInv, Succeeded
  <1>18. CInv(c)'
    BY <1>11, <1>13, <1>14, <1>15, <1>16, <1>17 DEF CInv
  <1> QED
    BY <1>3, <1>18, StepAt

\* A frame that opens comes from the gateway that derived the same key.
LEMMA AckArrivesSInv ==
    ASSUME NEW c \in Conns, SInv, AckArrives(c)
    PROVE  SInv'
  <1>1. /\ task[c] = "connect" /\ down[c] # <<>> /\ Opens(codec[c], Head(down[c]))
        /\ down' = [down EXCEPT ![c] = Tail(down[c])]
        /\ phase' = phase /\ dial' = dial /\ up' = up
        /\ codec' = codec /\ gcodec' = gcodec /\ dest' = dest
    BY DEF AckArrives, Arrived, Receive, gateway, vars, ends
  <1>2. \/ /\ task' = [task EXCEPT ![c] = "relay"] /\ reply' = [reply EXCEPT ![c] = "success"]
           /\ Head(down[c]).body = "OK"
        \/ task' = [task EXCEPT ![c] = "closed"] /\ reply' = [reply EXCEPT ![c] = "failure"]
    BY DEF AckArrives, Move, Answer
  <1>3. At(c) /\ CInv(c) /\ down'[c] = Tail(down[c])
    BY <1>1, <1>2 DEF SInv, Shape, At, Same
  <1>4. \/ task'[c] = "relay" /\ reply'[c] = "success" /\ Head(down[c]).body = "OK"
        \/ task'[c] = "closed" /\ reply'[c] = "failure"
    BY <1>2 DEF SInv, Shape
  <1>5. Head(down[c]) \in DownMsgs(c) /\ Tail(down[c]) \in Seq(DownMsgs(c))
    BY <1>1, <1>3, HeadTailProperties DEF CInv
  <1>6. codec[c].key = Mirror(c).key
    BY <1>1, <1>5, DownKinds DEF Opens
  <1>7. codec[c] = ClientCodec(c, ServerSecret(c))
    BY <1>3, <1>6, Codecs DEF CInv, ClientKeys
  <1>8. Head(down[c]).body = "OK" => Joined(c)
    BY <1>1, <1>5, DownKinds DEF Opens
  <1>9. UpMsgs(c)' = UpMsgs(c) /\ DownMsgs(c)' = DownMsgs(c)
    BY <1>1, UpMsgsKept, DownMsgsKept
  <1>10. dial'[c] \in Dials /\ up'[c] \in Seq(UpMsgs(c)') /\ down'[c] \in Seq(DownMsgs(c)')
    BY <1>1, <1>3, <1>5, <1>9 DEF CInv
  <1>11. codec[c] # NoCodec
    BY <1>7, Codecs
  <1>12. Untouched(c)' /\ NoKeyYet(c)' /\ Reported(c)' /\ AuthFirst(c)'
    BY <1>1, <1>3, <1>4, <1>11 DEF CInv, Untouched, NoKeyYet, Reported, AuthFirst, NoCodec
  <1>13. ClientKeys(c)' /\ GatewayKeys(c)'
    BY <1>1, <1>3 DEF CInv, ClientKeys, GatewayKeys, Trusted, ClientCodec, ServerSecret, Mirror
  <1>14. Succeeded(c)'
    BY <1>1, <1>4, <1>7, <1>8 DEF Succeeded, Joined, ClientCodec, ServerSecret, Mirror
  <1>15. CInv(c)'
    BY <1>10, <1>12, <1>13, <1>14 DEF CInv
  <1> QED
    BY <1>3, <1>15, StepAt

-----------------------------------------------------------------------------
(* The gateway's task *)

\* A step that reads a message, or none, and writes one: what it may set, and what
\* then remains true.
LEMMA GatewayStep ==
    ASSUME NEW c \in Conns, SInv, NEW m, NEW g, NEW e,
           task[c] # "idle", phase[c] # "none",
           UNCHANGED <<task, dial, reply, codec>>,
           phase' = [phase EXCEPT ![c] = phase'[c]],
           phase'[c] \notin {"none", "reading", "tls", "auth"},
           up' = up \/ (up[c] # <<>> /\ up' = [up EXCEPT ![c] = Tail(up[c])]),
           down' = [down EXCEPT ![c] = Append(down[c], m)],
           m \in DownMsgs(c) \/ (m = Seal(Mirror(c), "OK") /\ g = Mirror(c) /\ e = dial[c].target),
           gcodec' = [gcodec EXCEPT ![c] = g],
           g = gcodec[c] \/ (g = Mirror(c) /\ Trusted(c)),
           dest' = [dest EXCEPT ![c] = e],
           e = dest[c] \/ e = dial[c].target
    PROVE  SInv'
  <1>1. At(c) /\ CInv(c) /\ gcodec'[c] = g /\ dest'[c] = e
    BY DEF SInv, Shape, At, Same
  <1>2. /\ up'[c] = up[c] \/ (up[c] # <<>> /\ up'[c] = Tail(up[c]))
        /\ down'[c] = Append(down[c], m)
    BY DEF SInv, Shape
  <1>3. task[c] \notin {"idle", "dialing"}
    BY <1>1 DEF CInv, Untouched
  <1>4. Joined(c) => g = Mirror(c) /\ e = dial[c].target
    BY DEF Joined
  <1>5. Joined(c)' <=> g = Mirror(c) /\ e = dial[c].target
    BY <1>1 DEF Joined, Mirror
  <1>6. DownMsgs(c) \subseteq DownMsgs(c)' /\ m \in DownMsgs(c)'
    BY <1>4, <1>5 DEF DownMsgs, KeyMsg, Raw, Seal, Mirror
  <1>7. down[c] \in Seq(DownMsgs(c)')
    BY <1>1, <1>6, SeqMono DEF CInv
  <1>8. down'[c] \in Seq(DownMsgs(c)')
    BY <1>2, <1>6, <1>7, AppendProperties
  <1>9. UpMsgs(c)' = UpMsgs(c)
    BY UpMsgsKept
  <1>10. up'[c] \in Seq(UpMsgs(c)')
    <2>1. up[c] \in Seq(UpMsgs(c))
      BY <1>1 DEF CInv
    <2>2. up[c] # <<>> => Tail(up[c]) \in Seq(UpMsgs(c))
      BY <2>1, HeadTailProperties
    <2> QED
      BY <1>2, <1>9, <2>1, <2>2
  <1>11. dial'[c] \in Dials
    BY <1>1 DEF CInv
  <1>12. Untouched(c)' /\ NoKeyYet(c)' /\ Reported(c)' /\ AuthFirst(c)'
    BY <1>1, <1>3 DEF CInv, Untouched, NoKeyYet, Reported, AuthFirst, NoCodec
  <1>13. ClientKeys(c)'
    BY <1>1 DEF CInv, ClientKeys, ClientCodec, ServerSecret
  <1>14. GatewayKeys(c)'
    BY <1>1 DEF CInv, GatewayKeys, Trusted, Mirror, NoCodec
  <1>15. Succeeded(c)'
    BY <1>1, <1>4, <1>5 DEF CInv, Succeeded, ClientCodec, ServerSecret
  <1>16. CInv(c)'
    BY <1>8, <1>10, <1>11, <1>12, <1>13, <1>14, <1>15 DEF CInv
  <1> QED
    BY <1>1, <1>16, StepAt

\* What the gateway may find where it expects an auth frame, or a CONNECT frame.
LEMMA UpKinds ==
    ASSUME NEW c \in Conns, SInv, up[c] # <<>>
    PROVE  /\ phase[c] = "auth" => Head(up[c]) = AuthFrame(c)
           /\ Opens(gcodec[c], Head(up[c])) =>
                 Head(up[c]).body = dial[c].target /\ gcodec[c] = Mirror(c)
  <1>1. CInv(c) /\ Head(up[c]) \in UpMsgs(c)
    BY HeadTailProperties DEF SInv, CInv
  <1>2. Head(up[c]) = AuthFrame(c)
            \/ (codec[c] # NoCodec /\ Head(up[c]) = Seal(codec[c], dial[c].target))
    BY <1>1 DEF UpMsgs
  <1>3. phase[c] = "auth" => codec[c] = NoCodec
    BY <1>1 DEF CInv, AuthFirst
  <1>4. AuthFrame(c).type = "auth"
    BY DEF AuthFrame
  <1>5. ASSUME Opens(gcodec[c], Head(up[c]))
        PROVE  Head(up[c]).body = dial[c].target /\ gcodec[c] = Mirror(c)
    <2>1. Head(up[c]).type = "frame" /\ Head(up[c]).key = gcodec[c].key
      BY <1>5 DEF Opens
    <2>2. codec[c] # NoCodec /\ Head(up[c]) = Seal(codec[c], dial[c].target)
      BY <1>2, <1>4, <2>1
    <2>3. codec[c].key = gcodec[c].key /\ Head(up[c]).body = dial[c].target
      BY <2>1, <2>2, Sealed
    <2>4. codec[c].key # NoCodec.key
      BY <1>1, <2>2, Codecs DEF CInv, ClientKeys
    <2> QED
      BY <1>1, <2>3, <2>4 DEF CInv, GatewayKeys
  <1> QED
    BY <1>2, <1>3, <1>5

\* server_derive_session makes the mirror image of the client's codec.
LEMMA AcceptsClientSInv ==
    ASSUME NEW c \in Conns, SInv, task[c] # "idle", AcceptsClient(c)
    PROVE  SInv'
  <1>1. phase[c] = "auth" /\ phase' = [phase EXCEPT ![c] = "claims"]
    BY DEF AcceptsClient, Authenticated, Enter
  <1>2. /\ up[c] # <<>> /\ Verified(Head(up[c]))
        /\ gcodec' = [gcodec EXCEPT ![c] = GatewayCodec(c, Head(up[c]))]
        /\ down' = [down EXCEPT ![c] = Append(down[c], KeyMsg(c))]
        /\ up' = [up EXCEPT ![c] = Tail(up[c])]
        /\ UNCHANGED <<task, dial, reply, codec, dest>>
    BY DEF AcceptsClient, read_auth_frame, Arrived, Send, Receive, KeyMsg
  <1>3. phase'[c] = "claims" /\ dest' = [dest EXCEPT ![c] = dest[c]] /\ CInv(c)
    BY <1>1, <1>2 DEF SInv, Shape
  <1>4. Head(up[c]) = AuthFrame(c)
    BY <1>1, <1>2, UpKinds
  <1>5. GatewayCodec(c, AuthFrame(c)) = Mirror(c)
    BY DEF GatewayCodec, Mirror, AuthFrame, ClientSecret
  <1>6. Trusted(c)
    BY <1>2, <1>3, <1>4, VerifiedTrusted DEF CInv
  <1>7. KeyMsg(c) \in DownMsgs(c)
    BY DEF DownMsgs
  <1> QED
    BY <1>1, <1>2, <1>3, <1>4, <1>5, <1>6, <1>7, GatewayStep

\* The steps that answer ERR in the clear, and the CDN's answer.
LEMMA RawAnswers ==
    ASSUME NEW c \in Conns, SInv, task[c] # "idle",
           RefusesClient(c) \/ RefusesClaims(c) \/ CdnAnswers(c)
    PROVE  SInv'
  <1>1. /\ phase[c] # "none" /\ phase' = [phase EXCEPT ![c] = phase'[c]]
        /\ phase'[c] \in {"answered", "fallback"}
    BY DEF RefusesClient, AuthFails, RefusesClaims, ClaimsRefused, Enter,
           CdnAnswers, gateway, vars, SInv, Shape
  <1>2. PICK m \in {Raw("ERR"), Raw("bytes")} : down' = [down EXCEPT ![c] = Append(down[c], m)]
    BY DEF RefusesClient, RefusesClaims, CdnAnswers, Send
  <1>3. up' = up \/ (up[c] # <<>> /\ up' = [up EXCEPT ![c] = Tail(up[c])])
    BY DEF RefusesClient, RefusesClaims, CdnAnswers, Receive, Arrived, read_auth_frame
  <1>4. UNCHANGED <<task, dial, reply, codec, gcodec, dest>>
    BY DEF RefusesClient, RefusesClaims, CdnAnswers, ends
  <1>5. gcodec' = [gcodec EXCEPT ![c] = gcodec[c]] /\ dest' = [dest EXCEPT ![c] = dest[c]]
    BY <1>4 DEF SInv, Shape
  <1>6. m \in DownMsgs(c)
    BY DEF DownMsgs
  <1> QED
    BY <1>1, <1>2, <1>3, <1>4, <1>5, <1>6, GatewayStep

\* OK goes out together with the target the client asked for.
LEMMA ConnectsTargetSInv ==
    ASSUME NEW c \in Conns, SInv, task[c] # "idle", ConnectsTarget(c)
    PROVE  SInv'
  <1>1. phase[c] = "connect" /\ phase' = [phase EXCEPT ![c] = "relay"]
    BY DEF ConnectsTarget, TargetConnected, Enter
  <1>2. /\ up[c] # <<>> /\ Opens(gcodec[c], Head(up[c]))
        /\ up' = [up EXCEPT ![c] = Tail(up[c])]
        /\ dest' = [dest EXCEPT ![c] = Head(up[c]).body]
        /\ down' = [down EXCEPT ![c] = Append(down[c], Seal(gcodec[c], "OK"))]
        /\ UNCHANGED <<task, dial, reply, codec, gcodec>>
    BY DEF ConnectsTarget, Arrived, Send, Receive
  <1>3. phase'[c] = "relay" /\ gcodec' = [gcodec EXCEPT ![c] = gcodec[c]]
    BY <1>1, <1>2 DEF SInv, Shape
  <1>4. Head(up[c]).body = dial[c].target /\ gcodec[c] = Mirror(c)
    BY <1>2, UpKinds
  <1> QED
    BY <1>1, <1>2, <1>3, <1>4, GatewayStep

\* A target that does not answer is reported in a frame.
LEMMA MissesTargetSInv ==
    ASSUME NEW c \in Conns, SInv, task[c] # "idle", MissesTarget(c)
    PROVE  SInv'
  <1>1. phase[c] = "connect" /\ phase' = [phase EXCEPT ![c] = "answered"]
    BY DEF MissesTarget, TargetFails, Enter
  <1>2. /\ up[c] # <<>> /\ Opens(gcodec[c], Head(up[c]))
        /\ up' = [up EXCEPT ![c] = Tail(up[c])]
        /\ down' = [down EXCEPT ![c] = Append(down[c], Seal(gcodec[c], "ERR"))]
        /\ UNCHANGED <<task, dial, reply, codec, gcodec, dest>>
    BY DEF MissesTarget, Arrived, Send, Receive, ends
  <1>3. /\ phase'[c] = "answered" /\ gcodec' = [gcodec EXCEPT ![c] = gcodec[c]]
        /\ dest' = [dest EXCEPT ![c] = dest[c]]
    BY <1>1, <1>2 DEF SInv, Shape
  <1>4. gcodec[c] = Mirror(c) /\ Seal(Mirror(c), "ERR") \in DownMsgs(c)
    BY <1>2, UpKinds DEF DownMsgs
  <1> QED
    BY <1>1, <1>2, <1>3, <1>4, GatewayStep

\* The steps of the gateway's task that neither read nor write.
LEMMA QuietSInv ==
    ASSUME NEW c \in Conns, SInv,
           Decides(c) \/ FinishesTls(c) \/ AcceptsClaims(c) \/ GatewayReturns(c)
    PROVE  SInv'
  <1>1. UNCHANGED session /\ phase[c] # "none"
    BY DEF Decides, StartTls, Fallback, FinishesTls, TlsAccepted, AcceptsClaims,
           ClaimsAccepted, GatewayReturns, Returns
  <1>2. PICK p : /\ phase' = [phase EXCEPT ![c] = p]
                 /\ p \in {"reading", "tls", "auth"} => phase[c] \in {"reading", "tls", "auth"}
    BY DEF Decides, StartTls, Fallback, FinishesTls, TlsAccepted, AcceptsClaims,
           ClaimsAccepted, GatewayReturns, Returns, Gone, Enter
  <1>3. phase'[c] = p
    BY <1>2 DEF SInv, Shape
  <1> QED
    BY <1>1, <1>2, <1>3, PhaseOnly

\* Connections that the proxy has not made leave its sessions alone.
LEMMA StrangerSInv ==
    ASSUME NEW c \in Conns, SInv, StrangerSteps(c)
    PROVE  SInv'
  <1>1. UNCHANGED session /\ task[c] = "idle"
    BY DEF StrangerSteps
  <1>2. PICK p : phase' = [phase EXCEPT ![c] = p]
    BY DEF StrangerSteps, Task, StartTls, Fallback, Panics, TlsAccepted, Authenticated,
           AuthFails, ClaimsAccepted, ClaimsRefused, TargetConnected, TargetFails,
           Returns, Gone, Enter, Accept
  <1>3. phase'[c] = p
    BY <1>2 DEF SInv, Shape
  <1> QED
    BY <1>1, <1>2, <1>3, PhaseOnly

-----------------------------------------------------------------------------
(* The invariant holds throughout *)

\* At the start there is no session.
LEMMA InitSInv == SessionInit => SInv
  <1> SUFFICES ASSUME SessionInit PROVE SInv
    OBVIOUS
  <1>1. Shape
    BY DEF SessionInit, Init, Shape
  <1>2. ASSUME NEW c \in Conns PROVE CInv(c)
    <2>1. /\ task[c] = "idle" /\ reply[c] = "none" /\ dial[c] = NoDial
          /\ up[c] = <<>> /\ down[c] = <<>> /\ codec[c] = NoCodec /\ gcodec[c] = NoCodec
      BY DEF SessionInit
    <2>2. dial[c] \in Dials
      BY <2>1 DEF NoDial, Dials
    <2>3. up[c] \in Seq(UpMsgs(c)) /\ down[c] \in Seq(DownMsgs(c))
      BY <2>1, EmptySeq
    <2> QED
      BY <2>1, <2>2, <2>3 DEF CInv, Untouched, NoKeyYet, Reported, AuthFirst, ClientKeys,
                              GatewayKeys, Succeeded
  <1> QED
    BY <1>1, <1>2 DEF SInv

\* The steps of the proxy's task.
LEMMA ClientSInv ==
    ASSUME NEW c \in Conns, SInv, ClientProceeds(c)
    PROVE  SInv'
  <1>1. CASE ConnectFails(c) \/ HandshakeFails(c)
    BY <1>1, Closes DEF ConnectFails, HandshakeFails
  <1>2. CASE AckFails(c) \/ RelayEnds(c)
    <2>1. task[c] \in {"connect", "relay"} /\ codec[c] # NoCodec
      BY <1>2 DEF AckFails, RelayEnds, SInv, CInv, Reported
    <2> QED
      BY <1>2, <2>1, Closes DEF AckFails, RelayEnds
  <1> QED
    BY <1>1, <1>2, ClientHandshakeSInv, ServerKeyArrivesSInv, AckArrivesSInv DEF ClientProceeds

\* The steps of the gateway's task.
LEMMA GatewaySInv ==
    ASSUME NEW c \in Conns, SInv, task[c] # "idle",
           GatewayProceeds(c) \/ CdnAnswers(c)
    PROVE  SInv'
  BY QuietSInv, AcceptsClientSInv, RawAnswers, ConnectsTargetSInv, MissesTargetSInv
     DEF GatewayProceeds

\* Every step of either end keeps the invariant.
LEMMA NextSInv == SInv /\ [SessionNext]_all => SInv'
  <1> SUFFICES ASSUME SInv, [SessionNext]_all PROVE SInv'
    OBVIOUS
  <1>1. CASE UNCHANGED all
    <2>1. Shape' /\ \A d \in Conns : Same(d)
      BY <1>1 DEF SInv, Shape, Same, all, vars, session
    <2> QED
      BY <2>1, CInvSame DEF SInv
  <1>2. CASE SessionNext
    BY <1>2, RequestSInv, DialedSInv, ClientSInv, ForgetSInv, GatewaySInv, StrangerSInv
       DEF SessionNext
  <1> QED
    BY <1>1, <1>2

\* What is known of each connection's keys and messages holds throughout.
THEOREM SInvAlways == SessionSpec => []SInv
  BY InitSInv, NextSInv, PTL DEF SessionSpec

(* Success is agreement: a SOCKS client is told of success only when the   *)
(* gateway with the configured keys has connected to its target and holds  *)
(* the mirror image of its codec (handle_connection in proxy.rs against    *)
(* handle_tcp_connection in main.rs), for any number of connections.       *)
THEOREM SuccessIsAgreement == SessionSpec => []Agreement
  <1>1. SInv => Agreement
    <2> SUFFICES ASSUME SInv, NEW c \in Conns, reply[c] = "success"
                 PROVE  /\ dial[c] = [pub |-> Static, psk |-> Psk, target |-> dest[c]]
                        /\ gcodec[c] = FrameCodec(codec[c].key, codec[c].recv, codec[c].send)
      BY DEF Agreement
    <2>1. /\ codec[c] = ClientCodec(c, ServerSecret(c)) /\ gcodec[c] = Mirror(c)
          /\ dest[c] = dial[c].target /\ dial[c] \in Dials
      BY DEF SInv, CInv, Succeeded, Joined
    <2>2. dial[c].pub = Static /\ dial[c].psk = Psk
      BY <2>1, Codecs DEF SInv, CInv, GatewayKeys, Trusted
    <2>3. dial[c] = [pub |-> Static, psk |-> Psk, target |-> dest[c]]
      BY <2>1, <2>2 DEF Dials
    <2> QED
      BY <2>1, <2>3, Codecs
  <1> QED
    BY <1>1, SInvAlways, PTL

(* No key and prefix serve two senders, whichever sessions are open at     *)
(* once (the prefixes of client_handshake, steal.rs).                      *)
THEOREM NoncesAlwaysApart == SessionSpec => []NoncesApart
  <1>1. SInv => NoncesApart
    <2> SUFFICES ASSUME SInv, NEW j \in Senders, NEW k \in Senders, Seals(j) = Seals(k)
                 PROVE  j = k
      BY DEF NoncesApart
    <2>1. ASSUME NEW i \in Senders
          PROVE  Seals(i)[2] = <<IF i.side = "client" THEN "c2s" ELSE "s2c", i.conn>>
      <3>1. /\ i.conn \in Conns /\ i.side \in {"client", "gateway"}
            /\ (IF i.side = "client" THEN codec ELSE gcodec)[i.conn] # NoCodec
        BY DEF Senders
      <3>2. CASE i.side = "client"
        <4>1. codec[i.conn] \in {ClientCodec(i.conn, ServerSecret(i.conn)),
                                 ClientCodec(i.conn, <<"bytes", i.conn>>)}
          BY <3>1, <3>2 DEF SInv, CInv, ClientKeys
        <4>2. codec[i.conn].send = <<"c2s", i.conn>>
          BY <4>1 DEF ClientCodec, FrameCodec
        <4> QED
          BY <3>2, <4>2 DEF Seals
      <3>3. CASE i.side # "client"
        <4>1. gcodec[i.conn] = Mirror(i.conn)
          BY <3>1, <3>3 DEF SInv, CInv, GatewayKeys
        <4>2. gcodec[i.conn].send = <<"s2c", i.conn>>
          BY <4>1 DEF Mirror, FrameCodec
        <4> QED
          BY <3>3, <4>2 DEF Seals
      <3> QED
        BY <3>2, <3>3
    <2>2. j.conn = k.conn /\ j.side = k.side
      BY <2>1 DEF Senders
    <2> QED
      BY <2>2 DEF Senders
  <1> QED
    BY <1>1, SInvAlways, PTL

(* The long-term secret is in no session key (steal.rs, "Forward           *)
(* Secrecy").                                                              *)
THEOREM AlwaysForwardSecret == SessionSpec => []ForwardSecret
  <1>1. SInv => ForwardSecret
    <2> SUFFICES ASSUME SInv, NEW c \in Conns, NEW k \in {codec[c], gcodec[c]} \ {NoCodec}
                 PROVE  k.key[2] \cap LongTerm = {}
      BY DEF ForwardSecret
    <2>1. k \in {ClientCodec(c, ServerSecret(c)), ClientCodec(c, <<"bytes", c>>), Mirror(c)}
      BY DEF SInv, CInv, ClientKeys, GatewayKeys
    <2>2. k.key[2] \subseteq {<<"client", c>>, <<"server", c>>, <<"bytes", c>>}
      BY <2>1 DEF ClientCodec, Mirror, FrameCodec, SessionKey, DH, ClientSecret, ServerSecret
    <2> QED
      BY <2>2 DEF LongTerm, Static
  <1> QED
    BY <1>1, SInvAlways, PTL

(* A SOCKS client is left without a reply only after the endpoint has sent *)
(* something that was taken for a key (handle_connection, proxy.rs).       *)
THEOREM FailuresReported == SessionSpec => []FailureReported
  <1>1. SInv => FailureReported
    BY DEF SInv, CInv, Reported, FailureReported
  <1> QED
    BY <1>1, SInvAlways, PTL

-----------------------------------------------------------------------------
(* The two ends do not wait for each other *)

\* Until the gateway's task has answered for good, a waiting client's question or the
\* answer to it is on the way.
Unanswered == {"reading", "tls", "auth", "claims", "connect", "fallback"}
InFlight(c) ==
    task[c] \in {"handshake", "connect"} /\ phase[c] \in Unanswered =>
        up[c] # <<>> \/ down[c] # <<>>
WInv == \A c \in Conns : InFlight(c)

\* A queue to which something has been added is not empty.
LEMMA AppendNonempty ==
    ASSUME NEW S, NEW s \in Seq(S), NEW m
    PROVE  Append(s, m) # <<>>
  <1>1. s \in Seq(S \cup {m})
    BY SeqMono
  <1> QED
    BY <1>1, AppendProperties, EmptySeq

\* What a step that moves one task, one phase or one message does to what is in flight.
LEMMA ClientInFlight ==
    ASSUME SInv, WInv, NEW c \in Conns, ClientProceeds(c) \/ Forget(c)
    PROVE  WInv'
  <1> SUFFICES ASSUME NEW d \in Conns PROVE InFlight(d)'
    BY DEF WInv
  <1>1. Shape /\ InFlight(d) /\ up[d] \in Seq(UpMsgs(d))
    BY DEF SInv, CInv, WInv
  <1>2. CASE ConnectFails(c) \/ HandshakeFails(c) \/ AckFails(c) \/ RelayEnds(c)
    BY <1>1, <1>2 DEF ConnectFails, HandshakeFails, AckFails, RelayEnds, Move, Shape, InFlight,
                      gateway, vars, Unanswered
  <1>3. CASE ClientHandshake(c)
    <2>1. phase' = phase /\ task' = [task EXCEPT ![c] = "handshake"] /\ down' = down
      BY <1>3 DEF ClientHandshake, gateway, vars, Move
    <2>2. up' = [up EXCEPT ![c] = Append(@, AuthFrame(c))]
      BY <1>3, Zenon DEF ClientHandshake, Send
    <2>3. d = c => up'[d] # <<>>
      BY <1>1, <2>2, AppendNonempty DEF Shape
    <2> QED
      BY <1>1, <2>1, <2>2, <2>3 DEF Shape, InFlight
  <1>4. CASE ServerKeyArrives(c)
    <2>1. phase' = phase /\ task' = [task EXCEPT ![c] = "connect"]
      BY <1>4 DEF ServerKeyArrives, gateway, vars, Move
    <2>2. PICK m : up' = [up EXCEPT ![c] = Append(@, m)]
      BY <1>4, Zenon DEF ServerKeyArrives, Send
    <2>3. down' = [down EXCEPT ![c] = Tail(@)]
      BY <1>4, Zenon DEF ServerKeyArrives, Receive
    <2>4. d = c => up'[d] # <<>>
      BY <1>1, <2>2, AppendNonempty DEF Shape
    <2> QED
      BY <1>1, <2>1, <2>2, <2>3, <2>4 DEF Shape, InFlight
  <1>5. CASE AckArrives(c)
    <2>1. /\ phase' = phase /\ up' = up /\ down' = [down EXCEPT ![c] = Tail(@)]
          /\ \E p \in {"relay", "closed"} : task' = [task EXCEPT ![c] = p]
      BY <1>5 DEF AckArrives, gateway, vars, Move, Receive
    <2> QED
      BY <1>1, <2>1 DEF Shape, InFlight
  <1>6. CASE Forget(c)
    BY <1>1, <1>6 DEF Forget, Move, Shape, InFlight, gateway, vars
  <1> QED
    BY <1>2, <1>3, <1>4, <1>5, <1>6 DEF ClientProceeds

LEMMA GatewayInFlight ==
    ASSUME SInv, WInv, NEW c \in Conns, GatewayProceeds(c) \/ CdnAnswers(c)
    PROVE  WInv'
  <1> SUFFICES ASSUME NEW d \in Conns PROVE InFlight(d)'
    BY DEF WInv
  <1>1. Shape /\ InFlight(d) /\ InFlight(c) /\ down[c] \in Seq(DownMsgs(c))
    BY DEF SInv, CInv, WInv
  <1>2. CASE Decides(c) \/ FinishesTls(c) \/ AcceptsClaims(c) \/ GatewayReturns(c)
    <2>1. task' = task /\ up' = up /\ down' = down
      BY <1>2 DEF Decides, FinishesTls, AcceptsClaims, GatewayReturns, session
    <2>2. \E p : /\ phase' = [phase EXCEPT ![c] = p]
                 /\ p \in Unanswered => phase[c] \in Unanswered
      <3>1. CASE Decides(c) \/ FinishesTls(c) \/ AcceptsClaims(c)
        <4>1. phase[c] \in Unanswered
          BY <3>1 DEF Decides, FinishesTls, AcceptsClaims, StartTls, Fallback, TlsAccepted,
                      ClaimsAccepted, Unanswered
        <4>2. \E p : phase' = [phase EXCEPT ![c] = p]
          BY <3>1, Zenon DEF Decides, FinishesTls, AcceptsClaims, StartTls, Fallback, TlsAccepted,
                             ClaimsAccepted, Enter
        <4> QED
          BY <4>1, <4>2, Zenon
      <3>2. CASE GatewayReturns(c)
        <4>1. phase' = [phase EXCEPT ![c] = "none"]
          BY <3>2 DEF GatewayReturns, Returns, Gone
        <4>2. "none" \notin Unanswered
          BY DEF Unanswered
        <4> QED
          BY <4>1, <4>2, Zenon
      <3> QED
        BY <1>2, <3>1, <3>2
    <2> QED
      BY <1>1, <2>1, <2>2 DEF Shape, InFlight
  <1>3. CASE AcceptsClient(c) \/ CdnAnswers(c)
    <2>1. /\ task' = task /\ up' = [up EXCEPT ![c] = Tail(@)]
          /\ \E m : down' = [down EXCEPT ![c] = Append(@, m)]
          /\ phase' = phase \/ \E p : phase' = [phase EXCEPT ![c] = p]
      BY <1>3 DEF AcceptsClient, CdnAnswers, Send, Receive, Authenticated, Enter, gateway, vars
    <2>2. d = c => down'[d] # <<>>
      BY <1>1, <2>1, AppendNonempty DEF Shape
    <2>3. d # c => up'[d] = up[d] /\ down'[d] = down[d] /\ phase'[d] = phase[d]
      BY <1>1, <2>1 DEF Shape
    <2> QED
      BY <1>1, <2>1, <2>2, <2>3 DEF InFlight
  <1>4. CASE RefusesClient(c) \/ RefusesClaims(c) \/ ConnectsTarget(c) \/ MissesTarget(c)
    <2>1. /\ task' = task
          /\ \E p \in {"answered", "relay"} : phase' = [phase EXCEPT ![c] = p]
      BY <1>4 DEF RefusesClient, RefusesClaims, ConnectsTarget, MissesTarget, AuthFails,
                  ClaimsRefused, TargetConnected, TargetFails, Enter
    <2>2. c # d => up'[d] = up[d] /\ down'[d] = down[d]
      BY <1>1, <1>4 DEF RefusesClient, RefusesClaims, ConnectsTarget, MissesTarget, Send, Receive,
                        Shape
    <2> QED
      BY <1>1, <2>1, <2>2 DEF Shape, InFlight, Unanswered
  <1> QED
    BY <1>2, <1>3, <1>4 DEF GatewayProceeds

\* A task that has only begun, or a stranger's connection.
LEMMA OthersInFlight ==
    ASSUME SInv, WInv, NEW c \in Conns,
           \/ \E k \in Keys, t \in Targets : Request(c, k, t)
           \/ \E h \in Hellos : Dialed(c, h)
           \/ StrangerSteps(c)
    PROVE  WInv'
  <1> SUFFICES ASSUME NEW d \in Conns PROVE InFlight(d)'
    BY DEF WInv
  <1>1. Shape /\ InFlight(d)
    BY DEF SInv, WInv
  <1>2. /\ up' = up /\ down' = down
        /\ \A e \in Conns \ {c} : phase'[e] = phase[e] /\ task'[e] = task[e]
        /\ task'[c] \in {"idle", "dialing", "tls"}
    <2>1. CASE \E k \in Keys, t \in Targets : Request(c, k, t)
      BY <1>1, <2>1 DEF Request, Move, Shape, gateway, vars
    <2>2. CASE \E h \in Hellos : Dialed(c, h)
      BY <1>1, <2>2 DEF Dialed, Accept, Move, Shape
    <2>3. CASE StrangerSteps(c)
      <3>1. task' = task /\ up' = up /\ down' = down /\ task[c] = "idle"
        BY <2>3 DEF StrangerSteps, session
      <3>2. \E p : phase' = [phase EXCEPT ![c] = p]
        BY <2>3, Zenon DEF StrangerSteps, Task, StartTls, Fallback, Panics, TlsAccepted, Authenticated,
                    AuthFails, ClaimsAccepted, ClaimsRefused, TargetConnected, TargetFails,
                    Returns, Accept, Enter, Gone
      <3> QED
        BY <1>1, <3>1, <3>2 DEF Shape
    <2> QED
      BY <2>1, <2>2, <2>3
  <1> QED
    BY <1>1, <1>2 DEF InFlight

\* Every step of either end keeps something in flight.
LEMMA NextInFlight == SInv /\ WInv /\ [SessionNext]_all => WInv'
  <1>1. ASSUME WInv, UNCHANGED all PROVE WInv'
    BY <1>1 DEF WInv, InFlight, all, vars, session
  <1> QED
    BY <1>1, ClientInFlight, GatewayInFlight, OthersInFlight DEF SessionNext

(* The proxy's task and the gateway's never wait for each other, whatever  *)
(* keys an endpoint is configured with and whoever answers: every exchange *)
(* of client_handshake and CONNECT leaves a message for the one that has   *)
(* to act (steal.rs, handle_tcp_connection in main.rs).                    *)
THEOREM NeverMutualWait == SessionSpec => []NoMutualWait
  <1>1. SessionInit => WInv
    BY DEF SessionInit, WInv, InFlight
  <1>2. WInv => NoMutualWait
    BY DEF WInv, InFlight, NoMutualWait, AwaitsGateway, AwaitsClient, Arrived, read_auth_frame,
           Unanswered
  <1> QED
    BY <1>1, <1>2, SInvAlways, NextInFlight, PTL DEF SessionSpec

-----------------------------------------------------------------------------
(* The gateway of a session is the gateway of GatewayConnection *)

\* A step of Session is a step of one connection of the gateway, or none.
LEMMA StepRefines == [SessionNext]_all => [Next]_vars
  <1> SUFFICES ASSUME [SessionNext]_all PROVE [Next]_vars
    OBVIOUS
  <1>1. CASE UNCHANGED all
    BY <1>1 DEF all, vars
  <1>2. ASSUME NEW c \in Conns, NEW h \in Hellos, Dialed(c, h) PROVE Next
    <2> DEFINE k == [hello |-> h, subscribed |-> TRUE, psk |-> Verified(AuthFrame(c))]
    <2>1. Verified(AuthFrame(c)) \in BOOLEAN
      BY Zenon DEF Verified
    <2> HIDE DEF Verified
    <2>2. k \in Clients
      BY <2>1 DEF Clients
    <2>3. Accept(c, k)
      BY <1>2 DEF Dialed
    <2> QED
      BY <2>2, <2>3, Zenon DEF Next
  <1>3. ASSUME NEW c \in Conns, ClientProceeds(c) \/ Forget(c) \/ CdnAnswers(c)
        PROVE  UNCHANGED vars
    BY <1>3, Zenon DEF ClientProceeds, ConnectFails, ClientHandshake, ServerKeyArrives, AckArrives,
                HandshakeFails, AckFails, RelayEnds, Forget, CdnAnswers, gateway
  <1>4. ASSUME NEW c \in Conns, NEW k \in Keys, NEW t \in Targets, Request(c, k, t)
        PROVE  UNCHANGED vars
    BY <1>4, Zenon DEF Request, gateway
  <1>5. ASSUME NEW c \in Conns, GatewayProceeds(c)
        PROVE  Task(c) \/ Returns(c)
    BY <1>5, Zenon DEF GatewayProceeds, GatewayReturns, Decides, FinishesTls, AcceptsClient,
                RefusesClient, AcceptsClaims, RefusesClaims, ConnectsTarget, MissesTarget, Task
  <1>6. ASSUME NEW c \in Conns, StrangerSteps(c) PROVE Next
    BY <1>6, Zenon DEF StrangerSteps, Next
  <1>7. CASE SessionNext
    <2>1. PICK c \in Conns :
              \/ \E k \in Keys, t \in Targets : Request(c, k, t)
              \/ \E h \in Hellos : Dialed(c, h)
              \/ ClientProceeds(c) \/ Forget(c)
              \/ task[c] # "idle" /\ (GatewayProceeds(c) \/ CdnAnswers(c))
              \/ StrangerSteps(c)
      BY <1>7, Zenon DEF SessionNext
    <2>2. CASE \E k \in Keys, t \in Targets : Request(c, k, t)
      BY <2>2, <1>4, Zenon
    <2>3. CASE \E h \in Hellos : Dialed(c, h)
      BY <2>3, <1>2, Zenon
    <2>4. CASE ClientProceeds(c) \/ Forget(c) \/ CdnAnswers(c)
      BY <2>4, <1>3, Zenon
    <2>5. CASE GatewayProceeds(c)
      BY <2>5, <1>5, Zenon DEF Next
    <2> QED
      BY <2>1, <2>2, <2>3, <2>4, <2>5, <1>6, Zenon
  <1> QED
    BY <1>1, <1>7

(* Every behaviour of both ends is, at the gateway, a behaviour of         *)
(* GatewayConnection: what main.rs promises of its connections does not    *)
(* depend on how the proxy behaves.                                        *)
THEOREM GatewayImplemented == SessionSpec => Spec
  <1>1. SessionInit => Init
    BY DEF SessionInit
  <1> QED
    BY <1>1, StepRefines, PTL DEF SessionSpec, Spec

(* The gateway's accounts stay right whatever the proxy's tasks do:        *)
(* permits are neither lost nor made and only proven clients reach a       *)
(* target (main.rs).                                                       *)
THEOREM GatewayKept ==
    SessionSpec => [](TypeOK /\ AccountsExact /\ OnlyProven)
  <1>1. IInv => TypeOK /\ AccountsExact /\ OnlyProven
    BY DEF IInv, AccountsExact
  <1> QED
    BY <1>1, GatewayImplemented, IInvAlways, PTL
==============================================================================
