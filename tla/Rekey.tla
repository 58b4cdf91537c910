------------------------------- MODULE Rekey -------------------------------
(***************************************************************************)
(* Changing the session key of a running tunnel: the two FrameCodecs       *)
(* (protocol.rs) and the handshake of steal.rs as the relays run it        *)
(* (gateway/src/main.rs:650-673, proxy.rs:267-287).                        *)
(*                                                                         *)
(* The gateway sends REKEY_INIT under the old key and then reads exactly   *)
(* one frame, which has to be the REKEY_ACK; the client answers under the  *)
(* old key and switches.  The connection is ordered and reliable.          *)
(*                                                                         *)
(* The gateway's relay would start a rekey when read_frame returned        *)
(* RekeyNeeded, an error only write_frame has (see Tunnel).  This is about *)
(* the handshake itself, so a relaying gateway may start one at any time,  *)
(* as any caller of send_rekey_init can.                                   *)
(*                                                                         *)
(* A key is a number, 0 for the session key of the handshake and fresh for *)
(* every rekey.  Encryption is abstract: a frame records the key it was    *)
(* sealed with, and decrypting with any other key fails.                   *)
(*                                                                         *)
(* Application data and control frames share one space of plaintexts and   *)
(* are told apart by how they begin.  A body records as what it reads, and *)
(* whether an application sent it, which no reader can see.                *)
(***************************************************************************)
EXTENDS ReplayWindow, Sequences

CONSTANTS
    Kids,        \* size of the kid space: 256 for a u8
    Overlap,     \* REKEY_OVERLAP_FRAMES
    Threshold,   \* REKEY_THRESHOLD
    MaxRekeys,   \* bound: rekeys a session attempts
    WireCap,     \* bound: frames in flight per direction
    Talkers      \* sides whose application sends data

Sides == {"client", "gateway"}

ASSUME RekeyAssumption ==
    /\ Kids \in Nat \ {0} /\ Overlap \in Nat \ {0}
    /\ Threshold \in Nat /\ MaxRekeys \in Nat /\ WireCap \in Nat \ {0}
    /\ Talkers \subseteq Sides

Peer(s) == IF s = "client" THEN "gateway" ELSE "client"

VARIABLES
    codec,    \* CodecState: active key and kid, prev (a key or None), frames_since_rekey
    ctr,      \* FrameCodec::send_counter
    win,      \* FrameCodec::recv_replay
    wire,     \* wire[s]: frames sent by s and not yet read by its peer
    state,    \* relaying, awaiting (the gateway, for the REKEY_ACK) or ended
    offer,    \* the key the gateway has offered last
    why,      \* how the relay ended
    nonces,   \* history: every <<key, prefix, counter>> sealed with
    reused,   \* history: some nonce was used twice under one key
    mistaken  \* history: application data was taken for a control frame

vars == <<codec, ctr, win, wire, state, offer, why, nonces, reused, mistaken>>

None == -1
RekeyInit(k) == [type |-> "init", key |-> k, from |-> "relay"]
RekeyAck(k) == [type |-> "ack", key |-> k, from |-> "relay"]

\* What an application's bytes read as at the other end: nothing but data; at the
\* client, whose target's bytes may begin with REKEY_INIT_MAGIC, a REKEY_INIT that
\* is too short or one with a key nobody else has; at the gateway, a REKEY_ACK.
Foreign == MaxRekeys + 1 .. MaxRekeys + Kids
AppData(s) ==
    [type : {"data"}, key : {None}, from : {"app"}] \cup
    IF s = "gateway" THEN [type : {"short"}, key : {None}, from : {"app"}]
                              \cup [type : {"init"}, key : Foreign, from : {"app"}]
                     ELSE [type : {"ack"}, key : 0..(Kids - 1), from : {"app"}]

\* The kid a key is announced under: kid().wrapping_add(1) at every rekey.
KidOf(k) == k % Kids

Init ==
    /\ codec = [s \in Sides |-> [key |-> 0, prev |-> None, since |-> 0]]
    /\ ctr = [s \in Sides |-> 0]
    /\ win = [s \in Sides |-> NewWindow]
    /\ wire = [s \in Sides |-> << >>]
    /\ state = [s \in Sides |-> "relaying"]
    /\ offer = 0
    /\ why = [s \in Sides |-> "none"]
    /\ nonces = {} /\ reused = FALSE /\ mistaken = FALSE

-----------------------------------------------------------------------------
(* FrameCodec *)

\* Mutant of Prefix: both directions share one prefix.
Prefix_Shared(s) == "session"

\* send_prefix: c2s_prefix and s2c_prefix differ.
Prefix(s) == s

\* start_rekey: the old key stays readable as prev; send_counter goes on.
start_rekey(c, k) == [key |-> k, prev |-> c.key, since |-> 0]

\* write_frame under key k onto the wires w, for a side whose counter is below the
\* threshold: counter, nonce, seal, send.  Waiting for room is waiting for WireCap;
\* what a blocked relay cannot do meanwhile is the subject of Tunnel.
Write(s, k, body, w) ==
    LET n == <<k, Prefix(s), ctr[s]>>
    IN  /\ ctr[s] < Threshold
        /\ Len(w[s]) < WireCap
        /\ ctr' = [ctr EXCEPT ![s] = @ + 1]
        /\ wire' = [w EXCEPT ![s] = Append(@, [key |-> k, counter |-> ctr[s], body |-> body])]
        /\ nonces' = nonces \cup {n}
        /\ reused' = (reused \/ n \in nonces)

\* write_frame at the threshold: the counter is spent and nothing is sent.
Refuse(s, w) ==
    /\ ctr[s] >= Threshold
    /\ ctr' = [ctr EXCEPT ![s] = @ + 1]
    /\ wire' = w
    /\ UNCHANGED <<nonces, reused>>

\* The error read_frame returns for frame f, or "none": the replay check comes
\* first, then the kid is looked up, then the frame is opened.
ReadError(s, f) ==
    LET c  == codec[s]
        k  == KidOf(f.key)
        by == IF k = KidOf(c.key) THEN c.key ELSE c.prev   \* the cipher the kid selects
    IN  IF ~Accepts(win[s], f.counter) THEN "replay"
        ELSE IF k # KidOf(c.key) /\ (c.prev = None \/ k # KidOf(c.prev)) THEN "unknown kid"
        ELSE IF by # f.key THEN "crypto"
        ELSE "none"

\* Auto-complete: prev is forgotten after Overlap frames.
CountOverlap(c) ==
    IF c.prev = None THEN c
    ELSE [c EXCEPT !.since = @ + 1, !.prev = IF c.since + 1 >= Overlap THEN None ELSE @]

Ended(s, reason) ==
    /\ state' = [state EXCEPT ![s] = "ended"]
    /\ why' = [why EXCEPT ![s] = reason]

-----------------------------------------------------------------------------
(* The relays *)

\* A chunk of application data goes out, or ends the relay with RekeyNeeded.
SendData(s, body) ==
    /\ s \in Talkers
    /\ state[s] = "relaying"
    /\ Write(s, codec[s].key, body, wire)
    /\ UNCHANGED <<codec, win, state, offer, why, mistaken>>

SendDataRefused(s) ==
    /\ s \in Talkers
    /\ state[s] = "relaying"
    /\ Refuse(s, wire)
    /\ Ended(s, "rekey needed")
    /\ UNCHANGED <<codec, win, offer, mistaken>>

\* send_rekey_init with a fresh key: the gateway now waits for the ACK only.  Past
\* the threshold REKEY_INIT itself is refused and the relay returns.
SendRekeyInit ==
    /\ state["gateway"] = "relaying"
    /\ offer < MaxRekeys
    /\ Write("gateway", codec["gateway"].key, RekeyInit(offer + 1), wire)
    /\ offer' = offer + 1
    /\ state' = [state EXCEPT !["gateway"] = "awaiting"]
    /\ UNCHANGED <<codec, win, why, mistaken>>

RekeyInitRefused ==
    /\ state["gateway"] = "relaying"
    /\ offer < MaxRekeys
    /\ Refuse("gateway", wire)
    /\ offer' = offer + 1
    /\ Ended("gateway", "rekey needed")
    /\ UNCHANGED <<codec, win, mistaken>>

\* The frame s would read next, and the wires once it has.
NextFrame(s) == Head(wire[Peer(s)])

Rest(s) == [wire EXCEPT ![Peer(s)] = Tail(@)]

\* A frame has arrived at s and read_frame puts its counter to the replay check.
Readable(s) ==
    /\ state[s] # "ended"
    /\ wire[Peer(s)] # << >>
    /\ win' = [win EXCEPT ![s] = Check(@, NextFrame(s).counter)]

\* What no reader can tell.
ByApp(f) == f.body.from = "app"

\* The client's relay looks for REKEY_INIT_MAGIC at the beginning of what it reads.
IsControl(s, body) == s = "client" /\ body.type \in {"init", "short"}

\* A relaying side passes on the data of the frame it reads; an error of read_frame,
\* while relaying or while waiting for the ACK, ends the session.
ReadData(s) ==
    LET e == ReadError(s, NextFrame(s))
    IN  /\ Readable(s)
        /\ e = "none" => state[s] = "relaying" /\ ~IsControl(s, NextFrame(s).body)
        /\ wire' = Rest(s)
        /\ IF e = "none"
           THEN codec' = [codec EXCEPT ![s] = CountOverlap(@)] /\ UNCHANGED <<state, why>>
           ELSE Ended(s, e) /\ UNCHANGED codec
        /\ UNCHANGED <<ctr, offer, nonces, reused, mistaken>>

\* The client's relay reads what begins as REKEY_INIT does: all of one, whoever
\* wrote it, or too little, which ends the session.
ReadControl(type) ==
    /\ state["client"] = "relaying"
    /\ Readable("client")
    /\ ReadError("client", NextFrame("client")) = "none"
    /\ NextFrame("client").body.type = type

ReadInit ==
    /\ ReadControl("init")
    /\ mistaken' = (mistaken \/ ByApp(NextFrame("client")))

ReadShort ==
    /\ ReadControl("short")
    /\ wire' = Rest("client")
    /\ codec' = [codec EXCEPT !["client"] = CountOverlap(@)]
    /\ Ended("client", "too short")
    /\ UNCHANGED <<ctr, offer, nonces, reused, mistaken>>

\* Mutants of AnswerInit: the client switches before it answers; it answers and
\* does not switch; it takes REKEY_INIT for data.
AnswerInit_SwitchesFirst ==
    LET k == NextFrame("client").body.key
    IN  /\ ReadInit
        /\ Write("client", k, RekeyAck(k), Rest("client"))
        /\ codec' = [codec EXCEPT !["client"] = start_rekey(CountOverlap(@), k)]
        /\ UNCHANGED <<state, offer, why>>
AnswerInit_KeepsKey ==
    LET k == NextFrame("client").body.key
    IN  /\ ReadInit
        /\ Write("client", codec["client"].key, RekeyAck(k), Rest("client"))
        /\ codec' = [codec EXCEPT !["client"] = CountOverlap(@)]
        /\ UNCHANGED <<state, offer, why>>

AnswerInit_PassedOn ==
    /\ ReadInit
    /\ wire' = Rest("client")
    /\ codec' = [codec EXCEPT !["client"] = CountOverlap(@)]
    /\ UNCHANGED <<ctr, state, offer, why, nonces, reused>>

\* The client answers under the key it has, and only then switches.
AnswerInit ==
    LET k == NextFrame("client").body.key
    IN  /\ ReadInit
        /\ Write("client", codec["client"].key, RekeyAck(k), Rest("client"))
        /\ codec' = [codec EXCEPT !["client"] = start_rekey(CountOverlap(@), k)]
        /\ UNCHANGED <<state, offer, why>>

AnswerRefused ==
    /\ ReadInit
    /\ Refuse("client", Rest("client"))
    /\ codec' = [codec EXCEPT !["client"] = CountOverlap(@)]
    /\ Ended("client", "rekey needed")
    /\ UNCHANGED offer

\* server_handle_rekey_ack: the one frame the gateway reads while it waits has to
\* read as the ACK for the key it offered.
IsAck(f) == f.body.type = "ack" /\ KidOf(f.body.key) = KidOf(offer)

\* Mutant of HandleAck: the gateway counts its frames from 0 again.
HandleAck_ResetsCounter ==
    /\ state["gateway"] = "awaiting"
    /\ Readable("gateway")
    /\ IsAck(NextFrame("gateway"))
    /\ wire' = Rest("gateway")
    /\ codec' = [codec EXCEPT !["gateway"] = start_rekey(CountOverlap(@), offer)]
    /\ state' = [state EXCEPT !["gateway"] = "relaying"]
    /\ ctr' = [ctr EXCEPT !["gateway"] = 0]
    /\ UNCHANGED <<offer, why, nonces, reused, mistaken>>

HandleAck ==
    /\ state["gateway"] = "awaiting"
    /\ Readable("gateway")
    /\ ReadError("gateway", NextFrame("gateway")) = "none"
    /\ IsAck(NextFrame("gateway"))
    /\ wire' = Rest("gateway")
    /\ codec' = [codec EXCEPT !["gateway"] = start_rekey(CountOverlap(@), offer)]
    /\ state' = [state EXCEPT !["gateway"] = "relaying"]
    /\ mistaken' = (mistaken \/ ByApp(NextFrame("gateway")))
    /\ UNCHANGED <<ctr, offer, why, nonces, reused>>

\* Anything else ends the session.
NotAck ==
    /\ state["gateway"] = "awaiting"
    /\ Readable("gateway")
    /\ ReadError("gateway", NextFrame("gateway")) = "none"
    /\ ~IsAck(NextFrame("gateway"))
    /\ wire' = Rest("gateway")
    /\ codec' = [codec EXCEPT !["gateway"] = CountOverlap(@)]
    /\ Ended("gateway", "bad ack")
    /\ UNCHANGED <<ctr, offer, nonces, reused, mistaken>>

\* The peer has ended and everything it sent has been read.
PeerEof(s) ==
    /\ state[s] # "ended"
    /\ state[Peer(s)] = "ended"
    /\ wire[Peer(s)] = << >>
    /\ Ended(s, "eof")
    /\ UNCHANGED <<codec, ctr, win, wire, offer, nonces, reused, mistaken>>

ReadErrors == {"replay", "unknown kid", "crypto"}

Read(s) == ReadData(s) \/ PeerEof(s)

Next ==
    \/ \E s \in Sides : (\E b \in AppData(s) : SendData(s, b)) \/ SendDataRefused(s) \/ Read(s)
    \/ SendRekeyInit \/ RekeyInitRefused
    \/ AnswerInit \/ AnswerRefused \/ ReadShort
    \/ HandleAck \/ NotAck

Spec == Init /\ [][Next]_vars

-----------------------------------------------------------------------------
(* No nonce is ever used twice under one key, in either direction and      *)
(* across rekeys, whatever is taken for a control frame: send_counter is   *)
(* not reset, the prefixes differ, keys are fresh.                         *)
NoncesUnique == ~reused

(* A rekey never makes a side refuse a frame of its peer: nothing is taken *)
(* for a replay, and a frame arrives under a kid the reader does not know, *)
(* or opens under the wrong key because kids repeat, only in a session     *)
(* that has taken application data for a REKEY_INIT or a REKEY_ACK.        *)
NoFrameRefused ==
    \A s \in Sides : why[s] # "replay" /\ (why[s] \in ReadErrors => mistaken)

(* The frame a side is about to read was sealed with the key it uses       *)
(* itself, unless data has been taken for a control frame: answering under *)
(* the old key keeps both directions in step, and the overlap window is    *)
(* never what saves a frame.                                               *)
ReadsUnderActiveKey ==
    \A s \in Sides :
        ~mistaken /\ state[s] # "ended" /\ wire[Peer(s)] # << >> =>
            Head(wire[Peer(s)]).key = codec[s].key

(* Once the gateway no longer waits and nothing is in flight, both sides   *)
(* have the same key, unless data has been taken for a control frame.      *)
Converged ==
    (/\ \A s \in Sides : state[s] = "relaying" /\ wire[s] = << >>)
        => mistaken \/ codec["client"].key = codec["gateway"].key

(* The gateway, which waits for the ACK without a timeout                  *)
(* (server_handle_rekey_ack), never does so while nothing is under way     *)
(* that ends the wait: its REKEY_INIT is still to be read, the client has  *)
(* sent something, or the client has ended.                                *)
NoStandoff ==
    state["gateway"] = "awaiting" =>
        \/ \E i \in 1..Len(wire["gateway"]) : wire["gateway"][i].body = RekeyInit(offer)
        \/ wire["client"] # << >>
        \/ state["client"] = "ended"

=============================================================================
