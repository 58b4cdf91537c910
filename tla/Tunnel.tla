------------------------------- MODULE Tunnel -------------------------------
(***************************************************************************)
(* An established tunnel: the relay loop of the SOCKS proxy (proxy.rs) and *)
(* the relay loop of the gateway (gateway/src/main.rs), each with its      *)
(* FrameCodec (protocol.rs), over one TLS connection.                      *)
(*                                                                         *)
(* A relay is one task.  Its select! polls the local socket and            *)
(* codec.read_frame together; when one branch is ready the other future is *)
(* dropped, and while the body of a branch awaits (rate limiter, a write)  *)
(* nothing is read.                                                        *)
(*                                                                         *)
(* The wire carries TLS records.  read_frame needs all records of a frame; *)
(* the ones it has already taken are lost when it is dropped, after which  *)
(* the next read_frame starts in the middle of a frame.  A wire holds at   *)
(* most WireCap records (socket and TLS buffers): a writer waits.          *)
(*                                                                         *)
(* The client's relay takes whatever begins with REKEY_INIT_MAGIC for a    *)
(* REKEY_INIT.  The gateway never sends one (RekeyNeeded comes from        *)
(* write_frame, its handler stands behind read_frame), so what the client  *)
(* takes for one is always data of the target.                             *)
(***************************************************************************)
EXTENDS ReplayWindow, Sequences

CONSTANTS
    Chunks,      \* Chunks[s]: how many chunks the application at s will send
    RelayBuf,    \* RelayBuf[s]: client_buf / target_buf, both 8192 bytes in the code
    Overhead,    \* frame header, kid, counter and tag
    Record,      \* largest TLS record
    WireCap,     \* bound: records a direction of the connection can hold
    Threshold,   \* REKEY_THRESHOLD
    Overlap      \* REKEY_OVERLAP_FRAMES

Sides == {"client", "gateway"}

ASSUME TunnelAssumption ==
    /\ Chunks \in [Sides -> Nat]
    /\ RelayBuf \in [Sides -> Nat \ {0}] /\ Overhead \in Nat /\ Record \in Nat \ {0}
    /\ WireCap \in Nat \ {0} /\ Threshold \in Nat /\ Overlap \in Nat \ {0}

Peer(s) == IF s = "client" THEN "gateway" ELSE "client"

VARIABLES
    pc,       \* where relay is: select, throttled, writing, delivering, ended
    hand,     \* the chunk the relay holds: [id, size], and the records left
    wire,     \* wire[s]: records sent by s and not yet read by its peer
    taken,    \* records of the current frame read_frame has already taken
    torn,     \* a read_frame was dropped with records taken
    ctr,      \* FrameCodec::send_counter
    win,      \* FrameCodec::recv_replay
    overlap,  \* frames of the gateway's the client can still open: Always until it switches
    cut,      \* cut[s]: s has closed the connection with a reset
    sent,     \* chunks s has put into the tunnel so far
    got,      \* the chunks s has taken out of the tunnel and disposed of so far
    mimic,    \* the target's chunks that begin with REKEY_INIT_MAGIC
    acks,     \* the client's chunks that are REKEY_ACKs of its relay
    why       \* how relay returned: none while it runs

codec == <<ctr, win, overlap>>
stream == <<sent, got, mimic, acks>>
vars == <<pc, hand, wire, taken, torn, codec, cut, stream, why>>

Nothing == [id |-> 0, size |-> 0, left |-> 0]
Always == -1

Init ==
    /\ pc = [s \in Sides |-> "select"]
    /\ hand = [s \in Sides |-> Nothing]
    /\ wire = [s \in Sides |-> << >>]
    /\ taken = [s \in Sides |-> 0]
    /\ torn = [s \in Sides |-> FALSE]
    /\ ctr = [s \in Sides |-> 1]        \* the CONNECT frame and its OK
    /\ win = [s \in Sides |-> Check(NewWindow, 0)]
    /\ overlap = Always
    /\ cut = [s \in Sides |-> FALSE]
    /\ sent = [s \in Sides |-> 0]
    /\ got = [s \in Sides |-> << >>]
    /\ mimic = {} /\ acks = {}
    /\ why = [s \in Sides |-> "none"]

\* relay returns, and both of its sockets are dropped.
End(s, reason) ==
    /\ pc' = [pc EXCEPT ![s] = "ended"]
    /\ why' = [why EXCEPT ![s] = reason]

-----------------------------------------------------------------------------
(* The branch of the local socket *)

\* Mutant of ReadSizes: the relay buffer is as large as MAX_PAYLOAD.
ReadSizes_Doubled(s) == 1..(2 * RelayBuf[s])

\* How much one read of the local socket can return.
ReadSizes(s) == 1..RelayBuf[s]

\* Records that a frame with a payload of n units is sent in: write_frame hands
\* the whole frame to the TLS session in one write.
Records(n) == (n + Overhead + Record - 1) \div Record

\* client.read / target.read returns data.  The other branch's read_frame is
\* dropped.  What a target sends may begin with REKEY_INIT_MAGIC.
ReadLocal(s) ==
    /\ pc[s] = "select"
    /\ sent[s] < Chunks[s]
    /\ \E n \in ReadSizes(s) :
          hand' = [hand EXCEPT ![s] = [id |-> sent[s] + 1, size |-> n, left |-> 0]]
    /\ sent' = [sent EXCEPT ![s] = @ + 1]
    /\ mimic' \in {mimic} \cup (IF s = "gateway" THEN {mimic \cup {sent[s] + 1}} ELSE {})
    /\ torn' = [torn EXCEPT ![s] = @ \/ taken[s] > 0]
    /\ taken' = [taken EXCEPT ![s] = 0]
    /\ pc' = [pc EXCEPT ![s] = "throttled"]
    /\ UNCHANGED <<codec, wire, cut, got, acks, why>>

\* Mutant of StartFrame: a chunk the rate limiter does not let pass is dropped
\* instead of retried.
StartFrame_Drops(s) ==
    /\ pc[s] = "throttled"
    /\ \/ /\ ctr' = [ctr EXCEPT ![s] = @ + 1]
          /\ pc' = [pc EXCEPT ![s] = "writing"]
          /\ hand' = [hand EXCEPT ![s].left = Records(hand[s].size)]
       \/ /\ pc' = [pc EXCEPT ![s] = "select"]
          /\ UNCHANGED <<ctr, hand>>
    /\ UNCHANGED <<win, overlap, wire, taken, torn, cut, stream, why>>

\* The rate limiter lets the chunk pass and write_frame starts: the counter is
\* consumed even when the threshold is reached.
StartFrame(s) ==
    /\ pc[s] = "throttled"
    /\ ctr' = [ctr EXCEPT ![s] = @ + 1]
    /\ \/ /\ ctr[s] < Threshold
          /\ pc' = [pc EXCEPT ![s] = "writing"]
          /\ hand' = [hand EXCEPT ![s].left = Records(hand[s].size)]
          /\ UNCHANGED why
       \/ /\ ctr[s] >= Threshold
          /\ End(s, "rekey needed")
          /\ UNCHANGED hand
    /\ UNCHANGED <<win, overlap, wire, taken, torn, cut, stream>>

\* The next record of the frame.  Its sequence number is the counter the frame
\* was given; `ours`: it is sealed with the session's key.
FrameRecord(s) ==
    [counter |-> ctr[s] - 1, id |-> hand[s].id, last |-> hand[s].left = 1,
     ours |-> s = "gateway" \/ overlap = Always]

\* start_rekey once the ACK is out: the session's key becomes prev_key, out of reach
\* when the new kid is the old one, and is forgotten when it was prev_key already.
Overlaps == IF overlap = Always THEN {0, Overlap} ELSE {0}

\* Mutant of WriteRecord: the last record of a frame is left unflushed.
WriteRecord_NoFlush(s) ==
    /\ pc[s] = "writing"
    /\ ~cut[Peer(s)]
    /\ Len(wire[s]) < WireCap
    /\ wire' = [wire EXCEPT ![s] = IF hand[s].left = 1 THEN @ ELSE Append(@, FrameRecord(s))]
    /\ hand' = [hand EXCEPT ![s].left = @ - 1]
    /\ pc' = [pc EXCEPT ![s] = IF hand[s].left = 1 THEN "select" ELSE "writing"]
    /\ UNCHANGED <<codec, taken, torn, cut, stream, why>>

\* write_all and flush: one record at a time as the connection takes it, whether or
\* not the peer will read it.
WriteRecord(s) ==
    /\ pc[s] = "writing"
    /\ ~cut[Peer(s)]
    /\ Len(wire[s]) < WireCap
    /\ wire' = [wire EXCEPT ![s] = Append(@, FrameRecord(s))]
    /\ hand' = [hand EXCEPT ![s].left = @ - 1]
    /\ pc' = [pc EXCEPT ![s] = IF hand[s].left = 1 THEN "select" ELSE "writing"]
    /\ overlap' \in IF s = "client" /\ hand[s].left = 1 /\ hand[s].id \in acks
                   THEN Overlaps ELSE {overlap}
    /\ UNCHANGED <<ctr, win, taken, torn, cut, stream, why>>

\* The peer has reset the connection: the write fails and so does relay.
WriteFails(s) ==
    /\ pc[s] = "writing"
    /\ cut[Peer(s)]
    /\ End(s, "write failed")
    /\ UNCHANGED <<codec, hand, wire, taken, torn, cut, stream>>

\* The local application closed its socket: a read of 0 bytes, or an error.
LocalEof(s) ==
    /\ pc[s] = "select"
    /\ End(s, "local eof")
    /\ UNCHANGED <<codec, hand, wire, taken, torn, cut, stream>>

-----------------------------------------------------------------------------
(* The branch of read_frame *)

\* The next record has come and is taken off the wire.
Incoming(s) ==
    /\ pc[s] = "select"
    /\ wire[Peer(s)] # << >>
    /\ wire' = [wire EXCEPT ![Peer(s)] = Tail(@)]

\* A record that does not start a frame is read as a header: bad content type,
\* version or length.
ReadTorn(s) ==
    /\ Incoming(s)
    /\ torn[s]
    /\ End(s, "protocol error")
    /\ UNCHANGED <<codec, hand, taken, torn, cut, stream>>

\* read_frame takes a record that does not complete its frame and stays pending.
TakeRecord(s) ==
    /\ Incoming(s)
    /\ ~torn[s]
    /\ ~Head(wire[Peer(s)]).last
    /\ taken' = [taken EXCEPT ![s] = @ + 1]
    /\ UNCHANGED <<pc, codec, hand, torn, cut, stream, why>>

\* The kid of frame f selects a key of s that opens it.
Opens(s, f) == IF s = "client" THEN overlap # 0 ELSE f.ours

\* The replay check comes first, then the frame is opened.
ReadError(s, f) ==
    IF ~Accepts(win[s], f.counter) THEN "replay"
    ELSE IF ~Opens(s, f) THEN "refused" ELSE "none"

\* read_frame completes with frame f: what it returns is an error, or the data of
\* the frame, one more of those the previous key is kept for.
Completes(s, f, e) ==
    /\ Incoming(s)
    /\ ~torn[s]
    /\ f = Head(wire[Peer(s)]) /\ f.last
    /\ e = ReadError(s, f)
    /\ win' = [win EXCEPT ![s] = Check(@, f.counter)]
    /\ taken' = [taken EXCEPT ![s] = 0]
    /\ overlap' = IF e = "none" /\ s = "client" /\ overlap > 0 THEN overlap - 1 ELSE overlap
    /\ UNCHANGED <<torn, cut>>

\* A frame that is refused ends either relay.
ReadRefused(s) ==
    LET f == Head(wire[Peer(s)])
    IN  /\ Completes(s, f, ReadError(s, f))
        /\ ReadError(s, f) # "none"
        /\ End(s, ReadError(s, f))
        /\ UNCHANGED <<ctr, hand, stream>>

\* Data for the application: relay goes on to the rate limiter and the local socket.
ReadFrame(s) ==
    LET f == Head(wire[Peer(s)])
    IN  /\ Completes(s, f, "none")
        /\ ~(s = "client" /\ f.id \in mimic)
        /\ hand' = [hand EXCEPT ![s] = [id |-> f.id, size |-> 0, left |-> 0]]
        /\ pc' = [pc EXCEPT ![s] = "delivering"]
        /\ UNCHANGED <<ctr, stream, why>>

\* The client's relay takes data for a REKEY_INIT.
ReadInit(f) == Completes("client", f, "none") /\ f.id \in mimic

\* The data is too short for one: the session ends.
ReadShort ==
    /\ ReadInit(Head(wire["gateway"]))
    /\ End("client", "too short")
    /\ UNCHANGED <<ctr, hand, stream>>

\* It is not passed on, and a REKEY_ACK goes out instead, past the rate limiter.
AnswerInit ==
    LET f  == Head(wire["gateway"])
        id == sent["client"] + 1
    IN  /\ ReadInit(f)
        /\ ctr["client"] < Threshold
        /\ ctr' = [ctr EXCEPT !["client"] = @ + 1]
        /\ pc' = [pc EXCEPT !["client"] = "writing"]
        /\ hand' = [hand EXCEPT !["client"] = [id |-> id, size |-> 1, left |-> Records(1)]]
        /\ got' = [got EXCEPT !["client"] = Append(@, f.id)]
        /\ sent' = [sent EXCEPT !["client"] = id]
        /\ acks' = acks \cup {id}
        /\ UNCHANGED <<mimic, why>>

AnswerRefused ==
    /\ ReadInit(Head(wire["gateway"]))
    /\ ctr["client"] >= Threshold
    /\ ctr' = [ctr EXCEPT !["client"] = @ + 1]
    /\ End("client", "rekey needed")
    /\ UNCHANGED <<hand, stream>>

\* The rate limiter lets the data pass and write_all gives it to the application.
Deliver(s) ==
    /\ pc[s] = "delivering"
    /\ pc' = [pc EXCEPT ![s] = "select"]
    /\ got' = [got EXCEPT ![s] = Append(@, hand[s].id)]
    /\ UNCHANGED <<codec, hand, wire, taken, torn, cut, sent, mimic, acks, why>>

\* The application does not take the data any more: write_all fails.
DeliverFails(s) ==
    /\ pc[s] = "delivering"
    /\ End(s, "local error")
    /\ UNCHANGED <<codec, hand, wire, taken, torn, cut, stream>>

\* Mutant of PeerEof: relay returns as soon as the peer has gone.
PeerEof_Early(s) ==
    /\ pc[s] = "select"
    /\ pc[Peer(s)] = "ended"
    /\ End(s, "peer eof")
    /\ UNCHANGED <<codec, hand, wire, taken, torn, cut, stream>>

\* The peer has gone and what has arrived is read: UnexpectedEof, or the reset.
PeerEof(s) ==
    /\ pc[s] = "select"
    /\ pc[Peer(s)] = "ended"
    /\ wire[Peer(s)] = << >>
    /\ End(s, IF cut[Peer(s)] THEN "reset" ELSE "peer eof")
    /\ UNCHANGED <<codec, hand, wire, taken, torn, cut, stream>>

\* IDLE_TIMEOUT_SECS pass at the gateway with neither branch of select! ready.
IdleTimeout ==
    /\ pc["gateway"] = "select"
    /\ wire["client"] = << >>
    /\ pc["client"] # "ended"
    /\ End("gateway", "idle")
    /\ UNCHANGED <<codec, hand, wire, taken, torn, cut, stream>>

\* A relay's socket is dropped without a lingering close.  If something its peer has
\* sent is unread by then, or comes later, the connection is reset: what s had sent
\* last may be lost.
Reset(s) ==
    /\ pc[s] = "ended"
    /\ ~cut[s]
    /\ wire[Peer(s)] # << >>
    /\ cut' = [cut EXCEPT ![s] = TRUE]
    /\ \E n \in 0..Len(wire[s]) : wire' = [wire EXCEPT ![s] = SubSeq(@, 1, n)]
    /\ UNCHANGED <<pc, codec, hand, taken, torn, stream, why>>

-----------------------------------------------------------------------------
\* What the relay at s does once its select! or its write can go on.
Relay(s) ==
    \/ WriteRecord(s) \/ WriteFails(s)
    \/ ReadTorn(s) \/ TakeRecord(s) \/ ReadRefused(s) \/ ReadFrame(s)
    \/ (s = "client" /\ (ReadShort \/ AnswerInit \/ AnswerRefused))
    \/ PeerEof(s)

\* What waits for the rate limiter, and for the application to take what it is given.
Held(s) == StartFrame(s) \/ Deliver(s)

\* What the application at s decides.
Application(s) == ReadLocal(s) \/ LocalEof(s) \/ DeliverFails(s)

Next ==
    \/ \E s \in Sides : Relay(s) \/ Held(s) \/ Application(s) \/ Reset(s)
    \/ IdleTimeout

Spec == Init /\ [][Next]_vars

(* The runtime polls every ready relay.  Nothing forces an application to  *)
(* send, to take what it is given or to close, the rate limiter to let a   *)
(* chunk pass, a session to fall idle or a connection to be reset.         *)
FairSpec == Spec /\ \A s \in Sides : WF_vars(Relay(s))

-----------------------------------------------------------------------------
(* A relay whose peer sends every frame in one TLS record never ends the  *)
(* session with a protocol error, and no relay ever raises a false replay  *)
(* alarm: select! dropping read_frame is harmless because the relay        *)
(* buffers are smaller than a record.                                      *)
NoFalseAlarm ==
    \A s \in Sides :
        /\ Records(RelayBuf[Peer(s)]) = 1 => why[s] # "protocol error"
        /\ why[s] # "replay"

Pipe == INSTANCE BytePipe

(* The two relays together implement an ordered pipe in each direction:    *)
(* what comes out at one end is what went in at the other, in order,       *)
(* nothing twice and nothing left out in between.  The one liberty they    *)
(* take is the client's with data that begins with REKEY_INIT_MAGIC: it    *)
(* keeps it, and puts an ACK of its own into the other direction.          *)
ImplementsPipe == Pipe!Spec

(* A relay passes on what it is given: no data of the target's stays with  *)
(* the client's relay and nothing is added to what the client's            *)
(* application sends.                                                      *)
Transparent ==
    /\ \A i \in 1..Len(got["client"]) : got["client"][i] \notin mimic
    /\ acks = {}

\* Both relays wait in a write for room that only the other one's read can make.
BothBlocked == \A s \in Sides : pc[s] = "writing" /\ Len(wire[s]) = WireCap

\* Neither the rate limiter nor the application at either end holds a relay for ever.
NoneHeld == \A s \in Sides : []<>(pc[s] \notin {"throttled", "delivering"})

(* While the rate limiters let chunks pass and the applications take what  *)
(* they are given, what has been put into the tunnel comes out of it,      *)
(* unless a relay has ended the session or both relays block each other:   *)
(* neither reads while it writes and no timeout covers a write, but        *)
(* nothing else ever stalls an open session.                               *)
AllDelivered ==
    NoneHeld =>
        \A s \in Sides : \A n \in 1..Chunks[s] :
            sent[s] >= n ~>
                \/ Len(got[Peer(s)]) >= n
                \/ \E r \in Sides : pc[r] = "ended"
                \/ BothBlocked

(* When the target closes, what it has sent still reaches the client       *)
(* before the client's relay sees the end, if the rate limiters and the    *)
(* applications go on, unless the client's relay ends for a reason of its  *)
(* own or something the client has sent is still unread at the gateway:    *)
(* then dropping the socket resets the connection.                         *)
DrainsAfterEof ==
    NoneHeld =>
        (why["gateway"] = "local eof" ~>
            \/ Len(got["client"]) = sent["gateway"]
            \/ why["client"] \in {"local eof", "local error", "rekey needed", "too short", "refused"}
            \/ wire["client"] # << >> \/ cut["gateway"])

=============================================================================
