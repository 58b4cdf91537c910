---------------------------- MODULE Rekey_proofs ----------------------------
(***************************************************************************)
(* Proofs about Rekey, for every size of the kid space, of the overlap, of *)
(* the replay window and of the wires: no nonce is used twice, and, in a   *)
(* session that takes no application data for a control frame, no frame is *)
(* refused and the two sides end up with one key.                          *)
(*                                                                         *)
(* The counters are kept whatever is read as a control frame (Base).  The  *)
(* rest of the invariant follows the handshake.  While the gateway         *)
(* relays, both sides and both wires use one key.  While it waits, either  *)
(* REKEY_INIT is still the last frame on its wire (or the client has       *)
(* ended), and nothing has changed; or the client has answered, the        *)
(* gateway's wire is empty, and the ACK is the frontier on the client's    *)
(* wire: what is ahead of it is under the old key and what is behind it    *)
(* under the new one.                                                      *)
(***************************************************************************)
EXTENDS Rekey, SequenceTheorems, TLAPS

-----------------------------------------------------------------------------
(* The invariant *)

Codec == [key : Nat, prev : Nat \cup {None}, since : Nat]
Body == [type : {"init", "ack"}, key : Nat, from : {"app", "relay"}]
            \cup [type : {"data", "short"}, key : {None}, from : {"app", "relay"}]
Frame == [key : Nat, counter : Nat, body : Body]
States == {"relaying", "awaiting", "ended"}
Reasons == {"none", "rekey needed", "bad ack", "eof", "too short"} \cup ReadErrors

\* The type invariant, in two parts.
Channels ==
    /\ ctr \in [Sides -> Nat]
    /\ win \in [Sides -> Window]
    /\ wire \in [Sides -> Seq(Frame)]
    /\ nonces \subseteq Nat \X Sides \X Nat
    /\ reused \in BOOLEAN
Control ==
    /\ codec \in [Sides -> Codec]
    /\ state \in [Sides -> States]
    /\ offer \in Nat
    /\ why \in [Sides -> Reasons]
    /\ mistaken \in BOOLEAN
    /\ state["client"] # "awaiting"
TypeOK == Control /\ Channels

\* A counter is spent once it has been used, and the counters on a wire rise from
\* above what its reader has seen.
Numbered(s) ==
    /\ win[Peer(s)].max_counter < ctr[s]
    /\ \A i \in 1..Len(wire[s]) :
          /\ wire[s][i].counter < ctr[s]
          /\ wire[s][i].counter > win[Peer(s)].max_counter
          /\ \A j \in 1..Len(wire[s]) : i < j => wire[s][i].counter < wire[s][j].counter
NoncesSpent == \A n \in nonces : n[3] < ctr[n[2]]

Counters == Channels /\ (\A s \in Sides : Numbered(s)) /\ NoncesSpent /\ NoncesUnique
Base == Control /\ Counters

\* All frames of side s in flight are the application's, under key k.
DataUnder(s, k) ==
    \A i \in 1..Len(wire[s]) : wire[s][i].key = k /\ ByApp(wire[s][i])

\* What the client has still to read is under its key; REKEY_INIT can only be last.
GatewayWire ==
    \A i \in 1..Len(wire["gateway"]) :
        LET f == wire["gateway"][i]
        IN  /\ f.key = codec["client"].key
            /\ ~ByApp(f) =>
                  /\ i = Len(wire["gateway"]) /\ f.body = RekeyInit(offer)
                  /\ state["gateway"] # "relaying"

InStep ==
    /\ codec["client"].key = codec["gateway"].key
    /\ DataUnder("client", codec["gateway"].key)

\* The client has not answered yet.
Unanswered ==
    /\ InStep
    /\ \/ state["client"] = "ended"
       \/ /\ wire["gateway"] # << >>
          /\ ~ByApp(wire["gateway"][Len(wire["gateway"])])

\* The client has answered: its ACK is frame a of its wire.
Answered ==
    /\ codec["client"].key = offer
    /\ wire["gateway"] = << >>
    /\ \E a \in 1..Len(wire["client"]) :
          \A i \in 1..Len(wire["client"]) :
                /\ wire["client"][i].key = IF i <= a THEN codec["gateway"].key ELSE offer
                /\ i # a => ByApp(wire["client"][i])

Handshake ==
    /\ state["gateway"] = "relaying" => InStep /\ codec["gateway"].key = offer
    /\ state["gateway"] = "awaiting" => Unanswered \/ Answered

HInv == GatewayWire /\ Handshake

RInv == Base /\ NoFrameRefused /\ (~mistaken => HInv)

-----------------------------------------------------------------------------
(* Counters and windows *)

\* A wire with a frame on it, and what is left when the frame has been read.
LEMMA NonEmpty ==
    ASSUME NEW S, NEW q \in Seq(S), q # << >>
    PROVE  /\ Len(q) \in Nat /\ Len(q) > 0
           /\ Head(q) = q[1] /\ q[1] \in S
           /\ Tail(q) \in Seq(S) /\ Len(Tail(q)) = Len(q) - 1
           /\ \A i \in 1..Len(Tail(q)) : Tail(q)[i] = q[i + 1] /\ i + 1 \in 1..Len(q)
  <1>1. Len(q) \in Nat /\ Len(q) > 0
    BY EmptySeq, LenProperties
  <1> QED
    BY <1>1

\* A longer wire still has its last frame.
LEMMA TailLast ==
    ASSUME NEW S, NEW q \in Seq(S), q # << >>, Len(q) # 1
    PROVE  Tail(q) # << >> /\ Tail(q)[Len(Tail(q))] = q[Len(q)]
  <1>1. Len(q) \in Nat /\ Len(q) > 0 /\ Len(Tail(q)) = Len(q) - 1
    BY NonEmpty
  <1>2. Len(q) > 1 /\ Len(q) - 1 # 0
    BY <1>1
  <1>3. Tail(q)[Len(q) - 1] = q[Len(q)]
    BY <1>2
  <1>4. Tail(q) # << >>
    <2> SUFFICES ASSUME Tail(q) = << >> PROVE FALSE
      OBVIOUS
    <2>1. Len(Tail(q)) = 0
      BY EmptySeq
    <2> QED
      BY <1>1, <1>2, <2>1
  <1> QED
    BY <1>1, <1>3, <1>4

\* A counter above everything the window has seen is accepted and is the new maximum.
LEMMA CheckNewer ==
    ASSUME NEW w \in Window, NEW c \in Nat, c > w.max_counter
    PROVE  /\ Accepts(w, c)
           /\ Check(w, c) \in Window
           /\ Check(w, c).max_counter = c
  <1>1. Accepts(w, c)
    BY DEF Accepts
  <1>2. Check(w, c) = Advanced(w, c)
    BY <1>1 DEF Check
  <1>3. Advanced(w, c) \in Window /\ Advanced(w, c).max_counter = c
    BY WindowSizeAssumption DEF Advanced, Window, Retained, SaturatingSub, NoCounter
  <1> QED
    BY <1>1, <1>2, <1>3

\* The two sides.
LEMMA Peers ==
    /\ Peer("client") = "gateway" /\ Peer("gateway") = "client"
    /\ "client" \in Sides /\ "gateway" \in Sides
    /\ \A s \in Sides : Peer(s) \in Sides /\ Peer(s) # s /\ Peer(Peer(s)) = s
    /\ \A s \in Sides : s = "client" \/ s = "gateway"
  BY DEF Peer, Sides

\* The numbering of a wire does not change with the other one.
LEMMA NumberedKept ==
    ASSUME TypeOK, NEW s \in Sides, Numbered(s),
           wire'[s] = wire[s], ctr'[s] \in Nat, ctr'[s] >= ctr[s],
           win'[Peer(s)] = win[Peer(s)]
    PROVE  Numbered(s)'
  <1>1. /\ ctr[s] \in Nat /\ wire[s] \in Seq(Frame) /\ win[Peer(s)] \in Window
    BY Peers DEF TypeOK, Channels, Control
  <1>2. \A i \in 1..Len(wire[s]) : wire[s][i].counter \in Nat
    <2>1. \A i \in 1..Len(wire[s]) : wire[s][i] \in Frame
      BY <1>1
    <2> QED
      BY <2>1 DEF Frame
  <1>3. win[Peer(s)].max_counter < ctr'[s]
    BY <1>1 DEF Numbered, Window, NoCounter
  <1>4. \A i \in 1..Len(wire[s]) : wire[s][i].counter < ctr'[s]
    BY <1>1, <1>2 DEF Numbered
  <1> QED
    BY <1>3, <1>4 DEF Numbered

\* A frame is sent under the next counter.
LEMMA NumberedSent ==
    ASSUME TypeOK, NEW s \in Sides, Numbered(s), NEW f \in Frame,
           f.counter = ctr[s], wire'[s] = Append(wire[s], f), ctr'[s] = ctr[s] + 1,
           win'[Peer(s)] = win[Peer(s)]
    PROVE  Numbered(s)'
  <1>1. /\ ctr[s] \in Nat /\ wire[s] \in Seq(Frame) /\ win[Peer(s)] \in Window
    BY Peers DEF TypeOK, Channels, Control
  <1>2. \A i \in 1..Len(wire[s]) : wire[s][i] \in Frame /\ wire'[s][i] = wire[s][i]
    BY <1>1
  <1>3. Len(wire'[s]) = Len(wire[s]) + 1 /\ wire'[s][Len(wire[s]) + 1] = f
    BY <1>1
  <1>4. win'[Peer(s)].max_counter < ctr'[s] /\ win[Peer(s)].max_counter < ctr[s]
    BY <1>1 DEF Numbered, Window, NoCounter
  <1>5. ASSUME NEW i \in 1..Len(wire'[s])
        PROVE  /\ wire'[s][i].counter < ctr'[s]
               /\ wire'[s][i].counter > win'[Peer(s)].max_counter
               /\ \A j \in 1..Len(wire'[s]) :
                     i < j => wire'[s][i].counter < wire'[s][j].counter
    <2>1. CASE i = Len(wire[s]) + 1
      BY <1>1, <1>3, <1>4, <2>1 DEF Frame, Window, NoCounter
    <2>2. CASE i \in 1..Len(wire[s])
      <3>1. /\ wire[s][i].counter < ctr[s] /\ wire[s][i].counter \in Nat
            /\ wire[s][i].counter > win[Peer(s)].max_counter
            /\ wire'[s][i] = wire[s][i]
        BY <1>2, <2>2 DEF Numbered, Frame
      <3>2. ASSUME NEW j \in 1..Len(wire'[s]), i < j
            PROVE  wire'[s][i].counter < wire'[s][j].counter
        <4>1. CASE j = Len(wire[s]) + 1
          BY <1>3, <3>1, <4>1
        <4>2. CASE j \in 1..Len(wire[s])
          BY <1>2, <2>2, <3>2, <4>2 DEF Numbered
        <4> QED
          BY <1>1, <1>3, <4>1, <4>2
      <3> QED
        BY <1>1, <3>1, <3>2
    <2> QED
      BY <1>1, <1>3, <2>1, <2>2
  <1> QED
    BY <1>4, <1>5 DEF Numbered

\* The reader's window moves to the counter of the frame it takes.
LEMMA NumberedRead ==
    ASSUME TypeOK, NEW s \in Sides, Numbered(s), wire[s] # << >>,
           wire'[s] = Tail(wire[s]), ctr'[s] \in Nat, ctr'[s] >= ctr[s],
           win'[Peer(s)] = Check(win[Peer(s)], Head(wire[s]).counter)
    PROVE  Numbered(s)'
  <1>1. /\ ctr[s] \in Nat /\ wire[s] \in Seq(Frame) /\ win[Peer(s)] \in Window
        /\ Len(wire[s]) > 0 /\ Head(wire[s]) = wire[s][1]
    <2>1. ctr[s] \in Nat /\ wire[s] \in Seq(Frame) /\ win[Peer(s)] \in Window
      BY Peers DEF TypeOK, Channels, Control
    <2> QED
      BY <2>1, NonEmpty
  <1>2. \A i \in 1..Len(wire[s]) : wire[s][i] \in Frame
    BY <1>1
  <1>3. /\ Len(wire'[s]) = Len(wire[s]) - 1
        /\ \A i \in 1..Len(wire'[s]) : wire'[s][i] = wire[s][i + 1]
    BY <1>1, NonEmpty
  <1>4. win'[Peer(s)].max_counter = wire[s][1].counter
    BY <1>1, <1>2, CheckNewer DEF Numbered, Frame
  <1>5. \A i \in 1..Len(wire'[s]) : i + 1 \in 1..Len(wire[s])
    BY <1>1, <1>3
  <1>6. ASSUME NEW i \in 1..Len(wire'[s])
        PROVE  /\ wire'[s][i].counter < ctr'[s]
               /\ wire'[s][i].counter > win'[Peer(s)].max_counter
               /\ \A j \in 1..Len(wire'[s]) :
                     i < j => wire'[s][i].counter < wire'[s][j].counter
    <2>1. /\ wire'[s][i] = wire[s][i + 1] /\ i + 1 \in 1..Len(wire[s]) /\ 1 < i + 1
          /\ 1 \in 1..Len(wire[s])
      BY <1>1, <1>3, <1>5
    <2>2. /\ wire'[s][i].counter \in Nat /\ wire'[s][i].counter < ctr[s]
          /\ wire[s][1].counter < wire'[s][i].counter
      BY <1>2, <2>1 DEF Numbered, Frame
    <2>3. ASSUME NEW j \in 1..Len(wire'[s]), i < j
          PROVE  wire'[s][i].counter < wire'[s][j].counter
      <3>1. wire'[s][j] = wire[s][j + 1] /\ j + 1 \in 1..Len(wire[s]) /\ i + 1 < j + 1
        BY <1>3, <1>5, <2>3
      <3> QED
        BY <2>1, <3>1 DEF Numbered
    <2>4. wire'[s][i].counter > win'[Peer(s)].max_counter
      <3>1. wire[s][1].counter \in Nat
        BY <1>2, <2>1 DEF Frame
      <3> QED
        BY <1>4, <2>2, <3>1
    <2>5. wire'[s][i].counter < ctr'[s]
      <3>1. ctr[s] \in Nat
        BY <1>1
      <3> QED
        BY <2>2, <3>1
    <2> QED
      BY <2>3, <2>4, <2>5
  <1>7. win'[Peer(s)].max_counter < ctr'[s]
    <2>1. 1 \in 1..Len(wire[s])
      BY <1>1
    <2>2. wire[s][1].counter < ctr[s] /\ wire[s][1].counter \in Nat
      BY <1>2, <2>1 DEF Numbered, Frame
    <2> QED
      BY <1>1, <1>4, <2>2
  <1> QED
    BY <1>6, <1>7 DEF Numbered

-----------------------------------------------------------------------------
(* write_frame and read_frame *)

\* What write_frame does to a wire and to the counters: the nonce it uses is new.
LEMMA WriteFacts ==
    ASSUME TypeOK, NEW s \in Sides, NEW k \in Nat, NEW body \in Body,
           NEW w \in [Sides -> Seq(Frame)], Write(s, k, body, w)
    PROVE  LET f == [key |-> k, counter |-> ctr[s], body |-> body]
           IN  /\ f \in Frame
               /\ wire' \in [Sides -> Seq(Frame)]
               /\ wire'[s] = Append(w[s], f) /\ wire'[Peer(s)] = w[Peer(s)]
               /\ ctr' \in [Sides -> Nat]
               /\ ctr'[s] = ctr[s] + 1 /\ ctr'[Peer(s)] = ctr[Peer(s)]
               /\ nonces' \subseteq Nat \X Sides \X Nat /\ reused' \in BOOLEAN
               /\ NoncesSpent /\ NoncesUnique => NoncesSpent' /\ NoncesUnique'
  <1> DEFINE f == [key |-> k, counter |-> ctr[s], body |-> body]
             n == <<k, s, ctr[s]>>
  <1>1. ctr[s] \in Nat /\ w[s] \in Seq(Frame) /\ Peer(s) \in Sides /\ Peer(s) # s
    BY Peers DEF TypeOK, Channels, Control
  <1>2. f \in Frame
    BY <1>1 DEF Frame
  <1>3. /\ wire' = [w EXCEPT ![s] = Append(@, f)]
        /\ ctr' = [ctr EXCEPT ![s] = @ + 1]
        /\ nonces' = nonces \cup {n}
        /\ reused' = (reused \/ n \in nonces)
    BY DEF Write, Prefix
  <1>4. Append(w[s], f) \in Seq(Frame)
    BY <1>1, <1>2
  <1>5. /\ wire' \in [Sides -> Seq(Frame)]
        /\ wire'[s] = Append(w[s], f) /\ wire'[Peer(s)] = w[Peer(s)]
    BY <1>1, <1>3, <1>4
  <1>6. /\ ctr' \in [Sides -> Nat]
        /\ ctr'[s] = ctr[s] + 1 /\ ctr'[Peer(s)] = ctr[Peer(s)]
        /\ \A t \in Sides : ctr'[t] >= ctr[t]
    <2>1. ctr \in [Sides -> Nat]
      BY DEF TypeOK, Channels, Control
    <2>2. ctr'[s] = ctr[s] + 1 /\ \A t \in Sides \ {s} : ctr'[t] = ctr[t]
      BY <1>3, <2>1
    <2>3. \A t \in Sides : ctr[t] \in Nat /\ ctr'[t] \in Nat /\ ctr'[t] >= ctr[t]
      BY <2>1, <2>2
    <2> QED
      BY <1>1, <1>3, <2>1, <2>2, <2>3
  <1>7. nonces' \subseteq Nat \X Sides \X Nat /\ reused' \in BOOLEAN
    <2>1. n \in Nat \X Sides \X Nat
      BY <1>1
    <2>2. nonces \subseteq Nat \X Sides \X Nat /\ reused \in BOOLEAN
      BY DEF TypeOK, Channels, Control
    <2> QED
      BY <1>3, <2>1, <2>2, Zenon
  <1>8. ASSUME NoncesSpent, NoncesUnique PROVE NoncesSpent' /\ NoncesUnique'
    <2>1. n \notin nonces
      BY <1>1, <1>8 DEF NoncesSpent
    <2>2. ASSUME NEW m \in nonces' PROVE m[3] < ctr'[m[2]]
      <3>1. CASE m = n
        BY <1>1, <1>6, <3>1
      <3>2. CASE m \in nonces
        <4>1. m[2] \in Sides /\ m[3] \in Nat
          BY <3>2 DEF TypeOK, Channels, Control
        <4>2. m[3] < ctr[m[2]] /\ ctr[m[2]] \in Nat /\ ctr'[m[2]] \in Nat
          BY <1>6, <1>8, <3>2, <4>1 DEF NoncesSpent, TypeOK, Channels, Control
        <4> QED
          BY <1>6, <4>1, <4>2
      <3> QED
        BY <1>3, <2>2, <3>1, <3>2
    <2> QED
      BY <1>3, <1>8, <2>1, <2>2 DEF NoncesSpent, NoncesUnique
  <1> HIDE DEF f
  <1> QED
    BY <1>2, <1>5, <1>6, <1>7, <1>8 DEF f

\* Counting the overlap changes neither the key nor the shape of a codec.
LEMMA CountOverlapFacts ==
    ASSUME NEW c \in Codec
    PROVE  CountOverlap(c) \in Codec /\ CountOverlap(c).key = c.key
  <1>1. CASE c.prev = None
    BY <1>1 DEF CountOverlap
  <1>2. CASE c.prev # None
    <2>1. c.since + 1 \in Nat
      BY DEF Codec
    <2> QED
      BY <1>2, <2>1 DEF CountOverlap, Codec
  <1> QED
    BY <1>1, <1>2

\* A rekeyed codec has the new key.
LEMMA StartRekeyFacts ==
    ASSUME NEW c \in Codec, NEW k \in Nat
    PROVE  start_rekey(c, k) \in Codec /\ start_rekey(c, k).key = k
  BY DEF start_rekey, Codec

\* Nonces that were used stay below the counters.
LEMMA NoncesKept ==
    ASSUME TypeOK, NoncesSpent, NoncesUnique, UNCHANGED <<nonces, reused>>,
           ctr' \in [Sides -> Nat], \A t \in Sides : ctr'[t] >= ctr[t]
    PROVE  NoncesSpent' /\ NoncesUnique'
  <1>1. ASSUME NEW m \in nonces PROVE m[3] < ctr'[m[2]]
    <2>1. m[2] \in Sides /\ m[3] \in Nat
      BY DEF TypeOK, Channels, Control
    <2>2. m[3] < ctr[m[2]] /\ ctr[m[2]] \in Nat /\ ctr'[m[2]] \in Nat
      BY <2>1 DEF NoncesSpent, TypeOK, Channels, Control
    <2> QED
      BY <2>1, <2>2
  <1> QED
    BY <1>1 DEF NoncesSpent, NoncesUnique

\* Counters that do not change have not gone back.
LEMMA SameCounters ==
    ASSUME TypeOK, UNCHANGED ctr
    PROVE  ctr' \in [Sides -> Nat] /\ \A t \in Sides : ctr'[t] >= ctr[t]
  <1>1. ctr \in [Sides -> Nat] /\ ctr' = ctr
    BY DEF TypeOK, Channels, Control
  <1>2. \A t \in Sides : ctr[t] \in Nat
    BY <1>1
  <1> QED
    BY <1>1, <1>2

\* write_frame at the threshold spends a counter and sends nothing.
LEMMA RefuseFacts ==
    ASSUME TypeOK, NEW s \in Sides, NEW w, Refuse(s, w)
    PROVE  /\ ctr' \in [Sides -> Nat] /\ \A t \in Sides : ctr'[t] >= ctr[t]
           /\ wire' = w /\ UNCHANGED <<nonces, reused>>
           /\ NoncesSpent /\ NoncesUnique => NoncesSpent' /\ NoncesUnique'
  <1>1. ctr \in [Sides -> Nat] /\ ctr' = [ctr EXCEPT ![s] = @ + 1]
    BY DEF TypeOK, Refuse, Channels, Control
  <1>2. ctr' \in [Sides -> Nat]
    BY <1>1
  <1>3. \A t \in Sides : ctr[t] \in Nat /\ (ctr'[t] = ctr[t] \/ ctr'[t] = ctr[t] + 1)
    BY <1>1
  <1>4. \A t \in Sides : ctr'[t] >= ctr[t]
    BY <1>3
  <1>5. wire' = w /\ UNCHANGED <<nonces, reused>>
    BY DEF Refuse
  <1> QED
    BY <1>2, <1>4, <1>5, NoncesKept

\* What an application sends is a body, and it is the application's.
LEMMA AppBody ==
    ASSUME NEW s \in Sides, NEW b \in AppData(s)
    PROVE  b \in Body /\ b.from = "app"
  <1>1. \A k \in Foreign : k \in Nat
    BY RekeyAssumption DEF Foreign
  <1>2. \A k \in 0..(Kids - 1) : k \in Nat
    BY RekeyAssumption
  <1> QED
    BY <1>1, <1>2 DEF AppData, Body

\* What taking the next frame does to wires and windows.
LEMMA ReadFacts ==
    ASSUME Base, NEW s \in Sides, Readable(s)
    PROVE  /\ state[s] # "ended"
           /\ wire[Peer(s)] \in Seq(Frame) /\ wire[Peer(s)] # << >>
           /\ NextFrame(s) = wire[Peer(s)][1] /\ wire[Peer(s)][1] \in Frame
           /\ Accepts(win[s], NextFrame(s).counter)
           /\ Rest(s) \in [Sides -> Seq(Frame)]
           /\ Rest(s)[Peer(s)] = Tail(wire[Peer(s)]) /\ Rest(s)[s] = wire[s]
           /\ win' \in [Sides -> Window]
           /\ win'[s] = Check(win[s], Head(wire[Peer(s)]).counter)
           /\ win'[Peer(s)] = win[Peer(s)]
  <1>1. /\ wire \in [Sides -> Seq(Frame)] /\ win \in [Sides -> Window]
        /\ Peer(s) \in Sides /\ Peer(s) # s /\ Peer(Peer(s)) = s
        /\ Numbered(Peer(s))
    BY Peers DEF Base, Counters, Channels
  <1>2. state[s] # "ended" /\ wire[Peer(s)] # << >>
    BY DEF Readable
  <1>3. wire[Peer(s)] \in Seq(Frame) /\ win[s] \in Window
    BY <1>1
  <1>4. /\ Tail(wire[Peer(s)]) \in Seq(Frame) /\ NextFrame(s) = wire[Peer(s)][1]
        /\ wire[Peer(s)][1] \in Frame /\ Len(wire[Peer(s)]) > 0
    BY <1>2, <1>3, NonEmpty DEF NextFrame
  <1>5. /\ NextFrame(s).counter \in Nat
        /\ NextFrame(s).counter > win[s].max_counter
    <2>1. 1 \in 1..Len(wire[Peer(s)])
      BY <1>3, <1>4
    <2> QED
      BY <1>1, <1>4, <2>1 DEF Numbered, Frame
  <1>6. Check(win[s], NextFrame(s).counter) \in Window /\ Accepts(win[s], NextFrame(s).counter)
    BY <1>3, <1>5, CheckNewer
  <1>7. win' = [win EXCEPT ![s] = Check(@, NextFrame(s).counter)]
    BY DEF Readable
  <1>8. /\ win' \in [Sides -> Window] /\ win'[Peer(s)] = win[Peer(s)]
        /\ win'[s] = Check(win[s], NextFrame(s).counter)
    BY <1>1, <1>6, <1>7
  <1>9. /\ Rest(s) \in [Sides -> Seq(Frame)]
        /\ Rest(s)[Peer(s)] = Tail(wire[Peer(s)]) /\ Rest(s)[s] = wire[s]
    BY <1>1, <1>4 DEF Rest
  <1> QED
    BY <1>2, <1>3, <1>4, <1>6, <1>8, <1>9 DEF NextFrame

-----------------------------------------------------------------------------
(* The counters are kept, whatever is read as what *)

\* A step that sends one frame and reads none.
LEMMA WriteCounters ==
    ASSUME Base, NEW s \in Sides, NEW k \in Nat, NEW body \in Body,
           Write(s, k, body, wire), UNCHANGED win
    PROVE  Counters'
  <1> DEFINE f == [key |-> k, counter |-> ctr[s], body |-> body]
  <1>1. TypeOK /\ (\A t \in Sides : Numbered(t)) /\ NoncesSpent /\ NoncesUnique
    BY DEF Base, Counters, TypeOK
  <1>2. wire \in [Sides -> Seq(Frame)] /\ win \in [Sides -> Window]
    BY <1>1 DEF TypeOK, Channels
  <1>3. /\ f \in Frame /\ f.counter = ctr[s]
        /\ wire' \in [Sides -> Seq(Frame)]
        /\ wire'[s] = Append(wire[s], f) /\ wire'[Peer(s)] = wire[Peer(s)]
        /\ ctr' \in [Sides -> Nat]
        /\ ctr'[s] = ctr[s] + 1 /\ ctr'[Peer(s)] = ctr[Peer(s)]
        /\ nonces' \subseteq Nat \X Sides \X Nat /\ reused' \in BOOLEAN
        /\ NoncesSpent' /\ NoncesUnique'
    BY <1>1, <1>2, WriteFacts
  <1>4. Channels'
    BY <1>2, <1>3 DEF Channels
  <1>5. Numbered(s)'
    <2> HIDE DEF f
    <2> QED
      BY <1>1, <1>3, NumberedSent
  <1>6. Numbered(Peer(s))'
    <2>1. ctr'[Peer(s)] \in Nat /\ ctr'[Peer(s)] >= ctr[Peer(s)]
      BY <1>3, Peers
    <2> QED
      BY <1>1, <1>3, <2>1, NumberedKept, Peers
  <1> QED
    BY <1>3, <1>4, <1>5, <1>6, Peers DEF Counters

\* A step that neither sends nor reads, though it may spend a counter.
LEMMA StillCounters ==
    ASSUME Base, UNCHANGED <<win, wire, nonces, reused>>,
           ctr' \in [Sides -> Nat], \A t \in Sides : ctr'[t] >= ctr[t]
    PROVE  Counters'
  <1>1. TypeOK /\ (\A t \in Sides : Numbered(t)) /\ NoncesSpent /\ NoncesUnique
    BY DEF Base, Counters, TypeOK
  <1>2. NoncesSpent' /\ NoncesUnique'
    BY <1>1, NoncesKept
  <1>3. ASSUME NEW t \in Sides PROVE Numbered(t)'
    <2>1. ctr'[t] \in Nat
      OBVIOUS
    <2> QED
      BY <1>1, <2>1, NumberedKept
  <1>4. Channels'
    BY <1>1 DEF TypeOK, Channels
  <1> QED
    BY <1>2, <1>3, <1>4 DEF Counters

\* A step that reads one frame and sends none.
LEMMA ReadCounters ==
    ASSUME Base, NEW s \in Sides, Readable(s), wire' = Rest(s), UNCHANGED <<nonces, reused>>,
           ctr' \in [Sides -> Nat], \A t \in Sides : ctr'[t] >= ctr[t]
    PROVE  Counters'
  <1>1. TypeOK /\ (\A t \in Sides : Numbered(t)) /\ NoncesSpent /\ NoncesUnique
    BY DEF Base, Counters, TypeOK
  <1>2. Numbered(Peer(s))'
    BY <1>1, ReadFacts, NumberedRead, Peers
  <1>3. Numbered(s)'
    BY <1>1, ReadFacts, NumberedKept, Peers
  <1>4. NoncesSpent' /\ NoncesUnique'
    BY <1>1, NoncesKept
  <1>5. Channels'
    BY <1>1, ReadFacts DEF TypeOK, Channels
  <1> QED
    BY <1>2, <1>3, <1>4, <1>5, Peers DEF Counters

\* What is read as REKEY_INIT has a key.
LEMMA InitKey ==
    ASSUME Base, ReadInit
    PROVE  /\ Readable("client") /\ state["client"] = "relaying"
           /\ NextFrame("client").body.type = "init"
           /\ NextFrame("client").body.key \in Nat
           /\ mistaken' = (mistaken \/ ByApp(NextFrame("client")))
  <1>1. /\ Readable("client") /\ state["client"] = "relaying"
        /\ NextFrame("client").body.type = "init"
        /\ mistaken' = (mistaken \/ ByApp(NextFrame("client")))
    BY Zenon DEF ReadInit, ReadControl
  <1>2. NextFrame("client") \in Frame
    BY <1>1, ReadFacts, Peers
  <1>3. NextFrame("client").body \in Body
    BY <1>2 DEF Frame
  <1>4. NextFrame("client").body.key \in Nat
    BY <1>1, <1>3 DEF Body
  <1> QED
    BY <1>1, <1>4

\* The client reads one frame and answers with one.
LEMMA AnswerFacts ==
    ASSUME Base, AnswerInit
    PROVE  LET k == NextFrame("client").body.key
               f == [key |-> codec["client"].key, counter |-> ctr["client"],
                     body |-> RekeyAck(k)]
           IN  /\ f \in Frame /\ wire' \in [Sides -> Seq(Frame)]
               /\ wire'["client"] = Append(wire["client"], f)
               /\ wire'["gateway"] = Tail(wire["gateway"])
               /\ codec' \in [Sides -> Codec] /\ codec'["client"].key = k
               /\ codec'["gateway"] = codec["gateway"]
               /\ UNCHANGED <<state, offer, why>>
               /\ Counters'
  <1> DEFINE k == NextFrame("client").body.key
             f == [key |-> codec["client"].key, counter |-> ctr["client"],
                   body |-> RekeyAck(k)]
  <1>1. /\ ReadInit
        /\ Write("client", codec["client"].key, RekeyAck(k), Rest("client"))
        /\ codec' = [codec EXCEPT !["client"] = start_rekey(CountOverlap(@), k)]
        /\ UNCHANGED <<state, offer, why>>
    BY DEF AnswerInit
  <1>2. Readable("client") /\ k \in Nat
    BY <1>1, InitKey
  <1> HIDE DEF k
  <1>3. /\ TypeOK /\ NoncesSpent /\ NoncesUnique /\ \A t \in Sides : Numbered(t)
    BY DEF Base, Counters, TypeOK
  <1>4. /\ codec["client"].key \in Nat /\ RekeyAck(k) \in Body
        /\ wire["client"] \in Seq(Frame) /\ codec["client"] \in Codec
        /\ codec \in [Sides -> Codec]
    BY <1>2, <1>3, Peers DEF TypeOK, Control, Channels, Codec, RekeyAck, Body
  <1>5. /\ Rest("client") \in [Sides -> Seq(Frame)]
        /\ Rest("client")["gateway"] = Tail(wire["gateway"])
        /\ Rest("client")["client"] = wire["client"] /\ wire["gateway"] # << >>
        /\ win' \in [Sides -> Window] /\ win'["gateway"] = win["gateway"]
        /\ win'["client"] = Check(win["client"], Head(wire["gateway"]).counter)
    BY <1>2, ReadFacts, Peers
  <1>6. /\ f \in Frame /\ wire' \in [Sides -> Seq(Frame)]
        /\ wire'["client"] = Append(wire["client"], f)
        /\ wire'["gateway"] = Tail(wire["gateway"])
        /\ ctr' \in [Sides -> Nat]
        /\ ctr'["client"] = ctr["client"] + 1 /\ ctr'["gateway"] = ctr["gateway"]
        /\ nonces' \subseteq Nat \X Sides \X Nat /\ reused' \in BOOLEAN
        /\ NoncesSpent' /\ NoncesUnique'
    BY <1>1, <1>3, <1>4, <1>5, WriteFacts, Peers
  <1>7. f.counter = ctr["client"]
    OBVIOUS
  <1> HIDE DEF f
  <1>8. Numbered("client")'
    BY <1>3, <1>5, <1>6, <1>7, NumberedSent, Peers
  <1>9. Numbered("gateway")'
    <2>1. ctr'["gateway"] \in Nat /\ ctr'["gateway"] >= ctr["gateway"]
      BY <1>6, Peers
    <2> QED
      BY <1>3, <1>5, <1>6, <2>1, NumberedRead, Peers
  <1>10. Counters'
    <2>1. Channels'
      BY <1>5, <1>6 DEF Channels
    <2> QED
      BY <1>6, <1>8, <1>9, <2>1, Peers DEF Counters
  <1>11. /\ codec' \in [Sides -> Codec] /\ codec'["client"].key = k
         /\ codec'["gateway"] = codec["gateway"]
    <2>1. /\ start_rekey(CountOverlap(codec["client"]), k) \in Codec
          /\ start_rekey(CountOverlap(codec["client"]), k).key = k
      BY <1>2, <1>4, CountOverlapFacts, StartRekeyFacts
    <2> QED
      BY <1>1, <1>4, <2>1, Peers
  <1> QED
    BY <1>1, <1>6, <1>10, <1>11 DEF f, k

\* Every step keeps the counters.
LEMMA CountersStep ==
    ASSUME Base, [Next]_vars
    PROVE  Counters'
  <1>0. TypeOK
    BY DEF Base, Counters, TypeOK
  <1>1. ASSUME NEW s \in Sides, NEW b \in AppData(s), SendData(s, b) PROVE Counters'
    <2>1. codec[s].key \in Nat
      BY <1>0 DEF TypeOK, Control, Codec
    <2> QED
      BY <1>1, <2>1, AppBody, WriteCounters DEF SendData
  <1>2. ASSUME NEW s \in Sides, SendDataRefused(s) PROVE Counters'
    BY <1>0, <1>2, RefuseFacts, StillCounters DEF SendDataRefused
  <1>3. ASSUME NEW s \in Sides, ReadData(s) PROVE Counters'
    BY <1>0, <1>3, SameCounters, ReadCounters DEF ReadData
  <1>4. ASSUME NEW s \in Sides, PeerEof(s) PROVE Counters'
    BY <1>0, <1>4, SameCounters, StillCounters DEF PeerEof
  <1>5. CASE SendRekeyInit
    <2>1. codec["gateway"].key \in Nat /\ offer \in Nat
      BY <1>0, Peers DEF TypeOK, Control, Codec
    <2>2. RekeyInit(offer + 1) \in Body
      BY <2>1 DEF RekeyInit, Body
    <2> QED
      BY <1>5, <2>1, <2>2, WriteCounters, Peers DEF SendRekeyInit
  <1>6. CASE RekeyInitRefused
    BY <1>0, <1>6, RefuseFacts, StillCounters, Peers DEF RekeyInitRefused
  <1>7. CASE AnswerInit
    BY <1>7, AnswerFacts
  <1>8. CASE AnswerRefused
    <2>1. Readable("client") /\ Refuse("client", Rest("client"))
      BY <1>8, InitKey DEF AnswerRefused
    <2> QED
      BY <1>0, <2>1, RefuseFacts, ReadCounters, Peers
  <1>9. CASE ReadShort \/ HandleAck \/ NotAck
    <2>1. \E s \in Sides : Readable(s) /\ wire' = Rest(s) /\ UNCHANGED <<ctr, nonces, reused>>
      BY <1>9, Peers DEF ReadShort, ReadControl, HandleAck, NotAck
    <2> QED
      BY <1>0, <2>1, SameCounters, ReadCounters
  <1>10. CASE UNCHANGED vars
    BY <1>0, <1>10, SameCounters, StillCounters DEF vars
  <1> QED
    BY <1>1, <1>2, <1>3, <1>4, <1>5, <1>6, <1>7, <1>8, <1>9, <1>10 DEF Next, Read

-----------------------------------------------------------------------------
(* Codecs, states and reasons keep their types *)

\* A codec that has counted a frame; one that has switched as well.
LEMMA CodecCounts ==
    ASSUME TypeOK, NEW s \in Sides, codec' = [codec EXCEPT ![s] = CountOverlap(@)]
    PROVE  codec' \in [Sides -> Codec] /\ \A t \in Sides : codec'[t].key = codec[t].key
  <1>1. codec \in [Sides -> Codec]
    BY DEF TypeOK, Control
  <1> QED
    BY <1>1, CountOverlapFacts

\* A side that ends.
LEMMA EndedFacts ==
    ASSUME TypeOK, NEW s \in Sides, NEW r \in Reasons, Ended(s, r)
    PROVE  /\ state' \in [Sides -> States] /\ why' \in [Sides -> Reasons]
           /\ state'["client"] # "awaiting"
           /\ state'[s] = "ended" /\ state'[Peer(s)] = state[Peer(s)]
           /\ \A t \in Sides : why'[t] = IF t = s THEN r ELSE why[t]
  <1>1. /\ state \in [Sides -> States] /\ state["client"] # "awaiting"
        /\ why \in [Sides -> Reasons]
    BY DEF TypeOK, Control
  <1>2. state' = [state EXCEPT ![s] = "ended"] /\ why' = [why EXCEPT ![s] = r]
    BY DEF Ended
  <1> QED
    BY <1>1, <1>2, Peers DEF States

\* An action ends a side or leaves both as they are, or it begins or ends the gateway's wait.
LEMMA ControlStep ==
    ASSUME Base, [Next]_vars
    PROVE  Control'
  <1>0. TypeOK
    BY DEF Base, Counters, TypeOK
  <1>1. /\ codec \in [Sides -> Codec] /\ state \in [Sides -> States] /\ offer \in Nat
        /\ why \in [Sides -> Reasons] /\ mistaken \in BOOLEAN /\ state["client"] # "awaiting"
    BY <1>0 DEF TypeOK, Control
  <1>2. ASSUME NEW s \in Sides, NEW b \in AppData(s), SendData(s, b) PROVE Control'
    BY <1>1, <1>2 DEF SendData, Control
  <1>3. ASSUME NEW s \in Sides, NEW r \in Reasons, Ended(s, r),
               codec' \in [Sides -> Codec], offer' \in Nat, mistaken' \in BOOLEAN
        PROVE  Control'
    BY <1>0, <1>3, EndedFacts DEF Control
  <1>4. ASSUME NEW s \in Sides, SendDataRefused(s) \/ PeerEof(s) PROVE Control'
    BY <1>1, <1>3, <1>4 DEF SendDataRefused, PeerEof, Reasons
  <1>5. ASSUME NEW s \in Sides, ReadData(s) PROVE Control'
    <2>1. CASE ReadError(s, NextFrame(s)) = "none"
      BY <1>0, <1>1, <1>5, <2>1, CodecCounts DEF ReadData, Control
    <2>2. CASE ReadError(s, NextFrame(s)) # "none"
      <3>1. ReadError(s, NextFrame(s)) \in Reasons
        BY <2>2 DEF ReadError, Reasons, ReadErrors
      <3> QED
        BY <1>1, <1>3, <1>5, <2>2, <3>1 DEF ReadData
    <2> QED
      BY <2>1, <2>2
  <1>6. CASE SendRekeyInit
    <2>0. offer' = offer + 1
      BY <1>6 DEF SendRekeyInit
    <2>1. offer' \in Nat
      BY <1>1, <2>0
    <2> QED
      BY <1>1, <1>6, <2>1, Peers DEF SendRekeyInit, Control, States
  <1>7. CASE RekeyInitRefused
    <2>0. offer' = offer + 1
      BY <1>7 DEF RekeyInitRefused
    <2>1. offer' \in Nat
      BY <1>1, <2>0
    <2> QED
      BY <1>1, <1>3, <1>7, <2>1, Peers DEF RekeyInitRefused, Reasons
  <1>8. CASE AnswerInit
    <2>1. mistaken' \in BOOLEAN
      BY <1>8, InitKey, Zenon DEF AnswerInit
    <2> QED
      BY <1>1, <1>8, <2>1, AnswerFacts DEF Control
  <1>9. CASE AnswerRefused
    <2>1. mistaken' \in BOOLEAN
      BY <1>9, InitKey, Zenon DEF AnswerRefused
    <2> QED
      BY <1>0, <1>1, <1>3, <1>9, <2>1, CodecCounts, Peers DEF AnswerRefused, Reasons
  <1>10. CASE ReadShort \/ NotAck
    BY <1>0, <1>1, <1>3, <1>10, CodecCounts, Peers DEF ReadShort, NotAck, Reasons
  <1>11. CASE HandleAck
    <2>1. mistaken' \in BOOLEAN
      BY <1>11, Zenon DEF HandleAck
    <2>2. codec' \in [Sides -> Codec]
      BY <1>1, <1>11, CountOverlapFacts, StartRekeyFacts, Peers DEF HandleAck
    <2> QED
      BY <1>1, <1>11, <2>1, <2>2, Peers DEF HandleAck, Control, States
  <1>12. CASE UNCHANGED vars
    BY <1>1, <1>12 DEF vars, Control
  <1> QED
    BY <1>2, <1>4, <1>5, <1>6, <1>7, <1>8, <1>9, <1>10, <1>11, <1>12 DEF Next, Read

-----------------------------------------------------------------------------
(* The handshake, as long as nothing is mistaken *)

\* The frame a live side reads next is sealed with its key, and accepted.
LEMMA ReadsActive ==
    ASSUME Base, HInv, NEW s \in Sides, state[s] # "ended", wire[Peer(s)] # << >>
    PROVE  Head(wire[Peer(s)]).key = codec[s].key
  <1>1. /\ wire[Peer(s)] \in Seq(Frame) /\ Len(wire[Peer(s)]) > 0
        /\ Head(wire[Peer(s)]) = wire[Peer(s)][1]
        /\ state[s] \in States /\ state["client"] # "awaiting"
    BY Peers, NonEmpty DEF Base, Counters, Channels, Control
  <1>2. 1 \in 1..Len(wire[Peer(s)])
    BY <1>1
  <1>3. wire[Peer(s)][1].key = codec[s].key
    <2>1. CASE s = "client"
      BY <1>2, <2>1, Peers DEF HInv, GatewayWire
    <2>2. CASE s = "gateway" /\ state["gateway"] = "relaying"
      BY <1>2, <2>2, Peers DEF HInv, Handshake, InStep, DataUnder
    <2>3. CASE s = "gateway" /\ state["gateway"] = "awaiting"
      <3>1. CASE Unanswered
        BY <1>2, <2>3, <3>1, Peers DEF Unanswered, InStep, DataUnder
      <3>2. CASE Answered
        <4>1. PICK a \in 1..Len(wire["client"]) : \A i \in 1..Len(wire["client"]) :
                  wire["client"][i].key = IF i <= a THEN codec["gateway"].key ELSE offer
          BY <3>2 DEF Answered
        <4>2. 1 <= a
          OBVIOUS
        <4> QED
          BY <1>2, <2>3, <4>1, <4>2, Peers
      <3> QED
        BY <2>3, <3>1, <3>2 DEF HInv, Handshake
    <2> QED
      BY <1>1, <2>1, <2>2, <2>3, Peers DEF States
  <1> QED
    BY <1>1, <1>3

LEMMA NoReadError ==
    ASSUME Base, NEW s \in Sides, Readable(s)
    PROVE  /\ ReadError(s, NextFrame(s)) # "replay"
           /\ HInv => ReadError(s, NextFrame(s)) = "none"
  <1>1. /\ Accepts(win[s], NextFrame(s).counter) /\ state[s] # "ended"
        /\ wire[Peer(s)] # << >>
    BY ReadFacts
  <1>2. HInv => NextFrame(s).key = codec[s].key
    BY <1>1, ReadsActive DEF NextFrame
  <1> QED
    BY <1>1, <1>2 DEF ReadError

\* A frame appended to a wire.
LEMMA Appended ==
    ASSUME NEW q \in Seq(Frame), NEW f \in Frame
    PROVE  /\ Len(Append(q, f)) = Len(q) + 1 /\ Len(q) \in Nat
           /\ Append(q, f) # << >>
           /\ Append(q, f)[Len(q) + 1] = f
           /\ \A i \in 1..Len(q) : Append(q, f)[i] = q[i]
           /\ \A i \in 1..(Len(q) + 1) : i \in 1..Len(q) \/ i = Len(q) + 1
  OBVIOUS

\* A chunk of data goes out under the key of its sender.
LEMMA SendDataStep ==
    ASSUME Base, HInv, NEW s \in Sides, NEW b \in AppData(s), SendData(s, b)
    PROVE  HInv'
  <1> DEFINE f == [key |-> codec[s].key, counter |-> ctr[s], body |-> b]
             q == wire[s]
  <1>0. /\ Write(s, codec[s].key, b, wire) /\ state[s] = "relaying"
        /\ UNCHANGED <<codec, win, state, offer, why>>
    BY DEF SendData
  <1>1. /\ codec[s].key \in Nat /\ b \in Body /\ TypeOK
        /\ wire \in [Sides -> Seq(Frame)] /\ q \in Seq(Frame)
    BY AppBody DEF Base, Counters, TypeOK, Control, Channels, Codec
  <1>3. f \in Frame /\ wire'[s] = Append(q, f) /\ wire'[Peer(s)] = wire[Peer(s)]
    BY <1>0, <1>1, WriteFacts
  <1>4. f.key = codec[s].key /\ ByApp(f)
    BY AppBody DEF ByApp
  <1> HIDE DEF f
  <1>5. GatewayWire /\ Handshake
    BY DEF HInv
  <1>6. CASE s = "client"
    <2>1. wire'["gateway"] = wire["gateway"] /\ wire'["client"] = Append(wire["client"], f)
      BY <1>3, <1>6, Peers
    <2>2. GatewayWire'
      BY <1>0, <1>5, <2>1 DEF GatewayWire
    <2>3. ASSUME InStep PROVE InStep'
      <3>1. /\ wire["client"] \in Seq(Frame) /\ codec["client"].key = codec["gateway"].key
            /\ codec' = codec /\ f.key = codec["gateway"].key
        BY <1>0, <1>1, <1>4, <1>6, <2>3 DEF InStep
      <3>2. \A i \in 1..Len(wire["client"]) :
               wire["client"][i].key = codec["gateway"].key /\ ByApp(wire["client"][i])
        BY <2>3 DEF InStep, DataUnder
      <3>3. ASSUME NEW i \in 1..Len(wire'["client"])
            PROVE  wire'["client"][i].key = codec["gateway"].key /\ ByApp(wire'["client"][i])
        <4>1. i \in 1..Len(wire["client"]) \/ i = Len(wire["client"]) + 1
          BY <1>3, <2>1, <3>1, Appended
        <4>2. CASE i \in 1..Len(wire["client"])
          BY <1>3, <2>1, <3>1, <3>2, <4>2, Appended
        <4>3. CASE i = Len(wire["client"]) + 1
          BY <1>3, <1>4, <2>1, <3>1, <4>3, Appended
        <4> QED
          BY <4>1, <4>2, <4>3
      <3> QED
        BY <3>1, <3>3 DEF InStep, DataUnder
    <2>4. ASSUME Unanswered PROVE Unanswered'
      BY <1>0, <2>1, <2>3, <2>4 DEF Unanswered
    <2>5. ASSUME Answered PROVE Answered'
      <3>1. PICK a \in 1..Len(wire["client"]) :
              \A i \in 1..Len(wire["client"]) :
                    /\ wire["client"][i].key = IF i <= a THEN codec["gateway"].key ELSE offer
                    /\ i # a => ByApp(wire["client"][i])
        BY <2>5 DEF Answered
      <3>2. a \in 1..Len(wire'["client"]) /\ a < Len(wire["client"]) + 1
        BY <1>1, <1>3, <1>6, <2>1, <3>1, Appended
      <3>3. ASSUME NEW i \in 1..Len(wire'["client"])
            PROVE  /\ wire'["client"][i].key = IF i <= a THEN codec["gateway"].key ELSE offer
                   /\ i # a => ByApp(wire'["client"][i])
        <4>1. CASE i = Len(wire["client"]) + 1
          <5>1. wire'["client"][i] = f /\ ~(i <= a)
            BY <1>1, <1>3, <1>6, <2>1, <3>2, <4>1, Appended
          <5> QED
            BY <1>4, <1>6, <2>5, <5>1 DEF Answered
        <4>2. CASE i \in 1..Len(wire["client"])
          <5>1. wire'["client"][i] = wire["client"][i]
            BY <1>1, <1>3, <1>6, <2>1, <4>2, Appended
          <5> QED
            BY <3>1, <4>2, <5>1
        <4> QED
          BY <1>1, <1>3, <1>6, <2>1, <4>1, <4>2, Appended
      <3>4. codec'["client"].key = offer' /\ wire'["gateway"] = << >>
        BY <1>0, <2>1, <2>5 DEF Answered
      <3> QED
        BY <1>0, <3>2, <3>3, <3>4 DEF Answered
    <2>6. Handshake'
      BY <1>0, <1>5, <2>3, <2>4, <2>5 DEF Handshake
    <2> QED
      BY <2>2, <2>6 DEF HInv
  <1>7. CASE s = "gateway"
    <2>1. wire'["client"] = wire["client"] /\ wire'["gateway"] = Append(wire["gateway"], f)
      BY <1>3, <1>7, Peers
    <2>2. state["gateway"] = "relaying" /\ InStep /\ codec["gateway"].key = offer
      BY <1>0, <1>5, <1>7 DEF Handshake
    <2>3. GatewayWire'
      <3> SUFFICES ASSUME NEW i \in 1..Len(wire'["gateway"])
                   PROVE  /\ wire'["gateway"][i].key = codec["client"].key
                          /\ ByApp(wire'["gateway"][i])
        BY <1>0 DEF GatewayWire
      <3>1. CASE i = Len(wire["gateway"]) + 1
        BY <1>1, <1>3, <1>4, <1>7, <2>1, <2>2, <3>1, Appended DEF InStep
      <3>2. CASE i \in 1..Len(wire["gateway"])
        <4>1. wire'["gateway"][i] = wire["gateway"][i]
          BY <1>1, <1>3, <1>7, <2>1, <3>2, Appended
        <4> QED
          BY <1>5, <2>2, <3>2, <4>1 DEF GatewayWire
      <3> QED
        BY <1>1, <1>3, <1>7, <2>1, <3>1, <3>2, Appended
    <2>4. Handshake'
      BY <1>0, <2>1, <2>2 DEF Handshake, InStep, DataUnder
    <2> QED
      BY <2>3, <2>4 DEF HInv
  <1> QED
    BY <1>6, <1>7, Peers

\* REKEY_INIT goes out behind the gateway's data, and the gateway waits.
LEMMA SendRekeyInitStep ==
    ASSUME Base, HInv, SendRekeyInit
    PROVE  HInv'
  <1> DEFINE f == [key |-> codec["gateway"].key, counter |-> ctr["gateway"],
                   body |-> RekeyInit(offer + 1)]
             q == wire["gateway"]
  <1>0. /\ Write("gateway", codec["gateway"].key, RekeyInit(offer + 1), wire)
        /\ state["gateway"] = "relaying" /\ offer' = offer + 1
        /\ state' = [state EXCEPT !["gateway"] = "awaiting"]
        /\ UNCHANGED <<codec, win, why>>
    BY DEF SendRekeyInit
  <1>1. /\ codec["gateway"].key \in Nat /\ RekeyInit(offer + 1) \in Body /\ TypeOK
        /\ wire \in [Sides -> Seq(Frame)] /\ q \in Seq(Frame)
    <2>1. TypeOK /\ offer + 1 \in Nat
      <3>1. TypeOK /\ offer \in Nat
        BY DEF Base, Counters, TypeOK, Control
      <3> QED
        BY <3>1
    <2>2. RekeyInit(offer + 1) \in Body
      BY <2>1 DEF RekeyInit, Body
    <2> QED
      BY <2>1, <2>2, Peers DEF TypeOK, Control, Channels, Codec
  <1>3. f \in Frame /\ wire'["gateway"] = Append(q, f) /\ wire'["client"] = wire["client"]
    BY <1>0, <1>1, WriteFacts, Peers
  <1>4. f.key = codec["gateway"].key /\ ~ByApp(f) /\ f.body = RekeyInit(offer')
    BY <1>0 DEF RekeyInit, ByApp
  <1> HIDE DEF f
  <1>5. GatewayWire /\ InStep
    BY <1>0 DEF HInv, Handshake
  <1>6. state'["gateway"] = "awaiting"
    BY <1>0, <1>1, Peers DEF TypeOK, Control
  <1>7. GatewayWire'
    <2> SUFFICES ASSUME NEW i \in 1..Len(wire'["gateway"])
                 PROVE  /\ wire'["gateway"][i].key = codec["client"].key
                        /\ ~ByApp(wire'["gateway"][i]) =>
                             /\ i = Len(wire'["gateway"])
                             /\ wire'["gateway"][i].body = RekeyInit(offer')
      BY <1>0, <1>6 DEF GatewayWire
    <2>1. CASE i = Len(wire["gateway"]) + 1
      BY <1>1, <1>3, <1>4, <1>5, <2>1, Appended DEF InStep
    <2>2. CASE i \in 1..Len(wire["gateway"])
      <3>1. wire'["gateway"][i] = wire["gateway"][i]
        BY <1>1, <1>3, <2>2, Appended
      <3> QED
        BY <1>0, <1>5, <2>2, <3>1 DEF GatewayWire
    <2> QED
      BY <1>1, <1>3, <2>1, <2>2, Appended
  <1>8. Handshake'
    <2>1. InStep'
      BY <1>0, <1>3, <1>5 DEF InStep, DataUnder
    <2>2. /\ wire'["gateway"] # << >>
          /\ ~ByApp(wire'["gateway"][Len(wire'["gateway"])])
      BY <1>1, <1>3, <1>4, Appended
    <2> QED
      BY <1>6, <2>1, <2>2 DEF Handshake, Unanswered
  <1> QED
    BY <1>7, <1>8 DEF HInv

\* A side ends between two frames: at the threshold, or at the end of its input.
LEMMA EndStep ==
    ASSUME Base, HInv, NEW s \in Sides, NEW r \in Reasons, Ended(s, r),
           UNCHANGED <<codec, wire>>,
           offer' = offer \/ (s = "gateway" /\ state[s] = "relaying")
    PROVE  HInv'
  <1>1. TypeOK /\ GatewayWire /\ Handshake
    BY DEF Base, Counters, TypeOK, HInv
  <1>2. state'[s] = "ended" /\ state'[Peer(s)] = state[Peer(s)]
    BY <1>1, EndedFacts
  <1>3. CASE s = "gateway"
    BY <1>1, <1>2, <1>3, Peers DEF GatewayWire, Handshake, HInv
  <1>4. CASE s = "client"
    <2>1. offer' = offer /\ state'["gateway"] = state["gateway"] /\ state'["client"] = "ended"
      BY <1>2, <1>4, Peers
    <2>2. GatewayWire'
      BY <1>1, <2>1 DEF GatewayWire
    <2>3. InStep' = InStep
      BY DEF InStep, DataUnder
    <2>4. Answered' = Answered
      BY <2>1 DEF Answered
    <2> QED
      BY <1>1, <2>1, <2>2, <2>3, <2>4 DEF Handshake, Unanswered, HInv
  <1> QED
    BY <1>3, <1>4, Peers

\* The client reads a frame of the target's and goes on, or ends.
LEMMA ClientReads ==
    ASSUME Base, HInv, Readable("client"), wire' = Rest("client"), UNCHANGED offer,
           NextFrame("client").body.type # "init",
           codec' = [codec EXCEPT !["client"] = CountOverlap(@)],
           state'["gateway"] = state["gateway"],
           state'["client"] \in {state["client"], "ended"}
    PROVE  HInv'
  <1> DEFINE q == wire["gateway"]
  <1>1. TypeOK /\ GatewayWire /\ Handshake
    BY DEF Base, Counters, TypeOK, HInv
  <1>2. /\ q \in Seq(Frame) /\ q # << >> /\ NextFrame("client") = q[1]
        /\ wire'["gateway"] = Tail(q) /\ wire'["client"] = wire["client"]
    BY ReadFacts, Peers
  <1>3. \A t \in Sides : codec'[t].key = codec[t].key
    BY <1>1, CodecCounts, Peers
  <1>4. /\ Len(q) \in Nat /\ Len(q) > 0 /\ Len(Tail(q)) = Len(q) - 1
        /\ \A i \in 1..Len(Tail(q)) : Tail(q)[i] = q[i + 1] /\ i + 1 \in 1..Len(q)
    BY <1>2, NonEmpty
  <1>5. GatewayWire'
    <2> SUFFICES ASSUME NEW i \in 1..Len(wire'["gateway"])
                 PROVE  LET f == wire'["gateway"][i]
                        IN  /\ f.key = codec["client"].key
                            /\ ~ByApp(f) =>
                                 /\ i = Len(wire'["gateway"]) /\ f.body = RekeyInit(offer)
                                 /\ state["gateway"] # "relaying"
      BY <1>3, Peers DEF GatewayWire
    <2>1. wire'["gateway"][i] = q[i + 1] /\ i + 1 \in 1..Len(q)
      BY <1>2, <1>4
    <2>2. i + 1 = Len(q) => i = Len(wire'["gateway"])
      <3>1. Len(wire'["gateway"]) = Len(q) - 1
        BY <1>2, <1>4, Zenon
      <3>2. Len(q) \in Nat
        BY <1>4
      <3>3. i \in Int
        OBVIOUS
      <3> HIDE DEF q
      <3> QED
        BY <3>1, <3>2, <3>3
    <2> HIDE DEF q
    <2> QED
      BY <1>1, <2>1, <2>2 DEF GatewayWire, q
  <1>6. InStep' = InStep
    BY <1>2, <1>3, Peers DEF InStep, DataUnder
  <1>7. ASSUME Unanswered PROVE Unanswered'
    <2>1. CASE state'["client"] = "ended"
      BY <1>6, <1>7, <2>1 DEF Unanswered
    <2>2. CASE state'["client"] # "ended"
      <3>1. ~ByApp(q[Len(q)])
        BY <1>7, <2>2 DEF Unanswered
      <3>2. Len(q) # 1
        <4>1. Len(q) \in 1..Len(q)
          BY <1>4
        <4>2. q[Len(q)].body.type = "init"
          BY <1>1, <3>1, <4>1 DEF GatewayWire, RekeyInit
        <4> QED
          BY <1>2, <4>2
      <3>3. Tail(q) # << >> /\ Tail(q)[Len(Tail(q))] = q[Len(q)]
        BY <1>2, <3>2, TailLast
      <3> QED
        BY <1>2, <1>6, <1>7, <3>1, <3>3 DEF Unanswered
    <2> QED
      BY <2>1, <2>2
  <1>8. ~Answered
    BY <1>2 DEF Answered
  <1> QED
    BY <1>1, <1>3, <1>5, <1>6, <1>7, <1>8, Peers DEF HInv, Handshake

\* A relaying side passes data on.
LEMMA ReadDataStep ==
    ASSUME Base, HInv, NEW s \in Sides, ReadData(s)
    PROVE  HInv'
  <1>0. /\ Readable(s) /\ wire' = Rest(s) /\ UNCHANGED <<offer, state>>
        /\ state[s] = "relaying" /\ ~IsControl(s, NextFrame(s).body)
        /\ codec' = [codec EXCEPT ![s] = CountOverlap(@)]
    <2>1. Readable(s)
      BY DEF ReadData
    <2>2. ReadError(s, NextFrame(s)) = "none"
      BY <2>1, NoReadError
    <2> QED
      BY <2>1, <2>2 DEF ReadData
  <1>1. CASE s = "client"
    BY <1>0, <1>1, ClientReads DEF IsControl
  <1>2. CASE s = "gateway"
    <2>1. TypeOK /\ GatewayWire /\ Handshake
      BY DEF Base, Counters, TypeOK, HInv
    <2>2. /\ wire["client"] \in Seq(Frame) /\ wire["client"] # << >>
          /\ wire'["gateway"] = wire["gateway"] /\ wire'["client"] = Tail(wire["client"])
      BY <1>0, <1>2, ReadFacts, Peers
    <2>3. \A t \in Sides : codec'[t].key = codec[t].key
      BY <1>0, <2>1, CodecCounts
    <2>4. GatewayWire'
      BY <1>0, <2>1, <2>2, <2>3, Peers DEF GatewayWire
    <2>5. InStep'
      <3>1. InStep
        BY <1>0, <1>2, <2>1 DEF Handshake
      <3>2. \A i \in 1..Len(Tail(wire["client"])) :
               /\ Tail(wire["client"])[i] = wire["client"][i + 1]
               /\ i + 1 \in 1..Len(wire["client"])
        BY <2>2, NonEmpty
      <3> QED
        BY <2>2, <2>3, <3>1, <3>2, Peers DEF InStep, DataUnder
    <2>6. Handshake'
      BY <1>0, <1>2, <2>1, <2>3, <2>5, Peers DEF Handshake
    <2> QED
      BY <2>4, <2>6 DEF HInv
  <1> QED
    BY <1>1, <1>2, Peers

\* REKEY_INIT, when it is the gateway's, is the last frame the gateway has sent.
LEMMA ReadInitFacts ==
    ASSUME Base, HInv, ReadInit, ~mistaken'
    PROVE  /\ Readable("client") /\ state["client"] = "relaying"
           /\ NextFrame("client").body.key = offer /\ state["gateway"] # "relaying"
           /\ Tail(wire["gateway"]) = << >>
           /\ state["gateway"] = "awaiting" => InStep
  <1>1. /\ Readable("client") /\ state["client"] = "relaying"
        /\ ~ByApp(NextFrame("client"))
    BY InitKey
  <1>2. /\ wire["gateway"] \in Seq(Frame) /\ wire["gateway"] # << >>
        /\ NextFrame("client") = wire["gateway"][1]
    BY <1>1, ReadFacts, Peers
  <1>3. Len(wire["gateway"]) > 0 /\ Len(wire["gateway"]) \in Nat
    BY <1>2, NonEmpty
  <1>4. /\ Len(wire["gateway"]) = 1 /\ NextFrame("client").body.key = offer
        /\ state["gateway"] # "relaying"
    <2>1. 1 \in 1..Len(wire["gateway"]) /\ GatewayWire
      BY <1>3 DEF HInv
    <2>2. /\ 1 = Len(wire["gateway"]) /\ wire["gateway"][1].body = RekeyInit(offer)
          /\ state["gateway"] # "relaying"
      BY <1>1, <1>2, <2>1 DEF GatewayWire
    <2> QED
      BY <1>2, <2>2 DEF RekeyInit
  <1>5. Tail(wire["gateway"]) = << >>
    <2>1. Tail(wire["gateway"]) \in Seq(Frame) /\ Len(Tail(wire["gateway"])) = 0
      BY <1>2, <1>4, NonEmpty
    <2> QED
      BY <2>1, EmptySeq
  <1>6. state["gateway"] = "awaiting" => InStep
    BY <1>2 DEF HInv, Handshake, Unanswered, Answered
  <1> QED
    BY <1>1, <1>4, <1>5, <1>6

\* The client answers and switches: its ACK is now the frontier.
LEMMA AnswerInitStep ==
    ASSUME Base, HInv, AnswerInit, ~mistaken'
    PROVE  HInv'
  <1> DEFINE f == [key |-> codec["client"].key, counter |-> ctr["client"],
                   body |-> RekeyAck(offer)]
             q == wire["client"]
  <1>1. ReadInit
    BY DEF AnswerInit
  <1>2. /\ NextFrame("client").body.key = offer /\ state["gateway"] # "relaying"
        /\ Tail(wire["gateway"]) = << >>
        /\ state["gateway"] = "awaiting" => InStep
    BY <1>1, ReadInitFacts
  <1>3. /\ f \in Frame /\ wire'["client"] = Append(q, f) /\ wire'["gateway"] = << >>
        /\ codec'["client"].key = offer /\ codec'["gateway"] = codec["gateway"]
        /\ UNCHANGED <<state, offer>>
    BY <1>2, AnswerFacts
  <1>4. f.key = codec["client"].key
    OBVIOUS
  <1> HIDE DEF f
  <1>5. q \in Seq(Frame)
    BY Peers DEF Base, Counters, Channels
  <1>6. GatewayWire'
    BY <1>3 DEF GatewayWire
  <1>7. Handshake'
    <2> SUFFICES ASSUME state["gateway"] = "awaiting" PROVE Answered'
      BY <1>2, <1>3 DEF Handshake
    <2>1. InStep
      BY <1>2
    <2>2. /\ Len(q) + 1 \in 1..Len(wire'["client"])
          /\ Len(wire'["client"]) = Len(q) + 1 /\ Len(q) \in Nat
      BY <1>3, <1>5, Appended
    <2>3. ASSUME NEW i \in 1..Len(wire'["client"])
          PROVE  /\ wire'["client"][i].key = codec["gateway"].key /\ i <= Len(q) + 1
                 /\ i # Len(q) + 1 => ByApp(wire'["client"][i])
      <3>1. CASE i = Len(q) + 1
        BY <1>3, <1>4, <1>5, <2>1, <2>2, <3>1, Appended DEF InStep
      <3>2. CASE i \in 1..Len(q)
        BY <1>3, <1>5, <2>1, <2>2, <3>2, Appended DEF InStep, DataUnder
      <3> QED
        BY <2>2, <3>1, <3>2
    <2>4. \E a \in 1..Len(wire'["client"]) :
             \A i \in 1..Len(wire'["client"]) :
                   /\ wire'["client"][i].key =
                         IF i <= a THEN codec["gateway"].key ELSE offer
                   /\ i # a => ByApp(wire'["client"][i])
      BY <2>2, <2>3
    <2> QED
      BY <1>3, <2>4 DEF Answered
  <1> QED
    BY <1>6, <1>7 DEF HInv

\* The client cannot answer and ends: the gateway will wait until it sees that.
LEMMA AnswerRefusedStep ==
    ASSUME Base, HInv, AnswerRefused, ~mistaken'
    PROVE  HInv'
  <1>0. /\ ReadInit /\ Refuse("client", Rest("client")) /\ Ended("client", "rekey needed")
        /\ codec' = [codec EXCEPT !["client"] = CountOverlap(@)]
        /\ offer' = offer
    BY DEF AnswerRefused
  <1>1. TypeOK
    BY DEF Base, Counters, TypeOK
  <1>2. /\ Readable("client") /\ state["gateway"] # "relaying"
        /\ Tail(wire["gateway"]) = << >>
        /\ state["gateway"] = "awaiting" => InStep
    BY <1>0, ReadInitFacts
  <1>3. wire'["gateway"] = << >> /\ wire'["client"] = wire["client"]
    <2>1. wire' = Rest("client")
      BY <1>0 DEF Refuse
    <2>2. Rest("client")["gateway"] = Tail(wire["gateway"]) /\ Rest("client")["client"] = wire["client"]
      BY <1>2, ReadFacts, Peers
    <2> QED
      BY <1>2, <2>1, <2>2
  <1>4. \A t \in Sides : codec'[t].key = codec[t].key
    BY <1>0, <1>1, CodecCounts, Peers
  <1>5. state'["client"] = "ended" /\ state'["gateway"] = state["gateway"]
    BY <1>0, <1>1, EndedFacts, Peers DEF Reasons
  <1>6. GatewayWire'
    BY <1>3 DEF GatewayWire
  <1>7. InStep' = InStep
    BY <1>3, <1>4, Peers DEF InStep, DataUnder
  <1> QED
    BY <1>2, <1>5, <1>6, <1>7 DEF Handshake, Unanswered, HInv

\* The ACK arrives: everything behind it is under the key the gateway switches to.
LEMMA HandleAckStep ==
    ASSUME Base, HInv, HandleAck, ~mistaken'
    PROVE  HInv'
  <1> DEFINE q == wire["client"]
  <1>0. /\ state["gateway"] = "awaiting" /\ Readable("gateway") /\ wire' = Rest("gateway")
        /\ codec' = [codec EXCEPT !["gateway"] = start_rekey(CountOverlap(@), offer)]
        /\ state' = [state EXCEPT !["gateway"] = "relaying"]
        /\ mistaken' = (mistaken \/ ByApp(NextFrame("gateway")))
        /\ offer' = offer
    BY Zenon DEF HandleAck
  <1>1. TypeOK /\ Handshake
    BY DEF Base, Counters, TypeOK, HInv
  <1>2. /\ wire'["gateway"] = wire["gateway"]
        /\ wire'["client"] = Tail(q) /\ q \in Seq(Frame) /\ q # << >>
        /\ NextFrame("gateway") = q[1]
    BY <1>0, ReadFacts, Peers
  <1>3. ~ByApp(q[1])
    BY <1>0, <1>2
  <1>4. /\ Len(q) \in Nat /\ Len(q) > 0 /\ Len(Tail(q)) = Len(q) - 1 /\ 1 \in 1..Len(q)
        /\ \A i \in 1..Len(Tail(q)) : Tail(q)[i] = q[i + 1] /\ i + 1 \in 1..Len(q)
    BY <1>2, NonEmpty
  <1>5. ~Unanswered
    BY <1>3, <1>4 DEF Unanswered, InStep, DataUnder
  <1>6. Answered
    BY <1>0, <1>1, <1>5 DEF Handshake
  <1>7. \A i \in 1..Len(q) : i # 1 => q[i].key = offer /\ ByApp(q[i])
    <2>1. PICK a \in 1..Len(q) :
            \A i \in 1..Len(q) :
              /\ q[i].key = IF i <= a THEN codec["gateway"].key ELSE offer
              /\ i # a => ByApp(q[i])
      BY <1>6 DEF Answered
    <2>2. a = 1
      BY <1>3, <1>4, <2>1
    <2>3. \A i \in 1..Len(q) : i # 1 => ~(i <= a)
      BY <1>4, <2>2
    <2> QED
      BY <2>1, <2>2, <2>3
  <1>8. codec'["gateway"].key = offer /\ codec'["client"] = codec["client"]
    <2>1. codec \in [Sides -> Codec] /\ offer \in Nat /\ codec["gateway"] \in Codec
      BY <1>1, Peers DEF TypeOK, Control
    <2> QED
      BY <1>0, <2>1, CountOverlapFacts, StartRekeyFacts, Peers
  <1>9. state'["gateway"] = "relaying" /\ state'["client"] = state["client"]
    BY <1>0, <1>1, Peers DEF TypeOK, Control
  <1>10. GatewayWire'
    BY <1>2, <1>6 DEF GatewayWire, Answered
  <1>11. InStep'
    <2>1. ASSUME NEW i \in 1..Len(Tail(q))
          PROVE  Tail(q)[i].key = offer /\ ByApp(Tail(q)[i])
      <3>1. i + 1 # 1 /\ i + 1 \in 1..Len(q) /\ Tail(q)[i] = q[i + 1]
        BY <1>4
      <3> QED
        BY <1>7, <3>1
    <2> QED
      BY <1>2, <1>6, <1>8, <2>1 DEF InStep, DataUnder, Answered
  <1> QED
    BY <1>0, <1>8, <1>9, <1>10, <1>11 DEF Handshake, HInv

\* Data where the ACK was due ends the gateway; the client may still answer.
LEMMA NotAckStep ==
    ASSUME Base, HInv, NotAck
    PROVE  HInv'
  <1>0. /\ state["gateway"] = "awaiting" /\ Readable("gateway") /\ wire' = Rest("gateway")
        /\ codec' = [codec EXCEPT !["gateway"] = CountOverlap(@)]
        /\ Ended("gateway", "bad ack")
        /\ offer' = offer
    BY DEF NotAck
  <1>1. TypeOK /\ GatewayWire
    BY DEF Base, Counters, TypeOK, HInv
  <1>2. wire'["gateway"] = wire["gateway"]
    BY <1>0, ReadFacts, Peers
  <1>3. state'["gateway"] = "ended"
    BY <1>0, <1>1, EndedFacts, Peers DEF Reasons
  <1>4. codec'["client"].key = codec["client"].key
    BY <1>0, <1>1, CodecCounts, Peers
  <1> QED
    BY <1>0, <1>1, <1>2, <1>3, <1>4 DEF GatewayWire, Handshake, HInv

\* Every step keeps the handshake in step unless it mistakes data for control.
LEMMA HandshakeStep ==
    ASSUME Base, HInv, [Next]_vars, ~mistaken'
    PROVE  HInv'
  <1>0. TypeOK
    BY DEF Base, Counters, TypeOK
  <1>1. ASSUME NEW s \in Sides, SendDataRefused(s) \/ PeerEof(s) PROVE HInv'
    BY <1>1, EndStep DEF SendDataRefused, Refuse, PeerEof, Reasons
  <1>2. CASE RekeyInitRefused
    BY <1>2, EndStep, Peers DEF RekeyInitRefused, Refuse, Reasons
  <1>3. CASE ReadShort
    <2>1. state'["client"] = "ended" /\ state'["gateway"] = state["gateway"]
      BY <1>0, <1>3, EndedFacts, Peers DEF ReadShort, Reasons
    <2> QED
      BY <1>3, <2>1, ClientReads DEF ReadShort, ReadControl
  <1>4. CASE UNCHANGED vars
    <2> USE <1>4 DEF vars
    <2>1. GatewayWire' = GatewayWire
      BY DEF GatewayWire
    <2>2. InStep' = InStep
      BY DEF InStep, DataUnder
    <2>3. Unanswered' = Unanswered
      BY <2>2 DEF Unanswered
    <2>4. Answered' = Answered
      BY DEF Answered
    <2> QED
      BY <2>1, <2>2, <2>3, <2>4 DEF Handshake, HInv
  <1> QED
    BY <1>1, <1>2, <1>3, <1>4, SendDataStep, ReadDataStep, SendRekeyInitStep, AnswerInitStep,
       AnswerRefusedStep, HandleAckStep, NotAckStep
    DEF Next, Read

-----------------------------------------------------------------------------
(* The theorems *)

\* Nothing has been sent and both sides have key 0.
LEMMA InitRInv ==
    ASSUME Init
    PROVE  RInv
  <1>1. Control /\ Channels
    <2>1. NewWindow \in Window /\ [key |-> 0, prev |-> None, since |-> 0] \in Codec
      BY DEF NewWindow, Window, NoCounter, Codec, None
    <2>2. << >> \in Seq(Frame)
      BY EmptySeq
    <2>3. /\ codec \in [Sides -> Codec] /\ ctr \in [Sides -> Nat]
          /\ win \in [Sides -> Window] /\ wire \in [Sides -> Seq(Frame)]
      BY <2>1, <2>2 DEF Init
    <2>4. /\ state \in [Sides -> States] /\ why \in [Sides -> Reasons]
          /\ state["client"] # "awaiting"
      BY Peers DEF Init, States, Reasons
    <2> QED
      BY <2>3, <2>4 DEF Init, Control, Channels
  <1>2. \A s \in Sides : Numbered(s)
    BY Peers DEF Init, Numbered, NewWindow, NoCounter
  <1>3. NoncesSpent /\ NoncesUnique /\ NoFrameRefused
    BY DEF Init, NoncesSpent, NoncesUnique, NoFrameRefused, ReadErrors
  <1>4. HInv
    BY Peers DEF Init, GatewayWire, Handshake, InStep, DataUnder, HInv
  <1> QED
    BY <1>1, <1>2, <1>3, <1>4 DEF RInv, Base, Counters

\* A mistake is never forgotten.
LEMMA MistakenStays ==
    ASSUME [Next]_vars, mistaken
    PROVE  mistaken'
  <1>1. mistaken' = mistaken \/ ReadInit \/ HandleAck
    BY Zenon DEF Next, Read, SendData, SendDataRefused, ReadData, PeerEof, SendRekeyInit,
                 RekeyInitRefused, AnswerInit, AnswerRefused, ReadShort, NotAck, vars
  <1> QED
    BY <1>1, Zenon DEF ReadInit, HandleAck

\* A side gives a read error as its reason only if one of the two was mistaken.
LEMMA RefusedStep ==
    ASSUME RInv, [Next]_vars
    PROVE  NoFrameRefused'
  <1>0. Base /\ TypeOK /\ NoFrameRefused
    BY DEF RInv, Base, Counters, TypeOK
  <1>1. CASE why' = why
    BY <1>0, <1>1, MistakenStays DEF NoFrameRefused
  <1>2. ASSUME NEW s \in Sides, NEW r \in Reasons, Ended(s, r), r # "replay",
               r \in ReadErrors => mistaken
        PROVE  NoFrameRefused'
    <2>1. \A t \in Sides : why'[t] = IF t = s THEN r ELSE why[t]
      BY <1>0, <1>2, EndedFacts
    <2> QED
      BY <1>0, <1>2, <2>1, MistakenStays DEF NoFrameRefused
  <1>3. ASSUME NEW s \in Sides, ReadData(s) PROVE NoFrameRefused'
    <2> DEFINE e == ReadError(s, NextFrame(s))
    <2>1. Readable(s)
      BY <1>3 DEF ReadData
    <2>2. e # "replay" /\ (HInv => e = "none")
      BY <1>0, <2>1, NoReadError
    <2>3. CASE e = "none"
      BY <1>1, <1>3, <2>3 DEF ReadData
    <2>4. CASE e # "none"
      <3>1. e \in Reasons
        BY <2>4 DEF ReadError, Reasons, ReadErrors
      <3>2. mistaken
        BY <2>2, <2>4 DEF RInv
      <3>3. Ended(s, e)
        BY <1>3, <2>4 DEF ReadData
      <3> HIDE DEF e
      <3> QED
        BY <1>2, <2>2, <3>1, <3>2, <3>3
    <2> QED
      BY <2>3, <2>4
  <1>4. ASSUME NEW s \in Sides, SendDataRefused(s) \/ PeerEof(s) PROVE NoFrameRefused'
    BY <1>2, <1>4 DEF SendDataRefused, PeerEof, Reasons, ReadErrors
  <1>5. CASE RekeyInitRefused \/ AnswerRefused \/ ReadShort \/ NotAck
    BY <1>2, <1>5, Peers DEF RekeyInitRefused, AnswerRefused, ReadShort, NotAck, Reasons, ReadErrors
  <1>6. ASSUME NEW s \in Sides, NEW b \in AppData(s), SendData(s, b) PROVE NoFrameRefused'
    BY <1>1, <1>6 DEF SendData
  <1>7. CASE SendRekeyInit \/ AnswerInit \/ HandleAck \/ UNCHANGED vars
    BY <1>1, <1>7 DEF SendRekeyInit, AnswerInit, HandleAck, vars
  <1> QED
    BY <1>3, <1>4, <1>5, <1>6, <1>7 DEF Next, Read

\* The invariant of the handshake holds in every state of every session: counters
\* whatever happens, the rest until data is mistaken for control.
THEOREM RekeyInvariant == Spec => []RInv
  <1>1. Init => RInv
    BY InitRInv
  <1>2. RInv /\ [Next]_vars => RInv'
    <2> SUFFICES ASSUME RInv, [Next]_vars PROVE RInv'
      OBVIOUS
    <2>1. Base'
      BY CountersStep, ControlStep DEF RInv, Base
    <2>2. ~mistaken' => HInv'
      BY MistakenStays, HandshakeStep DEF RInv
    <2> QED
      BY <2>1, <2>2, RefusedStep DEF RInv
  <1> QED
    BY <1>1, <1>2, PTL DEF Spec

\* send_counter is never reset and prefixes differ, so however many rekeys a session
\* makes, and whatever it takes for one, no nonce is used twice under one key.
THEOREM NonceUniqueness == Spec => []NoncesUnique
  <1>1. RInv => NoncesUnique
    BY DEF RInv, Base, Counters
  <1> QED
    BY <1>1, RekeyInvariant, PTL

\* read_frame takes no frame of the peer for a replay, and refuses none for its kid
\* (however few kids there are) or its key unless data was taken for control.
THEOREM NoneRefused == Spec => []NoFrameRefused
  <1>1. RInv => NoFrameRefused
    BY DEF RInv
  <1> QED
    BY <1>1, RekeyInvariant, PTL

\* Until data is taken for control, a live side always reads under the key it writes
\* with: prev is never what opens a frame.
THEOREM ActiveKeyReads == Spec => []ReadsUnderActiveKey
  <1>1. RInv => ReadsUnderActiveKey
    BY ReadsActive DEF ReadsUnderActiveKey, RInv
  <1> QED
    BY <1>1, RekeyInvariant, PTL

\* Until data is taken for control, two relaying sides with nothing in flight have one key.
THEOREM Convergence == Spec => []Converged
  <1>1. RInv => Converged
    BY Peers DEF RInv, HInv, Handshake, InStep, Converged
  <1> QED
    BY <1>1, RekeyInvariant, PTL

-----------------------------------------------------------------------------
(* The wait for the ACK *)

Offered == \E i \in 1..Len(wire["gateway"]) : wire["gateway"][i].body = RekeyInit(offer)

\* The gateway's wire loses at most its first frame, and gains only at its end.
LEMMA OfferKept ==
    ASSUME Base, Offered, UNCHANGED offer,
           \/ wire'["gateway"] = wire["gateway"]
           \/ wire'["gateway"] = Tail(wire["gateway"]) /\ wire["gateway"] # << >>
              /\ wire["gateway"][1].body # RekeyInit(offer)
    PROVE  Offered'
  <1>1. PICK i \in 1..Len(wire["gateway"]) : wire["gateway"][i].body = RekeyInit(offer)
    BY DEF Offered
  <1>2. CASE wire'["gateway"] = wire["gateway"]
    BY <1>1, <1>2 DEF Offered
  <1>3. CASE /\ wire'["gateway"] = Tail(wire["gateway"]) /\ wire["gateway"] # << >>
             /\ wire["gateway"][1].body # RekeyInit(offer)
    <2>1. wire["gateway"] \in Seq(Frame)
      BY Peers DEF Base, Counters, Channels
    <2>2. /\ Len(wire'["gateway"]) = Len(wire["gateway"]) - 1 /\ Len(wire["gateway"]) \in Nat
          /\ \A j \in 1..Len(wire'["gateway"]) : wire'["gateway"][j] = wire["gateway"][j + 1]
      BY <1>3, <2>1, NonEmpty
    <2>3. i # 1
      BY <1>1, <1>3
    <2>4. i - 1 \in 1..Len(wire'["gateway"]) /\ (i - 1) + 1 = i
      BY <2>2, <2>3
    <2>5. wire'["gateway"][i - 1] = wire["gateway"][i]
      BY <2>2, <2>4
    <2> QED
      BY <1>1, <2>4, <2>5 DEF Offered
  <1> QED
    BY <1>2, <1>3

\* Whatever a step does, a gateway that waits afterwards has something to wait for.
LEMMA StandoffStep ==
    ASSUME Base, NoStandoff, [Next]_vars, state'["gateway"] = "awaiting"
    PROVE  Offered' \/ wire'["client"] # << >> \/ state'["client"] = "ended"
  <1>0. /\ TypeOK /\ state \in [Sides -> States]
        /\ state["gateway"] = "awaiting" =>
              Offered \/ wire["client"] # << >> \/ state["client"] = "ended"
    BY DEF Base, Counters, TypeOK, Control, NoStandoff, Offered
  <1>1. CASE SendRekeyInit
    <2> DEFINE f == [key |-> codec["gateway"].key, counter |-> ctr["gateway"],
                     body |-> RekeyInit(offer + 1)]
    <2>1. codec["gateway"].key \in Nat /\ offer \in Nat /\ wire \in [Sides -> Seq(Frame)]
      BY <1>0, Peers DEF TypeOK, Control, Channels, Codec
    <2>2. RekeyInit(offer + 1) \in Body
      BY <2>1 DEF RekeyInit, Body
    <2>w. /\ Write("gateway", codec["gateway"].key, RekeyInit(offer + 1), wire)
          /\ offer' = offer + 1
      BY <1>1 DEF SendRekeyInit
    <2>3. f \in Frame /\ wire'["gateway"] = Append(wire["gateway"], f) /\ offer' = offer + 1
      BY <1>0, <2>1, <2>2, <2>w, WriteFacts, Peers
    <2>4. f.body = RekeyInit(offer')
      BY <2>3
    <2> HIDE DEF f
    <2>5. /\ Len(wire["gateway"]) + 1 \in 1..Len(wire'["gateway"])
          /\ wire'["gateway"][Len(wire["gateway"]) + 1] = f
      BY <2>1, <2>3, Appended, Peers
    <2> QED
      BY <2>4, <2>5 DEF Offered
  <1>2. ASSUME NEW s \in Sides, NEW b \in AppData(s), SendData(s, b)
        PROVE  Offered' \/ wire'["client"] # << >> \/ state'["client"] = "ended"
    <2>1. s = "client" /\ UNCHANGED <<state, offer>> /\ Write(s, codec[s].key, b, wire)
      BY <1>2, Peers DEF SendData
    <2>2. /\ codec[s].key \in Nat /\ b \in Body /\ wire \in [Sides -> Seq(Frame)]
      BY <1>0, AppBody DEF TypeOK, Control, Channels, Codec
    <2> DEFINE f == [key |-> codec[s].key, counter |-> ctr[s], body |-> b]
    <2>3. f \in Frame /\ wire'["client"] = Append(wire["client"], f)
      BY <1>0, <2>1, <2>2, WriteFacts
    <2> HIDE DEF f
    <2> QED
      BY <2>2, <2>3, Appended, Peers
  <1>3. ASSUME NEW s \in Sides,
               SendDataRefused(s) \/ PeerEof(s) \/ (s = "gateway" /\ RekeyInitRefused)
        PROVE  state'["client"] = "ended"
    <2>1. \E r \in Reasons : Ended(s, r)
      BY <1>3 DEF SendDataRefused, PeerEof, RekeyInitRefused, Reasons
    <2>2. state'[s] = "ended"
      BY <1>0, <2>1, EndedFacts
    <2> QED
      BY <2>2, Peers
  <1>4. ASSUME NEW s \in Sides, ReadData(s)
        PROVE  Offered' \/ wire'["client"] # << >> \/ state'["client"] = "ended"
    <2>1. Readable(s) /\ wire' = Rest(s) /\ UNCHANGED offer
      BY <1>4 DEF ReadData
    <2>2. CASE ReadError(s, NextFrame(s)) # "none"
      <3>1. ReadError(s, NextFrame(s)) \in Reasons
        BY <2>2 DEF ReadError, Reasons, ReadErrors
      <3>2. state'[s] = "ended"
        BY <1>0, <1>4, <2>2, <3>1, EndedFacts DEF ReadData
      <3> QED
        BY <3>2, Peers
    <2>3. CASE ReadError(s, NextFrame(s)) = "none"
      <3>1. state' = state /\ state[s] = "relaying" /\ ~IsControl(s, NextFrame(s).body)
        BY <1>4, <2>3 DEF ReadData
      <3>2. s = "client"
        BY <3>1, Peers
      <3>3. /\ wire'["client"] = wire["client"] /\ wire'["gateway"] = Tail(wire["gateway"])
            /\ wire["gateway"] # << >> /\ NextFrame(s) = wire["gateway"][1]
        BY <2>1, <3>2, ReadFacts, Peers
      <3>4. wire["gateway"][1].body # RekeyInit(offer)
        BY <3>1, <3>2, <3>3 DEF IsControl, RekeyInit
      <3> QED
        BY <1>0, <2>1, <3>1, <3>3, <3>4, OfferKept
    <2> QED
      BY <2>2, <2>3
  <1>5. CASE AnswerInit
    <2> DEFINE f == [key |-> codec["client"].key, counter |-> ctr["client"],
                     body |-> RekeyAck(NextFrame("client").body.key)]
    <2>1. f \in Frame /\ wire'["client"] = Append(wire["client"], f)
      BY <1>5, AnswerFacts
    <2> HIDE DEF f
    <2>2. wire["client"] \in Seq(Frame)
      BY <1>0, Peers DEF TypeOK, Channels
    <2> QED
      BY <2>1, <2>2, Appended
  <1>6. CASE AnswerRefused \/ ReadShort
    BY <1>0, <1>6, EndedFacts, Peers DEF AnswerRefused, ReadShort, Reasons
  <1>7. CASE HandleAck \/ NotAck
    <2>1. state'["gateway"] # "awaiting"
      BY <1>0, <1>7, EndedFacts, Peers DEF HandleAck, NotAck, Reasons
    <2> QED
      BY <2>1
  <1>8. CASE UNCHANGED vars
    BY <1>0, <1>8 DEF vars, Offered
  <1> QED
    BY <1>1, <1>2, <1>3, <1>4, <1>5, <1>6, <1>7, <1>8, Peers DEF Next, Read

\* The gateway's wait for the ACK, which has no timeout, never meets a client that has
\* nothing left to read from it and has sent nothing: the handshake itself does not
\* stall, whatever data is taken for its frames.
THEOREM NeverStandoff == Spec => []NoStandoff
  <1>1. Init => NoStandoff
    BY Peers DEF Init, NoStandoff
  <1>2. RInv /\ NoStandoff /\ [Next]_vars => NoStandoff'
    BY StandoffStep DEF RInv, NoStandoff, Offered
  <1> QED
    BY <1>1, <1>2, RekeyInvariant, PTL DEF Spec
=============================================================================
