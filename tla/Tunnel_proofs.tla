---------------------------- MODULE Tunnel_proofs ----------------------------
(***************************************************************************)
(* Proofs about Tunnel, for every size of the relay buffers, of a TLS      *)
(* record, of the connection's buffers and of the replay window, whatever  *)
(* the target's data begins with and whenever a connection is reset: no    *)
(* relay raises a false alarm, and the two relays implement BytePipe.      *)
(*                                                                         *)
(* The inductive invariant looks at each direction by itself, from what    *)
(* the writer holds over the records on the wire to what the reader holds: *)
(* along this line counters never fall and rise after the last record of a *)
(* frame, and chunk numbers continue where the application's left off.     *)
(***************************************************************************)
EXTENDS Tunnel, SequenceTheorems, TLAPS

-----------------------------------------------------------------------------
(* The invariant *)

Rec == [counter : Nat, id : Nat, last : BOOLEAN, ours : BOOLEAN]
Reasons == {"none", "rekey needed", "write failed", "local eof", "protocol error",
            "replay", "refused", "too short", "local error", "peer eof", "reset", "idle"}

\* The type invariant.
TypeOK ==
    /\ pc \in [Sides -> {"select", "throttled", "writing", "delivering", "ended"}]
    /\ hand \in [Sides -> [id : Nat, size : Nat, left : Nat]]
    /\ wire \in [Sides -> Seq(Rec)]
    /\ taken \in [Sides -> Nat]
    /\ torn \in [Sides -> BOOLEAN]
    /\ ctr \in [Sides -> Nat \ {0}]
    /\ win \in [Sides -> Window]
    /\ sent \in [Sides -> Nat]
    /\ got \in [Sides -> Seq(Nat)]
    /\ why \in [Sides -> Reasons]

\* What a relay with a chunk for the tunnel holds.
Holding(s) ==
    pc[s] \in {"throttled", "writing"} =>
        /\ hand[s].id = sent[s] /\ hand[s].size \in ReadSizes(s)
        /\ pc[s] = "writing" => hand[s].left \in 1..Records(RelayBuf[s])

\* Counters from the reader's window over the wire to the writer's send_counter; the
\* frame that is being written has counter ctr - 1 and no last record yet.
Used(s) == IF pc[s] = "writing" THEN ctr[s] - 1 ELSE ctr[s]
Numbered(s) ==
    LET w == wire[s]
        m == win[Peer(s)].max_counter
    IN  /\ m < Used(s)
        /\ \A i \in 1..Len(w) :
              /\ w[i].counter > m /\ w[i].counter < ctr[s]
              /\ w[i].last => w[i].counter < Used(s)
              /\ \A j \in 1..Len(w) : i < j =>
                    /\ w[i].counter <= w[j].counter
                    /\ w[i].last => w[i].counter < w[j].counter

\* The chunk that a record belongs to, and the one the record behind it belongs to.
After(r) == IF r.last THEN r.id + 1 ELSE r.id
\* The chunk the next record of s will belong to.
NextId(s) == IF pc[s] \in {"throttled", "writing"} THEN sent[s] ELSE sent[s] + 1
\* The chunks that have reached s, the one it is delivering included.
Reached(s) == Len(got[s]) + IF pc[s] = "delivering" THEN 1 ELSE 0

\* A live reader finds the chunks on the wire in order and without a gap.
InOrder(s) ==
    LET w == wire[s]
    IN  pc[Peer(s)] # "ended" =>
        /\ w # << >> => w[1].id = Reached(Peer(s)) + 1
        /\ \A i \in 1..Len(w) : i + 1 \in 1..Len(w) => w[i + 1].id = After(w[i])
        /\ pc[s] # "ended" =>
              NextId(s) = IF w = << >> THEN Reached(Peer(s)) + 1 ELSE After(w[Len(w)])
        /\ \A i \in 1..Len(w) : w[i].id <= sent[s]
Delivering(s) ==
    pc[s] = "delivering" => hand[s].id = Len(got[s]) + 1 /\ hand[s].id <= sent[Peer(s)]

\* Frames of one record cannot be torn.
OneRecord(s) ==
    Records(RelayBuf[s]) = 1 =>
        /\ \A i \in 1..Len(wire[s]) : wire[s][i].last
        /\ taken[Peer(s)] = 0 /\ ~torn[Peer(s)] /\ why[Peer(s)] # "protocol error"

Direction(s) ==
    Holding(s) /\ Numbered(s) /\ InOrder(s) /\ Delivering(s) /\ OneRecord(s)
        /\ why[s] # "replay"

TInv == TypeOK /\ \A s \in Sides : Direction(s)

\* The rest of the state; what the client's relay is giving to its application does
\* not begin with REKEY_INIT_MAGIC.
Control ==
    /\ overlap \in Nat \cup {Always} /\ cut \in [Sides -> BOOLEAN]
    /\ mimic \subseteq Nat /\ acks \subseteq Nat
    /\ pc["client"] = "delivering" => hand["client"].id \notin mimic

-----------------------------------------------------------------------------
(* Records, sequences, windows *)

\* A quotient, from below and from above.
LEMMA Quotient ==
    ASSUME NEW x \in Nat, NEW y \in Nat, NEW d \in Nat \ {0}, x <= y
    PROVE  /\ x \div d \in Nat /\ x \div d <= y \div d
           /\ x >= d => x \div d >= 1
  <1> DEFINE q == x \div d
             r == y \div d
  <1>1. q \in Nat /\ q * d <= x /\ x < (q + 1) * d
    BY Z3
  <1>2. r \in Nat /\ r * d <= y /\ y < (r + 1) * d
    BY Z3
  <1> HIDE DEF q, r
  <1>3. q * d < (r + 1) * d
    BY <1>1, <1>2
  <1>4. q <= r
    <2> SUFFICES ASSUME q >= r + 1 PROVE FALSE
      BY <1>1, <1>2
    <2>1. q * d >= (r + 1) * d
      BY <1>1, <1>2
    <2> QED
      BY <1>1, <1>2, <1>3, <2>1
  <1>5. x >= d => q >= 1
    <2> SUFFICES ASSUME x >= d, q = 0 PROVE FALSE
      BY <1>1
    <2> QED
      BY <1>1
  <1> QED
    BY <1>1, <1>4, <1>5 DEF q, r

\* Every frame has a record, and no more than the largest frame.
LEMMA RecordsBounds ==
    ASSUME NEW s \in Sides, NEW n \in ReadSizes(s)
    PROVE  /\ Records(n) \in Nat /\ Records(n) >= 1
           /\ Records(n) <= Records(RelayBuf[s])
           /\ Records(RelayBuf[s]) \in Nat
  <1>1. /\ RelayBuf[s] \in Nat \ {0} /\ n \in Nat /\ n >= 1 /\ n <= RelayBuf[s]
        /\ Overhead \in Nat /\ Record \in Nat \ {0}
    BY TunnelAssumption DEF ReadSizes
  <1> DEFINE x == n + Overhead + Record - 1
             y == RelayBuf[s] + Overhead + Record - 1
  <1>2. x \in Nat /\ y \in Nat /\ x <= y /\ x >= Record
    BY <1>1
  <1> HIDE DEF x, y
  <1>3. /\ x \div Record \in Nat /\ x \div Record <= y \div Record
        /\ x \div Record >= 1 /\ y \div Record \in Nat
    BY <1>1, <1>2, Quotient
  <1> QED
    BY <1>3 DEF x, y, Records

\* A wire with a record on it, and what is left when the record has been read.
LEMMA NonEmpty ==
    ASSUME NEW S, NEW q \in Seq(S), q # << >>
    PROVE  /\ Len(q) \in Nat /\ Len(q) > 0
           /\ Head(q) = q[1] /\ q[1] \in S /\ 1 \in 1..Len(q)
           /\ Tail(q) \in Seq(S) /\ Len(Tail(q)) = Len(q) - 1
           /\ \A i \in 1..Len(Tail(q)) : Tail(q)[i] = q[i + 1] /\ i + 1 \in 1..Len(q)
  <1>1. Len(q) \in Nat /\ Len(q) > 0
    BY EmptySeq, LenProperties
  <1> QED
    BY <1>1

\* What is left is empty, or starts with the second record and ends with the last.
LEMMA TailEnds ==
    ASSUME NEW S, NEW q \in Seq(S), q # << >>
    PROVE  /\ Tail(q) = << >> => Len(q) = 1
           /\ Tail(q) # << >> =>
                /\ 2 \in 1..Len(q) /\ Tail(q)[1] = q[2]
                /\ Tail(q)[Len(Tail(q))] = q[Len(q)]
  <1>1. /\ Len(q) \in Nat /\ Len(q) > 0 /\ Len(Tail(q)) = Len(q) - 1
        /\ Tail(q) \in Seq(S)
    BY NonEmpty
  <1>2. Tail(q) = << >> => Len(q) = 1
    <2> SUFFICES ASSUME Tail(q) = << >>, Len(q) - 1 # 0 PROVE FALSE
      BY <1>1
    <2>1. Len(Tail(q)) = 0
      BY EmptySeq
    <2> QED
      BY <1>1, <2>1
  <1>3. ASSUME Tail(q) # << >>
        PROVE  /\ 2 \in 1..Len(q) /\ Tail(q)[1] = q[2]
               /\ Tail(q)[Len(Tail(q))] = q[Len(q)]
    <2>1. Len(Tail(q)) \in Nat \ {0}
      BY <1>1, <1>3, EmptySeq
    <2>2. Len(q) > 1
      BY <1>1, <2>1
    <2>3. Tail(q)[1] = q[2] /\ Tail(q)[Len(q) - 1] = q[Len(q)]
      BY <2>2
    <2> QED
      BY <1>1, <2>2, <2>3
  <1> QED
    BY <1>2, <1>3

\* A record appended to a wire.
LEMMA Appended ==
    ASSUME NEW S, NEW q \in Seq(S), NEW f \in S
    PROVE  /\ Append(q, f) \in Seq(S)
           /\ Len(Append(q, f)) = Len(q) + 1 /\ Len(q) \in Nat
           /\ Append(q, f) # << >>
           /\ Append(q, f)[Len(q) + 1] = f
           /\ \A i \in 1..Len(q) : Append(q, f)[i] = q[i]
           /\ \A i \in 1..(Len(q) + 1) : i \in 1..Len(q) \/ i = Len(q) + 1
  <1>1. Len(q) \in Nat
    OBVIOUS
  <1>2. /\ Append(q, f) \in Seq(S)
        /\ Len(Append(q, f)) = Len(q) + 1
        /\ \A i \in 1..Len(q) : Append(q, f)[i] = q[i]
    OBVIOUS
  <1>3. Append(q, f)[Len(q) + 1] = f
    OBVIOUS
  <1>4. Append(q, f) # << >>
    BY <1>1, <1>2, EmptySeq
  <1>5. \A i \in 1..(Len(q) + 1) : i \in 1..Len(q) \/ i = Len(q) + 1
    BY <1>1
  <1> QED
    BY <1>1, <1>2, <1>3, <1>4, <1>5

\* A counter above everything the window has seen is accepted and is the new maximum.
LEMMA CheckNewer ==
    ASSUME NEW w \in Window, NEW c \in Nat, c > w.max_counter
    PROVE  /\ Accepts(w, c)
           /\ Check(w, c) \in Window
           /\ Check(w, c).max_counter = c
  <1>1. Accepts(w, c)
    BY DEF Accepts
  <1>2. Check(w, c) = Advanced(w, c)
    BY <1>1 DEF Check
  <1>3. Advanced(w, c) \in Window /\ Advanced(w, c).max_counter = c
    BY WindowSizeAssumption DEF Advanced, Window, Retained, SaturatingSub, NoCounter
  <1> QED
    BY <1>1, <1>2, <1>3

\* The two sides.
LEMMA Peers ==
    /\ Peer("client") = "gateway" /\ Peer("gateway") = "client"
    /\ "client" \in Sides /\ "gateway" \in Sides
    /\ \A s \in Sides : Peer(s) \in Sides /\ Peer(s) # s /\ Peer(Peer(s)) = s
    /\ \A s, t \in Sides : t = s \/ t = Peer(s)
  BY DEF Peer, Sides

-----------------------------------------------------------------------------
(* What keeps the parts of a direction *)

\* The counter the frame in hand would use.
LEMMA UsedType ==
    ASSUME TypeOK, NEW s \in Sides
    PROVE  /\ Used(s) \in Nat /\ Used(s) <= ctr[s] /\ ctr[s] \in Nat \ {0}
           /\ win[Peer(s)] \in Window /\ win[Peer(s)].max_counter \in Int
           /\ wire[s] \in Seq(Rec)
           /\ \A i \in 1..Len(wire[s]) : wire[s][i] \in Rec
  <1>1. /\ ctr[s] \in Nat \ {0} /\ win[Peer(s)] \in Window /\ wire[s] \in Seq(Rec)
    BY Peers DEF TypeOK
  <1>2. win[Peer(s)].max_counter \in Int
    BY <1>1 DEF Window, NoCounter
  <1>3. Used(s) \in Nat /\ Used(s) <= ctr[s]
    BY <1>1 DEF Used
  <1> QED
    BY <1>1, <1>2, <1>3

\* The numbering stays while the counters only rise.
LEMMA NumberedKept ==
    ASSUME TypeOK, TypeOK', NEW s \in Sides, Numbered(s),
           wire'[s] = wire[s], win'[Peer(s)] = win[Peer(s)],
           ctr'[s] >= ctr[s], Used(s)' >= Used(s)
    PROVE  Numbered(s)'
  <1>1. /\ Used(s) \in Nat /\ ctr[s] \in Nat /\ win[Peer(s)].max_counter \in Int
        /\ \A i \in 1..Len(wire[s]) : wire[s][i] \in Rec
    BY UsedType
  <1>2. Used(s)' \in Nat /\ ctr'[s] \in Nat
    <2>1. ctr'[s] \in Nat \ {0}
      BY DEF TypeOK
    <2> QED
      BY <2>1 DEF Used
  <1>3. \A i \in 1..Len(wire[s]) : wire[s][i].counter \in Nat
    BY <1>1 DEF Rec
  <1> QED
    BY <1>1, <1>2, <1>3 DEF Numbered

\* A record is taken off the wire and the window stays, or moves to its counter at
\* the end of a frame.
LEMMA NumberedTail ==
    ASSUME TypeOK, TypeOK', NEW s \in Sides, Numbered(s), wire[s] # << >>,
           wire'[s] = Tail(wire[s]), ctr'[s] = ctr[s], Used(s)' = Used(s),
           \/ win'[Peer(s)] = win[Peer(s)]
           \/ /\ wire[s][1].last
              /\ win'[Peer(s)] = Check(win[Peer(s)], wire[s][1].counter)
    PROVE  Numbered(s)'
  <1> DEFINE w == wire[s]
             m == win[Peer(s)].max_counter
             n == win'[Peer(s)].max_counter
  <1>1. /\ Used(s) \in Nat /\ ctr[s] \in Nat /\ m \in Int /\ win[Peer(s)] \in Window
        /\ w \in Seq(Rec) /\ \A i \in 1..Len(w) : w[i] \in Rec
    BY UsedType
  <1>2. /\ 1 \in 1..Len(w) /\ Len(w) \in Nat /\ Len(Tail(w)) = Len(w) - 1
        /\ \A i \in 1..Len(Tail(w)) : Tail(w)[i] = w[i + 1] /\ i + 1 \in 1..Len(w)
    BY <1>1, NonEmpty
  <1>3. \A i \in 1..Len(w) : w[i].counter \in Nat /\ w[i].last \in BOOLEAN
    BY <1>1 DEF Rec
  <1>4. /\ m < Used(s)
        /\ \A i \in 1..Len(w) :
              /\ w[i].counter > m /\ w[i].counter < ctr[s]
              /\ w[i].last => w[i].counter < Used(s)
              /\ \A j \in 1..Len(w) : i < j =>
                    /\ w[i].counter <= w[j].counter
                    /\ w[i].last => w[i].counter < w[j].counter
    BY DEF Numbered
  <1>5. /\ n \in Int /\ n < Used(s)
        /\ \A i \in 1..Len(w) : i > 1 => w[i].counter > n
    <2>1. CASE win'[Peer(s)] = win[Peer(s)]
      BY <1>1, <1>4, <2>1
    <2>2. CASE /\ w[1].last /\ win'[Peer(s)] = Check(win[Peer(s)], w[1].counter)
      <3>1. n = w[1].counter
        BY <1>1, <1>2, <1>3, <1>4, <2>2, CheckNewer
      <3> QED
        BY <1>2, <1>3, <1>4, <2>2, <3>1
    <2> QED
      BY <2>1, <2>2
  <1>6. ASSUME NEW i \in 1..Len(Tail(w))
        PROVE  /\ Tail(w)[i].counter > n /\ Tail(w)[i].counter < ctr[s]
               /\ Tail(w)[i].last => Tail(w)[i].counter < Used(s)
               /\ \A j \in 1..Len(Tail(w)) : i < j =>
                     /\ Tail(w)[i].counter <= Tail(w)[j].counter
                     /\ Tail(w)[i].last => Tail(w)[i].counter < Tail(w)[j].counter
    <2>1. Tail(w)[i] = w[i + 1] /\ i + 1 \in 1..Len(w) /\ i + 1 > 1
      BY <1>2
    <2>2. \A j \in 1..Len(Tail(w)) :
             i < j => Tail(w)[j] = w[j + 1] /\ j + 1 \in 1..Len(w) /\ i + 1 < j + 1
      BY <1>2
    <2> HIDE DEF w, n
    <2> QED
      BY <1>4, <1>5, <2>1, <2>2
  <1> QED
    BY <1>5, <1>6 DEF Numbered

\* A record of the frame in hand is appended.
LEMMA NumberedSent ==
    ASSUME TypeOK, TypeOK', NEW s \in Sides, Numbered(s), pc[s] = "writing",
           NEW f \in Rec, f.counter = ctr[s] - 1, wire'[s] = Append(wire[s], f),
           win'[Peer(s)] = win[Peer(s)], ctr'[s] = ctr[s],
           f.last <=> pc'[s] # "writing"
    PROVE  Numbered(s)'
  <1> DEFINE w == wire[s]
             m == win[Peer(s)].max_counter
  <1>1. /\ Used(s) \in Nat /\ ctr[s] \in Nat \ {0} /\ m \in Int
        /\ w \in Seq(Rec) /\ \A i \in 1..Len(w) : w[i] \in Rec
    BY UsedType
  <1>2. Used(s) = ctr[s] - 1 /\ Used(s)' = (IF f.last THEN ctr[s] ELSE ctr[s] - 1)
    BY DEF Used
  <1>3. /\ Len(wire'[s]) = Len(w) + 1 /\ Len(w) \in Nat
        /\ wire'[s][Len(w) + 1] = f
        /\ \A i \in 1..Len(w) : wire'[s][i] = w[i]
        /\ \A i \in 1..(Len(w) + 1) : i \in 1..Len(w) \/ i = Len(w) + 1
    BY <1>1, Appended
  <1>4. \A i \in 1..Len(w) : w[i].counter \in Nat /\ w[i].last \in BOOLEAN
    BY <1>1 DEF Rec
  <1>5. /\ m < Used(s)
        /\ \A i \in 1..Len(w) :
              /\ w[i].counter > m /\ w[i].counter < ctr[s]
              /\ w[i].last => w[i].counter < Used(s)
              /\ \A j \in 1..Len(w) : i < j =>
                    /\ w[i].counter <= w[j].counter
                    /\ w[i].last => w[i].counter < w[j].counter
    BY DEF Numbered
  <1>6. m < Used(s)' /\ Used(s)' \in Nat /\ Used(s)' >= Used(s)
    BY <1>1, <1>2, <1>5
  <1>7. ASSUME NEW i \in 1..Len(wire'[s])
        PROVE  /\ wire'[s][i].counter > m /\ wire'[s][i].counter < ctr[s]
               /\ wire'[s][i].last => wire'[s][i].counter < Used(s)'
               /\ \A j \in 1..Len(wire'[s]) : i < j =>
                     /\ wire'[s][i].counter <= wire'[s][j].counter
                     /\ wire'[s][i].last => wire'[s][i].counter < wire'[s][j].counter
    <2>1. CASE i = Len(w) + 1
      <3>1. wire'[s][i] = f /\ \A j \in 1..Len(wire'[s]) : ~(i < j)
        BY <1>3, <2>1
      <3> QED
        BY <1>1, <1>2, <1>5, <1>6, <3>1
    <2>2. CASE i \in 1..Len(w)
      <3>1. wire'[s][i] = w[i] /\ w[i].counter \in Nat
        BY <1>3, <1>4, <2>2
      <3>2. ASSUME NEW j \in 1..Len(wire'[s]), i < j
            PROVE  /\ w[i].counter <= wire'[s][j].counter
                   /\ w[i].last => w[i].counter < wire'[s][j].counter
        <4>1. CASE j = Len(w) + 1
          <5>1. wire'[s][j].counter = ctr[s] - 1
            BY <1>3, <4>1
          <5>2. w[i].counter < ctr[s] /\ (w[i].last => w[i].counter < ctr[s] - 1)
            BY <1>2, <1>5, <2>2
          <5> QED
            BY <1>1, <3>1, <5>1, <5>2
        <4>2. CASE j \in 1..Len(w)
          <5>1. wire'[s][j] = w[j]
            BY <1>3, <4>2
          <5> QED
            BY <1>5, <2>2, <3>2, <4>2, <5>1
        <4> QED
          BY <1>3, <4>1, <4>2
      <3>3. /\ w[i].counter > m /\ w[i].counter < ctr[s]
            /\ w[i].last => w[i].counter < Used(s)'
        BY <1>1, <1>5, <1>6, <2>2, <3>1
      <3> QED
        BY <3>1, <3>2, <3>3
    <2> QED
      BY <1>3, <2>1, <2>2
  <1> QED
    BY <1>6, <1>7 DEF Numbered

\* Numbers of chunks.
LEMMA IdTypes ==
    ASSUME TypeOK, NEW s \in Sides
    PROVE  /\ sent[s] \in Nat /\ NextId(s) \in Nat
           /\ Reached(s) \in Nat /\ Len(got[s]) \in Nat /\ got[s] \in Seq(Nat)
           /\ wire[s] \in Seq(Rec) /\ \A i \in 1..Len(wire[s]) : wire[s][i] \in Rec
           /\ \A r \in Rec : After(r) \in Nat
  <1>1. sent[s] \in Nat /\ got[s] \in Seq(Nat) /\ wire[s] \in Seq(Rec)
    BY DEF TypeOK
  <1>2. Len(got[s]) \in Nat
    BY <1>1
  <1>3. NextId(s) \in Nat
    BY <1>1 DEF NextId
  <1>4. Reached(s) \in Nat
    <2>1. CASE pc[s] = "delivering"
      BY <1>2, <2>1 DEF Reached
    <2>2. CASE pc[s] # "delivering"
      BY <1>2, <2>2 DEF Reached
    <2> QED
      BY <2>1, <2>2
  <1>5. \A r \in Rec : After(r) \in Nat
    BY DEF After, Rec
  <1> QED
    BY <1>1, <1>2, <1>3, <1>4, <1>5

\* The order on a wire stays while nothing is put on it or taken off it.
LEMMA InOrderKept ==
    ASSUME TypeOK, TypeOK', NEW s \in Sides, InOrder(s), wire'[s] = wire[s],
           pc'[Peer(s)] # "ended" =>
              pc[Peer(s)] # "ended" /\ Reached(Peer(s))' = Reached(Peer(s)),
           pc'[s] # "ended" => pc[s] # "ended" /\ NextId(s)' = NextId(s),
           sent'[s] >= sent[s]
    PROVE  InOrder(s)'
  <1>1. /\ sent[s] \in Nat /\ \A i \in 1..Len(wire[s]) : wire[s][i] \in Rec
    BY IdTypes
  <1>2. sent'[s] \in Nat
    BY DEF TypeOK
  <1>3. \A i \in 1..Len(wire[s]) : wire[s][i].id \in Nat
    BY <1>1 DEF Rec
  <1> QED
    BY <1>1, <1>2, <1>3 DEF InOrder

\* Taking a record off a wire, which completes a chunk if it is the last of its frame.
LEMMA InOrderTail ==
    ASSUME TypeOK, TypeOK', NEW s \in Sides, InOrder(s), wire[s] # << >>,
           wire'[s] = Tail(wire[s]), pc[Peer(s)] # "ended",
           Reached(Peer(s))' = After(wire[s][1]) - 1,
           pc'[s] = pc[s], sent'[s] = sent[s]
    PROVE  InOrder(s)'
  <1> DEFINE w == wire[s]
  <1>1. /\ w \in Seq(Rec) /\ (\A i \in 1..Len(w) : w[i] \in Rec) /\ sent[s] \in Nat
        /\ \A r \in Rec : After(r) \in Nat
    BY IdTypes
  <1>2. /\ 1 \in 1..Len(w) /\ Len(w) \in Nat /\ Len(Tail(w)) = Len(w) - 1
        /\ \A i \in 1..Len(Tail(w)) : Tail(w)[i] = w[i + 1] /\ i + 1 \in 1..Len(w)
    BY <1>1, NonEmpty
  <1>3. /\ Tail(w) = << >> => Len(w) = 1
        /\ Tail(w) # << >> => /\ 2 \in 1..Len(w) /\ Tail(w)[1] = w[2]
                              /\ Tail(w)[Len(Tail(w))] = w[Len(w)]
    BY <1>1, TailEnds
  <1>4. /\ \A i \in 1..Len(w) : i + 1 \in 1..Len(w) => w[i + 1].id = After(w[i])
        /\ pc[s] # "ended" => NextId(s) = After(w[Len(w)])
        /\ \A i \in 1..Len(w) : w[i].id <= sent[s]
    BY DEF InOrder
  <1>5. After(w[1]) \in Nat
    BY <1>1, <1>2
  <1>6. Tail(w) # << >> => Tail(w)[1].id = Reached(Peer(s))' + 1
    <2> SUFFICES ASSUME Tail(w) # << >> PROVE Tail(w)[1].id = After(w[1])
      BY <1>5
    <2> QED
      BY <1>2, <1>3, <1>4
  <1>7. NextId(s)' = NextId(s)
    BY DEF NextId
  <1>8. pc'[s] # "ended" => NextId(s)' = IF Tail(w) = << >> THEN Reached(Peer(s))' + 1
                                         ELSE After(Tail(w)[Len(Tail(w))])
    <2>1. CASE Tail(w) = << >>
      <3>1. w[Len(w)] = w[1]
        BY <1>3, <2>1
      <3> QED
        BY <1>4, <1>5, <1>7, <2>1, <3>1
    <2>2. CASE Tail(w) # << >>
      BY <1>3, <1>4, <1>7, <2>2
    <2> QED
      BY <2>1, <2>2
  <1>9. ASSUME NEW i \in 1..Len(Tail(w))
        PROVE  /\ i + 1 \in 1..Len(Tail(w)) => Tail(w)[i + 1].id = After(Tail(w)[i])
               /\ Tail(w)[i].id <= sent[s]
    <2>1. Tail(w)[i] = w[i + 1] /\ i + 1 \in 1..Len(w)
      BY <1>2
    <2>2. i + 1 \in 1..Len(Tail(w)) =>
             Tail(w)[i + 1] = w[(i + 1) + 1] /\ (i + 1) + 1 \in 1..Len(w)
      BY <1>2
    <2> HIDE DEF w
    <2> QED
      BY <1>4, <2>1, <2>2
  <1> HIDE DEF w
  <1>10. wire'[s] = Tail(w)
    BY DEF w
  <1> QED
    BY <1>6, <1>8, <1>9, <1>10 DEF InOrder

\* A record of the frame in hand is appended.
LEMMA InOrderSent ==
    ASSUME TypeOK, TypeOK', NEW s \in Sides, InOrder(s), pc[s] = "writing",
           NEW f \in Rec, f.id = sent[s], wire'[s] = Append(wire[s], f),
           pc'[Peer(s)] = pc[Peer(s)], got'[Peer(s)] = got[Peer(s)],
           sent'[s] = sent[s],
           IF f.last THEN pc'[s] = "select" ELSE pc'[s] = "writing"
    PROVE  InOrder(s)'
  <1> DEFINE w == wire[s]
  <1>1. w \in Seq(Rec) /\ sent[s] \in Nat
    BY IdTypes
  <1>2. /\ Len(wire'[s]) = Len(w) + 1 /\ Len(w) \in Nat /\ wire'[s] # << >>
        /\ wire'[s][Len(w) + 1] = f
        /\ \A i \in 1..Len(w) : wire'[s][i] = w[i]
        /\ \A i \in 1..(Len(w) + 1) : i \in 1..Len(w) \/ i = Len(w) + 1
    BY <1>1, Appended
  <1>3. Reached(Peer(s))' = Reached(Peer(s))
    BY DEF Reached
  <1>4. NextId(s) = sent[s] /\ NextId(s)' = After(f)
    BY <1>1 DEF NextId, After
  <1> SUFFICES ASSUME pc[Peer(s)] # "ended"
               PROVE  /\ wire'[s][1].id = Reached(Peer(s)) + 1
                      /\ \A i \in 1..Len(wire'[s]) :
                            i + 1 \in 1..Len(wire'[s]) => wire'[s][i + 1].id = After(wire'[s][i])
                      /\ \A i \in 1..Len(wire'[s]) : wire'[s][i].id <= sent[s]
    BY <1>2, <1>3, <1>4 DEF InOrder
  <1>5. /\ w # << >> => w[1].id = Reached(Peer(s)) + 1
        /\ \A i \in 1..Len(w) : i + 1 \in 1..Len(w) => w[i + 1].id = After(w[i])
        /\ sent[s] = IF w = << >> THEN Reached(Peer(s)) + 1 ELSE After(w[Len(w)])
        /\ \A i \in 1..Len(w) : w[i].id <= sent[s]
    BY <1>4 DEF InOrder
  <1>6. wire'[s][1].id = Reached(Peer(s)) + 1
    <2>1. CASE w = << >>
      <3>1. Len(w) = 0
        BY <2>1
      <3> QED
        BY <1>2, <1>5, <2>1, <3>1
    <2>2. CASE w # << >>
      <3>1. 1 \in 1..Len(w)
        BY <1>1, <2>2, NonEmpty
      <3> QED
        BY <1>2, <1>5, <2>2, <3>1
    <2> QED
      BY <2>1, <2>2
  <1>7. ASSUME NEW i \in 1..Len(wire'[s])
        PROVE  wire'[s][i].id <= sent[s]
    BY <1>1, <1>2, <1>5
  <1>8. ASSUME NEW i \in 1..Len(wire'[s]), i + 1 \in 1..Len(wire'[s])
        PROVE  wire'[s][i + 1].id = After(wire'[s][i])
    <2>1. i \in 1..Len(w) /\ wire'[s][i] = w[i]
      BY <1>2, <1>8
    <2>2. CASE i + 1 \in 1..Len(w)
      BY <1>2, <1>5, <2>1, <2>2
    <2>3. CASE i + 1 = Len(w) + 1
      <3>1. i = Len(w) /\ w # << >>
        BY <1>2, <2>1, <2>3
      <3> QED
        BY <1>2, <1>5, <2>1, <2>3, <3>1
    <2> QED
      BY <1>2, <1>8, <2>2, <2>3
  <1> QED
    BY <1>6, <1>7, <1>8

-----------------------------------------------------------------------------
(* The steps *)

\* Numbers that do not change do not fall.
LEMMA Same ==
    ASSUME TypeOK, NEW s \in Sides
    PROVE  ctr[s] >= ctr[s] /\ sent[s] >= sent[s] /\ Used(s) >= Used(s)
  BY UsedType, IdTypes

\* Order of numbers.
LEMMA AtLeast ==
    ASSUME NEW x \in Nat, NEW y \in Nat, NEW z \in Nat, x <= y, z >= y
    PROVE  z >= x
  OBVIOUS

\* Both directions make up the tunnel.
LEMMA BothDirections ==
    ASSUME TypeOK', NEW s \in Sides, Direction(s)', Direction(Peer(s))'
    PROVE  TInv'
  BY Peers DEF TInv

\* relay returns without having read anything wrong.
LEMMA EndStep ==
    ASSUME TInv, NEW s \in Sides, NEW r \in Reasons \ {"replay", "protocol error"},
           End(s, r), UNCHANGED <<hand, wire, taken, torn, win, sent, got>>,
           ctr' \in [Sides -> Nat \ {0}],
           ctr'[s] >= ctr[s], ctr'[Peer(s)] = ctr[Peer(s)]
    PROVE  TInv'
  <1> DEFINE p == Peer(s)
  <1>1. TypeOK /\ Direction(s) /\ Direction(p) /\ p \in Sides /\ p # s /\ Peer(p) = s
    BY Peers DEF TInv
  <1>2. /\ pc' \in [Sides -> {"select", "throttled", "writing", "delivering", "ended"}]
        /\ pc'[s] = "ended" /\ pc'[p] = pc[p]
        /\ why' \in [Sides -> Reasons] /\ why'[s] = r /\ why'[p] = why[p]
    BY <1>1 DEF TypeOK, End
  <1>3. TypeOK'
    BY <1>1, <1>2 DEF TypeOK
  <1> HIDE DEF p
  <1>4. Direction(s)'
    <2>1. Numbered(s)'
      <3>1. Used(s)' = ctr'[s] /\ Used(s) <= ctr[s] /\ Used(s) \in Nat /\ ctr[s] \in Nat
            /\ ctr'[s] \in Nat
        BY <1>1, <1>2, UsedType DEF Used
      <3>2. Used(s)' >= Used(s)
        BY ONLY <3>1, ctr'[s] >= ctr[s], AtLeast
      <3> QED
        BY <1>1, <1>3, <3>2, NumberedKept DEF Direction
    <2>2. InOrder(s)'
      <3>1. Reached(Peer(s))' = Reached(Peer(s)) /\ pc'[Peer(s)] = pc[Peer(s)]
        BY <1>2 DEF Reached, p
      <3> QED
        BY <1>1, <1>2, <1>3, <3>1, InOrderKept, Same DEF Direction
    <2>3. Holding(s)' /\ Delivering(s)' /\ why'[s] # "replay"
      BY <1>2 DEF Holding, Delivering
    <2>4. OneRecord(s)'
      BY <1>1, <1>2 DEF Direction, OneRecord, p
    <2> QED
      BY <2>1, <2>2, <2>3, <2>4 DEF Direction
  <1>5. Direction(p)'
    <2>1. Used(p)' = Used(p) /\ NextId(p)' = NextId(p)
      BY <1>2 DEF Used, NextId, p
    <2>2. Numbered(p)'
      <3>1. ctr'[p] = ctr[p]
        BY DEF p
      <3> QED
        BY <1>1, <1>3, <2>1, <3>1, NumberedKept, Same DEF Direction
    <2>3. InOrder(p)'
      BY <1>1, <1>2, <1>3, <2>1, InOrderKept, Same DEF Direction
    <2>4. Holding(p)' /\ Delivering(p)' /\ why'[p] # "replay" /\ OneRecord(p)'
      BY <1>1, <1>2 DEF Direction, Holding, Delivering, OneRecord
    <2> QED
      BY <2>2, <2>3, <2>4 DEF Direction
  <1> QED
    BY <1>3, <1>4, <1>5, BothDirections DEF p

\* A chunk is read from the application: its number is the next one.
LEMMA ReadLocalStep ==
    ASSUME TInv, NEW s \in Sides, ReadLocal(s)
    PROVE  TInv'
  <1> DEFINE p == Peer(s)
  <1>0. /\ pc[s] = "select" /\ pc' = [pc EXCEPT ![s] = "throttled"]
        /\ sent' = [sent EXCEPT ![s] = @ + 1]
        /\ torn' = [torn EXCEPT ![s] = @ \/ taken[s] > 0]
        /\ taken' = [taken EXCEPT ![s] = 0]
        /\ UNCHANGED <<ctr, win, wire, got, why>>
    BY DEF ReadLocal, codec
  <1>1. PICK n \in ReadSizes(s) :
          hand' = [hand EXCEPT ![s] = [id |-> sent[s] + 1, size |-> n, left |-> 0]]
    BY DEF ReadLocal
  <1>2. TypeOK /\ Direction(s) /\ Direction(p) /\ p \in Sides /\ p # s /\ Peer(p) = s
    BY Peers DEF TInv
  <1>3. sent[s] \in Nat /\ sent[p] \in Nat /\ n \in Nat /\ taken[s] \in Nat
    BY <1>2, TunnelAssumption DEF TypeOK, ReadSizes
  <1> HIDE DEF p
  <1>4. /\ pc'[s] = "throttled" /\ pc'[p] = pc[p]
        /\ sent'[s] = sent[s] + 1 /\ sent'[p] = sent[p]
        /\ hand'[s].id = sent'[s] /\ hand'[s].size = n /\ hand'[p] = hand[p]
        /\ taken'[s] = 0 /\ taken'[p] = taken[p]
        /\ torn'[p] = torn[p] /\ torn'[s] = (torn[s] \/ taken[s] > 0)
    BY <1>0, <1>1, <1>2 DEF TypeOK
  <1>5. TypeOK'
    <2>1. /\ pc' \in [Sides -> {"select", "throttled", "writing", "delivering", "ended"}]
          /\ taken' \in [Sides -> Nat] /\ sent' \in [Sides -> Nat]
          /\ hand' \in [Sides -> [id : Nat, size : Nat, left : Nat]]
      <3>1. sent[s] + 1 \in Nat
        BY <1>3
      <3>2. [id |-> sent[s] + 1, size |-> n, left |-> 0] \in [id : Nat, size : Nat, left : Nat]
        BY <1>3
      <3>3. hand' \in [Sides -> [id : Nat, size : Nat, left : Nat]]
        BY <1>1, <1>2, <3>2 DEF TypeOK
      <3>4. sent' \in [Sides -> Nat]
        BY <1>0, <1>2, <3>1 DEF TypeOK
      <3> QED
        BY <1>0, <1>2, <3>3, <3>4 DEF TypeOK
    <2>2. torn' \in [Sides -> BOOLEAN]
      BY <1>0, <1>2 DEF TypeOK
    <2> QED
      BY <1>0, <1>2, <2>1, <2>2 DEF TypeOK
  <1>6. Direction(s)'
    <2>1. Used(s)' = Used(s)
      BY <1>0, <1>4 DEF Used
    <2>2. Numbered(s)'
      BY <1>0, <1>2, <1>5, <2>1, NumberedKept, Same DEF Direction
    <2>3. InOrder(s)'
      <3>1. NextId(s)' = NextId(s) /\ sent'[s] >= sent[s]
        BY <1>0, <1>3, <1>4 DEF NextId
      <3>2. Reached(Peer(s))' = Reached(Peer(s)) /\ pc'[Peer(s)] = pc[Peer(s)]
        BY <1>0, <1>4 DEF Reached, p
      <3> QED
        BY <1>0, <1>2, <1>5, <3>1, <3>2, InOrderKept DEF Direction
    <2>4. Holding(s)' /\ Delivering(s)'
      <3>1. ReadSizes(s)' = ReadSizes(s)
        BY DEF ReadSizes
      <3> QED
        BY <1>4, <3>1 DEF Holding, Delivering
    <2>5. why'[s] # "replay" /\ OneRecord(s)'
      BY <1>0, <1>2, <1>4 DEF Direction, OneRecord, p
    <2> QED
      BY <2>2, <2>3, <2>4, <2>5 DEF Direction
  <1>7. Direction(p)'
    <2>1. Used(p)' = Used(p) /\ NextId(p)' = NextId(p) /\ Reached(s)' = Reached(s)
      <3>1. Used(p)' = Used(p)
        BY <1>0, <1>4 DEF Used
      <3>2. NextId(p)' = NextId(p)
        BY <1>0, <1>4 DEF NextId
      <3>3. Reached(s)' = Reached(s)
        BY <1>0, <1>4 DEF Reached
      <3> QED
        BY <3>1, <3>2, <3>3
    <2>2. Numbered(p)'
      BY <1>0, <1>2, <1>5, <2>1, NumberedKept, Same DEF Direction
    <2>3. InOrder(p)'
      BY <1>0, <1>2, <1>4, <1>5, <2>1, InOrderKept, Same DEF Direction
    <2>4. Holding(p)' /\ why'[p] # "replay"
      BY <1>0, <1>2, <1>4 DEF Direction, Holding, ReadSizes
    <2>5. Delivering(p)'
      <3> SUFFICES ASSUME pc[p] = "delivering"
                   PROVE  hand[p].id = Len(got[p]) + 1 /\ hand[p].id <= sent[s] + 1
        BY <1>0, <1>2, <1>4 DEF Delivering
      <3>1. hand[p].id = Len(got[p]) + 1 /\ hand[p].id <= sent[s] /\ hand[p].id \in Nat
        BY <1>2 DEF Direction, Delivering, TypeOK
      <3> QED
        BY <1>3, <3>1
    <2>6. OneRecord(p)'
      <3> SUFFICES ASSUME Records(RelayBuf[p]) = 1
                   PROVE  /\ \A i \in 1..Len(wire[p]) : wire[p][i].last
                          /\ ~torn'[s] /\ why[s] # "protocol error"
        BY <1>0, <1>2, <1>4 DEF OneRecord
      <3>1. /\ \A i \in 1..Len(wire[p]) : wire[p][i].last
            /\ taken[s] = 0 /\ ~torn[s] /\ why[s] # "protocol error"
        BY <1>2 DEF Direction, OneRecord
      <3>2. taken[s] = 0 => ~(taken[s] > 0)
        BY <1>3
      <3> QED
        BY <1>4, <3>1, <3>2, Zenon
    <2> QED
      BY <2>2, <2>3, <2>4, <2>5, <2>6 DEF Direction
  <1> QED
    BY <1>5, <1>6, <1>7, BothDirections DEF p

\* write_frame starts, or refuses at the threshold.
LEMMA StartFrameStep ==
    ASSUME TInv, NEW s \in Sides, StartFrame(s)
    PROVE  TInv'
  <1> DEFINE p == Peer(s)
  <1>0. /\ pc[s] = "throttled" /\ ctr' = [ctr EXCEPT ![s] = @ + 1]
        /\ UNCHANGED <<win, wire, taken, torn, sent, got>>
    BY DEF StartFrame, stream
  <1>1. TypeOK /\ Direction(s) /\ Direction(p) /\ p \in Sides /\ p # s /\ Peer(p) = s
    BY Peers DEF TInv
  <1>2. /\ ctr[s] \in Nat /\ ctr' \in [Sides -> Nat \ {0}]
        /\ ctr'[s] = ctr[s] + 1 /\ ctr'[p] = ctr[p] /\ ctr'[s] >= ctr[s]
    <2>1. ctr \in [Sides -> Nat \ {0}] /\ ctr[s] \in Nat
      BY <1>1 DEF TypeOK
    <2>2. ctr[s] + 1 \in Nat \ {0} /\ ctr[s] + 1 >= ctr[s]
      BY <2>1
    <2> QED
      BY <1>0, <1>1, <2>1, <2>2
  <1>3. CASE End(s, "rekey needed") /\ UNCHANGED hand
    <2>1. "rekey needed" \in Reasons \ {"replay", "protocol error"}
      BY DEF Reasons
    <2> QED
      BY <1>0, <1>2, <1>3, <2>1, EndStep
  <1>4. CASE /\ pc' = [pc EXCEPT ![s] = "writing"] /\ UNCHANGED why
             /\ hand' = [hand EXCEPT ![s].left = Records(hand[s].size)]
    <2>0. /\ hand[s].id = sent[s] /\ hand[s].size \in ReadSizes(s)
          /\ hand[s] \in [id : Nat, size : Nat, left : Nat]
      BY <1>0, <1>1 DEF Direction, Holding, TypeOK
    <2>1. /\ Records(hand[s].size) \in Nat /\ Records(hand[s].size) >= 1
          /\ Records(hand[s].size) <= Records(RelayBuf[s])
          /\ Records(RelayBuf[s]) \in Nat
      BY <2>0, RecordsBounds
    <2>2. hand' = [hand EXCEPT ![s] = [@ EXCEPT !.left = Records(hand[s].size)]]
      BY <1>4
    <2> HIDE DEF p
    <2>3. /\ pc'[s] = "writing" /\ pc'[p] = pc[p] /\ hand'[p] = hand[p]
          /\ hand'[s].id = sent[s] /\ hand'[s].size = hand[s].size
          /\ hand'[s].left = Records(hand[s].size)
      BY <1>1, <1>4, <2>0, <2>2 DEF TypeOK
    <2>4. TypeOK'
      <3>1. /\ pc' \in [Sides -> {"select", "throttled", "writing", "delivering", "ended"}]
        BY <1>1, <1>4 DEF TypeOK
      <3>2. hand' \in [Sides -> [id : Nat, size : Nat, left : Nat]]
        BY <1>1, <2>0, <2>1, <2>2 DEF TypeOK
      <3> QED
        BY <1>0, <1>1, <1>2, <1>4, <3>1, <3>2 DEF TypeOK
    <2>5. Direction(s)'
      <3>1. Used(s)' = Used(s)
        BY <1>0, <1>2, <2>3 DEF Used
      <3>2. Numbered(s)'
        BY <1>0, <1>1, <1>2, <2>4, <3>1, NumberedKept, Same DEF Direction
      <3>3. InOrder(s)'
        <4>1. NextId(s)' = NextId(s)
          BY <1>0, <2>3 DEF NextId
        <4>2. Reached(Peer(s))' = Reached(Peer(s)) /\ pc'[Peer(s)] = pc[Peer(s)]
          BY <1>0, <2>3 DEF Reached, p
        <4> QED
          BY <1>0, <1>1, <2>4, <4>1, <4>2, InOrderKept, Same DEF Direction
      <3>4. Holding(s)' /\ Delivering(s)'
        <4>1. /\ hand'[s].left \in 1..Records(RelayBuf[s]) /\ ReadSizes(s)' = ReadSizes(s)
              /\ Records(RelayBuf[s])' = Records(RelayBuf[s])
          BY <2>1, <2>3 DEF ReadSizes, Records
        <4> QED
          BY <1>0, <2>0, <2>3, <4>1 DEF Holding, Delivering
      <3>5. why'[s] # "replay" /\ OneRecord(s)'
        BY <1>0, <1>1, <1>4 DEF Direction, OneRecord, Records
      <3> QED
        BY <3>2, <3>3, <3>4, <3>5 DEF Direction
    <2>6. Direction(p)'
      <3>1. Used(p)' = Used(p)
        BY <1>2, <2>3 DEF Used
      <3>2. Numbered(p)'
        BY <1>0, <1>1, <1>2, <2>4, <3>1, NumberedKept, Same DEF Direction, p
      <3>3. InOrder(p)'
        <4>1. NextId(p)' = NextId(p)
          BY <1>0, <2>3 DEF NextId
        <4>2. Reached(s)' = Reached(s)
          BY <1>0, <2>3 DEF Reached
        <4> QED
          BY <1>0, <1>1, <2>3, <2>4, <4>1, <4>2, InOrderKept, Same DEF Direction
      <3>4. Holding(p)' /\ Delivering(p)'
        BY <1>0, <1>1, <2>3 DEF Direction, Holding, Delivering, ReadSizes, Records
      <3>5. why'[p] # "replay" /\ OneRecord(p)'
        BY <1>0, <1>1, <1>4 DEF Direction, OneRecord, Records
      <3> QED
        BY <3>2, <3>3, <3>4, <3>5 DEF Direction
    <2> QED
      BY <2>4, <2>5, <2>6, BothDirections DEF p
  <1> QED
    BY <1>3, <1>4 DEF StartFrame

\* A record goes out; with the last one the relay is back at its select.
LEMMA WriteRecordStep ==
    ASSUME TInv, NEW s \in Sides, WriteRecord(s)
    PROVE  TInv'
  <1> DEFINE p == Peer(s)
             f == FrameRecord(s)
  <1>0. /\ pc[s] = "writing" /\ wire' = [wire EXCEPT ![s] = Append(@, f)]
        /\ hand' = [hand EXCEPT ![s] = [hand[s] EXCEPT !.left = hand[s].left - 1]]
        /\ pc' = [pc EXCEPT ![s] = IF hand[s].left = 1 THEN "select" ELSE "writing"]
        /\ UNCHANGED <<ctr, win, taken, torn, sent, got, why>>
    BY DEF WriteRecord, stream
  <1>1. TypeOK /\ Direction(s) /\ Direction(p) /\ p \in Sides /\ p # s /\ Peer(p) = s
    BY Peers DEF TInv
  <1>2. /\ hand[s].id = sent[s] /\ hand[s].size \in ReadSizes(s)
        /\ hand[s].left \in 1..Records(RelayBuf[s])
        /\ hand[s] \in [id : Nat, size : Nat, left : Nat]
        /\ ctr[s] \in Nat \ {0} /\ wire[s] \in Seq(Rec)
    BY <1>0, <1>1 DEF Direction, Holding, TypeOK
  <1>3. Records(RelayBuf[s]) \in Nat /\ hand[s].left \in Nat /\ hand[s].left >= 1
    BY <1>2, RecordsBounds
  <1>4. /\ f \in Rec /\ f.counter = ctr[s] - 1 /\ f.id = sent[s]
        /\ f.last <=> hand[s].left = 1
    <2>1. ctr[s] - 1 \in Nat /\ sent[s] \in Nat
      BY <1>1, <1>2 DEF TypeOK
    <2>2. f = [counter |-> ctr[s] - 1, id |-> sent[s], last |-> hand[s].left = 1,
               ours |-> s = "gateway" \/ overlap = Always]
      BY <1>2 DEF FrameRecord
    <2>3. (hand[s].left = 1) \in BOOLEAN /\ (s = "gateway" \/ overlap = Always) \in BOOLEAN
      OBVIOUS
    <2> HIDE DEF f
    <2> QED
      BY <2>1, <2>2, <2>3 DEF Rec
  <1>5. Append(wire[s], f) \in Seq(Rec)
    BY <1>2, <1>4, Appended
  <1> HIDE DEF p, f
  <1>6. /\ wire' \in [Sides -> Seq(Rec)] /\ wire'[s] = Append(wire[s], f)
        /\ wire'[p] = wire[p]
    BY <1>0, <1>1, <1>5 DEF TypeOK
  <1>7. /\ pc'[s] = (IF hand[s].left = 1 THEN "select" ELSE "writing") /\ pc'[p] = pc[p]
        /\ hand'[p] = hand[p] /\ hand'[s].id = sent[s] /\ hand'[s].size = hand[s].size
        /\ hand'[s].left = hand[s].left - 1
    BY <1>0, <1>1, <1>2 DEF TypeOK
  <1>8. TypeOK'
    <2>1. pc' \in [Sides -> {"select", "throttled", "writing", "delivering", "ended"}]
      BY <1>0, <1>1 DEF TypeOK
    <2>2. hand' \in [Sides -> [id : Nat, size : Nat, left : Nat]]
      <3>1. hand[s].left - 1 \in Nat
        BY <1>3
      <3>2. [hand[s] EXCEPT !.left = hand[s].left - 1] \in [id : Nat, size : Nat, left : Nat]
        BY <1>2, <3>1
      <3> QED
        BY <1>0, <1>1, <3>2 DEF TypeOK
    <2> QED
      BY <1>0, <1>1, <1>6, <2>1, <2>2 DEF TypeOK
  <1>9. Direction(s)'
    <2>1. Numbered(s)'
      <3>1. f.last <=> pc'[s] # "writing"
        BY <1>4, <1>7
      <3> QED
        BY <1>0, <1>1, <1>4, <1>6, <1>8, <3>1, NumberedSent DEF Direction
    <2>2. InOrder(s)'
      <3>1. pc'[Peer(s)] = pc[Peer(s)] /\ IF f.last THEN pc'[s] = "select" ELSE pc'[s] = "writing"
        BY <1>4, <1>7 DEF p
      <3> QED
        BY <1>0, <1>1, <1>4, <1>6, <1>8, <3>1, InOrderSent DEF Direction
    <2>3. Holding(s)' /\ Delivering(s)'
      <3>1. /\ ReadSizes(s)' = ReadSizes(s) /\ Records(RelayBuf[s])' = Records(RelayBuf[s])
            /\ hand[s].left # 1 => hand'[s].left \in 1..Records(RelayBuf[s])
        BY <1>2, <1>3, <1>7 DEF ReadSizes, Records
      <3> QED
        BY <1>0, <1>2, <1>7, <3>1 DEF Holding, Delivering
    <2>4. why'[s] # "replay"
      BY <1>0, <1>1 DEF Direction
    <2>5. OneRecord(s)'
      <3> SUFFICES ASSUME Records(RelayBuf[s]) = 1
                   PROVE  \A i \in 1..Len(wire'[s]) : wire'[s][i].last
        BY <1>0, <1>1 DEF Direction, OneRecord, Records
      <3>1. f.last /\ \A i \in 1..Len(wire[s]) : wire[s][i].last
        <4>1. hand[s].left = 1
          BY <1>2
        <4>2. \A i \in 1..Len(wire[s]) : wire[s][i].last
          BY <1>1 DEF Direction, OneRecord
        <4> QED
          BY <1>4, <4>1, <4>2
      <3> QED
        BY <1>2, <1>4, <1>6, <3>1, Appended
    <2> QED
      BY <2>1, <2>2, <2>3, <2>4, <2>5 DEF Direction
  <1>10. Direction(p)'
    <2>1. Used(p)' = Used(p)
      BY <1>0, <1>7 DEF Used
    <2>2. Numbered(p)'
      BY <1>0, <1>1, <1>6, <1>8, <2>1, NumberedKept, Same DEF Direction
    <2>3. InOrder(p)'
      <3>1. NextId(p)' = NextId(p)
        BY <1>0, <1>7 DEF NextId
      <3>2. Reached(s)' = Reached(s)
        <4>1. pc[s] # "delivering" /\ pc'[s] # "delivering" /\ got' = got
          BY <1>0, <1>7
        <4> QED
          BY <4>1 DEF Reached
      <3> QED
        BY <1>0, <1>1, <1>6, <1>7, <1>8, <3>1, <3>2, InOrderKept, Same DEF Direction
    <2>4. Holding(p)' /\ Delivering(p)'
      BY <1>0, <1>1, <1>7 DEF Direction, Holding, Delivering, ReadSizes, Records
    <2>5. why'[p] # "replay" /\ OneRecord(p)'
      BY <1>0, <1>1, <1>6 DEF Direction, OneRecord, Records
    <2> QED
      BY <2>2, <2>3, <2>4, <2>5 DEF Direction
  <1> QED
    BY <1>8, <1>9, <1>10, BothDirections DEF p

\* What every step that takes a record off the wire to s leaves of the wires.
LEMMA WireRead ==
    ASSUME TypeOK, NEW s \in Sides, wire[Peer(s)] # << >>,
           wire' = [wire EXCEPT ![Peer(s)] = Tail(@)]
    PROVE  /\ wire' \in [Sides -> Seq(Rec)]
           /\ wire'[Peer(s)] = Tail(wire[Peer(s)]) /\ wire'[s] = wire[s]
           /\ wire[Peer(s)] \in Seq(Rec) /\ wire[Peer(s)][1] \in Rec
           /\ Head(wire[Peer(s)]) = wire[Peer(s)][1]
           /\ (\A i \in 1..Len(wire[Peer(s)]) : wire[Peer(s)][i].last) =>
                /\ wire[Peer(s)][1].last
                /\ \A i \in 1..Len(wire'[Peer(s)]) : wire'[Peer(s)][i].last
  <1> DEFINE q == wire[Peer(s)]
  <1>1. /\ Peer(s) \in Sides /\ Peer(s) # s /\ wire \in [Sides -> Seq(Rec)] /\ q \in Seq(Rec)
    BY Peers DEF TypeOK
  <1>2. /\ Tail(q) \in Seq(Rec) /\ Head(q) = q[1] /\ q[1] \in Rec /\ 1 \in 1..Len(q)
        /\ \A i \in 1..Len(Tail(q)) : Tail(q)[i] = q[i + 1] /\ i + 1 \in 1..Len(q)
    BY <1>1, NonEmpty
  <1>3. /\ wire' \in [Sides -> Seq(Rec)]
        /\ wire'[Peer(s)] = Tail(q) /\ wire'[s] = wire[s]
    BY <1>1, <1>2
  <1> QED
    BY <1>1, <1>2, <1>3

\* A torn frame ends the relay; only frames of several records can be torn.
LEMMA ReadTornStep ==
    ASSUME TInv, NEW s \in Sides, ReadTorn(s)
    PROVE  TInv'
  <1> DEFINE p == Peer(s)
  <1>0. /\ pc[s] = "select" /\ wire[Peer(s)] # << >> /\ torn[s]
        /\ wire' = [wire EXCEPT ![Peer(s)] = Tail(@)]
        /\ pc' = [pc EXCEPT ![s] = "ended"] /\ why' = [why EXCEPT ![s] = "protocol error"]
        /\ UNCHANGED <<ctr, win, hand, taken, torn, sent, got>>
    BY DEF ReadTorn, Incoming, End, codec, stream
  <1>1. TypeOK /\ Direction(s) /\ Direction(p) /\ p \in Sides /\ p # s /\ Peer(p) = s
    BY Peers DEF TInv
  <1>2. /\ wire' \in [Sides -> Seq(Rec)] /\ wire'[p] = Tail(wire[p]) /\ wire'[s] = wire[s]
        /\ wire[p] # << >>
    BY <1>0, <1>1, WireRead
  <1> HIDE DEF p
  <1>3. /\ pc' \in [Sides -> {"select", "throttled", "writing", "delivering", "ended"}]
        /\ pc'[s] = "ended" /\ pc'[p] = pc[p]
        /\ why' \in [Sides -> Reasons] /\ why'[s] = "protocol error" /\ why'[p] = why[p]
    BY <1>0, <1>1 DEF TypeOK, Reasons
  <1>4. TypeOK'
    BY <1>0, <1>1, <1>2, <1>3 DEF TypeOK
  <1>5. Direction(s)'
    <2>1. Used(s)' = Used(s)
      BY <1>0, <1>3 DEF Used
    <2>2. Numbered(s)'
      BY <1>0, <1>1, <1>2, <1>4, <2>1, NumberedKept, Same DEF Direction
    <2>3. InOrder(s)'
      <3>1. Reached(Peer(s))' = Reached(Peer(s)) /\ pc'[Peer(s)] = pc[Peer(s)]
        BY <1>0, <1>3 DEF Reached, p
      <3> QED
        BY <1>0, <1>1, <1>2, <1>3, <1>4, <3>1, InOrderKept, Same DEF Direction
    <2>4. Holding(s)' /\ Delivering(s)' /\ why'[s] # "replay"
      BY <1>3 DEF Holding, Delivering
    <2>5. OneRecord(s)'
      BY <1>0, <1>1, <1>2, <1>3 DEF Direction, OneRecord, Records, p
    <2> QED
      BY <2>2, <2>3, <2>4, <2>5 DEF Direction
  <1>6. Direction(p)'
    <2>1. Used(p)' = Used(p)
      BY <1>0, <1>3 DEF Used
    <2>2. Numbered(p)'
      BY <1>0, <1>1, <1>2, <1>4, <2>1, NumberedTail DEF Direction
    <2>3. InOrder(p)'
      BY <1>1, <1>3 DEF InOrder
    <2>4. Holding(p)' /\ Delivering(p)' /\ why'[p] # "replay"
      BY <1>0, <1>1, <1>3 DEF Direction, Holding, Delivering, ReadSizes, Records
    <2>5. OneRecord(p)'
      <3>1. Records(RelayBuf[p]) # 1
        BY <1>0, <1>1 DEF Direction, OneRecord
      <3> QED
        BY <3>1 DEF OneRecord, Records
    <2> QED
      BY <2>2, <2>3, <2>4, <2>5 DEF Direction
  <1> QED
    BY <1>4, <1>5, <1>6, BothDirections DEF p

\* A record that does not end its frame is taken.
LEMMA TakeRecordStep ==
    ASSUME TInv, NEW s \in Sides, TakeRecord(s)
    PROVE  TInv'
  <1> DEFINE p == Peer(s)
  <1>0. /\ pc[s] = "select" /\ wire[Peer(s)] # << >> /\ ~Head(wire[Peer(s)]).last
        /\ wire' = [wire EXCEPT ![Peer(s)] = Tail(@)]
        /\ taken' = [taken EXCEPT ![s] = @ + 1]
        /\ UNCHANGED <<pc, ctr, win, hand, torn, sent, got, why>>
    BY DEF TakeRecord, Incoming, codec, stream
  <1>1. TypeOK /\ Direction(s) /\ Direction(p) /\ p \in Sides /\ p # s /\ Peer(p) = s
    BY Peers DEF TInv
  <1>2. /\ wire' \in [Sides -> Seq(Rec)] /\ wire'[p] = Tail(wire[p]) /\ wire'[s] = wire[s]
        /\ wire[p] # << >> /\ wire[p][1] \in Rec /\ wire[p] \in Seq(Rec)
        /\ ~wire[p][1].last /\ ~(\A i \in 1..Len(wire[p]) : wire[p][i].last)
    BY <1>0, <1>1, WireRead
  <1> HIDE DEF p
  <1>3. TypeOK' /\ taken'[p] = taken[p]
    <2>1. taken' \in [Sides -> Nat] /\ taken'[p] = taken[p]
      <3>1. taken \in [Sides -> Nat]
        BY <1>1 DEF TypeOK
      <3>2. taken[s] + 1 \in Nat
        BY <3>1
      <3> QED
        BY <1>0, <1>1, <3>1, <3>2
    <2> QED
      BY <1>0, <1>1, <1>2, <2>1 DEF TypeOK
  <1>4. Direction(s)'
    <2>1. Used(s)' = Used(s) /\ NextId(s)' = NextId(s)
      BY <1>0 DEF Used, NextId
    <2>2. Numbered(s)'
      BY <1>0, <1>1, <1>2, <1>3, <2>1, NumberedKept, Same DEF Direction
    <2>3. InOrder(s)'
      <3>1. Reached(Peer(s))' = Reached(Peer(s))
        BY <1>0 DEF Reached
      <3> QED
        BY <1>0, <1>1, <1>2, <1>3, <2>1, <3>1, InOrderKept, Same DEF Direction
    <2>4. Holding(s)' /\ Delivering(s)' /\ why'[s] # "replay"
      BY <1>0, <1>1 DEF Direction, Holding, Delivering, ReadSizes, Records
    <2>5. OneRecord(s)'
      BY <1>0, <1>1, <1>2, <1>3 DEF Direction, OneRecord, Records, p
    <2> QED
      BY <2>2, <2>3, <2>4, <2>5 DEF Direction
  <1>5. Direction(p)'
    <2>1. Used(p)' = Used(p)
      BY <1>0 DEF Used
    <2>2. Numbered(p)'
      BY <1>0, <1>1, <1>2, <1>3, <2>1, NumberedTail DEF Direction
    <2>3. InOrder(p)'
      <3>1. Reached(s)' = Reached(s) /\ Reached(s) \in Nat
        BY <1>0, <1>1, IdTypes DEF Reached
      <3>2. wire[p][1].id = Reached(s) + 1 /\ After(wire[p][1]) = wire[p][1].id
        BY <1>0, <1>1, <1>2 DEF Direction, InOrder, After
      <3>3. Reached(s)' = After(wire[p][1]) - 1
        BY <3>1, <3>2
      <3> QED
        BY <1>0, <1>1, <1>2, <1>3, <3>3, InOrderTail DEF Direction
    <2>4. Holding(p)' /\ Delivering(p)' /\ why'[p] # "replay"
      BY <1>0, <1>1 DEF Direction, Holding, Delivering, ReadSizes, Records
    <2>5. OneRecord(p)'
      BY <1>1, <1>2 DEF Direction, OneRecord, Records
    <2> QED
      BY <2>2, <2>3, <2>4, <2>5 DEF Direction
  <1> QED
    BY <1>3, <1>4, <1>5, BothDirections DEF p

\* What a step that completes frame f at s does to what s reads from.
FrameRead(s, f) ==
    /\ pc[s] = "select" /\ f = wire[Peer(s)][1] /\ f \in Rec /\ f.last
    /\ wire' \in [Sides -> Seq(Rec)]
    /\ wire[Peer(s)] # << >> /\ wire'[Peer(s)] = Tail(wire[Peer(s)]) /\ wire'[s] = wire[s]
    /\ (\A i \in 1..Len(wire[Peer(s)]) : wire[Peer(s)][i].last) =>
          \A i \in 1..Len(wire'[Peer(s)]) : wire'[Peer(s)][i].last
    /\ Accepts(win[s], f.counter) /\ win' \in [Sides -> Window]
    /\ win'[s] = Check(win[s], f.counter) /\ win'[Peer(s)] = win[Peer(s)]
    /\ taken' \in [Sides -> Nat] /\ taken'[s] = 0 /\ taken'[Peer(s)] = taken[Peer(s)]
    /\ torn' = torn

\* A frame is complete: its counter is newer than the window, and its chunk is next.
LEMMA CompletesFacts ==
    ASSUME TInv, NEW s \in Sides, NEW f, NEW e, Completes(s, f, e)
    PROVE  /\ FrameRead(s, f)
           /\ f.id = Len(got[s]) + 1 /\ f.id <= sent[Peer(s)] /\ After(f) = f.id + 1
           /\ Len(got[s]) \in Nat /\ f.id \in Nat
  <1> DEFINE p == Peer(s)
  <1>0. /\ pc[s] = "select" /\ wire[Peer(s)] # << >> /\ f = Head(wire[Peer(s)]) /\ f.last
        /\ wire' = [wire EXCEPT ![Peer(s)] = Tail(@)]
        /\ win' = [win EXCEPT ![s] = Check(win[s], f.counter)]
        /\ taken' = [taken EXCEPT ![s] = 0] /\ torn' = torn
    BY DEF Completes, Incoming
  <1>1. TypeOK /\ Direction(s) /\ Direction(p) /\ p \in Sides /\ p # s /\ Peer(p) = s
    BY Peers DEF TInv
  <1>2. /\ wire' \in [Sides -> Seq(Rec)] /\ wire'[p] = Tail(wire[p]) /\ wire'[s] = wire[s]
        /\ wire[p] # << >> /\ f \in Rec /\ wire[p] \in Seq(Rec)
        /\ f = wire[p][1]
        /\ (\A i \in 1..Len(wire[p]) : wire[p][i].last) =>
              \A i \in 1..Len(wire'[p]) : wire'[p][i].last
    BY <1>0, <1>1, WireRead
  <1>3. f.counter \in Nat /\ f.id \in Nat
    BY <1>2 DEF Rec
  <1>4. f.counter > win[s].max_counter /\ win[s] \in Window
    <2>1. 1 \in 1..Len(wire[p])
      BY <1>2, NonEmpty
    <2> QED
      BY <1>1, <1>2, <2>1 DEF Direction, Numbered, TypeOK
  <1>5. Accepts(win[s], f.counter) /\ Check(win[s], f.counter) \in Window
    BY <1>3, <1>4, CheckNewer
  <1> HIDE DEF p
  <1>6. /\ win' \in [Sides -> Window]
        /\ win'[s] = Check(win[s], f.counter) /\ win'[p] = win[p]
    BY <1>0, <1>1, <1>5 DEF TypeOK
  <1>7. taken' \in [Sides -> Nat] /\ taken'[s] = 0 /\ taken'[p] = taken[p]
    BY <1>0, <1>1 DEF TypeOK
  <1>8. f.id = Len(got[s]) + 1 /\ f.id <= sent[p] /\ Len(got[s]) \in Nat
    <2>1. 1 \in 1..Len(wire[p])
      BY <1>2, NonEmpty
    <2>2. /\ f.id = Reached(s) + 1 /\ f.id <= sent[p]
      BY <1>0, <1>1, <1>2, <2>1 DEF Direction, InOrder
    <2>3. Reached(s) = Len(got[s]) + 0 /\ Len(got[s]) \in Nat
      BY <1>0, <1>1, IdTypes DEF Reached
    <2>4. Reached(s) + 1 = Len(got[s]) + 1
      BY <2>3
    <2> QED
      BY <2>2, <2>3, <2>4
  <1>9. After(f) = f.id + 1
    BY <1>0 DEF After
  <1> QED
    BY <1>0, <1>2, <1>3, <1>5, <1>6, <1>7, <1>8, <1>9 DEF p, FrameRead

\* A frame is complete, and relay returns.
LEMMA LastFrameStep ==
    ASSUME TInv, NEW s \in Sides, NEW r \in Reasons \ {"replay", "protocol error"},
           NEW f, NEW e, Completes(s, f, e), End(s, r), UNCHANGED <<hand, sent, got>>,
           ctr' \in [Sides -> Nat \ {0}],
           ctr'[s] >= ctr[s], ctr'[Peer(s)] = ctr[Peer(s)]
    PROVE  TInv'
  <1> DEFINE p == Peer(s)
  <1>1. TypeOK /\ Direction(s) /\ Direction(p) /\ p \in Sides /\ p # s /\ Peer(p) = s
    BY Peers DEF TInv
  <1>a. FrameRead(s, f)
    BY CompletesFacts
  <1>2. /\ f = wire[p][1] /\ f.last /\ wire' \in [Sides -> Seq(Rec)]
        /\ wire[p] # << >> /\ wire'[p] = Tail(wire[p]) /\ wire'[s] = wire[s]
        /\ (\A i \in 1..Len(wire[p]) : wire[p][i].last) =>
              \A i \in 1..Len(wire'[p]) : wire'[p][i].last
        /\ win' \in [Sides -> Window]
        /\ win'[s] = Check(win[s], f.counter) /\ win'[p] = win[p]
        /\ taken' \in [Sides -> Nat] /\ taken'[s] = 0 /\ taken'[p] = taken[p]
        /\ torn' = torn
    BY <1>a DEF FrameRead
  <1>3. ctr'[p] = ctr[p]
    OBVIOUS
  <1>4. /\ pc' \in [Sides -> {"select", "throttled", "writing", "delivering", "ended"}]
        /\ pc'[s] = "ended" /\ pc'[p] = pc[p]
        /\ why' \in [Sides -> Reasons] /\ why'[s] = r /\ why'[p] = why[p]
    BY <1>1 DEF TypeOK, End
  <1>5. TypeOK'
    BY <1>1, <1>2, <1>4 DEF TypeOK
  <1> HIDE DEF p
  <1>6. Direction(s)'
    <2>1. Numbered(s)'
      <3>1. Used(s)' = ctr'[s] /\ Used(s) <= ctr[s] /\ Used(s) \in Nat /\ ctr[s] \in Nat
            /\ ctr'[s] \in Nat
        BY <1>1, <1>4, UsedType DEF Used
      <3>2. Used(s)' >= Used(s)
        BY ONLY <3>1, ctr'[s] >= ctr[s], AtLeast
      <3>3. win'[Peer(s)] = win[Peer(s)]
        BY <1>2 DEF p
      <3> QED
        BY <1>1, <1>2, <1>5, <3>2, <3>3, NumberedKept DEF Direction
    <2>2. InOrder(s)'
      <3>1. Reached(Peer(s))' = Reached(Peer(s)) /\ pc'[Peer(s)] = pc[Peer(s)]
        BY <1>4 DEF Reached, p
      <3> QED
        BY <1>1, <1>2, <1>4, <1>5, <3>1, InOrderKept, Same DEF Direction
    <2>3. Holding(s)' /\ Delivering(s)' /\ why'[s] # "replay"
      BY <1>4 DEF Holding, Delivering
    <2>4. OneRecord(s)'
      BY <1>1, <1>2, <1>4 DEF Direction, OneRecord, Records, p
    <2> QED
      BY <2>1, <2>2, <2>3, <2>4 DEF Direction
  <1>7. Direction(p)'
    <2>1. Used(p)' = Used(p)
      BY <1>3, <1>4 DEF Used
    <2>2. Numbered(p)'
      BY <1>1, <1>2, <1>3, <1>5, <2>1, NumberedTail DEF Direction
    <2>3. InOrder(p)'
      BY <1>1, <1>4 DEF InOrder
    <2>4. Holding(p)' /\ Delivering(p)' /\ why'[p] # "replay"
      BY <1>1, <1>4 DEF Direction, Holding, Delivering, ReadSizes, Records
    <2>5. OneRecord(p)'
      BY <1>1, <1>2, <1>4 DEF Direction, OneRecord, Records
    <2> QED
      BY <2>2, <2>3, <2>4, <2>5 DEF Direction
  <1> QED
    BY <1>5, <1>6, <1>7, BothDirections DEF p

\* The frames that end a relay: one it cannot open, never one it has seen; one that
\* is taken for a REKEY_INIT and is too short, or meets the threshold.
LEMMA ReadRefusedStep ==
    ASSUME TInv, NEW s \in Sides,
           ReadRefused(s) \/ (s = "client" /\ (ReadShort \/ AnswerRefused))
    PROVE  TInv' /\ UNCHANGED stream
  <1>1. /\ ctr \in [Sides -> Nat \ {0}] /\ ctr[s] >= ctr[s] /\ ctr[s] \in Nat
    BY Same DEF TInv, TypeOK
  <1>2. CASE ReadRefused(s)
    <2> DEFINE f == Head(wire[Peer(s)])
               e == ReadError(s, f)
    <2>1. /\ Completes(s, f, e) /\ e # "none" /\ End(s, e) /\ UNCHANGED <<ctr, hand, stream>>
      BY <1>2 DEF ReadRefused
    <2>2. Accepts(win[s], f.counter)
      BY <2>1, CompletesFacts DEF FrameRead
    <2>3. e = "refused"
      BY <2>1, <2>2 DEF ReadError
    <2> HIDE DEF f, e
    <2>4. e \in Reasons \ {"replay", "protocol error"}
      BY <2>3 DEF Reasons
    <2>5. UNCHANGED <<hand, sent, got>> /\ UNCHANGED stream /\ ctr' = ctr
      BY <2>1 DEF stream
    <2> QED
      BY <1>1, <2>1, <2>4, <2>5, LastFrameStep
  <1>3. CASE s = "client" /\ ReadShort
    <2>1. /\ Completes(s, Head(wire["gateway"]), "none") /\ End(s, "too short")
          /\ UNCHANGED <<hand, sent, got>> /\ UNCHANGED stream /\ ctr' = ctr
      BY <1>3 DEF ReadShort, ReadInit, stream
    <2>2. "too short" \in Reasons \ {"replay", "protocol error"}
      BY DEF Reasons
    <2> QED
      BY <1>1, <2>1, <2>2, LastFrameStep
  <1>4. CASE s = "client" /\ AnswerRefused
    <2>1. /\ Completes(s, Head(wire["gateway"]), "none") /\ End(s, "rekey needed")
          /\ UNCHANGED <<hand, sent, got>> /\ UNCHANGED stream
          /\ ctr' = [ctr EXCEPT ![s] = @ + 1]
      BY <1>4 DEF AnswerRefused, ReadInit, stream
    <2>2. "rekey needed" \in Reasons \ {"replay", "protocol error"}
      BY DEF Reasons
    <2>3. ctr[s] + 1 \in Nat \ {0} /\ ctr[s] + 1 >= ctr[s]
      BY <1>1
    <2>4. /\ ctr' \in [Sides -> Nat \ {0}] /\ ctr'[s] >= ctr[s]
          /\ ctr'[Peer(s)] = ctr[Peer(s)]
      BY <1>1, <2>1, <2>3, Peers
    <2> QED
      BY <2>1, <2>2, <2>4, LastFrameStep
  <1> QED
    BY <1>2, <1>3, <1>4

\* The data of a frame is on its way to the application.
LEMMA ReadFrameStep ==
    ASSUME TInv, NEW s \in Sides, ReadFrame(s)
    PROVE  TInv'
  <1> DEFINE p == Peer(s)
             f == wire[Peer(s)][1]
             h == Head(wire[Peer(s)])
  <1>0. /\ Completes(s, h, "none")
        /\ hand' = [hand EXCEPT ![s] = [id |-> h.id, size |-> 0, left |-> 0]]
        /\ pc' = [pc EXCEPT ![s] = "delivering"]
        /\ UNCHANGED <<ctr, sent, got, why>>
    BY DEF ReadFrame, stream
  <1>1. TypeOK /\ Direction(s) /\ Direction(p) /\ p \in Sides /\ p # s /\ Peer(p) = s
    BY Peers DEF TInv
  <1>a. FrameRead(s, h)
    BY <1>0, CompletesFacts
  <1>2. /\ pc[s] = "select" /\ h = f /\ f = wire[p][1] /\ f.last
        /\ wire' \in [Sides -> Seq(Rec)]
        /\ wire[p] # << >> /\ wire'[p] = Tail(wire[p]) /\ wire'[s] = wire[s]
        /\ (\A i \in 1..Len(wire[p]) : wire[p][i].last) =>
              \A i \in 1..Len(wire'[p]) : wire'[p][i].last
        /\ win' \in [Sides -> Window]
        /\ win'[s] = Check(win[s], f.counter) /\ win'[p] = win[p]
        /\ taken' \in [Sides -> Nat] /\ taken'[s] = 0 /\ taken'[p] = taken[p]
        /\ torn' = torn
    BY <1>a DEF FrameRead
  <1>3. /\ f.id = Len(got[s]) + 1 /\ f.id <= sent[p] /\ After(f) = f.id + 1
        /\ Len(got[s]) \in Nat /\ f.id \in Nat
    BY <1>0, <1>2, CompletesFacts
  <1> HIDE DEF p, f, h
  <1>6. /\ pc' = [pc EXCEPT ![s] = "delivering"] /\ UNCHANGED why
        /\ hand' = [hand EXCEPT ![s] = [id |-> f.id, size |-> 0, left |-> 0]]
    BY <1>0, <1>2
  <1>7. /\ pc'[s] = "delivering" /\ pc'[p] = pc[p]
        /\ hand'[s].id = f.id /\ hand'[p] = hand[p]
    BY <1>1, <1>6 DEF TypeOK
  <1>8. TypeOK'
    <2>1. [id |-> f.id, size |-> 0, left |-> 0] \in [id : Nat, size : Nat, left : Nat]
      BY <1>3
    <2>2. hand' \in [Sides -> [id : Nat, size : Nat, left : Nat]]
      BY <1>1, <1>6, <2>1 DEF TypeOK
    <2>4. pc' \in [Sides -> {"select", "throttled", "writing", "delivering", "ended"}]
      BY <1>1, <1>6 DEF TypeOK
    <2> QED
      BY <1>0, <1>1, <1>2, <1>6, <2>2, <2>4 DEF TypeOK
  <1>9. Reached(s)' = Len(got[s]) + 1
    BY <1>0, <1>7 DEF Reached
  <1>10. Direction(s)'
    <2>1. Used(s)' = Used(s)
      BY <1>0, <1>2, <1>7 DEF Used
    <2>2. NextId(s)' = NextId(s)
      BY <1>0, <1>2, <1>7 DEF NextId
    <2>3. Numbered(s)'
      <3>1. win'[Peer(s)] = win[Peer(s)]
        BY <1>2 DEF p
      <3> QED
        BY <1>0, <1>1, <1>2, <1>8, <2>1, <3>1, NumberedKept, Same DEF Direction
    <2>4. InOrder(s)'
      <3>1. Reached(Peer(s))' = Reached(Peer(s)) /\ pc'[Peer(s)] = pc[Peer(s)]
        BY <1>0, <1>7 DEF Reached, p
      <3> QED
        BY <1>0, <1>1, <1>2, <1>8, <2>2, <3>1, InOrderKept, Same DEF Direction
    <2>5. Holding(s)' /\ why'[s] # "replay"
      BY <1>1, <1>6, <1>7 DEF Direction, Holding
    <2>6. Delivering(s)'
      BY <1>0, <1>3, <1>7 DEF Delivering, p
    <2>7. OneRecord(s)'
      BY <1>0, <1>1, <1>2, <1>6 DEF Direction, OneRecord, Records, p
    <2> QED
      BY <2>3, <2>4, <2>5, <2>6, <2>7 DEF Direction
  <1>11. Direction(p)'
    <2>1. Used(p)' = Used(p)
      BY <1>0, <1>7 DEF Used
    <2>2. Numbered(p)'
      BY <1>0, <1>1, <1>2, <1>8, <2>1, NumberedTail DEF Direction
    <2>3. InOrder(p)'
      <3>1. Reached(s)' = After(f) - 1
        BY <1>3, <1>9
      <3> QED
        BY <1>0, <1>1, <1>2, <1>7, <1>8, <3>1, InOrderTail DEF Direction
    <2>4. Holding(p)' /\ Delivering(p)' /\ why'[p] # "replay"
      BY <1>0, <1>1, <1>6, <1>7 DEF Direction, Holding, Delivering, ReadSizes, Records
    <2>5. OneRecord(p)'
      BY <1>0, <1>1, <1>2, <1>6 DEF Direction, OneRecord, Records
    <2> QED
      BY <2>2, <2>3, <2>4, <2>5 DEF Direction
  <1> QED
    BY <1>8, <1>10, <1>11, BothDirections DEF p

\* The client's relay keeps the chunk and writes an ACK of its own: the next chunk of
\* the other direction.
LEMMA AnswerInitStep ==
    ASSUME TInv, AnswerInit
    PROVE  /\ TInv'
           /\ Head(wire["gateway"]).id = Len(got["client"]) + 1
           /\ Len(got["client"]) < sent["gateway"]
  <1> DEFINE s == "client"
             p == "gateway"
             f == wire[p][1]
             h == Head(wire[p])
             n == sent[s] + 1
  <1>0. /\ Completes(s, h, "none")
        /\ ctr' = [ctr EXCEPT ![s] = @ + 1]
        /\ pc' = [pc EXCEPT ![s] = "writing"]
        /\ hand' = [hand EXCEPT ![s] = [id |-> n, size |-> 1, left |-> Records(1)]]
        /\ got' = [got EXCEPT ![s] = Append(@, h.id)]
        /\ sent' = [sent EXCEPT ![s] = n]
        /\ UNCHANGED why
    BY DEF AnswerInit, ReadInit
  <1>1. /\ TypeOK /\ Direction(s) /\ Direction(p) /\ s \in Sides /\ p \in Sides
        /\ p = Peer(s) /\ p # s /\ Peer(p) = s
    BY Peers DEF TInv
  <1> HIDE DEF s, p
  <1>a. FrameRead(s, h)
    BY <1>0, <1>1, CompletesFacts
  <1>2. /\ pc[s] = "select" /\ h = f /\ f.last
        /\ wire' \in [Sides -> Seq(Rec)]
        /\ wire[p] # << >> /\ wire'[p] = Tail(wire[p]) /\ wire'[s] = wire[s]
        /\ (\A i \in 1..Len(wire[p]) : wire[p][i].last) =>
              \A i \in 1..Len(wire'[p]) : wire'[p][i].last
        /\ win' \in [Sides -> Window]
        /\ win'[s] = Check(win[s], f.counter) /\ win'[p] = win[p]
        /\ taken' \in [Sides -> Nat] /\ taken'[s] = 0 /\ taken'[p] = taken[p]
        /\ torn' = torn
    BY <1>1, <1>a DEF FrameRead
  <1>3. /\ f.id = Len(got[s]) + 1 /\ f.id <= sent[p] /\ After(f) = f.id + 1
        /\ Len(got[s]) \in Nat /\ f.id \in Nat
    BY <1>0, <1>1, <1>2, CompletesFacts
  <1>4. /\ ctr[s] \in Nat \ {0} /\ sent[s] \in Nat /\ sent[p] \in Nat /\ got[s] \in Seq(Nat)
    BY <1>1 DEF TypeOK
  <1>5. /\ 1 \in ReadSizes(s) /\ Records(1) \in 1..Records(RelayBuf[s]) /\ Records(1) \in Nat
    <2>1. 1 \in ReadSizes(s)
      BY <1>1, TunnelAssumption DEF ReadSizes
    <2> QED
      BY <1>1, <2>1, RecordsBounds
  <1>6. /\ Append(got[s], f.id) \in Seq(Nat) /\ Len(Append(got[s], f.id)) = Len(got[s]) + 1
    BY <1>3, <1>4, Appended
  <1>7. n \in Nat /\ n >= sent[s] /\ ctr[s] + 1 \in Nat \ {0} /\ ctr[s] + 1 >= ctr[s]
    BY <1>4
  <1> HIDE DEF f, h
  <1>8. /\ pc'[s] = "writing" /\ pc'[p] = pc[p]
        /\ ctr'[s] = ctr[s] + 1 /\ ctr'[p] = ctr[p]
        /\ sent'[s] = n /\ sent'[p] = sent[p]
        /\ got'[s] = Append(got[s], f.id) /\ got'[p] = got[p]
        /\ hand'[s] = [id |-> n, size |-> 1, left |-> Records(1)] /\ hand'[p] = hand[p]
    BY <1>0, <1>1, <1>2 DEF TypeOK
  <1>9. TypeOK'
    <2>1. [id |-> n, size |-> 1, left |-> Records(1)] \in [id : Nat, size : Nat, left : Nat]
      BY <1>5, <1>7
    <2>2. hand' \in [Sides -> [id : Nat, size : Nat, left : Nat]]
      BY <1>0, <1>1, <2>1 DEF TypeOK
    <2>3. sent' \in [Sides -> Nat] /\ ctr' \in [Sides -> Nat \ {0}]
      BY <1>0, <1>1, <1>7 DEF TypeOK
    <2>4. got' \in [Sides -> Seq(Nat)]
      BY <1>0, <1>1, <1>2, <1>6 DEF TypeOK
    <2>5. pc' \in [Sides -> {"select", "throttled", "writing", "delivering", "ended"}]
      BY <1>0, <1>1 DEF TypeOK
    <2> QED
      BY <1>0, <1>1, <1>2, <2>2, <2>3, <2>4, <2>5 DEF TypeOK
  <1>10. Direction(s)'
    <2>1. Used(s)' = Used(s)
      <3>1. Used(s) = ctr[s] /\ Used(s)' = (ctr[s] + 1) - 1
        BY <1>2, <1>8 DEF Used
      <3> QED
        BY <1>4, <3>1
    <2>2. NextId(s)' = NextId(s)
      BY <1>2, <1>8 DEF NextId
    <2>3. Numbered(s)'
      <3>1. win'[Peer(s)] = win[Peer(s)] /\ ctr'[s] >= ctr[s]
        BY <1>1, <1>2, <1>7, <1>8
      <3> QED
        BY <1>1, <1>2, <1>9, <2>1, <3>1, NumberedKept, Same DEF Direction
    <2>4. InOrder(s)'
      <3>1. Reached(Peer(s))' = Reached(Peer(s)) /\ pc'[Peer(s)] = pc[Peer(s)]
        BY <1>1, <1>8 DEF Reached
      <3>2. sent'[s] >= sent[s] /\ pc[s] # "ended"
        BY <1>2, <1>7, <1>8
      <3> QED
        BY <1>1, <1>2, <1>9, <2>2, <3>1, <3>2, InOrderKept DEF Direction
    <2>5. Holding(s)' /\ Delivering(s)'
      <3>1. /\ ReadSizes(s)' = ReadSizes(s) /\ Records(RelayBuf[s])' = Records(RelayBuf[s])
            /\ hand'[s].id = n /\ hand'[s].size = 1 /\ hand'[s].left = Records(1)
        BY <1>8 DEF ReadSizes, Records
      <3> QED
        BY <1>5, <1>8, <3>1 DEF Holding, Delivering
    <2>6. OneRecord(s)' /\ why'[s] # "replay"
      BY <1>0, <1>1, <1>2 DEF Direction, OneRecord, Records
    <2> QED
      BY <2>3, <2>4, <2>5, <2>6 DEF Direction
  <1>11. Direction(p)'
    <2>1. Used(p)' = Used(p)
      BY <1>8 DEF Used
    <2>2. Numbered(p)'
      BY <1>1, <1>2, <1>8, <1>9, <2>1, NumberedTail DEF Direction, f
    <2>3. InOrder(p)'
      <3>1. Reached(s)' = Len(got'[s]) + 0
        BY <1>8 DEF Reached
      <3>2. Reached(s)' = After(f) - 1
        BY <1>3, <1>6, <1>8, <3>1
      <3> QED
        BY <1>1, <1>2, <1>8, <1>9, <3>2, InOrderTail DEF Direction, f
    <2>4. Holding(p)' /\ why'[p] # "replay"
      BY <1>0, <1>1, <1>8 DEF Direction, Holding, ReadSizes, Records
    <2>5. Delivering(p)'
      <3> SUFFICES ASSUME pc[p] = "delivering"
                   PROVE  hand[p].id = Len(got[p]) + 1 /\ hand[p].id <= sent[s] + 1
        BY <1>1, <1>8 DEF Delivering
      <3>1. hand[p].id = Len(got[p]) + 1 /\ hand[p].id <= sent[s] /\ hand[p].id \in Nat
        BY <1>1 DEF Direction, Delivering, TypeOK
      <3> QED
        BY <1>4, <3>1
    <2>6. OneRecord(p)'
      BY <1>0, <1>1, <1>2 DEF Direction, OneRecord, Records
    <2> QED
      BY <2>2, <2>3, <2>4, <2>5, <2>6 DEF Direction
  <1>12. TInv'
    BY <1>1, <1>9, <1>10, <1>11, BothDirections
  <1>13. Len(got[s]) < sent[p]
    BY <1>3, <1>4
  <1> QED
    BY <1>2, <1>3, <1>12, <1>13 DEF s, p, h

\* A reset: what is left of the wire of an ended relay is a beginning of it.
LEMMA ResetStep ==
    ASSUME TInv, NEW s \in Sides, Reset(s)
    PROVE  TInv' /\ UNCHANGED stream
  <1> DEFINE p == Peer(s)
             w == wire[s]
  <1>0. /\ pc[s] = "ended" /\ UNCHANGED <<pc, ctr, win, hand, taken, torn, sent, got, why>>
        /\ UNCHANGED stream
    BY DEF Reset, codec, stream
  <1>1. PICK n \in 0..Len(w) : wire' = [wire EXCEPT ![s] = SubSeq(w, 1, n)]
    BY DEF Reset
  <1>2. TypeOK /\ Direction(s) /\ Direction(p) /\ p \in Sides /\ p # s /\ Peer(p) = s
    BY Peers DEF TInv
  <1>3. w \in Seq(Rec) /\ Len(w) \in Nat /\ n \in Nat /\ n <= Len(w)
    BY <1>2 DEF TypeOK
  <1>4. /\ SubSeq(w, 1, n) \in Seq(Rec) /\ Len(SubSeq(w, 1, n)) = n
        /\ \A i \in 1..n : SubSeq(w, 1, n)[i] = w[i] /\ i \in 1..Len(w)
    BY <1>3
  <1> HIDE DEF p, w
  <1>5. /\ wire' \in [Sides -> Seq(Rec)] /\ wire'[p] = wire[p]
        /\ Len(wire'[s]) = n /\ \A i \in 1..n : wire'[s][i] = wire[s][i] /\ i \in 1..Len(wire[s])
    BY <1>1, <1>2, <1>4 DEF TypeOK, w
  <1>6. TypeOK'
    BY <1>0, <1>2, <1>5 DEF TypeOK
  <1>7. Direction(s)'
    <2>1. Numbered(s)'
      <3>1. Numbered(s) /\ Used(s)' = Used(s) /\ win' = win /\ ctr' = ctr
        BY <1>0, <1>2 DEF Direction, Used
      <3>2. ASSUME NEW i \in 1..n
            PROVE  /\ wire'[s][i].counter > win[Peer(s)].max_counter /\ wire'[s][i].counter < ctr[s]
                   /\ wire'[s][i].last => wire'[s][i].counter < Used(s)
                   /\ \A j \in 1..n : i < j =>
                         /\ wire'[s][i].counter <= wire'[s][j].counter
                         /\ wire'[s][i].last => wire'[s][i].counter < wire'[s][j].counter
        BY <1>5, <3>1, <3>2 DEF Numbered
      <3> QED
        BY <1>5, <3>1, <3>2 DEF Numbered
    <2>2. InOrder(s)'
      <3> SUFFICES ASSUME pc[Peer(s)] # "ended"
                   PROVE  /\ wire'[s] # << >> => wire'[s][1].id = Reached(Peer(s)) + 1
                          /\ \A i \in 1..Len(wire'[s]) : i + 1 \in 1..Len(wire'[s]) =>
                                wire'[s][i + 1].id = After(wire'[s][i])
                          /\ \A i \in 1..Len(wire'[s]) : wire'[s][i].id <= sent[s]
        BY <1>0 DEF InOrder, Reached
      <3>1. /\ wire[s] # << >> => wire[s][1].id = Reached(Peer(s)) + 1
            /\ \A i \in 1..Len(wire[s]) : i + 1 \in 1..Len(wire[s]) =>
                  wire[s][i + 1].id = After(wire[s][i])
            /\ \A i \in 1..Len(wire[s]) : wire[s][i].id <= sent[s]
        BY <1>2 DEF Direction, InOrder
      <3>2. ASSUME wire'[s] # << >>
            PROVE  wire'[s][1].id = Reached(Peer(s)) + 1
        <4>1. wire'[s] \in Seq(Rec)
          BY <1>5
        <4>2. 1 \in 1..n
          BY <1>5, <3>2, <4>1, NonEmpty
        <4>3. wire'[s][1] = wire[s][1] /\ 1 \in 1..Len(wire[s])
          BY <1>5, <4>2
        <4>4. wire[s] # << >>
          BY <4>3
        <4> QED
          BY <3>1, <4>3, <4>4
      <3> QED
        BY <1>5, <3>1, <3>2
    <2>3. Holding(s)' /\ Delivering(s)' /\ why'[s] # "replay"
      BY <1>0, <1>2 DEF Direction, Holding, Delivering
    <2>4. OneRecord(s)'
      BY <1>0, <1>2, <1>5 DEF Direction, OneRecord, Records
    <2> QED
      BY <2>1, <2>2, <2>3, <2>4 DEF Direction
  <1>8. Direction(p)'
    <2>1. Used(p)' = Used(p) /\ NextId(p)' = NextId(p) /\ Reached(s)' = Reached(s)
      BY <1>0 DEF Used, NextId, Reached
    <2>2. Numbered(p)'
      BY <1>0, <1>2, <1>5, <1>6, <2>1, NumberedKept, Same DEF Direction
    <2>3. InOrder(p)'
      BY <1>0, <1>2, <1>5, <1>6, <2>1, InOrderKept, Same DEF Direction
    <2>4. Holding(p)' /\ Delivering(p)' /\ why'[p] # "replay"
      BY <1>0, <1>2 DEF Direction, Holding, Delivering, ReadSizes, Records
    <2>5. OneRecord(p)'
      BY <1>0, <1>2, <1>5 DEF Direction, OneRecord, Records
    <2> QED
      BY <2>2, <2>3, <2>4, <2>5 DEF Direction
  <1> QED
    BY <1>0, <1>6, <1>7, <1>8, BothDirections DEF p

\* The application gets the chunk: one that the other side has sent, and the next one.
LEMMA DeliverStep ==
    ASSUME TInv, NEW s \in Sides, Deliver(s)
    PROVE  /\ TInv'
           /\ hand[s].id = Len(got[s]) + 1 /\ Len(got[s]) < sent[Peer(s)]
  <1> DEFINE p == Peer(s)
  <1>0. /\ pc[s] = "delivering" /\ pc' = [pc EXCEPT ![s] = "select"]
        /\ got' = [got EXCEPT ![s] = Append(@, hand[s].id)]
        /\ UNCHANGED <<ctr, win, hand, wire, taken, torn, sent, why>>
    BY DEF Deliver, codec
  <1>1. TypeOK /\ Direction(s) /\ Direction(p) /\ p \in Sides /\ p # s /\ Peer(p) = s
    BY Peers DEF TInv
  <1>2. /\ hand[s].id \in Nat /\ got[s] \in Seq(Nat) /\ sent[p] \in Nat
        /\ hand[s].id = Len(got[s]) + 1 /\ hand[s].id <= sent[p]
    BY <1>0, <1>1 DEF Direction, Delivering, TypeOK
  <1>3. /\ Append(got[s], hand[s].id) \in Seq(Nat) /\ Len(got[s]) \in Nat
        /\ Len(Append(got[s], hand[s].id)) = Len(got[s]) + 1
    BY <1>2, Appended
  <1> HIDE DEF p
  <1>4. /\ pc'[s] = "select" /\ pc'[p] = pc[p]
        /\ got'[s] = Append(got[s], hand[s].id) /\ got'[p] = got[p]
    BY <1>0, <1>1 DEF TypeOK
  <1>5. TypeOK'
    BY <1>0, <1>1, <1>3 DEF TypeOK
  <1>6. Reached(s)' = Reached(s)
    <2>1. Reached(s) = Len(got[s]) + 1
      BY <1>0 DEF Reached
    <2>2. Reached(s)' = Len(got'[s]) + 0
      BY <1>4 DEF Reached
    <2>3. Len(got'[s]) = Len(got[s]) + 1
      BY <1>3, <1>4
    <2> QED
      BY <1>3, <2>1, <2>2, <2>3
  <1>7. Direction(s)'
    <2>1. Used(s)' = Used(s)
      BY <1>0, <1>4 DEF Used
    <2>2. NextId(s)' = NextId(s)
      BY <1>0, <1>4 DEF NextId
    <2>3. Numbered(s)'
      BY <1>0, <1>1, <1>5, <2>1, NumberedKept, Same DEF Direction
    <2>4. InOrder(s)'
      <3>1. Reached(Peer(s))' = Reached(Peer(s)) /\ pc'[Peer(s)] = pc[Peer(s)]
        BY <1>4 DEF Reached, p
      <3> QED
        BY <1>0, <1>1, <1>5, <2>2, <3>1, InOrderKept, Same DEF Direction
    <2>5. Holding(s)' /\ Delivering(s)' /\ why'[s] # "replay" /\ OneRecord(s)'
      BY <1>0, <1>1, <1>4 DEF Direction, Holding, Delivering, OneRecord, Records
    <2> QED
      BY <2>3, <2>4, <2>5 DEF Direction
  <1>8. Direction(p)'
    <2>1. Used(p)' = Used(p)
      BY <1>0, <1>4 DEF Used
    <2>2. NextId(p)' = NextId(p)
      BY <1>0, <1>4 DEF NextId
    <2>3. Numbered(p)'
      BY <1>0, <1>1, <1>5, <2>1, NumberedKept, Same DEF Direction
    <2>4. InOrder(p)'
      BY <1>0, <1>1, <1>4, <1>5, <1>6, <2>2, InOrderKept, Same DEF Direction
    <2>5. Holding(p)' /\ Delivering(p)' /\ why'[p] # "replay" /\ OneRecord(p)'
      BY <1>0, <1>1, <1>4
      DEF Direction, Holding, Delivering, OneRecord, ReadSizes, Records
    <2> QED
      BY <2>3, <2>4, <2>5 DEF Direction
  <1>9. TInv'
    BY <1>5, <1>7, <1>8, BothDirections DEF p
  <1>10. Len(got[s]) < sent[p]
    BY <1>2, <1>3
  <1> QED
    BY <1>2, <1>9, <1>10 DEF p

-----------------------------------------------------------------------------
(* The theorems *)

\* Nothing is on its way yet: one frame has gone each way, with counter 0.
LEMMA InitTInv ==
    ASSUME Init
    PROVE  TInv
  <1>1. /\ Check(NewWindow, 0) \in Window /\ Check(NewWindow, 0).max_counter = 0
    <2>1. NewWindow \in Window /\ 0 > NewWindow.max_counter
      BY DEF NewWindow, Window, NoCounter
    <2> QED
      BY <2>1, CheckNewer
  <1>2. /\ \A s \in Sides : /\ pc[s] = "select" /\ wire[s] = << >> /\ taken[s] = 0
                            /\ ~torn[s] /\ ctr[s] = 1 /\ sent[s] = 0
                            /\ got[s] = << >> /\ why[s] = "none"
                            /\ win[s].max_counter = 0
    BY <1>1 DEF Init
  <1>3. TypeOK
    <2>1. << >> \in Seq(Rec) /\ << >> \in Seq(Nat)
      BY EmptySeq
    <2>2. /\ wire \in [Sides -> Seq(Rec)] /\ got \in [Sides -> Seq(Nat)]
          /\ win \in [Sides -> Window]
      BY <1>1, <2>1 DEF Init
    <2>3. hand \in [Sides -> [id : Nat, size : Nat, left : Nat]]
      BY DEF Init, Nothing
    <2>4. torn \in [Sides -> BOOLEAN]
      BY DEF Init
    <2> QED
      BY <2>2, <2>3, <2>4 DEF Init, TypeOK, Reasons
  <1>4. ASSUME NEW s \in Sides PROVE Direction(s)
    <2> DEFINE p == Peer(s)
    <2>0. /\ p \in Sides /\ pc[p] = "select" /\ got[p] = << >> /\ taken[p] = 0
          /\ ~torn[p] /\ why[p] = "none"
          /\ wire[s] = << >> /\ pc[s] = "select" /\ sent[s] = 0
      BY <1>2, Peers
    <2>a. Len(wire[s]) = 0 /\ Len(got[p]) = 0 /\ \A i \in 1..Len(wire[s]) : FALSE
      BY <2>0
    <2>1. Holding(s) /\ Delivering(s) /\ why[s] # "replay"
      BY <1>2 DEF Holding, Delivering
    <2>2. Numbered(s)
      BY <1>2, <2>0 DEF Numbered, Used
    <2>3. InOrder(s)
      <3>1. NextId(s) = 1
        BY <2>0 DEF NextId
      <3>2. Reached(p) = 0
        BY <2>0, <2>a DEF Reached
      <3>3. NextId(s) = Reached(p) + 1
        BY <3>1, <3>2
      <3> QED
        BY <2>0, <2>a, <3>3 DEF InOrder
    <2>4. OneRecord(s)
      BY <2>0, <2>a, Zenon DEF OneRecord
    <2> QED
      BY <2>1, <2>2, <2>3, <2>4 DEF Direction
  <1> QED
    BY <1>3, <1>4 DEF TInv

\* The steps that only end a relay.
LEMMA EndingStep ==
    ASSUME TInv, NEW s \in Sides,
           WriteFails(s) \/ LocalEof(s) \/ DeliverFails(s) \/ PeerEof(s)
              \/ (s = "gateway" /\ IdleTimeout)
    PROVE  TInv' /\ UNCHANGED <<sent, got>>
  <1>1. PICK r \in {"write failed", "local eof", "local error", "peer eof", "reset", "idle"} :
          End(s, r) /\ UNCHANGED <<ctr, win, hand, wire, taken, torn, sent, got>>
    BY DEF WriteFails, LocalEof, DeliverFails, PeerEof, IdleTimeout, codec, stream
  <1>2. r \in Reasons \ {"replay", "protocol error"}
    BY DEF Reasons
  <1>3. ctr' \in [Sides -> Nat \ {0}] /\ ctr'[s] >= ctr[s] /\ ctr'[Peer(s)] = ctr[Peer(s)]
    BY <1>1, Same DEF TInv, TypeOK
  <1> QED
    BY <1>1, <1>2, <1>3, EndStep

\* Every step keeps the invariant, one case per action.
LEMMA NextTInv ==
    ASSUME TInv, [Next]_vars
    PROVE  TInv'
  <1>1. ASSUME NEW s \in Sides, Relay(s) PROVE TInv'
    BY <1>1, WriteRecordStep, ReadTornStep, TakeRecordStep, ReadRefusedStep, ReadFrameStep,
       AnswerInitStep, EndingStep DEF Relay
  <1>2. ASSUME NEW s \in Sides, Held(s) \/ Application(s) PROVE TInv'
    BY <1>2, StartFrameStep, DeliverStep, ReadLocalStep, EndingStep DEF Held, Application
  <1>3. ASSUME NEW s \in Sides, Reset(s) PROVE TInv'
    BY <1>3, ResetStep
  <1>4. CASE IdleTimeout
    BY <1>4, EndingStep, Peers
  <1>5. CASE UNCHANGED vars
    <2> USE <1>5 DEF vars, codec, stream
    <2>1. TypeOK' = TypeOK
      BY DEF TypeOK
    <2>2. \A s \in Sides : Numbered(s)' = Numbered(s)
      BY DEF Numbered, Used
    <2>3. \A s \in Sides : InOrder(s)' = InOrder(s)
      BY DEF InOrder, NextId, Reached
    <2>4. \A s \in Sides : Holding(s)' = Holding(s) /\ Delivering(s)' = Delivering(s)
      BY DEF Holding, Delivering, ReadSizes, Records
    <2>5. \A s \in Sides : OneRecord(s)' = OneRecord(s)
      BY DEF OneRecord, Records
    <2> QED
      BY <2>1, <2>2, <2>3, <2>4, <2>5 DEF TInv, Direction
  <1> QED
    BY <1>1, <1>2, <1>3, <1>4, <1>5 DEF Next

\* What the other actions leave of it: an ending relay, a write, a read of the gateway's.
LEMMA ControlKept ==
    ASSUME Control, UNCHANGED <<mimic, acks, cut>>, overlap' \in Nat \cup {Always},
           \/ pc'["client"] # "delivering"
           \/ pc'["client"] = pc["client"] /\ hand'["client"] = hand["client"]
    PROVE  Control'
  BY DEF Control

\* The codec of the client after a frame it could open.
LEMMA OverlapType ==
    ASSUME Control, NEW s \in Sides, NEW f, NEW e, Completes(s, f, e)
    PROVE  overlap' \in Nat \cup {Always} /\ cut' = cut
  <1>1. /\ overlap' = IF e = "none" /\ s = "client" /\ overlap > 0 THEN overlap - 1 ELSE overlap
        /\ cut' = cut
    BY DEF Completes
  <1>2. overlap \in Nat \cup {Always}
    BY DEF Control
  <1> QED
    BY <1>1, <1>2 DEF Always

\* A chunk that is being delivered stays what it is: a new one has a higher number.
LEMMA NextControl ==
    ASSUME TInv, Control, [Next]_vars
    PROVE  Control'
  <1>0. /\ TypeOK /\ overlap \in Nat \cup {Always} /\ cut \in [Sides -> BOOLEAN]
        /\ mimic \subseteq Nat /\ acks \subseteq Nat
        /\ pc \in [Sides -> {"select", "throttled", "writing", "delivering", "ended"}]
        /\ "client" \in Sides /\ "gateway" \in Sides
        /\ hand \in [Sides -> [id : Nat, size : Nat, left : Nat]]
    BY Peers DEF TInv, TypeOK, Control
  <1>1. ASSUME NEW s \in Sides, NEW r, End(s, r), UNCHANGED <<hand, mimic, acks, cut>>,
               overlap' \in Nat \cup {Always}
        PROVE  Control'
    <2>1. pc'["client"] \in {pc["client"], "ended"}
      BY <1>0, <1>1 DEF End
    <2> QED
      BY <1>0, <1>1, <2>1, ControlKept
  <1>2. ASSUME NEW s \in Sides, ReadLocal(s) PROVE Control'
    <2>1. /\ pc[s] = "select" /\ pc' = [pc EXCEPT ![s] = "throttled"]
          /\ \E n \in ReadSizes(s) :
                hand' = [hand EXCEPT ![s] = [id |-> sent[s] + 1, size |-> n, left |-> 0]]
          /\ mimic' \in {mimic} \cup (IF s = "gateway" THEN {mimic \cup {sent[s] + 1}} ELSE {})
          /\ UNCHANGED <<overlap, cut, acks>>
      BY <1>2 DEF ReadLocal, codec
    <2>2. CASE s = "client"
      BY <1>0, <2>1, <2>2, ControlKept
    <2>3. CASE s # "client"
      <3>1. /\ pc'["client"] = pc["client"] /\ hand'["client"] = hand["client"]
            /\ mimic' \subseteq mimic \cup {sent["gateway"] + 1}
        BY <1>0, <2>1, <2>3, Peers
      <3>a. sent["gateway"] \in Nat
        BY <1>0 DEF TypeOK
      <3>2. sent["gateway"] \in Nat /\ sent["gateway"] + 1 \in Nat
        BY <3>a
      <3>3. pc["client"] = "delivering" =>
               hand["client"].id <= sent["gateway"] /\ hand["client"].id \in Nat
        BY <1>0, Peers DEF TInv, Direction, Delivering
      <3>4. pc["client"] = "delivering" => hand["client"].id # sent["gateway"] + 1
        BY <3>2, <3>3
      <3>5. pc'["client"] = "delivering" => hand'["client"].id \notin mimic'
        BY <3>1, <3>4 DEF Control
      <3> QED
        BY <1>0, <2>1, <3>1, <3>2, <3>5 DEF Control
    <2> QED
      BY <2>2, <2>3
  <1>3. ASSUME NEW s \in Sides, StartFrame(s) PROVE Control'
    <2>1. UNCHANGED <<mimic, acks, cut, overlap>>
      BY <1>3 DEF StartFrame, stream
    <2>2. CASE End(s, "rekey needed") /\ UNCHANGED hand
      BY <1>0, <1>1, <2>1, <2>2
    <2>3. CASE /\ pc' = [pc EXCEPT ![s] = "writing"]
               /\ hand' = [hand EXCEPT ![s].left = Records(hand[s].size)]
      BY <1>0, <2>1, <2>3, ControlKept
    <2> QED
      BY <1>3, <2>2, <2>3 DEF StartFrame
  <1>4. ASSUME NEW s \in Sides, WriteRecord(s) PROVE Control'
    <2>1. /\ hand' = [hand EXCEPT ![s].left = @ - 1]
          /\ pc' = [pc EXCEPT ![s] = IF hand[s].left = 1 THEN "select" ELSE "writing"]
          /\ UNCHANGED <<mimic, acks, cut>> /\ overlap' \in Overlaps \cup {overlap}
      BY <1>4 DEF WriteRecord, stream
    <2>2. overlap' \in Nat \cup {Always}
      BY <1>0, <2>1, TunnelAssumption DEF Overlaps
    <2> QED
      BY <1>0, <2>1, <2>2, ControlKept
  <1>5. ASSUME NEW s \in Sides,
               WriteFails(s) \/ LocalEof(s) \/ DeliverFails(s) \/ PeerEof(s) \/ ReadTorn(s)
                  \/ (s = "gateway" /\ IdleTimeout)
        PROVE  Control'
    <2>1. UNCHANGED <<hand, mimic, acks, cut, overlap>> /\ \E r : End(s, r)
      BY <1>5 DEF WriteFails, LocalEof, DeliverFails, PeerEof, ReadTorn, IdleTimeout, codec, stream
    <2> QED
      BY <1>0, <1>1, <2>1
  <1>6. ASSUME NEW s \in Sides, TakeRecord(s) PROVE Control'
    BY <1>0, <1>6, ControlKept DEF TakeRecord, codec, stream
  <1>7. ASSUME NEW s \in Sides,
               ReadRefused(s) \/ (s = "client" /\ (ReadShort \/ AnswerRefused))
        PROVE  Control'
    <2>1. /\ UNCHANGED <<hand, mimic, acks>> /\ \E r : End(s, r)
          /\ \E f, e : Completes(s, f, e)
      BY <1>7 DEF ReadRefused, ReadShort, AnswerRefused, ReadInit, stream
    <2> QED
      BY <1>1, <2>1, OverlapType
  <1>8. ASSUME NEW s \in Sides, ReadFrame(s) PROVE Control'
    <2> DEFINE f == Head(wire[Peer(s)])
    <2>1. /\ Completes(s, f, "none") /\ ~(s = "client" /\ f.id \in mimic)
          /\ hand' = [hand EXCEPT ![s] = [id |-> f.id, size |-> 0, left |-> 0]]
          /\ pc' = [pc EXCEPT ![s] = "delivering"] /\ UNCHANGED <<mimic, acks>>
      BY <1>8 DEF ReadFrame, stream
    <2> HIDE DEF f
    <2>2. overlap' \in Nat \cup {Always} /\ cut' = cut
      BY <2>1, OverlapType
    <2>3. CASE s = "client"
      <3>1. hand'["client"].id \notin mimic
        BY <1>0, <2>1, <2>3
      <3> QED
        BY <1>0, <2>1, <2>2, <3>1 DEF Control
    <2>4. CASE s # "client"
      BY <1>0, <2>1, <2>2, <2>4, ControlKept
    <2> QED
      BY <2>3, <2>4
  <1>9. CASE AnswerInit
    <2>1. /\ Completes("client", Head(wire["gateway"]), "none") /\ UNCHANGED mimic
          /\ acks' = acks \cup {sent["client"] + 1}
          /\ pc' = [pc EXCEPT !["client"] = "writing"]
      BY <1>9 DEF AnswerInit, ReadInit
    <2>2. overlap' \in Nat \cup {Always} /\ cut' = cut
      BY <1>0, <2>1, OverlapType
    <2>3. sent["client"] + 1 \in Nat
      BY <1>0 DEF TypeOK
    <2>4. pc'["client"] = "writing"
      BY <1>0, <2>1
    <2> QED
      BY <1>0, <2>1, <2>2, <2>3, <2>4 DEF Control
  <1>10. ASSUME NEW s \in Sides, Deliver(s) PROVE Control'
    <2>1. /\ pc' = [pc EXCEPT ![s] = "select"]
          /\ UNCHANGED <<hand, mimic, acks, cut, overlap>>
      BY <1>10 DEF Deliver, codec
    <2> QED
      BY <1>0, <2>1, ControlKept
  <1>11. ASSUME NEW s \in Sides, Reset(s) PROVE Control'
    <2>1. /\ cut' = [cut EXCEPT ![s] = TRUE] /\ UNCHANGED <<pc, hand, mimic, acks, overlap>>
      BY <1>11 DEF Reset, codec, stream
    <2>2. cut' \in [Sides -> BOOLEAN]
      BY <1>0, <2>1
    <2> QED
      BY <2>1, <2>2 DEF Control
  <1>12. CASE UNCHANGED vars
    BY <1>12 DEF vars, codec, stream, Control
  <1> QED
    BY <1>0, <1>2, <1>3, <1>4, <1>5, <1>6, <1>7, <1>8, <1>9, <1>10, <1>11, <1>12
    DEF Next, Relay, Held, Application

\* Both directions of the tunnel keep their invariant in every state: what has been
\* read, what is on the wire and what is to come continue each other, also where the
\* client's relay takes data for a REKEY_INIT and where a reset cuts the wire.
THEOREM TunnelInvariant == Spec => [](TInv /\ Control)
  <1>1. Init => TInv /\ Control
    <2>1. Init => Control
      BY Peers DEF Init, Control
    <2> QED
      BY <2>1, InitTInv
  <1>2. TInv /\ Control /\ [Next]_vars => TInv' /\ Control'
    BY NextTInv, NextControl
  <1> QED
    BY <1>1, <1>2, PTL DEF Spec

\* select! dropping read_frame is harmless whenever the largest frame fits one TLS
\* record, and a relay never takes a frame for a replay.
THEOREM NeverFalseAlarm == Spec => []NoFalseAlarm
  <1>1. TInv => NoFalseAlarm
    BY Peers DEF TInv, Direction, OneRecord, NoFalseAlarm
  <1> QED
    BY <1>1, TunnelInvariant, PTL

\* Only three kinds of step are visible at the ends of the pipe.
LEMMA PipeStep ==
    ASSUME TInv, Control, [Next]_vars
    PROVE  [Pipe!Next]_(Pipe!vars)
  <1> SUFFICES Pipe!Next \/ stream' = stream
    BY DEF stream, Pipe!vars
  <1>1. ASSUME NEW s \in Sides, ReadLocal(s) PROVE Pipe!Next
    <2>1. /\ sent' = [sent EXCEPT ![s] = @ + 1] /\ UNCHANGED <<got, acks>>
          /\ mimic' = mimic \/ (s = "gateway" /\ mimic' = mimic \cup {sent[s] + 1})
      BY <1>1 DEF ReadLocal
    <2>2. Pipe!Put(s)
      BY <2>1 DEF Pipe!Put
    <2> QED
      BY <2>2 DEF Pipe!Next
  <1>2. ASSUME NEW s \in Sides, Deliver(s) PROVE Pipe!Next
    <2>1. hand[s].id = Len(got[s]) + 1 /\ Len(got[s]) < sent[Peer(s)] /\ pc[s] = "delivering"
      BY <1>2, DeliverStep DEF Deliver
    <2>2. /\ got' = [got EXCEPT ![s] = Append(got[s], Len(got[s]) + 1)]
          /\ UNCHANGED <<sent, mimic, acks>>
      BY <1>2, <2>1 DEF Deliver
    <2>3. Peer(s) \in Sides \ {s}
      BY Peers
    <2>4. s = "client" => Len(got[s]) + 1 \notin mimic
      BY <2>1 DEF Control
    <2>5. Pipe!Take(s)
      BY <2>1, <2>2, <2>3, <2>4 DEF Pipe!Take, Pipe!Out
    <2> QED
      BY <2>5 DEF Pipe!Next
  <1>3. CASE AnswerInit
    <2>1. /\ Head(wire["gateway"]).id = Len(got["client"]) + 1
          /\ Len(got["client"]) < sent["gateway"]
      BY <1>3, AnswerInitStep
    <2>2. /\ Head(wire["gateway"]).id \in mimic
          /\ got' = [got EXCEPT !["client"] = Append(@, Head(wire["gateway"]).id)]
          /\ sent' = [sent EXCEPT !["client"] = sent["client"] + 1]
          /\ acks' = acks \cup {sent["client"] + 1} /\ UNCHANGED mimic
      BY <1>3 DEF AnswerInit, ReadInit
    <2>3. "gateway" \in Sides \ {"client"}
      BY Peers
    <2>4. Pipe!Out("client")
      BY <2>1, <2>2, <2>3 DEF Pipe!Out
    <2>5. Pipe!Answer
      BY <2>1, <2>2, <2>4 DEF Pipe!Answer
    <2> QED
      BY <2>5 DEF Pipe!Next
  <1>4. ASSUME NEW s \in Sides,
               StartFrame(s) \/ WriteRecord(s) \/ ReadTorn(s) \/ TakeRecord(s) \/ ReadFrame(s)
        PROVE  stream' = stream
    BY <1>4 DEF StartFrame, WriteRecord, ReadTorn, TakeRecord, ReadFrame
  <1>5. ASSUME NEW s \in Sides,
               WriteFails(s) \/ LocalEof(s) \/ DeliverFails(s) \/ PeerEof(s)
                  \/ (s = "gateway" /\ IdleTimeout)
        PROVE  stream' = stream
    BY <1>5 DEF WriteFails, LocalEof, DeliverFails, PeerEof, IdleTimeout
  <1>6. ASSUME NEW s \in Sides,
               ReadRefused(s) \/ (s = "client" /\ (ReadShort \/ AnswerRefused)) \/ Reset(s)
        PROVE  stream' = stream
    BY <1>6, ReadRefusedStep, ResetStep
  <1>7. CASE UNCHANGED vars
    BY <1>7 DEF vars, stream
  <1>8. ASSUME NEW s \in Sides, Relay(s) PROVE Pipe!Next \/ stream' = stream
    BY <1>3, <1>4, <1>5, <1>6, <1>8 DEF Relay
  <1>9. ASSUME NEW s \in Sides, Held(s) \/ Application(s) PROVE Pipe!Next \/ stream' = stream
    BY <1>1, <1>2, <1>4, <1>5, <1>9 DEF Held, Application
  <1> QED
    BY <1>5, <1>6, <1>7, <1>8, <1>9, Peers DEF Next

\* The two relays implement an ordered pipe each way: what comes out at one end is a
\* prefix of what went in at the other, whatever ends the session, and only data that
\* begins with REKEY_INIT_MAGIC is kept by the client's relay and answered.
THEOREM TunnelIsPipe == Spec => ImplementsPipe
  <1>1. Init => Pipe!Init
    BY DEF Init, Pipe!Init
  <1>2. TInv /\ Control /\ [Next]_vars => [Pipe!Next]_(Pipe!vars)
    BY PipeStep
  <1> QED
    BY <1>1, <1>2, TunnelInvariant, PTL DEF Spec, ImplementsPipe, Pipe!Spec
=============================================================================
