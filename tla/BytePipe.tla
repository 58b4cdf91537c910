------------------------------ MODULE BytePipe ------------------------------
(***************************************************************************)
(* What a tunnel promises the two applications at its ends: in each        *)
(* direction, what comes out is what went in, in order, nothing twice and  *)
(* nothing left out in between.  Chunks are numbered per direction.        *)
(*                                                                         *)
(* Some chunks on their way to the client are ambiguous: they begin as a   *)
(* control frame does.  The client's end keeps such a chunk and puts an    *)
(* answer into the other direction.                                        *)
(***************************************************************************)
EXTENDS Naturals, Sequences

CONSTANT Sides

VARIABLES sent,    \* sent[s]: how many chunks have been put in at s
          got,     \* got[s]: the chunks that came out at s
          mimic,   \* the ambiguous chunks, by their number
          acks     \* the answers put in at the client's end, by their number

vars == <<sent, got, mimic, acks>>

Init ==
    /\ sent = [s \in Sides |-> 0] /\ got = [s \in Sides |-> << >>]
    /\ mimic = {} /\ acks = {}

Put(s) ==
    /\ sent' = [sent EXCEPT ![s] = @ + 1]
    /\ mimic' = mimic \/ (s = "gateway" /\ mimic' = mimic \cup {sent[s] + 1})
    /\ UNCHANGED <<got, acks>>

\* The next chunk, and only the next one, comes out at s.
Out(s) ==
    /\ \E p \in Sides \ {s} : Len(got[s]) < sent[p]
    /\ got' = [got EXCEPT ![s] = Append(@, Len(@) + 1)]
    /\ UNCHANGED mimic

\* The application at s gets it.
Take(s) ==
    /\ Out(s)
    /\ s = "client" => Len(got[s]) + 1 \notin mimic
    /\ UNCHANGED <<sent, acks>>

\* It is ambiguous, and answered.
Answer ==
    /\ Out("client")
    /\ Len(got["client"]) + 1 \in mimic
    /\ sent' = [sent EXCEPT !["client"] = @ + 1]
    /\ acks' = acks \cup {sent["client"] + 1}

Next == (\E s \in Sides : Put(s) \/ Take(s)) \/ Answer

Spec == Init /\ [][Next]_vars

=============================================================================
