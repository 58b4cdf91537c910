----------------------------- MODULE ReplayGuard -----------------------------
(***************************************************************************)
(* What a receiver may rely on from replay protection, with unbounded      *)
(* memory: a counter is accepted at most once, and a counter no larger     *)
(* than WindowSize below the largest accepted one is never refused the     *)
(* first time it arrives.                                                  *)
(***************************************************************************)
EXTENDS Integers

CONSTANTS WindowSize, Counters

VARIABLES accepted,   \* every counter accepted since the session started
          verdict     \* the last answer: <<counter, accepted?>>, or << >>

vars == <<accepted, verdict>>

Init == accepted = {} /\ verdict = << >>

Fresh(c) == c \notin accepted /\ \A a \in accepted : a <= c + WindowSize

Accept(c) ==
    /\ Fresh(c)
    /\ accepted' = accepted \cup {c}
    /\ verdict' = <<c, TRUE>>

Refuse(c) ==
    /\ ~Fresh(c)
    /\ verdict' = <<c, FALSE>>
    /\ UNCHANGED accepted

Next == \E c \in Counters : Accept(c) \/ Refuse(c)

Spec == Init /\ [][Next]_vars

=============================================================================
