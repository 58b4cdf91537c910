--------------------------- MODULE ReplayReceiver ---------------------------
(***************************************************************************)
(* One receiving direction of a session: read_frame hands every counter    *)
(* that arrives, in any order and any number of times, to                  *)
(* ReplayWindow::check (protocol.rs:253-261) before it decrypts.           *)
(*                                                                         *)
(* times and verdict are history: the code forgets both.  They are what    *)
(* the abstract ReplayGuard talks about.                                   *)
(***************************************************************************)
EXTENDS ReplayWindow, FiniteSets

CONSTANT Counters     \* the counters that can arrive (u32 on the wire)

ASSUME CountersAssumption == Counters \subseteq Nat

VARIABLES window,     \* FrameCodec::recv_replay
          times,      \* history: how often each counter has been accepted
          verdict     \* history: the last counter and the answer it got

vars == <<window, times, verdict>>

Accepted == {c \in Counters : times[c] > 0}

Init ==
    /\ window = NewWindow
    /\ times = [c \in Counters |-> 0]
    /\ verdict = << >>

Receive(c) ==
    /\ window' = Check(window, c)
    /\ times' = [times EXCEPT ![c] = IF Accepts(window, c) THEN @ + 1 ELSE @]
    /\ verdict' = <<c, Accepts(window, c)>>

Next == \E c \in Counters : Receive(c)

Spec == Init /\ [][Next]_vars

-----------------------------------------------------------------------------
\* The shape of the receiver's state.
TypeOK ==
    /\ window \in Window
    /\ times \in [Counters -> Nat]
    /\ verdict \in (Counters \X BOOLEAN) \cup {<< >>}

(* The bounded window has forgotten nothing that still matters: its base   *)
(* trails the maximum by WindowSize, the maximum is the largest counter    *)
(* accepted, and it remembers exactly the accepted counters at or above    *)
(* the base.  This is the invariant that makes check() safe.               *)
WindowExact ==
    /\ window.max_counter = NoCounter <=> Accepted = {}
    /\ window.max_counter # NoCounter =>
          /\ window.max_counter \in Accepted
          /\ window.window_base = SaturatingSub(window.max_counter, WindowSize)
    /\ \A a \in Accepted : a <= window.max_counter
    /\ window.seen = {a \in Accepted : a >= window.window_base}

(* check() keeps at most WindowSize + 1 counters (the maximum and the      *)
(* WindowSize below it), however many frames the session carries: without  *)
(* retain() the HashSet would grow for the life of the session.            *)
SeenBounded == Cardinality(window.seen) <= WindowSize + 1

(* check() answers true at most once per counter, however the counters are *)
(* ordered and repeated and however far the window has moved in between.   *)
NeverTwice == \A c \in Counters : times[c] <= 1

Guard == INSTANCE ReplayGuard WITH accepted <- Accepted

(* check() with its bounded window answers exactly as the guard with       *)
(* unbounded memory does.                                                  *)
ImplementsGuard == Guard!Spec

=============================================================================
