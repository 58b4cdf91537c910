---------------------------- MODULE ReplayWindow ----------------------------
(***************************************************************************)
(* The sliding replay window of transport-core/src/replay.rs as operators  *)
(* on a window value, so that every module with a receiving codec can hold *)
(* windows in its own state.                                               *)
(*                                                                         *)
(* A window is the Rust struct's record without window_size, which is a    *)
(* constant: window_base, seen (the HashSet) and max_counter, whose None   *)
(* is NoCounter.                                                           *)
(***************************************************************************)
EXTENDS Integers

CONSTANT WindowSize   \* ReplayWindow::window_size (REPLAY_WINDOW_SIZE = 64)

ASSUME WindowSizeAssumption == WindowSize \in Nat

\* max_counter = None: no counter has been checked yet.
NoCounter == -1

Window == [window_base : Nat, seen : SUBSET Nat, max_counter : Nat \cup {NoCounter}]

\* u64::saturating_sub.
SaturatingSub(a, b) == IF a > b THEN a - b ELSE 0

\* ReplayWindow::new
NewWindow == [window_base |-> 0, seen |-> {}, max_counter |-> NoCounter]

\* Mutant of Accepts: the oldest counter of the window is treated as too old.
Accepts_StrictBase(w, c) ==
    \/ w.max_counter = NoCounter
    \/ c > w.max_counter
    \/ c > w.window_base /\ c \notin w.seen

\* The value ReplayWindow::check returns.
Accepts(w, c) ==
    \/ w.max_counter = NoCounter
    \/ c > w.max_counter
    \/ c >= w.window_base /\ c \notin w.seen

\* Mutants of Retained: retain() forgets the base itself, or is left out.
Retained_OffByOne(w, base) ==
    IF base > w.window_base THEN {s \in w.seen : s > base} ELSE w.seen
Retained_Everything(w, base) == w.seen

\* The counters the window still remembers once c has moved it: the retain()
\* of check, which only runs when the base really advances.
Retained(w, base) ==
    IF base > w.window_base THEN {s \in w.seen : s >= base} ELSE w.seen

\* The window once a counter above every earlier one, or the first one, is in.
Advanced(w, c) ==
    LET base == SaturatingSub(c, WindowSize)
    IN  IF w.max_counter = NoCounter
        THEN [window_base |-> base, seen |-> w.seen \cup {c}, max_counter |-> c]
        ELSE [window_base |-> IF base > w.window_base THEN base ELSE w.window_base,
              seen        |-> Retained(w, base) \cup {c},
              max_counter |-> c]

\* The window ReplayWindow::check leaves behind.
Check(w, c) ==
    IF ~Accepts(w, c) THEN w
    ELSE IF w.max_counter = NoCounter \/ c > w.max_counter
         THEN Advanced(w, c)
         ELSE [w EXCEPT !.seen = @ \cup {c}]

=============================================================================
