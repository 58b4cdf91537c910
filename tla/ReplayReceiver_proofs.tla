----------------------- MODULE ReplayReceiver_proofs -----------------------
(***************************************************************************)
(* Proofs about the replay window for every window size and every set of   *)
(* counters.  The inductive invariant is IInv: WindowExact ties the        *)
(* bounded window to the unbounded history, and the other properties       *)
(* follow from it.                                                         *)
(***************************************************************************)
EXTENDS ReplayReceiver, FiniteSetTheorems, TLAPS

IInv == TypeOK /\ WindowExact /\ NeverTwice

\* What an accepting window says about history: the counter is new.
LEMMA AcceptsOnlyNew ==
    ASSUME TypeOK, WindowExact, NEW c \in Counters, Accepts(window, c)
    PROVE  c \notin Accepted
BY CountersAssumption
DEF TypeOK, WindowExact, Accepts, Window, Accepted, NoCounter

\* Accepting adds c to the history, refusing changes nothing.
LEMMA AcceptedStep ==
    ASSUME TypeOK, NEW c \in Counters, Receive(c)
    PROVE  Accepted' = IF Accepts(window, c) THEN Accepted \cup {c} ELSE Accepted
<1>1. CASE Accepts(window, c)
  BY <1>1 DEF TypeOK, Receive, Accepted
<1>2. CASE ~Accepts(window, c)
  BY <1>2 DEF TypeOK, Receive, Accepted
<1> QED
  BY <1>1, <1>2

\* check() preserves the shape of the window.
LEMMA TypeStep ==
    ASSUME TypeOK, NEW c \in Counters, Receive(c)
    PROVE  TypeOK'
<1> c \in Nat
  BY CountersAssumption
<1>1. window' \in Window
  <2>1. Advanced(window, c) \in Window
    BY WindowSizeAssumption
    DEF TypeOK, Advanced, Retained, Window, SaturatingSub, NoCounter
  <2>2. [window EXCEPT !.seen = @ \cup {c}] \in Window
    BY DEF TypeOK, Window
  <2> QED
    BY <2>1, <2>2 DEF TypeOK, Receive, Check
<1>2. times' \in [Counters -> Nat]
  BY DEF TypeOK, Receive
<1>3. verdict' \in (Counters \X BOOLEAN) \cup {<< >>}
  BY DEF Receive, Accepts
<1> QED
  BY <1>1, <1>2, <1>3 DEF TypeOK

\* check() preserves the correspondence between window and history: one case
\* per branch of check().
LEMMA WindowStep ==
    ASSUME IInv, NEW c \in Counters, Receive(c)
    PROVE  WindowExact'
<1> USE WindowSizeAssumption
<1> c \in Nat
  BY CountersAssumption
<1> Accepted \subseteq Nat /\ Accepted' \subseteq Nat
  BY CountersAssumption DEF Accepted
<1> window \in Window
  BY DEF IInv, TypeOK
<1>a. WindowExact
  BY DEF IInv
<1>1. CASE ~Accepts(window, c)
  <2>1. window' = window /\ Accepted' = Accepted
    BY <1>1, AcceptedStep DEF IInv, Receive, Check
  <2> QED
    BY <2>1, <1>a DEF WindowExact
<1>2. CASE Accepts(window, c) /\ window.max_counter = NoCounter
  <2>1. /\ window'.window_base = SaturatingSub(c, WindowSize)
        /\ window'.seen = window.seen \cup {c}
        /\ window'.max_counter = c
    BY <1>2 DEF Receive, Check, Advanced
  <2>2. Accepted' = Accepted \cup {c} /\ Accepted = {} /\ window.seen = {}
    BY <1>2, <1>a, AcceptedStep DEF IInv, WindowExact
  <2> QED
    BY <2>1, <2>2 DEF WindowExact, SaturatingSub, NoCounter
<1>3. CASE window.max_counter # NoCounter /\ c > window.max_counter
  <2>0. Accepts(window, c)
    BY <1>3 DEF Accepts
  <2>1. /\ window'.window_base = IF SaturatingSub(c, WindowSize) > window.window_base
                                 THEN SaturatingSub(c, WindowSize)
                                 ELSE window.window_base
        /\ window'.seen = Retained(window, SaturatingSub(c, WindowSize)) \cup {c}
        /\ window'.max_counter = c
    BY <1>3, <2>0 DEF Receive, Check, Advanced
  <2>2. Accepted' = Accepted \cup {c}
    BY <2>0, AcceptedStep DEF IInv
  <2>3. window'.window_base = SaturatingSub(c, WindowSize)
    BY <1>3, <1>a, <2>1 DEF WindowExact, Window, SaturatingSub, NoCounter
  <2>4. window'.seen = {a \in Accepted' : a >= window'.window_base}
    BY <1>3, <1>a, <2>1, <2>2, <2>3
    DEF WindowExact, Window, SaturatingSub, Retained, NoCounter
  <2>5. \A a \in Accepted' : a <= window'.max_counter
    BY <1>3, <1>a, <2>1, <2>2 DEF WindowExact, Window, NoCounter
  <2> QED
    BY <2>1, <2>2, <2>3, <2>4, <2>5 DEF WindowExact, NoCounter
<1>4. CASE /\ Accepts(window, c)
           /\ window.max_counter # NoCounter
           /\ ~(c > window.max_counter)
  <2>1. /\ window'.window_base = window.window_base
        /\ window'.seen = window.seen \cup {c}
        /\ window'.max_counter = window.max_counter
    BY <1>4 DEF Receive, Check, Window
  <2>2. Accepted' = Accepted \cup {c} /\ c >= window.window_base
    BY <1>4, AcceptedStep DEF IInv, Accepts
  <2> QED
    BY <1>4, <1>a, <2>1, <2>2 DEF WindowExact, Window, NoCounter
<1> QED
  BY <1>1, <1>2, <1>3, <1>4

\* The history never counts a counter twice.
LEMMA OnceStep ==
    ASSUME IInv, NEW c \in Counters, Receive(c)
    PROVE  NeverTwice'
<1>1. Accepts(window, c) => times[c] = 0
  BY AcceptsOnlyNew DEF IInv, TypeOK, Accepted
<1> QED
  BY <1>1 DEF IInv, TypeOK, NeverTwice, Receive

\* The three facts that make IInv inductive, and their conclusion.
THEOREM Inductive == Spec => []IInv
<1>1. Init => IInv
  BY WindowSizeAssumption
  DEF Init, IInv, TypeOK, WindowExact, NeverTwice, NewWindow, Window, NoCounter,
      Accepted
<1>2. IInv /\ [Next]_vars => IInv'
  <2> SUFFICES ASSUME IInv, [Next]_vars PROVE IInv'
    OBVIOUS
  <2>1. ASSUME NEW c \in Counters, Receive(c) PROVE IInv'
    BY <2>1, TypeStep, WindowStep, OnceStep DEF IInv
  <2>2. CASE UNCHANGED vars
    BY <2>2 DEF vars, IInv, TypeOK, WindowExact, NeverTwice, Accepted
  <2> QED
    BY <2>1, <2>2 DEF Next
<1> QED
  BY <1>1, <1>2, PTL DEF Spec

\* ReplayWindow::check keeps the receiver's state well formed.
THEOREM TypeCorrect == Spec => []TypeOK
BY Inductive, PTL DEF IInv

\* ReplayWindow::check forgets nothing that still matters.
THEOREM WindowAlwaysExact == Spec => []WindowExact
BY Inductive, PTL DEF IInv

\* No counter is accepted twice, for every window size and every order of
\* arrival.
THEOREM NoReplay == Spec => []NeverTwice
BY Inductive, PTL DEF IInv

\* The HashSet of ReplayWindow never holds more than WindowSize + 1 counters.
THEOREM MemoryBounded == Spec => []SeenBounded
<1>1. IInv => SeenBounded
  <2> SUFFICES ASSUME IInv PROVE SeenBounded
    OBVIOUS
  <2> DEFINE m == window.max_counter
             b == window.window_base
  <2>1. CASE m = NoCounter
    <3>1. window.seen = {}
      BY <2>1 DEF IInv, WindowExact
    <3> QED
      BY <3>1, FS_EmptySet, WindowSizeAssumption DEF SeenBounded
  <2>2. CASE m # NoCounter
    <3>1. m \in Nat /\ b \in Nat /\ b = SaturatingSub(m, WindowSize)
      BY <2>2 DEF IInv, TypeOK, Window, WindowExact
    <3>2. b <= m /\ m - b + 1 <= WindowSize + 1
      BY <3>1, WindowSizeAssumption DEF SaturatingSub
    <3>3. window.seen \subseteq b..m
      <4>1. \A a \in window.seen : a \in Accepted /\ a >= b
        BY DEF IInv, WindowExact
      <4>2. \A a \in Accepted : a \in Nat /\ a <= m
        BY CountersAssumption DEF IInv, WindowExact, Accepted
      <4> QED
        BY <3>1, <4>1, <4>2
    <3>4. IsFiniteSet(b..m) /\ Cardinality(b..m) = m - b + 1
      BY <3>1, <3>2, FS_Interval
    <3>5. IsFiniteSet(window.seen) /\ Cardinality(window.seen) <= Cardinality(b..m)
      BY <3>3, <3>4, FS_Subset
    <3>6. Cardinality(window.seen) \in Nat
      BY <3>5, FS_CardinalityType
    <3> QED
      BY <3>1, <3>2, <3>4, <3>5, <3>6, WindowSizeAssumption DEF SeenBounded
  <2> QED
    BY <2>1, <2>2
<1> QED
  BY <1>1, Inductive, PTL

\* In a state of the invariant the window accepts exactly what the guard calls
\* fresh.
LEMMA AcceptsIffFresh ==
    ASSUME IInv, NEW c \in Counters
    PROVE  Accepts(window, c) <=> Guard!Fresh(c)
<1> c \in Nat /\ Accepted \subseteq Nat /\ WindowSize \in Nat
  BY CountersAssumption, WindowSizeAssumption DEF Accepted
<1>1. CASE window.max_counter = NoCounter
  BY <1>1 DEF IInv, WindowExact, Accepts, Guard!Fresh
<1>2. CASE window.max_counter # NoCounter
  <2> DEFINE m == window.max_counter
  <2>1. m \in Nat /\ m \in Accepted /\ \A a \in Accepted : a <= m
    BY <1>2 DEF IInv, TypeOK, Window, WindowExact
  <2>2. window.window_base = SaturatingSub(m, WindowSize)
    BY <1>2 DEF IInv, WindowExact
  <2>3. window.seen = {a \in Accepted : a >= window.window_base}
    BY DEF IInv, WindowExact
  <2>4. (\A a \in Accepted : a <= c + WindowSize) <=> m <= c + WindowSize
    BY <2>1
  <2>5. m <= c + WindowSize <=> c >= window.window_base
    BY <2>1, <2>2 DEF SaturatingSub
  <2>6. c > m => c \notin Accepted
    BY <2>1
  <2> QED
    BY <1>2, <2>1, <2>2, <2>3, <2>4, <2>5, <2>6
    DEF Accepts, Guard!Fresh, SaturatingSub
<1> QED
  BY <1>1, <1>2

\* The bounded window implements the guard with unbounded memory.
THEOREM Refinement == Spec => ImplementsGuard
<1>1. Init => Guard!Init
  BY DEF Init, Guard!Init, Accepted
<1>2. IInv /\ [Next]_vars => [Guard!Next]_(Guard!vars)
  <2> SUFFICES ASSUME IInv, [Next]_vars PROVE [Guard!Next]_(Guard!vars)
    OBVIOUS
  <2>1. ASSUME NEW c \in Counters, Receive(c) PROVE Guard!Next
    <3>1. Accepted' = IF Accepts(window, c) THEN Accepted \cup {c} ELSE Accepted
      BY <2>1, AcceptedStep DEF IInv
    <3>2. Accepts(window, c) <=> Guard!Fresh(c)
      BY AcceptsIffFresh
    <3>3. CASE Accepts(window, c)
      <4>1. Guard!Accept(c)
        BY <2>1, <3>1, <3>2, <3>3 DEF Receive, Guard!Accept
      <4> QED
        BY <4>1 DEF Guard!Next
    <3>4. CASE ~Accepts(window, c)
      <4>0. Accepts(window, c) = FALSE
        BY <3>4 DEF Accepts
      <4>1. Guard!Refuse(c)
        BY <2>1, <3>1, <3>2, <4>0 DEF Receive, Guard!Refuse
      <4> QED
        BY <4>1 DEF Guard!Next
    <3> QED
      BY <3>3, <3>4
  <2>2. CASE UNCHANGED vars
    BY <2>2 DEF vars, Guard!vars, Accepted
  <2> QED
    BY <2>1, <2>2 DEF Next
<1> QED
  BY <1>1, <1>2, Inductive, PTL DEF Spec, ImplementsGuard, Guard!Spec

=============================================================================
